---------------------------- MODULE LaneContract ----------------------------
(***************************************************************************)
(* What a lane promises the screen that shows it, with no generations, no  *)
(* leases, no ladder and no awaits in it: at most one lane is open, for    *)
(* the row's stamp of now; a teardown closes it in the same step, and from *)
(* then on an open that was in flight never lands; nothing begins once the *)
(* lane is given up, until its row comes with another stamp, nor ever once *)
(* it is closed.  LaneController is shown to implement this module.        *)
(***************************************************************************)
EXTENDS Naturals

VARIABLES stamp,    \* the stamp of the lane's row
          will,     \* "wanted", "abandoned" or "closed"
          attempt,  \* the open in flight, 0 when there is none
          good,     \* no teardown came since it began
          open,     \* the lanes that are open
          shows     \* the stamp the lane shown was opened for, 0 without one

cvars == <<stamp, will, attempt, good, open, shows>>

ContractInit ==
  /\ stamp = 1 /\ will = "wanted"
  /\ attempt = 0 /\ good = FALSE
  /\ open = {} /\ shows = 0

Begin ==
  /\ will = "wanted" /\ attempt = 0 /\ open = {}
  /\ attempt' \in Nat \ {0} /\ good' = TRUE
  /\ UNCHANGED <<stamp, will, open, shows>>

Land ==
  /\ attempt # 0 /\ good
  /\ open' = {attempt} /\ shows' = stamp
  /\ attempt' = 0 /\ good' = FALSE
  /\ UNCHANGED <<stamp, will>>

\* The open failed, or what it opened was closed at once.
Lose ==
  /\ attempt # 0
  /\ attempt' = 0 /\ good' = FALSE
  /\ UNCHANGED <<stamp, will, open, shows>>

TearDown ==
  /\ open' = {} /\ shows' = 0
  /\ good' = FALSE /\ UNCHANGED attempt

\* The lane ended, or left its craze source: another may be opened.
Leave == TearDown /\ UNCHANGED <<stamp, will>>

GiveUp ==
  /\ will # "closed" /\ will' = "abandoned"
  /\ TearDown /\ UNCHANGED stamp

\* The row is another session's, or on another port.
Change ==
  /\ will # "closed" /\ will' = "wanted"
  /\ stamp' # stamp
  /\ TearDown

CloseLane ==
  /\ will # "closed" /\ will' = "closed"
  /\ TearDown /\ UNCHANGED stamp

ContractNext ==
  Begin \/ Land \/ Lose \/ Leave \/ GiveUp \/ Change \/ CloseLane

ContractSpec == ContractInit /\ [][ContractNext]_cvars
=============================================================================
