--------------------------- MODULE CreateContract ---------------------------
(***************************************************************************)
(* What the create sheet promises whoever fills it in, with no request     *)
(* ids, no hub memory and no retries in it: a form makes at most one       *)
(* session, as long as the machine does not forget it while its outcome is *)
(* open; "refused" is said of a form that has made none and of which       *)
(* nothing is under way; a form whose outcome is unknown stays so until it *)
(* is sent again or edited.  CrazeSource is shown to implement this module. *)
(***************************************************************************)
EXTENDS Naturals

VARIABLES form,      \* the version of the form in the sheet
          phase,     \* what the sheet says of it
          made,      \* the forms a session was made of
          again,     \* those more than one was made of
          loose,     \* earlier forms, let go of while a request for them was under way
          forgotten  \* the forms the machine forgot while they were under way

cvars == <<form, phase, made, again, loose, forgotten>>

ContractInit ==
  /\ form = 0
  /\ phase = "idle"
  /\ made = {} /\ again = {}
  /\ loose = {} /\ forgotten = {}

UnderWay(f) == (f = form /\ phase \in {"submitting", "unknown"}) \/ f \in loose

\* The user's: another form, which may leave the last one's outcome open.
Change ==
  /\ phase # "submitting"
  /\ form' = form + 1
  /\ phase' = "idle"
  /\ \/ UNCHANGED loose
     \/ phase = "unknown" /\ loose' = loose \cup {form}
  /\ UNCHANGED <<made, again, forgotten>>

Press ==
  /\ phase # "submitting"
  /\ phase' = "submitting"
  /\ UNCHANGED <<form, made, again, loose, forgotten>>

\* The machine's: a session is made of a form that is under way, once, unless it was
\* forgotten.
Make(f) ==
  /\ UnderWay(f)
  /\ f \in made => f \in forgotten
  /\ made' = made \cup {f}
  /\ again' = again \cup ({f} \cap made)
  /\ loose' = loose \ {f}
  /\ UNCHANGED <<form, phase, forgotten>>

\* A request that makes nothing: the machine refused it, or had it before.
Drop(f) ==
  /\ loose' = loose \ {f}
  /\ UNCHANGED <<form, phase, made, again, forgotten>>

\* The machine's memory ends.
Lapse(f) ==
  /\ UnderWay(f)
  /\ forgotten' = forgotten \cup {f}
  /\ UNCHANGED <<form, phase, made, again, loose>>

\* What the sheet is told: a session was made, and the form is spent;
SayCreated ==
  /\ phase = "submitting"
  /\ form \in made
  /\ form' = form + 1
  /\ phase' = "idle"
  /\ UNCHANGED <<made, again, loose, forgotten>>

\* none was and none will be, of this form as it is, by all that is remembered;
SayRefused ==
  /\ phase # "unknown"
  /\ form \in made => form \in forgotten
  /\ phase' = "refused"
  /\ UNCHANGED <<form, made, again, loose, forgotten>>

\* or nobody knows.
SayUnknown ==
  /\ phase = "submitting"
  /\ phase' = "unknown"
  /\ UNCHANGED <<form, made, again, loose, forgotten>>

ContractNext ==
  \/ Change \/ Press
  \/ \E f \in 0..form : Make(f) \/ Drop(f) \/ Lapse(f)
  \/ SayCreated \/ SayRefused \/ SayUnknown

ContractSpec == ContractInit /\ [][ContractNext]_cvars
=============================================================================
