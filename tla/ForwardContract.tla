--------------------------- MODULE ForwardContract --------------------------
(***************************************************************************)
(* What the forward registry promises the lanes of one machine, with no    *)
(* map, no counter and no shared future in it: a port has at most one      *)
(* forward that is being opened or valid, everybody who asks for the port  *)
(* meanwhile shares it, it lives exactly as long as somebody waits for it  *)
(* or leases it, and only a teardown takes it from under a valid lease.    *)
(* ForwardRegistry is shown to implement this module.                      *)
(***************************************************************************)
CONSTANTS Lanes,      \* those who ask, each once; a forward is named by who began it
          Ports,
          NoForward

VARIABLES target,     \* the remote port each lane asks for
          stage,      \* where each forward is
          lease,      \* where each lane's lease is
          of          \* the forward each lane asked for

cvars == <<target, stage, lease, of>>

ContractInit ==
  /\ target \in [Lanes -> Ports]
  /\ stage = [f \in Lanes |-> "new"]
  /\ lease = [a \in Lanes |-> "idle"]
  /\ of = [a \in Lanes |-> NoForward]

\* "doomed" is being opened after a teardown, "orphan" is a doomed one that landed.
Current(f) == stage[f] \in {"opening", "valid"}

Holders(f) == {a \in Lanes : of[a] = f /\ lease[a] \in {"asked", "held"}}

\* The first to ask for a port begins its forward.
Begin(a) ==
  /\ lease[a] = "idle" /\ stage[a] = "new"
  /\ \A f \in Lanes : Current(f) => target[f] # target[a]
  /\ stage' = [stage EXCEPT ![a] = "opening"]
  /\ lease' = [lease EXCEPT ![a] = "asked"]
  /\ of' = [of EXCEPT ![a] = a]
  /\ UNCHANGED target

\* Whoever asks while there is one shares it.
Share(a, f) ==
  /\ lease[a] = "idle"
  /\ Current(f) /\ target[f] = target[a]
  /\ lease' = [lease EXCEPT ![a] = "asked"]
  /\ of' = [of EXCEPT ![a] = f]
  /\ UNCHANGED <<target, stage>>

\* The open ends; what a teardown doomed becomes nobody's forward.
Land(f) ==
  /\ stage[f] \in {"opening", "doomed"}
  /\ stage' = [stage EXCEPT ![f] = IF @ = "opening" THEN "valid" ELSE "orphan"]
  /\ UNCHANGED <<target, lease, of>>

Fail(f) ==
  /\ stage[f] \in {"opening", "doomed"}
  /\ stage' = [stage EXCEPT ![f] = "over"]
  /\ UNCHANGED <<target, lease, of>>

\* A lease is handed over on a valid forward only.
Grant(a) ==
  /\ lease[a] = "asked"
  /\ stage[of[a]] = "valid"
  /\ lease' = [lease EXCEPT ![a] = "held"]
  /\ UNCHANGED <<target, stage, of>>

\* A lane leaves: the last to leave a forward closes it, nobody else does.
Leave(a) ==
  /\ lease' = [lease EXCEPT ![a] = "over"]
  /\ stage' = IF Holders(of[a]) = {a} THEN [stage EXCEPT ![of[a]] = "over"] ELSE stage
  /\ UNCHANGED <<target, of>>

Refuse(a) == lease[a] = "asked" /\ stage[of[a]] \in {"orphan", "over"} /\ Leave(a)

GiveUp(a) == lease[a] = "held" /\ Leave(a)

\* The feed ends: what is valid closes, what is being opened is left to its lanes.
Teardown ==
  /\ stage' = [f \in Lanes |-> CASE stage[f] = "opening" -> "doomed"
                                 [] stage[f] = "valid" -> "over"
                                 [] OTHER -> stage[f]]
  /\ UNCHANGED <<target, lease, of>>

ContractNext ==
  \/ \E a \in Lanes : Begin(a) \/ Land(a) \/ Fail(a) \/ Grant(a) \/ Refuse(a) \/ GiveUp(a)
  \/ \E a, f \in Lanes : Share(a, f)
  \/ Teardown

ContractSpec == ContractInit /\ [][ContractNext]_cvars
=============================================================================
