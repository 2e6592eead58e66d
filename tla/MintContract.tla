---------------------------- MODULE MintContract ----------------------------
(***************************************************************************)
(* What the mint inversion promises its callers, with no locks, threads,   *)
(* map or counter in it: a request that was handed to the listener Dart    *)
(* registered either resolves while that listener is still the one         *)
(* registered, or resolves in the very step that replaces or removes it.   *)
(* MintBridge is shown to implement this module.                           *)
(***************************************************************************)
CONSTANTS Requests,   \* mint round-trips
          Sinks,      \* registrations of the Dart listener
          NoSink      \* no listener is registered

VARIABLES listener,   \* the registered listener
          req,        \* where each request is
          asked       \* the listener each request was handed to

cvars == <<listener, req, asked>>

MaybeSink == Sinks \cup {NoSink}

ContractTypeOK ==
  /\ listener \in MaybeSink
  /\ req \in [Requests -> {"idle", "waiting", "resolved", "returned"}]
  /\ asked \in [Requests -> MaybeSink]

ContractInit ==
  /\ listener = NoSink
  /\ req = [r \in Requests |-> "idle"]
  /\ asked = [r \in Requests |-> NoSink]

\* A call enters, or is refused on the spot because too many are waiting.
Start(r) ==
  /\ req[r] = "idle"
  /\ \E to \in {"waiting", "returned"} : req' = [req EXCEPT ![r] = to]
  /\ UNCHANGED <<listener, asked>>

\* The request is handed to whoever is registered at that moment.
Ask(r) ==
  /\ req[r] \in {"waiting", "resolved"}
  /\ asked[r] = NoSink
  /\ listener # NoSink
  /\ asked' = [asked EXCEPT ![r] = listener]
  /\ UNCHANGED <<listener, req>>

\* An answer, a deadline or the caller's own cleanup: one of them, once.
Resolve(r) ==
  /\ req[r] = "waiting"
  /\ req' = [req EXCEPT ![r] = "resolved"]
  /\ UNCHANGED <<listener, asked>>

Return(r) ==
  /\ req[r] = "resolved"
  /\ req' = [req EXCEPT ![r] = "returned"]
  /\ UNCHANGED <<listener, asked>>

\* The listener changes and everything that waited is resolved with it.
Change ==
  /\ listener' \in MaybeSink
  /\ req' = [r \in Requests |-> IF req[r] = "waiting" THEN "resolved" ELSE req[r]]
  /\ UNCHANGED asked

ContractNext ==
  \/ \E r \in Requests : Start(r) \/ Ask(r) \/ Resolve(r) \/ Return(r)
  \/ Change

ContractSpec == ContractInit /\ [][ContractNext]_cvars

\* Nobody waits on a listener that is no longer registered.
AskedTheLiveListener ==
  \A r \in Requests :
    req[r] = "waiting" /\ asked[r] # NoSink => asked[r] = listener
=============================================================================
