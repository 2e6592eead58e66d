----------------------------- MODULE CrazeSource -----------------------------
(***************************************************************************)
(* One machine's craze: the sources its feed opens one after another       *)
(* (craze.rs), the roster each of them folds, and the create draft of its  *)
(* sheet (craze_create.dart), whose submissions run through the source the *)
(* feed has when they begin.                                               *)
(*                                                                         *)
(* A submission carries a request id.  craze answers a repeated request as *)
(* it answered the first, for ten minutes (craze_create.dart), and the     *)
(* draft keeps the id as long as it does not know the outcome, however     *)
(* long that is.  Here craze forgets an id at any time after it took it.   *)
(*                                                                         *)
(* shed-craze's create and its created rows, and craze's hub, are outside  *)
(* this repository; they are modelled as craze.rs uses and documents them, *)
(* except that a created row does not expire here.  A session is named by  *)
(* the id that started it and by its turn among those of that id.  Left to *)
(* StreamHandle: nudges, and which task folds; here a pull comes sooner or *)
(* later.                                                                  *)
(***************************************************************************)
EXTENDS Naturals, FiniteSets

CONSTANTS MaxIds,      \* bound: request ids minted
          MaxStarts,   \* bound: sessions started for one id
          MaxSources,  \* bound: sources opened
          MaxEdits,    \* bound: edits of the form
          MaxSeeds,    \* bound: roster seeds
          MaxSeededIds,    \* bound: request ids minted where there are seeds too
          MaxSeededEdits,  \* bound: versions of the form where there are seeds
          Homes,       \* what the machine's home directory may be read as
          NoHome       \* no directory is held

ASSUME BoundsAssumption ==
  {MaxIds, MaxStarts, MaxSources, MaxEdits, MaxSeeds, MaxSeededIds, MaxSeededEdits}
    \subseteq Nat

Ids  == 1..MaxIds
None == 0

Sessions  == Ids \X (1..MaxStarts)
NoSession == <<None, None>>

VARIABLES
  current,  \* the source the feed has, or None
  opened,   \* how many sources it has opened; all but the current one are closed
  view,     \* the current source's roster fold
  created,  \* rows the current source has from a create only
  tombs,    \* sessions whose row the roster took back on the current source
  link,     \* the roster subscription
  seeds,    \* how many seeds began: the last one's generation
  unready,  \* the seeds of this source whose Ready was not said
  said,     \* the hub: the rows it has told since the last seed began
  told,     \* (history) the roster as the hub has completely told it
  live,     \* sessions that run
  starts,   \* the hub: how many sessions it started for each request id
  memory,   \* the hub: what it did for each request id, the last time
  kept,     \* the hub: the ids it still remembers
  wire,     \* requests written, not yet taken by the hub; copies of one are one
  lapsed,   \* (history) the forms whose id craze forgot when it might still be taken
  draft,    \* the sheet's draft
  shown,    \* the rows in the feed's state
  call,     \* the create in flight
  landed,   \* (history) the last created session, and whether its source was still there
  minted,   \* how many ids were minted
  forms,    \* (history) the form each id was minted for; what it was sent with
  edits     \* (history) the form's version: edits and spent drafts

sourceVars == <<current, opened>>
rosterVars == <<view, link, seeds, unready, said, told>>
rowVars    == <<created, tombs>>
hubVars    == <<live, starts, memory, kept, wire, lapsed>>
draftVars  == <<draft, minted, forms, edits, landed>>
vars == <<sourceVars, rosterVars, rowVars, hubVars, draftVars, shown, call>>

Phases == {"idle", "submitting", "refused", "unknown"}
Stages == {"none", "asked", "dialling", "waiting", "answered"}
EmptyView == [rows |-> {}, live |-> FALSE, gen |-> None, staged |-> {}]
NoCall    == [at |-> "none", src |-> None, id |-> None, held |-> FALSE, again |-> FALSE,
              answer |-> "none"]

TypeOK ==
  /\ current \in 0..MaxSources /\ opened \in 0..MaxSources
  /\ view \in [rows : SUBSET Sessions, live : BOOLEAN, gen : 0..MaxSeeds,
               staged : SUBSET Sessions]
  /\ created \in SUBSET Sessions /\ tombs \in SUBSET Sessions
  /\ link \in {"down", "seeding", "following", "reseeding"}
  /\ seeds \in 0..MaxSeeds /\ unready \in SUBSET (1..MaxSeeds)
  /\ said \in SUBSET Sessions /\ told \in SUBSET Sessions
  /\ live \in SUBSET Sessions /\ starts \in [Ids -> 0..MaxStarts]
  /\ memory \in [Ids -> {"none", "started", "failed"}]
  /\ kept \in SUBSET Ids /\ wire \in SUBSET Ids /\ lapsed \in SUBSET Nat
  /\ draft \in [phase : Phases, id : 0..MaxIds, home : Homes \cup {NoHome}, ended : BOOLEAN]
  /\ shown \in SUBSET Sessions
  /\ call \in [at : Stages, src : 0..MaxSources, id : 0..MaxIds, held : BOOLEAN,
               again : BOOLEAN, answer : {"none", "ok", "definite", "unknown"}]
  /\ landed \in [session : Sessions \cup {NoSession}, current : BOOLEAN]
  /\ minted \in 0..MaxIds /\ edits \in Nat
  /\ forms \in [Ids -> [form : Nat, sent : SUBSET Homes]]

Init ==
  /\ current = None /\ opened = 0
  /\ view = EmptyView /\ link = "down" /\ seeds = 0 /\ unready = {} /\ said = {} /\ told = {}
  /\ created = {} /\ tombs = {}
  /\ live = {} /\ starts = [i \in Ids |-> 0] /\ memory = [i \in Ids |-> "none"]
  /\ kept = {} /\ wire = {} /\ lapsed = {}
  /\ draft = [phase |-> "idle", id |-> None, home |-> NoHome, ended |-> FALSE]
  /\ shown = {} /\ call = NoCall
  /\ minted = 0 /\ edits = 0 /\ landed = [session |-> NoSession, current |-> FALSE]
  /\ forms = [i \in Ids |-> [form |-> 0, sent |-> {}]]

-----------------------------------------------------------------------------
(* The feed's sources: at most one is open.                                *)

OpenSource ==
  /\ current = None /\ opened < MaxSources
  /\ opened' = opened + 1 /\ current' = opened + 1
  /\ UNCHANGED <<rosterVars, rowVars, hubVars, draftVars, shown, call>>

\* _teardownCraze: the field is cleared and the handle closed in one go; nobody reads
\* its fold again.  The feed keeps its rows, as last known.
CloseSource ==
  /\ current # None
  /\ current' = None
  /\ view' = EmptyView /\ link' = "down" /\ unready' = {} /\ said' = {} /\ told' = {}
  /\ created' = {} /\ tombs' = {}
  /\ UNCHANGED <<opened, seeds, hubVars, draftVars, shown, call>>

ClosedUnder(c) == c.src # current

-----------------------------------------------------------------------------
(* The roster fold.  A seed tells the whole roster between a Reset and the *)
(* Ready of its generation; each change is told after it.  The hub may     *)
(* reset at any time, in a seed or after one, and a Ready may come late;   *)
(* the link may be lost anywhere.                                          *)

Staging(v) == v.gen # None

ApplyReset(v, g) == [v EXCEPT !.gen = g, !.staged = {}]
ApplySession(v, s) ==
  IF Staging(v) THEN [v EXCEPT !.staged = @ \cup {s}] ELSE [v EXCEPT !.rows = @ \cup {s}]
ApplyRemoved(v, s) ==
  IF Staging(v) THEN [v EXCEPT !.staged = @ \ {s}] ELSE [v EXCEPT !.rows = @ \ {s}]

\* Mutant: whatever seed is staged swaps in, on any Ready.
ApplyReadyUnmatched(v, g) ==
  IF Staging(v) THEN [rows |-> v.staged, live |-> TRUE, gen |-> None, staged |-> {}] ELSE v

\* Only the seed this Ready names swaps in.
ApplyReady(v, g) ==
  IF v.gen = g THEN [rows |-> v.staged, live |-> TRUE, gen |-> None, staged |-> {}] ELSE v
ApplyOffline(v) == [v EXCEPT !.live = FALSE, !.gen = None, !.staged = {}]

\* A row the roster lists, or took back, is no longer a created row.
Listed == created' = created \ view'.rows

SeedBegins ==
  /\ current # None /\ seeds < MaxSeeds /\ minted <= MaxSeededIds /\ edits <= MaxSeededEdits
  /\ link' = IF link \in {"down", "seeding"} THEN "seeding" ELSE "reseeding"
  /\ seeds' = seeds + 1 /\ unready' = unready \cup {seeds + 1} /\ said' = {}
  /\ view' = ApplyReset(view, seeds + 1)
  /\ UNCHANGED <<sourceVars, told, rowVars, hubVars, draftVars, shown, call>>

TellSession(s) ==
  /\ link # "down" /\ s \in live \ said
  /\ view' = ApplySession(view, s)
  /\ said' = said \cup {s}
  /\ told' = IF link = "following" THEN told \cup {s} ELSE told
  /\ Listed
  /\ UNCHANGED <<sourceVars, link, seeds, unready, tombs, hubVars, draftVars, shown, call>>

TellRemoved(s) ==
  /\ link # "down" /\ s \in said \ live
  /\ view' = ApplyRemoved(view, s)
  /\ said' = said \ {s}
  /\ told' = IF link = "following" THEN told \ {s} ELSE told
  /\ tombs' = tombs \cup {s}
  /\ UNCHANGED <<sourceVars, link, seeds, unready, created, hubVars, draftVars, shown, call>>

\* The last seed is complete: every row has been told.
SeedReady ==
  /\ link \in {"seeding", "reseeding"} /\ live \subseteq said
  /\ link' = "following" /\ unready' = unready \ {seeds}
  /\ view' = ApplyReady(view, seeds)
  /\ told' = said
  /\ Listed
  /\ UNCHANGED <<sourceVars, seeds, said, tombs, hubVars, draftVars, shown, call>>

\* The Ready of a seed that another one overtook, or whose link was lost.
StaleReady(g) ==
  /\ g \in unready /\ (g # seeds \/ link = "down")
  /\ unready' = unready \ {g}
  /\ view' = ApplyReady(view, g)
  /\ Listed
  /\ UNCHANGED <<sourceVars, link, seeds, said, told, tombs, hubVars, draftVars, shown, call>>

LinkLost ==
  /\ link # "down"
  /\ link' = "down" /\ said' = {}
  /\ view' = ApplyOffline(view)
  /\ UNCHANGED <<sourceVars, told, seeds, unready, rowVars, hubVars, draftVars, shown, call>>

-----------------------------------------------------------------------------
(* The draft.                                                              *)

Held(d) == d.phase = "unknown" /\ d.id # None

\* What the directory's ~ stands for: fixed when the id is minted, held with it.
SentHome(h) == IF draft.id # None THEN draft.home ELSE h

Unheld(phase) == [draft EXCEPT !.phase = phase, !.id = None, !.home = NoHome]

\* CrazeDraft.edit with a change: another request, so the id is let go.
Edit ==
  /\ draft.phase # "submitting" /\ edits < MaxEdits
  /\ seeds = 0 \/ edits < MaxSeededEdits
  /\ edits' = edits + 1
  /\ draft' = Unheld("idle")
  /\ UNCHANGED <<minted, forms, landed, sourceVars, rosterVars, rowVars, hubVars, shown, call>>

\* Mutant: every refusal is definite for the draft.
SettleForgetting(outcome) == Unheld("refused")

\* CrazeDraft.settle: only an unknown outcome keeps the id.
Settle(outcome) ==
  IF outcome = "unknown" THEN [draft EXCEPT !.phase = "unknown"] ELSE Unheld("refused")

\* CrazeDraftController.submit, up to the call into Rust, with the home as the sheet
\* last read it.  A held id is replayed, and any other submission mints one.
Submit(h) ==
  /\ draft.phase # "submitting" /\ current # None
  /\ draft.id # None \/ (minted < MaxIds /\ (seeds = 0 \/ minted < MaxSeededIds))
  /\ LET id == IF draft.id # None THEN draft.id ELSE minted + 1 IN
       /\ draft' = [draft EXCEPT !.phase = "submitting", !.id = id, !.home = SentHome(h)]
       /\ minted' = IF draft.id # None THEN minted ELSE minted + 1
       /\ forms' = IF draft.id # None THEN forms
                   ELSE [forms EXCEPT ![id].form = edits]
       /\ call' = [NoCall EXCEPT !.at = "asked", !.src = current, !.id = id,
                                 !.held = Held(draft)]
  /\ UNCHANGED <<edits, landed, sourceVars, rosterVars, rowVars, hubVars, shown>>

\* The same without a source: a StateError before anything is sent.
SubmitNowhere ==
  /\ draft.phase # "submitting" /\ current = None
  /\ draft' = Settle(IF Held(draft) THEN "unknown" ELSE "definite")
  /\ UNCHANGED <<minted, forms, edits, landed, sourceVars, rosterVars, rowVars, hubVars, shown, call>>

-----------------------------------------------------------------------------
(* The call, in Rust.  SourceInner::call asks for the close first, at the  *)
(* start and whenever it is woken.                                         *)

Answer(a) == call' = [call EXCEPT !.at = "answered", !.answer = a,
                                  !.held = FALSE, !.again = FALSE]

\* Closed before it began: nothing was sent this time.
Begin ==
  /\ call.at = "asked"
  /\ IF ClosedUnder(call) THEN Answer(IF call.held THEN "unknown" ELSE "definite")
                          ELSE call' = [call EXCEPT !.at = "dialling"]
  /\ UNCHANGED <<sourceVars, rosterVars, rowVars, hubVars, draftVars, shown>>

\* Mutant: the second dial's failure is taken for the first one's.
DialFailsAgain ==
  /\ call.at = "dialling" /\ ~ClosedUnder(call)
  /\ Answer(IF call.held THEN "unknown" ELSE "definite")
  /\ UNCHANGED <<sourceVars, rosterVars, rowVars, hubVars, draftVars, shown>>

\* The dial fails, or the hub that answers it cannot create.
DialFails ==
  /\ call.at = "dialling" /\ ~ClosedUnder(call)
  /\ Answer(IF call.held \/ call.again THEN "unknown" ELSE "definite")
  /\ UNCHANGED <<sourceVars, rosterVars, rowVars, hubVars, draftVars, shown>>

Send ==
  /\ call.at = "dialling" /\ ~ClosedUnder(call)
  /\ call' = [call EXCEPT !.at = "waiting"]
  /\ wire' = wire \cup {call.id}
  /\ forms' = [forms EXCEPT ![call.id].sent = @ \cup {draft.home}]
  /\ UNCHANGED <<draft, minted, edits, landed, live, starts, memory, kept, lapsed, sourceVars,
                 rosterVars, rowVars, shown>>

\* The session an answer for this id names: the last it started.
Started(i) == <<i, starts[i]>>

\* The hub takes a request, whoever still waits for it: it starts a session or refuses,
\* and remembers which; one it remembers it only answers again.
HubTakes(i) ==
  /\ i \in wire
  /\ wire' = wire \ {i} /\ kept' = kept \cup {i}
  /\ \/ i \in kept /\ UNCHANGED <<memory, starts, live>>
     \/ /\ i \notin kept /\ starts[i] < MaxStarts
        /\ memory' = [memory EXCEPT ![i] = "started"]
        /\ starts' = [starts EXCEPT ![i] = @ + 1]
        /\ live' = live \cup {<<i, starts[i] + 1>>}
     \/ /\ i \notin kept
        /\ memory' = [memory EXCEPT ![i] = "failed"]
        /\ UNCHANGED <<starts, live>>
  /\ UNCHANGED <<lapsed, sourceVars, rosterVars, rowVars, draftVars, shown, call>>

\* The id may be taken once more, and would start another session: it is on the wire, or
\* the draft has it and a session was started for it.
Unsettled(i) == i \in wire \/ (i = draft.id /\ starts[i] > 0)

\* Ten minutes on, or after craze was started again.  The draft is told nothing.
Forget(i) ==
  /\ i \in kept
  /\ kept' = kept \ {i}
  /\ lapsed' = IF Unsettled(i) THEN lapsed \cup {forms[i].form} ELSE lapsed
  /\ UNCHANGED <<live, starts, memory, wire, sourceVars, rosterVars, rowVars, draftVars, shown, call>>

SessionEnds(s) ==
  /\ s \in live
  /\ live' = live \ {s}
  /\ UNCHANGED <<starts, memory, kept, wire, lapsed, sourceVars, rosterVars, rowVars, draftVars,
                 shown, call>>

\* The hub's answer arrives; a new session's row is the source's at once, unless its
\* roster has already taken it back.
Reply ==
  /\ call.at = "waiting" /\ ~ClosedUnder(call)
  /\ call.id \notin wire /\ memory[call.id] # "none"
  /\ IF memory[call.id] = "started"
       THEN /\ Answer("ok")
            /\ created' = created \cup ({Started(call.id)} \ (tombs \cup view.rows))
       ELSE Answer("definite") /\ UNCHANGED created
  /\ UNCHANGED <<tombs, sourceVars, rosterVars, hubVars, draftVars, shown>>

\* The answer is lost: once, the same request is sent again.
ReplyLost ==
  /\ call.at = "waiting" /\ ~ClosedUnder(call)
  /\ IF call.again THEN Answer("unknown")
                   ELSE call' = [call EXCEPT !.at = "dialling", !.again = TRUE]
  /\ UNCHANGED <<sourceVars, rosterVars, rowVars, hubVars, draftVars, shown>>

\* Mutant: the call does not wait for the close.
Uncut ==
  /\ call.at = "dialling" /\ ClosedUnder(call)
  /\ Answer("unknown")
  /\ UNCHANGED <<sourceVars, rosterVars, rowVars, hubVars, draftVars, shown>>

\* The close cuts the call short: what it had written stands.
Cut ==
  /\ call.at \in {"dialling", "waiting"} /\ ClosedUnder(call)
  /\ Answer("unknown")
  /\ UNCHANGED <<sourceVars, rosterVars, rowVars, hubVars, draftVars, shown>>

-----------------------------------------------------------------------------
(* Back in Dart.                                                           *)

\* craze_source_snapshot: the roster's rows, then the created ones.
Snapshot == view.rows \cup created

\* _pullCraze, on a nudge.
Pull ==
  /\ current # None /\ shown # Snapshot
  /\ shown' = Snapshot
  /\ UNCHANGED <<sourceVars, rosterVars, rowVars, hubVars, draftVars, call>>

\* Mutant: the snapshot is left to the next nudge.
LandUnread == shown

\* crazeCreateSession reads the snapshot, if the source is still the feed's.
LandRead == IF call.src = current THEN Snapshot ELSE shown

\* The submission's continuation.  Created, the draft is spent; a row the feed
\* does not list is said to have ended.
Land ==
  /\ call.at = "answered"
  /\ call' = NoCall
  /\ IF call.answer = "ok"
       THEN /\ shown' = LandRead
            /\ draft' = [Unheld("idle") EXCEPT !.ended = Started(call.id) \notin LandRead]
            /\ edits' = edits + 1
            /\ landed' = [session |-> Started(call.id), current |-> call.src = current]
       ELSE /\ draft' = Settle(call.answer)
            /\ UNCHANGED <<shown, edits, landed>>
  /\ UNCHANGED <<minted, forms, sourceVars, rosterVars, rowVars, hubVars>>

-----------------------------------------------------------------------------
Next ==
  \/ OpenSource \/ CloseSource
  \/ SeedBegins \/ SeedReady \/ LinkLost
  \/ \E g \in 1..MaxSeeds : StaleReady(g)
  \/ \E s \in Sessions : TellSession(s) \/ TellRemoved(s) \/ SessionEnds(s)
  \/ \E i \in Ids : HubTakes(i) \/ Forget(i)
  \/ \E h \in Homes : Submit(h)
  \/ Edit \/ SubmitNowhere
  \/ Begin \/ DialFails \/ Send \/ Reply \/ ReplyLost \/ Cut
  \/ Pull \/ Land

Spec == Init /\ [][Next]_vars

(* The bridge's runtime wakes a call whose source was closed, and Dart goes  *)
(* on with an answer.  Neither the dial nor the hub need ever answer.      *)
FairSpec == Spec /\ WF_vars(Begin \/ Cut) /\ WF_vars(Land)

-----------------------------------------------------------------------------
(* Properties.                                                             *)

FormOf(s) == forms[s[1]].form
Begun == {s \in Sessions : s[2] <= starts[s[1]]}

\* One press of Create, however often it is tried again, starts at most one session, as
\* long as craze has not forgotten the request while it could be sent again or was still
\* under way: two sessions are never those of one unedited form.
OneSessionPerForm ==
  \A s, t \in Begun : FormOf(s) = FormOf(t) => s = t \/ FormOf(s) \in lapsed

\* A definite refusal is one: nothing of this form has started a session that craze had
\* not forgotten, and nothing is under way that may start one.
RefusedMeansNothingStarted ==
  draft.phase = "refused" =>
    \A i \in 1..minted : forms[i].form = edits =>
      i \notin wire /\ (starts[i] = 0 \/ edits \in lapsed)

\* Whatever is sent under one id is the same request; another one is craze's
\* request_conflict.
RetriesSendTheSame == \A i \in Ids : Cardinality(forms[i].sent) <= 1

\* A half-told roster is never shown, whatever seeds overtake each other and whatever
\* Ready comes late, nor a lost one as live: the rows are those of the last seed that was
\* complete, with the changes told after it.
ShownRosterIsWhole ==
  view.rows = told /\ (view.live <=> link \in {"following", "reseeding"})

\* A created session is said to have ended only when it has, as long as the source
\* it was created through is still the feed's.
SaidEndedHasEnded == draft.ended /\ landed.current => landed.session \notin live

\* A close cuts a submission short: it never hangs on a machine the feed let go of.
CutCallsEnd ==
  draft.phase = "submitting" /\ ClosedUnder(call) ~> draft.phase # "submitting"

(* The sheet takes a row its feed does not list for a session that has     *)
(* already ended (craze_create_sheet.dart), whatever source answered.      *)
UnlistedHasEnded == draft.ended => landed.session \notin live

-----------------------------------------------------------------------------
(* The contract of the sheet, and where its state is here.                 *)
StartedIds    == {i \in Ids : starts[i] > 0}
ContractMade  == {forms[i].form : i \in StartedIds}
ContractAgain ==
  LET more(i) == starts[i] > 1 \/ \E k \in StartedIds \ {i} : forms[k].form = forms[i].form
  IN  {forms[i].form : i \in {j \in StartedIds : more(j)}}
ContractLoose == {forms[i].form : i \in wire} \ {edits}

Contract == INSTANCE CreateContract
              WITH form <- edits, phase <- draft.phase, made <- ContractMade,
                   again <- ContractAgain, loose <- ContractLoose, forgotten <- lapsed

\* A form makes at most one session, whatever is lost, cut short or sent again, unless
\* craze forgot it while its outcome was open; it is said to be refused only when it has
\* made none, and to be created only when it has made one.
ImplementsCreateContract == Contract!ContractSpec
=============================================================================
