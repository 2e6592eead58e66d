-------------------------- MODULE CrazeSourceProofs --------------------------
(***************************************************************************)
(* Theorems about CrazeSource, for any number of request ids, sources,     *)
(* edits and seeds, and any home directories.                              *)
(***************************************************************************)
EXTENDS CrazeSource, FiniteSetTheorems, TLAPS

\* What was started for an id, or may yet be.
Alive(i)    == starts[i] > 0 \/ i \in wire
LapsedId(i) == forms[i].form \in lapsed

\* An id that was not minted was used for nothing.
UnmintedIsUnused == \A i \in Ids : i > minted => ~Alive(i)

\* The draft's id is that of the submission in flight, or of the last one, whose outcome
\* is unknown; it was minted for the form as it is.
DraftHasTheId ==
  /\ draft.phase = "submitting" <=> call.at # "none"
  /\ call.at # "none" => draft.id # None /\ call.id = draft.id
  /\ draft.id # None =>
       /\ draft.phase \in {"submitting", "unknown"}
       /\ draft.id <= minted /\ forms[draft.id].form = edits

FormsAreOlder == \A i \in Ids : i <= minted => forms[i].form <= edits

\* Only the draft's id is on the wire for the form as it is, and a session was started
\* only for it, unless craze forgot the form; and neither is so while the call would still
\* take its end for a definite refusal.
OnlyTheDraftsIdIsAlive ==
  /\ \A i \in Ids : i <= minted /\ forms[i].form = edits /\ i \in wire => i = draft.id
  /\ \A i \in Ids : i <= minted /\ forms[i].form = edits /\ starts[i] > 0 =>
       i = draft.id \/ edits \in lapsed
  /\ \/ call.at \in {"asked", "dialling"} /\ ~call.held /\ ~call.again
     \/ call.at = "answered" /\ call.answer = "definite"
     => call.id \notin wire /\ (starts[call.id] = 0 \/ LapsedId(call.id))

\* One id of a form is on the wire; sessions were started for one, and one session, unless
\* craze forgot the form.
OneAlivePerForm ==
  /\ \A i, j \in wire : forms[i].form = forms[j].form => i = j
  /\ \A i, j \in Ids :
       i <= minted /\ j <= minted /\ forms[i].form = forms[j].form /\ Alive(i) /\ Alive(j)
       => i = j \/ LapsedId(i)
  /\ \A i \in Ids : starts[i] > 1 => LapsedId(i)

\* A session was started for an id that may be taken again: the hub would answer with it,
\* unless it forgot the form; nor does it refuse what it started otherwise.
UnsettledIsKept ==
  /\ \A i \in Ids : starts[i] > 0 /\ (i \in wire \/ i = draft.id) => i \in kept \/ LapsedId(i)
  /\ \A i \in Ids : starts[i] > 0 /\ memory[i] # "started" => LapsedId(i)

CallIsInOrder ==
  /\ call.at = "asked" => ~call.again
  /\ call.at = "answered" => call.answer # "none"
  /\ call.at = "answered" /\ call.answer = "ok" => call.id \notin wire

Once == /\ CallIsInOrder /\ UnmintedIsUnused /\ DraftHasTheId /\ FormsAreOlder
        /\ OnlyTheDraftsIdIsAlive /\ OneAlivePerForm /\ UnsettledIsKept

\* The fold follows its subscription; what it stages is the last seed.
FoldFollows ==
  /\ view.rows = told
  /\ view.gen # None <=> link \in {"seeding", "reseeding"}
  /\ view.gen # None => view.gen = seeds /\ view.staged = said
  /\ view.live <=> link \in {"following", "reseeding"}
  /\ current = None => link = "down"

\* What the hub started; what it started and has ended stays so.
StartedOnly ==
  /\ live \cup view.rows \cup said \cup tombs \subseteq Begun
  /\ tombs \cap live = {}

SourcesInOrder ==
  /\ current <= opened /\ call.src <= opened
  /\ call.at # "none" => call.src # None

\* The row of a created session is there when the answer is read, or it has ended.
CreatedIsThere ==
  /\ call.at = "answered" /\ call.answer = "ok" /\ call.src = current =>
       Started(call.id) \in Snapshot \/ Started(call.id) \notin live
  /\ draft.ended =>
       /\ landed.session \in Begun
       /\ landed.current => landed.session \notin live

\* The parts of the type invariant.
NumbersOK ==
  /\ current \in 0..MaxSources /\ opened \in 0..MaxSources
  /\ seeds \in 0..MaxSeeds /\ minted \in 0..MaxIds /\ edits \in Nat
  /\ link \in {"down", "seeding", "following", "reseeding"}
  /\ unready \in SUBSET (1..MaxSeeds)
RowsOK ==
  /\ created \in SUBSET Sessions /\ tombs \in SUBSET Sessions
  /\ said \in SUBSET Sessions /\ told \in SUBSET Sessions
  /\ live \in SUBSET Sessions /\ shown \in SUBSET Sessions
Views == [rows : SUBSET Sessions, live : BOOLEAN, gen : 0..MaxSeeds, staged : SUBSET Sessions]
ViewOK == view \in Views
MemoryOK ==
  /\ starts \in [Ids -> 0..MaxStarts]
  /\ memory \in [Ids -> {"none", "started", "failed"}]
  /\ \A i \in Ids : memory[i] = "started" => starts[i] > 0
  /\ kept \in SUBSET Ids /\ wire \in SUBSET Ids
LapsedOK == lapsed \in SUBSET Nat
DraftRecords == [phase : Phases, id : 0..MaxIds, home : Homes \cup {NoHome}, ended : BOOLEAN]
DraftOK == draft \in DraftRecords
CallRecords ==
  [at : Stages, src : 0..MaxSources, id : 0..MaxIds, held : BOOLEAN, again : BOOLEAN,
   answer : {"none", "ok", "definite", "unknown"}]
CallOK ==
  /\ call \in CallRecords
  /\ call.at # "none" => call.id # None
  /\ call.at = "answered" /\ call.answer = "ok" => starts[call.id] > 0
LandedOK == landed \in [session : Sessions \cup {NoSession}, current : BOOLEAN]
FormsOK == forms \in [Ids -> [form : Nat, sent : SUBSET Homes]]
SubmissionOK ==
  /\ draft.id # None => draft.home \in Homes
  /\ call.at # "none" => draft.phase = "submitting" /\ draft.id # None

Typed == /\ NumbersOK /\ RowsOK /\ ViewOK /\ MemoryOK /\ LapsedOK /\ DraftOK /\ CallOK
         /\ LandedOK /\ FormsOK /\ SubmissionOK
-----------------------------------------------------------------------------
(* Types.                                                                  *)

LEMMA TypedIsTypeOK == Typed => TypeOK
BY DEF Typed, TypeOK, NumbersOK, RowsOK, ViewOK, Views, MemoryOK, LapsedOK, DraftOK, CallOK,
       LandedOK, FormsOK, DraftRecords, CallRecords

LEMMA Bounds == /\ MaxIds \in Nat /\ MaxSources \in Nat /\ MaxEdits \in Nat /\ MaxSeeds \in Nat
                /\ MaxStarts \in Nat
                /\ 0 \in 0..MaxIds /\ 0 \in 0..MaxSources /\ 0 \in 0..MaxSeeds /\ 0 \in 0..MaxStarts
BY BoundsAssumption

LEMMA NoCallTyped == NoCall \in CallRecords /\ NoCall.at = "none"
BY Bounds DEF NoCall, CallRecords, Stages, None

\* The session an answer names is one.
LEMMA StartedTyped ==
  ASSUME MemoryOK, NEW i \in Ids, starts[i] > 0
  PROVE  Started(i) \in Sessions /\ Started(i) \in Begun
<1>1. starts[i] \in 1..MaxStarts  BY Bounds DEF MemoryOK
<1>2. Started(i) = <<i, starts[i]>> /\ Started(i)[1] = i /\ Started(i)[2] = starts[i]
  BY DEF Started
<1>3. Started(i) \in Sessions  BY <1>1, <1>2 DEF Sessions
<1>4. starts[i] <= starts[i]  BY <1>1
<1> QED BY <1>2, <1>3, <1>4 DEF Begun

LEMMA TypeInit == Init => Typed
<1> SUFFICES ASSUME Init PROVE Typed  OBVIOUS
<1>1. NumbersOK /\ RowsOK  BY Bounds DEF Init, NumbersOK, RowsOK, None
<1>2. ViewOK  BY Bounds DEF Init, ViewOK, Views, EmptyView, None
<1>3. MemoryOK /\ FormsOK /\ LapsedOK  BY Bounds DEF Init, MemoryOK, FormsOK, LapsedOK
<1>4. DraftOK  BY Bounds DEF Init, DraftOK, DraftRecords, Phases, None
<1>5. CallOK  BY NoCallTyped DEF Init, CallOK
<1>6. LandedOK  BY DEF Init, LandedOK
<1>7. SubmissionOK  BY NoCallTyped DEF Init, SubmissionOK
<1> QED BY <1>1, <1>2, <1>3, <1>4, <1>5, <1>6, <1>7 DEF Typed

Others == UNCHANGED <<starts, memory, kept, wire, lapsed, draft, call, landed, forms>>

LEMMA OthersTyped ==
  ASSUME Typed, Others
  PROVE  MemoryOK' /\ LapsedOK' /\ DraftOK' /\ CallOK' /\ LandedOK' /\ FormsOK' /\ SubmissionOK'
BY DEF Typed, Others, MemoryOK, LapsedOK, DraftOK, CallOK, LandedOK, FormsOK, SubmissionOK

\* Sources and the fold: what the hub knows and the draft has is left alone.
LEMMA TypeFold ==
  ASSUME Typed,
         \/ OpenSource \/ CloseSource \/ SeedBegins \/ SeedReady \/ LinkLost \/ Pull
         \/ \E g \in 1..MaxSeeds : StaleReady(g)
         \/ \E s \in Sessions : TellSession(s) \/ TellRemoved(s) \/ SessionEnds(s)
  PROVE  Typed'
<1> USE DEF sourceVars, rosterVars, rowVars, hubVars, draftVars
<1>1. Others
  BY DEF Others, OpenSource, CloseSource, SeedBegins, SeedReady, StaleReady, LinkLost, Pull,
         TellSession, TellRemoved, SessionEnds
<1>2. NumbersOK'
  <2>1. UNCHANGED <<minted, edits>>
    BY DEF OpenSource, CloseSource, SeedBegins, SeedReady, StaleReady, LinkLost, Pull,
           TellSession, TellRemoved, SessionEnds
  <2>2. current' \in 0..MaxSources /\ opened' \in 0..MaxSources
    BY Bounds DEF Typed, NumbersOK, OpenSource, CloseSource, SeedBegins, SeedReady, StaleReady,
                  LinkLost, Pull, TellSession, TellRemoved, SessionEnds, None
  <2>3. CASE SeedBegins
    <3>1. seeds + 1 \in 1..MaxSeeds /\ seeds + 1 \in 0..MaxSeeds
      BY <2>3, Bounds DEF SeedBegins, Typed, NumbersOK
    <3> QED BY <2>1, <2>2, <2>3, <3>1 DEF SeedBegins, Typed, NumbersOK
  <2>4. CASE ~SeedBegins
    BY <2>1, <2>2, <2>4
       DEF Typed, NumbersOK, OpenSource, CloseSource, SeedReady, StaleReady, LinkLost, Pull,
           TellSession, TellRemoved, SessionEnds
  <2> QED BY <2>3, <2>4
<1>3. ViewOK'
  <2>1. \/ view' \in {view, EmptyView, ApplyOffline(view)}
        \/ SeedBegins /\ view' = ApplyReset(view, seeds + 1)
        \/ \E g \in 0..MaxSeeds : view' = ApplyReady(view, g)
        \/ \E s \in Sessions : view' \in {ApplySession(view, s), ApplyRemoved(view, s)}
    <3>1. seeds \in 0..MaxSeeds /\ \A g \in 1..MaxSeeds : g \in 0..MaxSeeds
      BY Bounds DEF Typed, NumbersOK
    <3> QED BY <3>1 DEF OpenSource, CloseSource, SeedBegins, SeedReady, StaleReady, LinkLost, Pull,
                        TellSession, TellRemoved, SessionEnds
  <2>2. EmptyView \in Views
    BY Bounds DEF EmptyView, Views, None
  <2>3. ASSUME NEW s \in Sessions, view' = ApplySession(view, s) \/ view' = ApplyRemoved(view, s)
        PROVE  ViewOK'
    BY <2>3 DEF Typed, ViewOK, Views, ApplySession, ApplyRemoved
  <2>4. CASE SeedBegins /\ view' = ApplyReset(view, seeds + 1)
    <3>1. seeds + 1 \in 0..MaxSeeds  BY <2>4, Bounds DEF SeedBegins, Typed, NumbersOK
    <3> QED BY <2>4, <3>1 DEF Typed, ViewOK, Views, ApplyReset
  <2>5. CASE view' = ApplyOffline(view)
    BY <2>5, Bounds DEF Typed, ViewOK, Views, ApplyOffline, None
  <2>6. ASSUME NEW g \in 0..MaxSeeds, view' = ApplyReady(view, g)  PROVE ViewOK'
    <3>1. CASE view.gen = g
      BY <2>6, <3>1, Bounds DEF Typed, ViewOK, Views, ApplyReady, None
    <3>2. CASE view.gen # g  BY <2>6, <3>2 DEF Typed, ViewOK, ApplyReady
    <3> QED BY <3>1, <3>2
  <2>7. CASE view' = view \/ view' = EmptyView  BY <2>2, <2>7 DEF Typed, ViewOK
  <2> QED BY <2>1, <2>3, <2>4, <2>5, <2>6, <2>7
<1>4. RowsOK'
  <2>1. view.staged \in SUBSET Sessions /\ view.rows \in SUBSET Sessions
        /\ Snapshot \in SUBSET Sessions
    BY DEF Typed, ViewOK, Views, RowsOK, Snapshot
  <2> QED BY <2>1 DEF Typed, RowsOK, OpenSource, CloseSource, SeedBegins, SeedReady, StaleReady,
                      LinkLost, Pull, TellSession, TellRemoved, SessionEnds, Listed
<1> QED BY <1>1, <1>2, <1>3, <1>4, OthersTyped DEF Typed

\* The calls, and the hub's side of them.
LEMMA AnswerTyped ==
  ASSUME CallOK, NEW a \in {"ok", "definite", "unknown"}, Answer(a), call.at # "none",
         UNCHANGED starts, a = "ok" => starts[call.id] > 0
  PROVE  CallOK'
BY DEF CallOK, CallRecords, Answer, Stages

LEMMA TypeHub ==
  ASSUME Typed, NEW i \in Ids, HubTakes(i) \/ Forget(i)
  PROVE  Typed'
<1> USE DEF sourceVars, rosterVars, rowVars, hubVars, draftVars
<1>1. NumbersOK' /\ ViewOK' /\ DraftOK' /\ LandedOK' /\ FormsOK' /\ SubmissionOK'
  BY DEF Typed, NumbersOK, ViewOK, DraftOK, LandedOK, FormsOK, SubmissionOK, HubTakes, Forget
<1>2. starts[i] \in Nat  BY DEF Typed, MemoryOK
<1>3. CASE HubTakes(i) /\ starts' # starts
  <2>1. /\ starts[i] < MaxStarts /\ starts' = [starts EXCEPT ![i] = starts[i] + 1]
        /\ live' = live \cup {<<i, starts[i] + 1>>} /\ memory' = [memory EXCEPT ![i] = "started"]
        /\ kept' = kept \cup {i} /\ wire' = wire \ {i} /\ lapsed' = lapsed /\ call' = call
    BY <1>3 DEF HubTakes
  <2>2. starts[i] + 1 \in 1..MaxStarts /\ starts[i] + 1 \in 0..MaxStarts /\ starts[i] + 1 > 0
    BY <1>2, <2>1, Bounds
  <2>3. <<i, starts[i] + 1>> \in Sessions  BY <2>2 DEF Sessions
  <2>4. RowsOK'  BY <1>3, <2>1, <2>3 DEF HubTakes, Typed, RowsOK
  <2>5. MemoryOK'
    <3>1. starts' \in [Ids -> 0..MaxStarts] /\ memory' \in [Ids -> {"none", "started", "failed"}]
      BY <2>1, <2>2 DEF Typed, MemoryOK
    <3>2. \A j \in Ids : memory'[j] = "started" => starts'[j] > 0
      BY <2>1, <2>2 DEF Typed, MemoryOK
    <3> QED BY <2>1, <3>1, <3>2 DEF Typed, MemoryOK
  <2>6. LapsedOK'  BY <2>1 DEF Typed, LapsedOK
  <2>7. CallOK'
    <3>1. \A j \in Ids : starts[j] > 0 => starts'[j] > 0  BY <2>1, <2>2 DEF Typed, MemoryOK
    <3>2. call.at # "none" => call.id \in Ids
      BY Bounds DEF Typed, CallOK, CallRecords, Ids, None
    <3> QED BY <2>1, <3>1, <3>2 DEF Typed, CallOK
  <2> QED BY <1>1, <2>4, <2>5, <2>6, <2>7 DEF Typed
<1>4. CASE HubTakes(i) /\ starts' = starts
  <2>1. /\ UNCHANGED <<starts, lapsed, call>> /\ kept' = kept \cup {i} /\ wire' = wire \ {i}
        /\ memory' = memory \/ memory' = [memory EXCEPT ![i] = "failed"]
    <3>1. [starts EXCEPT ![i] = starts[i] + 1] # starts
      BY <1>2 DEF Typed, MemoryOK
    <3> QED BY <1>4, <3>1 DEF HubTakes
  <2>2. MemoryOK'  BY <2>1 DEF Typed, MemoryOK
  <2>3. live' = live
    <3>1. [starts EXCEPT ![i] = starts[i] + 1] # starts
      BY <1>2 DEF Typed, MemoryOK
    <3> QED BY <1>4, <3>1 DEF HubTakes
  <2>4. RowsOK'  BY <1>4, <2>3 DEF HubTakes, Typed, RowsOK
  <2>5. LapsedOK' /\ CallOK'  BY <2>1 DEF Typed, LapsedOK, CallOK
  <2> QED BY <1>1, <2>2, <2>4, <2>5 DEF Typed
<1>5. CASE Forget(i)
  <2>1. RowsOK' /\ MemoryOK' /\ CallOK'
    BY <1>5 DEF Forget, Typed, RowsOK, MemoryOK, CallOK
  <2>2. LapsedOK'
    <3>1. forms[i].form \in Nat  BY DEF Typed, FormsOK
    <3> QED BY <1>5, <3>1 DEF Forget, Typed, LapsedOK
  <2> QED BY <1>1, <2>1, <2>2 DEF Typed
<1> QED BY <1>3, <1>4, <1>5

LEMMA TypeCall ==
  ASSUME Typed,
         Begin \/ DialFails \/ Send \/ Reply \/ ReplyLost \/ Cut
  PROVE  Typed'
<1> USE DEF sourceVars, rosterVars, rowVars, hubVars, draftVars
<1>1. NumbersOK' /\ ViewOK' /\ DraftOK' /\ LandedOK' /\ LapsedOK'
  BY DEF Typed, NumbersOK, ViewOK, DraftOK, LandedOK, LapsedOK, Begin, DialFails, Send, Reply,
         ReplyLost, Cut
<1>2. call.at # "none" => call.id \in Ids
  BY Bounds DEF Typed, CallOK, CallRecords, Ids, None
<1>3. RowsOK'
  <2>1. CASE Reply
    <3>1. memory[call.id] = "started" => Started(call.id) \in Sessions
      BY <1>2, <2>1, StartedTyped DEF Reply, Typed, MemoryOK
    <3>2. \/ created' = created
          \/ /\ created' = created \cup ({Started(call.id)} \ (tombs \cup view.rows))
             /\ memory[call.id] = "started"
      BY <2>1 DEF Reply
    <3>3. created' \in SUBSET Sessions  BY <3>1, <3>2 DEF Typed, RowsOK
    <3> QED BY <2>1, <3>3 DEF Typed, RowsOK, Reply
  <2>2. CASE Begin \/ DialFails \/ Send \/ ReplyLost \/ Cut
    BY <2>2 DEF Typed, RowsOK, Begin, DialFails, Send, ReplyLost, Cut
  <2> QED BY <2>1, <2>2
<1>4. MemoryOK'
  BY <1>2 DEF Typed, MemoryOK, Begin, DialFails, Send, Reply, ReplyLost, Cut
<1>5. FormsOK'
  <2>1. CASE Send
    <3>1. forms' = [forms EXCEPT ![call.id].sent = @ \cup {draft.home}]  BY <2>1 DEF Send
    <3>2. draft.home \in Homes  BY <2>1 DEF Send, Typed, SubmissionOK
    <3> QED BY <1>2, <2>1, <3>1, <3>2 DEF Send, Typed, FormsOK
  <2>2. CASE forms' = forms  BY <2>2 DEF Typed, FormsOK
  <2> QED BY <2>1, <2>2 DEF Begin, DialFails, Reply, ReplyLost, Cut
<1>6. CallOK'
  <2> starts' = starts  BY DEF Begin, DialFails, Send, Reply, ReplyLost, Cut
  <2>1. CASE \E a \in {"ok", "definite", "unknown"} :
               Answer(a) /\ call.at # "none" /\ (a = "ok" => starts[call.id] > 0)
    BY <2>1, AnswerTyped DEF Typed
  <2>2. CASE \E at \in {"dialling", "waiting"}, again \in BOOLEAN :
               call' = [call EXCEPT !.at = at, !.again = again] /\ call.at # "none"
    BY <2>2 DEF Typed, CallOK, CallRecords, Stages
  <2>3. CASE \E at \in {"dialling", "waiting"} :
               call' = [call EXCEPT !.at = at] /\ call.at # "none"
    BY <2>3 DEF Typed, CallOK, CallRecords, Stages
  <2>4. Reply /\ memory[call.id] = "started" => starts[call.id] > 0
    BY <1>2 DEF Reply, Typed, MemoryOK
  <2> QED BY <2>1, <2>2, <2>3, <2>4 DEF Begin, DialFails, Send, Reply, ReplyLost, Cut
<1>7. SubmissionOK'
  BY DEF Typed, SubmissionOK, Begin, DialFails, Send, Reply, ReplyLost, Cut, Answer
<1> QED BY <1>1, <1>3, <1>4, <1>5, <1>6, <1>7 DEF Typed

\* The draft.
LEMMA UnheldTyped ==
  ASSUME DraftOK, NEW phase \in Phases
  PROVE  /\ Unheld(phase) \in DraftRecords
         /\ Unheld(phase).id = None /\ Unheld(phase).phase = phase
         /\ Unheld(phase).ended = draft.ended
BY Bounds DEF DraftOK, DraftRecords, Unheld, None

LEMMA SettleTyped ==
  ASSUME DraftOK, NEW outcome
  PROVE  /\ Settle(outcome) \in DraftRecords
         /\ Settle(outcome).phase = IF outcome = "unknown" THEN "unknown" ELSE "refused"
         /\ Settle(outcome).id = IF outcome = "unknown" THEN draft.id ELSE None
         /\ Settle(outcome).id # None => Settle(outcome).home = draft.home
         /\ Settle(outcome).ended = draft.ended
<1>1. "refused" \in Phases /\ "unknown" \in Phases  BY DEF Phases
<1>2. CASE outcome = "unknown"
  BY <1>1, <1>2 DEF Settle, DraftOK, DraftRecords
<1>3. CASE outcome # "unknown"
  BY <1>1, <1>3, UnheldTyped DEF Settle
<1> QED BY <1>2, <1>3

LEMMA TypeDraft ==
  ASSUME Typed,
         Edit \/ SubmitNowhere \/ Land \/ \E h \in Homes : Submit(h)
  PROVE  Typed'
<1> USE DEF sourceVars, rosterVars, rowVars, hubVars, draftVars
<1>1. NumbersOK'
  <2>1. UNCHANGED <<current, opened, seeds, link, unready>>
    BY DEF Edit, SubmitNowhere, Land, Submit
  <2>2. edits' \in {edits, edits + 1}  BY DEF Edit, SubmitNowhere, Land, Submit
  <2>3. minted' = minted \/ (minted < MaxIds /\ minted' = minted + 1)
    BY DEF Edit, SubmitNowhere, Land, Submit
  <2>4. minted' \in 0..MaxIds /\ edits' \in Nat
    BY <2>2, <2>3, Bounds DEF Typed, NumbersOK
  <2> QED BY <2>1, <2>4 DEF Typed, NumbersOK
<1>2. RowsOK'
  <2>1. Snapshot \in SUBSET Sessions  BY DEF Typed, ViewOK, Views, RowsOK, Snapshot
  <2> QED BY <2>1 DEF Typed, RowsOK, Edit, SubmitNowhere, Land, Submit, LandRead
<1>3. ViewOK' /\ MemoryOK' /\ LapsedOK' /\ starts' = starts
  BY DEF Typed, ViewOK, MemoryOK, LapsedOK, Edit, SubmitNowhere, Land, Submit
<1>4. CASE Edit
  <2>1. draft' = Unheld("idle") /\ "idle" \in Phases  BY <1>4 DEF Edit, Phases
  <2>2. DraftOK' /\ SubmissionOK'
    BY <1>4, <2>1, UnheldTyped DEF Typed, Edit, DraftOK, SubmissionOK
  <2>3. CallOK' /\ LandedOK' /\ FormsOK'
    BY <1>4 DEF Typed, Edit, CallOK, LandedOK, FormsOK
  <2> QED BY <1>1, <1>2, <1>3, <2>2, <2>3 DEF Typed
<1>5. CASE SubmitNowhere
  <2>1. \E o \in {"unknown", "definite"} : draft' = Settle(o)  BY <1>5 DEF SubmitNowhere
  <2>2. DraftOK'  BY <2>1, SettleTyped DEF Typed, DraftOK
  <2>3. SubmissionOK'
    <3>1. call'.at = "none"  BY <1>5 DEF SubmitNowhere, Typed, SubmissionOK
    <3>2. draft'.id # None => draft.id # None /\ draft'.home = draft.home
      BY <2>1, SettleTyped DEF Typed
    <3> QED BY <3>1, <3>2 DEF Typed, SubmissionOK
  <2>4. CallOK' /\ LandedOK' /\ FormsOK'
    BY <1>5 DEF Typed, SubmitNowhere, CallOK, LandedOK, FormsOK
  <2> QED BY <1>1, <1>2, <1>3, <2>2, <2>3, <2>4 DEF Typed
<1>6. CASE Land
  <2>1. call' = NoCall /\ forms' = forms  BY <1>6 DEF Land
  <2>2. CallOK' /\ FormsOK'  BY <2>1, NoCallTyped DEF Typed, CallOK, FormsOK
  <2>3. CASE call.answer = "ok"
    <3>1. draft' = [Unheld("idle") EXCEPT !.ended = Started(call.id) \notin LandRead]
      BY <1>6, <2>3 DEF Land
    <3>2. Unheld("idle") \in DraftRecords /\ Unheld("idle").id = None
      BY UnheldTyped DEF Typed, Phases
    <3>3. draft' \in DraftRecords /\ draft'.id = None
      BY <3>1, <3>2 DEF DraftRecords
    <3>4. landed' \in [session : Sessions \cup {NoSession}, current : BOOLEAN]
      <4>1. landed' = [session |-> Started(call.id), current |-> call.src = current]
        BY <1>6, <2>3 DEF Land
      <4>2. Started(call.id) \in Sessions \cup {NoSession}
        <5>1. call.id \in Ids  BY <1>6, Bounds DEF Land, Typed, CallOK, CallRecords, Ids, None
        <5>2. starts[call.id] > 0  BY <1>6, <2>3 DEF Land, Typed, CallOK
        <5> QED BY <5>1, <5>2, StartedTyped DEF Typed
      <4>3. (call.src = current) \in BOOLEAN  OBVIOUS
      <4> QED BY ONLY <4>1, <4>2, <4>3
    <3>5. DraftOK' /\ SubmissionOK' /\ LandedOK'
      BY <2>1, <3>3, <3>4, NoCallTyped DEF DraftOK, SubmissionOK, LandedOK
    <3> QED BY <1>1, <1>2, <1>3, <2>2, <3>5 DEF Typed
  <2>4. CASE call.answer # "ok"
    <3>1. draft' = Settle(call.answer) /\ landed' = landed  BY <1>6, <2>4 DEF Land
    <3>2. DraftOK' /\ (draft'.id # None => draft.id # None /\ draft'.home = draft.home)
      BY <3>1, SettleTyped DEF Typed, DraftOK
    <3>3. SubmissionOK' /\ LandedOK'
      BY <2>1, <3>1, <3>2, NoCallTyped DEF Typed, SubmissionOK, LandedOK
    <3> QED BY <1>1, <1>2, <1>3, <2>2, <3>2, <3>3 DEF Typed
  <2> QED BY <2>3, <2>4
<1>7. ASSUME NEW h \in Homes, Submit(h)  PROVE Typed'
  <2> DEFINE id == IF draft.id # None THEN draft.id ELSE minted + 1
  <2>1. id \in 1..MaxIds /\ id \in 0..MaxIds /\ id # None
    <3>1. draft.id \in 0..MaxIds /\ minted \in 0..MaxIds
      BY DEF Typed, DraftOK, DraftRecords, NumbersOK
    <3>2. draft.id # None \/ minted < MaxIds  BY <1>7 DEF Submit
    <3> QED BY <3>1, <3>2, Bounds DEF None
  <2>2. SentHome(h) \in Homes  BY <1>7 DEF SentHome, Typed, SubmissionOK
  <2>3. /\ draft' = [draft EXCEPT !.phase = "submitting", !.id = id, !.home = SentHome(h)]
        /\ forms' = IF draft.id # None THEN forms ELSE [forms EXCEPT ![id].form = edits]
        /\ call' = [NoCall EXCEPT !.at = "asked", !.src = current, !.id = id,
                                  !.held = Held(draft)]
        /\ landed' = landed
    BY <1>7 DEF Submit
  <2> HIDE DEF id
  <2>4. /\ draft' \in DraftRecords /\ draft'.phase = "submitting" /\ draft'.id = id
        /\ draft'.home = SentHome(h)
    BY <2>1, <2>2, <2>3 DEF Typed, DraftOK, DraftRecords, Phases
  <2>5. call' \in CallRecords /\ call'.at = "asked" /\ call'.id = id
    <3>1. current \in 0..MaxSources /\ Held(draft) \in BOOLEAN
      BY DEF Typed, NumbersOK, Held
    <3> QED BY <2>1, <2>3, <3>1, NoCallTyped DEF CallRecords, Stages
  <2>6. FormsOK'  BY <2>1, <2>3 DEF Typed, FormsOK, NumbersOK
  <2>7. DraftOK' /\ CallOK' /\ SubmissionOK' /\ LandedOK'
    BY <2>1, <2>2, <2>3, <2>4, <2>5 DEF Typed, DraftOK, CallOK, SubmissionOK, LandedOK
  <2> QED BY <1>1, <1>2, <1>3, <2>6, <2>7 DEF Typed
<1> QED BY <1>4, <1>5, <1>6, <1>7

LEMMA TypeStep == Typed /\ [Next]_vars => Typed'
<1> SUFFICES ASSUME Typed, [Next]_vars PROVE Typed'  OBVIOUS
<1>1. CASE UNCHANGED vars
  BY <1>1 DEF vars, sourceVars, rosterVars, rowVars, hubVars, draftVars, Typed, NumbersOK, RowsOK,
              ViewOK, MemoryOK, LapsedOK, DraftOK, CallOK, LandedOK, FormsOK, SubmissionOK
<1> QED BY <1>1, TypeFold, TypeHub, TypeCall, TypeDraft DEF Next

\* The type invariant of CrazeSource.
THEOREM TypeCorrect == Spec => []TypeOK
<1>1. Init => Typed  BY TypeInit
<1>2. Typed /\ [Next]_vars => Typed'  BY TypeStep
<1>3. Typed => TypeOK  BY TypedIsTypeOK
<1> QED BY <1>1, <1>2, <1>3, PTL DEF Spec
-----------------------------------------------------------------------------
(* The roster fold.                                                        *)

\* What a row's coming and going makes of the fold.
LEMMA FoldSteps ==
  ASSUME Typed, NEW t \in Sessions
  PROVE  /\ ApplySession(view, t).gen = view.gen
         /\ ApplySession(view, t).live = view.live
         /\ ApplySession(view, t).rows = (IF view.gen # None THEN view.rows ELSE view.rows \cup {t})
         /\ ApplySession(view, t).staged = (IF view.gen # None THEN view.staged \cup {t}
                                                               ELSE view.staged)
         /\ ApplyRemoved(view, t).gen = view.gen
         /\ ApplyRemoved(view, t).live = view.live
         /\ ApplyRemoved(view, t).rows = (IF view.gen # None THEN view.rows ELSE view.rows \ {t})
         /\ ApplyRemoved(view, t).staged = (IF view.gen # None THEN view.staged \ {t}
                                                               ELSE view.staged)
<1> USE DEF Typed, ViewOK, Views, Staging
<1>1. CASE view.gen # None  BY <1>1 DEF ApplySession, ApplyRemoved
<1>2. CASE view.gen = None  BY <1>2 DEF ApplySession, ApplyRemoved
<1> QED BY <1>1, <1>2

\* A Ready that comes late finds another seed staged, or none.
LEMMA StaleChangesNothing ==
  ASSUME Typed, FoldFollows, NEW g \in 1..MaxSeeds, StaleReady(g)
  PROVE  view' = view
<1>1. view.gen # g
  <2>1. g # None  BY DEF None
  <2>2. CASE link = "down"  BY <2>1, <2>2 DEF FoldFollows
  <2>3. CASE g # seeds  BY <2>1, <2>3 DEF FoldFollows
  <2> QED BY <2>2, <2>3 DEF StaleReady
<1> QED BY <1>1 DEF StaleReady, ApplyReady

LEMMA FoldInit == Init => FoldFollows
BY DEF Init, FoldFollows, EmptyView

LEMMA FoldStep ==
  ASSUME Typed, FoldFollows, [Next]_vars
  PROVE  FoldFollows'
<1> USE DEF sourceVars, rosterVars, rowVars, hubVars, draftVars
<1>1. CASE UNCHANGED <<current, view, link, seeds, said, told>>
  BY <1>1 DEF FoldFollows
<1>2. CASE OpenSource
  BY <1>2 DEF OpenSource, FoldFollows, Typed, NumbersOK, None
<1>3. CASE CloseSource
  BY <1>3 DEF CloseSource, FoldFollows, EmptyView
<1>4. CASE SeedBegins
  <2>1. /\ seeds' = seeds + 1 /\ said' = {} /\ UNCHANGED <<current, told>> /\ current # None
        /\ link' = (IF link \in {"down", "seeding"} THEN "seeding" ELSE "reseeding")
        /\ view' = ApplyReset(view, seeds + 1)
    BY <1>4 DEF SeedBegins
  <2>2. seeds + 1 # None /\ link \in {"down", "seeding", "following", "reseeding"}
    BY DEF Typed, NumbersOK, None
  <2>3. view'.rows = view.rows /\ view'.gen = seeds + 1 /\ view'.staged = {}
        /\ view'.live = view.live
    BY <2>1 DEF Typed, ViewOK, Views, ApplyReset
  <2> QED BY <2>1, <2>2, <2>3 DEF FoldFollows
<1>5. CASE LinkLost
  <2>1. /\ view'.rows = view.rows /\ view'.gen = None /\ ~view'.live
        /\ link' = "down" /\ UNCHANGED <<current, told>>
    BY <1>5 DEF LinkLost, Typed, ViewOK, Views, ApplyOffline
  <2> QED BY <2>1 DEF FoldFollows
<1>6. CASE SeedReady
  <2>1. view.gen = seeds /\ view.staged = said /\ link' = "following" /\ told' = said
        /\ current' = current /\ current # None
    BY <1>6 DEF SeedReady, FoldFollows
  <2>2. view' = [rows |-> view.staged, live |-> TRUE, gen |-> None, staged |-> {}]
    BY <1>6, <2>1 DEF SeedReady, ApplyReady
  <2> QED BY <2>1, <2>2 DEF FoldFollows
<1>7. ASSUME NEW g \in 1..MaxSeeds, StaleReady(g)  PROVE FoldFollows'
  BY <1>1, <1>7, StaleChangesNothing DEF StaleReady
<1>8. ASSUME NEW t \in Sessions, TellSession(t)  PROVE FoldFollows'
  <2>1. view' = ApplySession(view, t) /\ UNCHANGED <<link, current, seeds>> /\ link # "down"
        /\ said' = said \cup {t}
        /\ told' = (IF link = "following" THEN told \cup {t} ELSE told)
    BY <1>8 DEF TellSession
  <2> QED BY <2>1, FoldSteps DEF FoldFollows, Typed, NumbersOK
<1>9. ASSUME NEW t \in Sessions, TellRemoved(t)  PROVE FoldFollows'
  <2>1. view' = ApplyRemoved(view, t) /\ UNCHANGED <<link, current, seeds>> /\ link # "down"
        /\ said' = said \ {t}
        /\ told' = (IF link = "following" THEN told \ {t} ELSE told)
    BY <1>9 DEF TellRemoved
  <2> QED BY <2>1, FoldSteps DEF FoldFollows, Typed, NumbersOK
<1> QED BY <1>1, <1>2, <1>3, <1>4, <1>5, <1>6, <1>7, <1>8, <1>9
        DEF Next, Pull, SessionEnds, HubTakes, Forget, Begin, DialFails, Send, Reply, ReplyLost,
            Cut, Edit, SubmitNowhere, Land, Submit, vars

\* A half-told roster is never shown, whatever seeds overtake each other and whatever Ready
\* comes late, nor a lost one as live.
THEOREM RosterIsWhole == Spec => []ShownRosterIsWhole
<1> DEFINE I == Typed /\ FoldFollows
<1>1. Init => I  BY TypeInit, FoldInit
<1>2. I /\ [Next]_vars => I'  BY TypeStep, FoldStep
<1>3. I => ShownRosterIsWhole  BY DEF FoldFollows, ShownRosterIsWhole
<1> QED BY <1>1, <1>2, <1>3, PTL DEF Spec
-----------------------------------------------------------------------------
(* One session for one form.                                               *)

LEMMA OnceInit == Init => Once
BY Bounds DEF Init, Once, CallIsInOrder, UnmintedIsUnused, DraftHasTheId, FormsAreOlder,
       OnlyTheDraftsIdIsAlive, OneAlivePerForm, UnsettledIsKept, Alive, NoCall, Ids, None

\* Nothing new was started, forgotten, minted or asked.
LEMMA OnceUnchanged ==
  ASSUME Once, UNCHANGED <<minted, edits, draft, call, starts, memory, kept, wire, lapsed, forms>>
  PROVE  Once'
BY DEF Once, CallIsInOrder, UnmintedIsUnused, DraftHasTheId, FormsAreOlder, OnlyTheDraftsIdIsAlive,
       OneAlivePerForm, UnsettledIsKept, Alive, LapsedId

\* A call goes on, under the id it has.
LEMMA OnceCall ==
  ASSUME Typed, Once, UNCHANGED <<minted, edits, draft, starts, memory, kept, wire, lapsed, forms>>,
         call.at # "none", call'.at \notin {"none", "asked"}, call'.id = call.id,
         call'.at = "answered" => call'.answer # "none",
         call'.at = "answered" /\ call'.answer = "ok" => call.id \notin wire,
         \/ call'.at \in {"asked", "dialling"} /\ ~call'.held /\ ~call'.again
         \/ call'.at = "answered" /\ call'.answer = "definite"
         => call.id \notin wire /\ (starts[call.id] = 0 \/ LapsedId(call.id))
  PROVE  Once'
BY DEF Once, CallIsInOrder, UnmintedIsUnused, DraftHasTheId, FormsAreOlder, OnlyTheDraftsIdIsAlive,
       OneAlivePerForm, UnsettledIsKept, Alive, LapsedId

LEMMA AnswerIs ==
  ASSUME CallOK, NEW a, Answer(a)
  PROVE  call'.at = "answered" /\ call'.answer = a /\ call'.id = call.id
BY DEF Answer, CallOK, CallRecords

LEMMA OnceCalls ==
  ASSUME Typed, Once, Begin \/ DialFails \/ Reply \/ ReplyLost \/ Cut
  PROVE  Once'
<1> USE DEF sourceVars, rosterVars, rowVars, hubVars, draftVars
<1> DEFINE Nothing == call.id \notin wire /\ (starts[call.id] = 0 \/ LapsedId(call.id))
<1>1. UNCHANGED <<minted, edits, draft, starts, memory, kept, wire, lapsed, forms>>
      /\ call.at # "none"
  BY DEF Begin, DialFails, Reply, ReplyLost, Cut
<1>2. CASE Answer("unknown")
  BY <1>1, <1>2, AnswerIs, OnceCall DEF Typed
<1>3. CASE Answer("definite") /\ Nothing
  BY <1>1, <1>3, AnswerIs, OnceCall DEF Typed
<1>4. ASSUME call' = [call EXCEPT !.at = "dialling"], call.at = "asked"  PROVE Once'
  <2>1. call'.at = "dialling" /\ call'.id = call.id /\ call'.held = call.held
        /\ call'.again = call.again
    BY <1>4 DEF Typed, CallOK, CallRecords
  <2> QED BY <1>1, <1>4, <2>1, OnceCall DEF Once, OnlyTheDraftsIdIsAlive
<1>5. ASSUME call' = [call EXCEPT !.at = "dialling", !.again = TRUE]  PROVE Once'
  <2>1. call'.at = "dialling" /\ call'.id = call.id /\ call'.again
    BY <1>5 DEF Typed, CallOK, CallRecords
  <2> QED BY <1>1, <2>1, OnceCall
<1>6. CASE Begin
  <2>1. ~call.held /\ ~call.again => Nothing
    BY <1>6 DEF Begin, Once, OnlyTheDraftsIdIsAlive
  <2>2. ~call.again  BY <1>6 DEF Begin, Once, CallIsInOrder
  <2> QED BY <1>2, <1>3, <1>4, <1>6, <2>1, <2>2 DEF Begin
<1>7. CASE DialFails
  BY <1>2, <1>3, <1>7 DEF DialFails, Once, OnlyTheDraftsIdIsAlive
<1>8. CASE Reply
  <2>1. call.id \notin wire /\ call.id \in Ids
    BY <1>8, Bounds DEF Reply, Typed, CallOK, CallRecords, Ids, None
  <2>2. memory[call.id] # "started" => Nothing
    <3>1. starts[call.id] > 0 \/ starts[call.id] = 0  BY <2>1, Bounds DEF Typed, MemoryOK
    <3> QED BY <2>1, <3>1 DEF Once, UnsettledIsKept
  <2>3. CASE Answer("ok")
    BY <1>1, <2>1, <2>3, AnswerIs, OnceCall DEF Typed
  <2> QED BY <1>3, <1>8, <2>2, <2>3 DEF Reply
<1>9. CASE ReplyLost \/ Cut  BY <1>2, <1>5, <1>9 DEF ReplyLost, Cut
<1> QED BY <1>6, <1>7, <1>8, <1>9

\* What the hub's taking does to one id, and to the others.
LEMMA Taking ==
  ASSUME Typed, NEW i \in Ids, HubTakes(i)
  PROVE  /\ UNCHANGED <<minted, edits, draft, forms, call, lapsed>>
         /\ i \in wire /\ wire' = wire \ {i} /\ kept' = kept \cup {i}
         /\ \A j \in Ids : j # i => starts'[j] = starts[j] /\ memory'[j] = memory[j]
         /\ \/ i \in kept /\ UNCHANGED <<starts, memory, live>>
            \/ /\ i \notin kept /\ starts'[i] = starts[i] + 1 /\ memory'[i] = "started"
               /\ starts' = [starts EXCEPT ![i] = starts[i] + 1]
               /\ live' = live \cup {<<i, starts[i] + 1>>}
            \/ i \notin kept /\ memory'[i] = "failed" /\ UNCHANGED <<starts, live>>
         /\ starts[i] \in Nat
<1> USE DEF sourceVars, rosterVars, rowVars, hubVars, draftVars, HubTakes
<1>1. /\ UNCHANGED <<minted, edits, draft, forms, call, lapsed>>
      /\ i \in wire /\ wire' = wire \ {i} /\ kept' = kept \cup {i}
  OBVIOUS
<1>2. starts[i] \in Nat  BY DEF Typed, MemoryOK
<1>3. CASE i \in kept /\ UNCHANGED <<memory, starts, live>>
  BY <1>1, <1>2, <1>3
<1>4. CASE /\ i \notin kept /\ starts[i] < MaxStarts
           /\ memory' = [memory EXCEPT ![i] = "started"]
           /\ starts' = [starts EXCEPT ![i] = @ + 1]
           /\ live' = live \cup {<<i, starts[i] + 1>>}
  <2>1. memory'[i] = "started" /\ starts'[i] = starts[i] + 1  BY <1>4 DEF Typed, MemoryOK
  <2>2. \A j \in Ids : j # i => starts'[j] = starts[j] /\ memory'[j] = memory[j]
    BY <1>4 DEF Typed, MemoryOK
  <2>3. starts' = [starts EXCEPT ![i] = starts[i] + 1]  BY <1>4
  <2> QED BY <1>1, <1>2, <1>4, <2>1, <2>2, <2>3
<1>5. CASE i \notin kept /\ memory' = [memory EXCEPT ![i] = "failed"] /\ UNCHANGED <<starts, live>>
  <2>1. memory'[i] = "failed"  BY <1>5 DEF Typed, MemoryOK
  <2>2. \A j \in Ids : j # i => starts'[j] = starts[j] /\ memory'[j] = memory[j]
    BY <1>5 DEF Typed, MemoryOK
  <2> QED BY <1>1, <1>2, <1>5, <2>1, <2>2
<1> QED BY <1>3, <1>4, <1>5

LEMMA OnceHub ==
  ASSUME Typed, Once, NEW i \in Ids, HubTakes(i)
  PROVE  Once'
<1>1. UNCHANGED <<minted, edits, draft, forms, call, lapsed>> /\ i \in wire /\ wire' = wire \ {i}
      /\ kept' = kept \cup {i}
  BY Taking
<1>2. \A j \in Ids : j # i => starts'[j] = starts[j] /\ memory'[j] = memory[j]
  BY Taking
<1>3. \A j \in Ids : Alive(j)' => Alive(j)
  BY <1>1, <1>2 DEF Alive
<1>4. \A j \in Ids : LapsedId(j)' <=> LapsedId(j)  BY <1>1 DEF LapsedId
<1>5. starts[i] > 0 => i \in kept \/ LapsedId(i)
  BY <1>1 DEF Once, UnsettledIsKept
<1>6. starts'[i] > 1 => starts[i] > 1 \/ LapsedId(i)
  <2>1. CASE starts'[i] = starts[i]  BY <2>1
  <2>2. CASE i \notin kept /\ starts'[i] = starts[i] + 1 /\ starts[i] \in Nat
    BY <1>5, <2>2
  <2> QED BY <2>1, <2>2, Taking
<1>7. starts'[i] > 0 /\ memory'[i] # "started" => LapsedId(i)
  <2>1. CASE i \in kept /\ UNCHANGED <<starts, memory>>
    BY <2>1 DEF Once, UnsettledIsKept
  <2>2. CASE memory'[i] = "started"  BY <2>2
  <2>3. CASE i \notin kept /\ UNCHANGED starts  BY <1>5, <2>3
  <2> QED BY <2>1, <2>2, <2>3, Taking
<1>8. wire \subseteq Ids /\ kept \subseteq Ids  BY DEF Typed, MemoryOK
<1>9. call.at # "none" => call.id \in Ids
  BY Bounds DEF Typed, CallOK, CallRecords, Ids, None
<1>10. CallIsInOrder'  BY <1>1 DEF Once, CallIsInOrder
<1>11. UnmintedIsUnused'  BY <1>1, <1>3 DEF Once, UnmintedIsUnused
<1>12. DraftHasTheId' /\ FormsAreOlder'  BY <1>1 DEF Once, DraftHasTheId, FormsAreOlder
<1>13. i <= minted  BY <1>1, <1>8 DEF Once, UnmintedIsUnused, Alive, Ids, Typed, NumbersOK
<1>14. OnlyTheDraftsIdIsAlive'
  <2>1. \A j \in Ids : j <= minted /\ forms[j].form = edits /\ j \in wire' => j = draft.id
    BY <1>1 DEF Once, OnlyTheDraftsIdIsAlive
  <2>2. \A j \in Ids : j <= minted /\ forms[j].form = edits /\ starts'[j] > 0
                        => j = draft.id \/ edits \in lapsed
    <3>1. forms[i].form = edits => i = draft.id
      BY <1>1, <1>13 DEF Once, OnlyTheDraftsIdIsAlive
    <3> QED BY <1>2, <3>1 DEF Once, OnlyTheDraftsIdIsAlive
  <2>3. \/ call.at \in {"asked", "dialling"} /\ ~call.held /\ ~call.again
        \/ call.at = "answered" /\ call.answer = "definite"
        => call.id \notin wire' /\ (starts'[call.id] = 0 \/ LapsedId(call.id))
    <3>1. SUFFICES ASSUME \/ call.at \in {"asked", "dialling"} /\ ~call.held /\ ~call.again
                          \/ call.at = "answered" /\ call.answer = "definite"
                   PROVE  call.id \notin wire' /\ (starts'[call.id] = 0 \/ LapsedId(call.id))
      OBVIOUS
    <3>2. call.id \notin wire /\ (starts[call.id] = 0 \/ LapsedId(call.id)) /\ call.id \in Ids
      BY <1>9, <3>1 DEF Once, OnlyTheDraftsIdIsAlive
    <3> QED BY <1>1, <1>2, <3>2
  <2> QED BY <1>1, <1>4, <2>1, <2>2, <2>3 DEF OnlyTheDraftsIdIsAlive, LapsedId
<1>15. OneAlivePerForm'
  <2>1. \A j, k \in wire' : forms[j].form = forms[k].form => j = k
    BY <1>1 DEF Once, OneAlivePerForm
  <2>2. \A j, k \in Ids : j <= minted /\ k <= minted /\ forms[j].form = forms[k].form
                           /\ Alive(j)' /\ Alive(k)' => j = k \/ LapsedId(j)
    BY <1>3 DEF Once, OneAlivePerForm
  <2>3. \A j \in Ids : starts'[j] > 1 => LapsedId(j)
    BY <1>2, <1>6 DEF Once, OneAlivePerForm
  <2> QED BY <1>1, <1>4, <2>1, <2>2, <2>3 DEF OneAlivePerForm
<1>16. UnsettledIsKept'
  <2>1. \A j \in Ids : starts'[j] > 0 /\ (j \in wire' \/ j = draft.id) => j \in kept' \/ LapsedId(j)
    BY <1>1, <1>2 DEF Once, UnsettledIsKept
  <2>2. \A j \in Ids : starts'[j] > 0 /\ memory'[j] # "started" => LapsedId(j)
    BY <1>2, <1>7 DEF Once, UnsettledIsKept
  <2> QED BY <1>1, <1>4, <2>1, <2>2 DEF UnsettledIsKept
<1> QED BY <1>10, <1>11, <1>12, <1>14, <1>15, <1>16 DEF Once

LEMMA OnceForget ==
  ASSUME Typed, Once, NEW i \in Ids, Forget(i)
  PROVE  Once'
<1> USE DEF sourceVars, rosterVars, rowVars, hubVars, draftVars
<1>1. /\ UNCHANGED <<minted, edits, draft, forms, call, starts, memory, wire>> /\ kept' = kept \ {i}
      /\ lapsed \subseteq lapsed'
      /\ starts[i] > 0 /\ (i \in wire \/ i = draft.id) => forms[i].form \in lapsed'
  BY DEF Forget, Unsettled
<1>2. \A j \in Ids : Alive(j)' <=> Alive(j)  BY <1>1 DEF Alive
<1>3. \A j : LapsedId(j) => LapsedId(j)'  BY <1>1 DEF LapsedId
<1>4. CallIsInOrder' /\ DraftHasTheId' /\ FormsAreOlder'
  BY <1>1 DEF Once, CallIsInOrder, DraftHasTheId, FormsAreOlder
<1>5. UnmintedIsUnused'  BY <1>1, <1>2 DEF Once, UnmintedIsUnused
<1>6. OnlyTheDraftsIdIsAlive'  BY <1>1, <1>3 DEF Once, OnlyTheDraftsIdIsAlive
<1>7. OneAlivePerForm'  BY <1>1, <1>2, <1>3 DEF Once, OneAlivePerForm
<1>8. UnsettledIsKept'
  <2>1. \A j \in Ids : starts[j] > 0 /\ (j \in wire \/ j = draft.id) => j \in kept' \/ LapsedId(j)'
    <3>1. starts[i] > 0 /\ (i \in wire \/ i = draft.id) => LapsedId(i)'  BY <1>1 DEF LapsedId
    <3> QED BY <1>1, <1>3, <3>1 DEF Once, UnsettledIsKept
  <2>2. \A j \in Ids : starts[j] > 0 /\ memory[j] # "started" => LapsedId(j)'
    BY <1>3 DEF Once, UnsettledIsKept
  <2> QED BY <1>1, <2>1, <2>2 DEF UnsettledIsKept
<1> QED BY <1>4, <1>5, <1>6, <1>7, <1>8 DEF Once

LEMMA OnceSend ==
  ASSUME Typed, Once, Send
  PROVE  Once'
<1> USE DEF sourceVars, rosterVars, rowVars, hubVars, draftVars
<1>1. /\ UNCHANGED <<minted, edits, draft, starts, memory, kept, lapsed>>
      /\ wire' = wire \cup {call.id} /\ call'.at = "waiting" /\ call'.id = call.id
  BY DEF Send, Typed, CallOK, CallRecords
<1>2. \A j \in Ids : forms'[j].form = forms[j].form
  BY DEF Send, Typed, FormsOK
<1>3. /\ call.id = draft.id /\ call.id # None /\ call.id \in Ids
      /\ call.id <= minted /\ forms[call.id].form = edits
  BY Bounds DEF Send, Once, DraftHasTheId, Typed, CallOK, CallRecords, Ids, None
<1>4. \A j \in Ids : Alive(j)' => Alive(j) \/ j = call.id
  BY <1>1 DEF Alive
<1>5. \A j \in Ids : LapsedId(j)' <=> LapsedId(j)  BY <1>1, <1>2 DEF LapsedId
<1>6. wire \subseteq Ids  BY DEF Typed, MemoryOK
<1>7. \A j \in wire : j <= minted
  BY <1>6 DEF Once, UnmintedIsUnused, Alive, Ids, Typed, NumbersOK
<1>8. UnmintedIsUnused'  BY <1>1, <1>3, <1>4 DEF Once, UnmintedIsUnused, Typed, NumbersOK, Ids
<1>9. DraftHasTheId'
  BY <1>1, <1>2, <1>3 DEF Send, Once, DraftHasTheId
<1>10. FormsAreOlder'  BY <1>1, <1>2 DEF Once, FormsAreOlder
<1>11. OnlyTheDraftsIdIsAlive'
  BY <1>1, <1>2, <1>3 DEF Once, OnlyTheDraftsIdIsAlive
<1>12. OneAlivePerForm'
  <2>1. \A i, j \in wire' : forms'[i].form = forms'[j].form => i = j
    <3>1. \A i \in wire : forms[i].form = edits => i = call.id
      BY <1>3, <1>6, <1>7 DEF Once, OnlyTheDraftsIdIsAlive
    <3> QED BY <1>1, <1>2, <1>3, <1>6, <3>1 DEF Once, OneAlivePerForm
  <2>2. \A i \in Ids : i <= minted /\ forms[i].form = edits /\ Alive(i)
                        => i = call.id \/ edits \in lapsed
    BY <1>3 DEF Once, OnlyTheDraftsIdIsAlive, Alive
  <2>3. \A i, j \in Ids : i <= minted /\ j <= minted /\ forms[i].form = forms[j].form
                           /\ Alive(i)' /\ Alive(j)' => i = j \/ LapsedId(i)
    BY <1>3, <1>4, <2>2 DEF Once, OneAlivePerForm, LapsedId
  <2>4. \A i \in Ids : starts[i] > 1 => LapsedId(i)  BY DEF Once, OneAlivePerForm
  <2> QED BY <1>1, <1>2, <1>5, <2>1, <2>3, <2>4 DEF OneAlivePerForm
<1>13. UnsettledIsKept'
  BY <1>1, <1>3, <1>5 DEF Once, UnsettledIsKept
<1>14. CallIsInOrder'  BY <1>1 DEF CallIsInOrder
<1> QED BY <1>8, <1>9, <1>10, <1>11, <1>12, <1>13, <1>14 DEF Once

\* The form becomes another one: nothing is alive for it.
LEMMA OnceNewForm ==
  ASSUME Typed, Once, UNCHANGED <<minted, forms, starts, memory, kept, wire, lapsed>>,
         edits' = edits + 1, call'.at = "none", draft'.id = None, draft'.phase = "idle"
  PROVE  Once'
<1>1. \A i \in Ids : i <= minted => forms[i].form < edits'
  BY DEF Once, FormsAreOlder, Typed, FormsOK, NumbersOK, Ids
<1>2. \A i \in Ids : i <= minted => forms[i].form <= edits' /\ forms[i].form # edits'
  BY <1>1 DEF Typed, FormsOK, NumbersOK, Ids
<1>3. \A i \in Ids : i # None  BY DEF Ids, None
<1>4. CallIsInOrder' /\ UnmintedIsUnused' /\ DraftHasTheId' /\ FormsAreOlder'
  BY <1>2 DEF Once, CallIsInOrder, UnmintedIsUnused, DraftHasTheId, FormsAreOlder, Alive
<1>5. OnlyTheDraftsIdIsAlive'  BY <1>2 DEF OnlyTheDraftsIdIsAlive
<1>6. OneAlivePerForm'  BY DEF Once, OneAlivePerForm, Alive, LapsedId
<1>7. UnsettledIsKept'  BY <1>3 DEF Once, UnsettledIsKept, LapsedId
<1> QED BY <1>4, <1>5, <1>6, <1>7 DEF Once

LEMMA OnceEdit ==
  ASSUME Typed, Once, Edit
  PROVE  Once'
<1> USE DEF sourceVars, rosterVars, rowVars, hubVars, draftVars
<1>1. /\ UNCHANGED <<minted, forms, starts, memory, kept, wire, lapsed, call>>
      /\ edits' = edits + 1 /\ draft.phase # "submitting" /\ draft' = Unheld("idle")
  BY DEF Edit
<1>2. draft'.id = None /\ draft'.phase = "idle"  BY <1>1, UnheldTyped DEF Typed, Phases
<1>3. call'.at = "none"  BY <1>1 DEF Once, DraftHasTheId
<1> QED BY <1>1, <1>2, <1>3, OnceNewForm

\* The draft settles: the id is kept, or nothing is alive under it that craze has not
\* forgotten.
LEMMA OnceSettle ==
  ASSUME Typed, Once, NEW outcome, draft' = Settle(outcome), call'.at = "none",
         UNCHANGED <<minted, edits, forms, starts, memory, kept, wire, lapsed>>,
         \/ outcome = "unknown" \/ draft.id = None
         \/ draft.id \notin wire /\ (starts[draft.id] = 0 \/ LapsedId(draft.id))
  PROVE  Once'
<1>1. /\ draft'.phase = (IF outcome = "unknown" THEN "unknown" ELSE "refused")
      /\ draft'.id = (IF outcome = "unknown" THEN draft.id ELSE None)
  BY SettleTyped DEF Typed
<1>2. CallIsInOrder' /\ UnmintedIsUnused' /\ FormsAreOlder' /\ OneAlivePerForm'
  BY DEF Once, CallIsInOrder, UnmintedIsUnused, FormsAreOlder, OneAlivePerForm, Alive, LapsedId
<1>3. DraftHasTheId'
  BY <1>1 DEF Once, DraftHasTheId
<1>4. OnlyTheDraftsIdIsAlive'
  <2>1. ASSUME NEW i \in Ids, i <= minted, forms[i].form = edits, i \in wire
        PROVE  i = draft'.id
    BY <1>1, <2>1 DEF Once, OnlyTheDraftsIdIsAlive, Ids, None
  <2>2. ASSUME NEW i \in Ids, i <= minted, forms[i].form = edits, starts[i] > 0
        PROVE  i = draft'.id \/ edits \in lapsed
    BY <1>1, <2>2 DEF Once, OnlyTheDraftsIdIsAlive, LapsedId, Ids, None
  <2> QED BY <2>1, <2>2 DEF OnlyTheDraftsIdIsAlive
<1>5. UnsettledIsKept'
  <2>1. \A i \in Ids : i = draft'.id => i = draft.id  BY <1>1 DEF Ids, None
  <2> QED BY <2>1 DEF Once, UnsettledIsKept, LapsedId
<1> QED BY <1>2, <1>3, <1>4, <1>5 DEF Once

LEMMA OnceLand ==
  ASSUME Typed, Once, Land
  PROVE  Once'
<1> USE DEF sourceVars, rosterVars, rowVars, hubVars, draftVars
<1>1. UNCHANGED <<minted, forms, starts, memory, kept, wire, lapsed>> /\ call' = NoCall
      /\ call.at = "answered"
  BY DEF Land
<1>2. call'.at = "none"  BY <1>1, NoCallTyped
<1>3. CASE call.answer = "ok"
  <2>1. draft' = [Unheld("idle") EXCEPT !.ended = Started(call.id) \notin LandRead]
        /\ edits' = edits + 1
    BY <1>3 DEF Land
  <2>2. Unheld("idle") \in DraftRecords /\ Unheld("idle").id = None /\ Unheld("idle").phase = "idle"
    BY UnheldTyped DEF Typed, Phases
  <2>3. draft'.id = None /\ draft'.phase = "idle"  BY <2>1, <2>2 DEF DraftRecords
  <2> QED BY <1>1, <1>2, <2>1, <2>3, OnceNewForm
<1>4. CASE call.answer # "ok"
  <2>1. draft' = Settle(call.answer) /\ edits' = edits  BY <1>4 DEF Land
  <2>2. call.answer \in {"unknown", "definite"}
    BY <1>1, <1>4 DEF Once, CallIsInOrder, Typed, CallOK, CallRecords
  <2>3. call.answer = "definite" =>
          draft.id \notin wire /\ (starts[draft.id] = 0 \/ LapsedId(draft.id))
    BY <1>1 DEF Once, OnlyTheDraftsIdIsAlive, DraftHasTheId
  <2> QED BY <1>1, <1>2, <2>1, <2>2, <2>3, OnceSettle
<1> QED BY <1>3, <1>4

LEMMA OnceSubmit ==
  ASSUME Typed, Once, NEW h \in Homes, Submit(h)
  PROVE  Once'
<1> USE DEF sourceVars, rosterVars, rowVars, hubVars, draftVars
<1> DEFINE id == IF draft.id # None THEN draft.id ELSE minted + 1
<1>1. /\ draft' = [draft EXCEPT !.phase = "submitting", !.id = id, !.home = SentHome(h)]
      /\ forms' = (IF draft.id # None THEN forms ELSE [forms EXCEPT ![id].form = edits])
      /\ call' = [NoCall EXCEPT !.at = "asked", !.src = current, !.id = id, !.held = Held(draft)]
      /\ minted' = (IF draft.id # None THEN minted ELSE minted + 1)
      /\ UNCHANGED <<edits, starts, memory, kept, wire, lapsed>> /\ draft.phase # "submitting"
      /\ draft.id # None \/ minted < MaxIds
  BY DEF Submit
<1>2. draft.id \in 0..MaxIds /\ minted \in 0..MaxIds
  BY DEF Typed, DraftOK, DraftRecords, NumbersOK
<1>3. id \in Ids /\ id # None /\ minted' \in Nat /\ minted \in Nat
  BY <1>1, <1>2, Bounds DEF Ids, None
<1> HIDE DEF id
<1>4. draft'.phase = "submitting" /\ draft'.id = id
  BY <1>1 DEF Typed, DraftOK, DraftRecords
<1>5. /\ call'.at = "asked" /\ call'.id = id /\ call'.held = Held(draft) /\ ~call'.again
  BY <1>1 DEF NoCall
<1>6. CallIsInOrder'  BY <1>5 DEF CallIsInOrder
<1>7. CASE draft.id # None
  <2>1. id = draft.id /\ forms' = forms /\ minted' = minted /\ Held(draft)
    BY <1>1, <1>7 DEF id, Held, Once, DraftHasTheId
  <2> QED BY <1>1, <1>3, <1>4, <1>5, <1>6, <1>7, <2>1
          DEF Once, UnmintedIsUnused, DraftHasTheId, FormsAreOlder, OnlyTheDraftsIdIsAlive,
              OneAlivePerForm, UnsettledIsKept, Alive, LapsedId
<1>8. CASE draft.id = None
  <2>1. id = minted + 1 /\ minted' = minted + 1 /\ forms' = [forms EXCEPT ![id].form = edits]
    BY <1>1, <1>8 DEF id
  <2>2. forms'[id].form = edits /\ \A i \in Ids : i # id => forms'[i].form = forms[i].form
    BY <1>3, <2>1 DEF Typed, FormsOK
  <2>3. \A i \in Ids : i <= minted' => i <= minted \/ i = id
    BY <1>3, <2>1 DEF Ids
  <2>4. ~Alive(id) /\ ~(starts[id] > 0) /\ starts[id] = 0
    BY <1>3, <2>1 DEF Once, UnmintedIsUnused, Alive, Typed, MemoryOK
  <2>5. \A i \in Ids : Alive(i)' <=> Alive(i)  BY <1>1 DEF Alive
  <2>6. \A i \in Ids : i # id => (LapsedId(i)' <=> LapsedId(i))  BY <1>1, <2>2 DEF LapsedId
  <2>7. \A i \in Ids : i <= minted => i # id  BY <1>3, <2>1 DEF Ids
  <2>8. \A i \in Ids : i <= minted /\ forms[i].form = edits => i \notin wire
                         /\ (starts[i] > 0 => edits \in lapsed)
    BY <1>8 DEF Once, OnlyTheDraftsIdIsAlive, Ids, None
  <2>9. wire \subseteq Ids /\ id \notin wire /\ \A i \in wire : i # id
    BY <2>4 DEF Alive, Typed, MemoryOK
  <2>10. UnmintedIsUnused'
    BY <1>1, <1>3, <2>1, <2>5 DEF Once, UnmintedIsUnused, Ids
  <2>11. DraftHasTheId'
    BY <1>1, <1>3, <1>4, <1>5, <2>1, <2>2 DEF DraftHasTheId
  <2>12. FormsAreOlder'
    <3>1. edits \in Nat  BY DEF Typed, NumbersOK
    <3> QED BY <1>1, <2>2, <2>3, <3>1 DEF Once, FormsAreOlder
  <2>13. OnlyTheDraftsIdIsAlive'
    <3>1. \A i \in Ids : i <= minted' /\ forms'[i].form = edits /\ i \in wire => i = id
      BY <2>2, <2>3, <2>7, <2>8
    <3>2. \A i \in Ids : i <= minted' /\ forms'[i].form = edits /\ starts[i] > 0
                          => i = id \/ edits \in lapsed
      BY <2>2, <2>3, <2>7, <2>8
    <3> QED BY <1>1, <1>4, <1>5, <2>4, <2>9, <3>1, <3>2 DEF OnlyTheDraftsIdIsAlive
  <2>14. OneAlivePerForm'
    <3>1. \A i, j \in wire : forms'[i].form = forms'[j].form => i = j
      BY <2>2, <2>9 DEF Once, OneAlivePerForm
    <3>2. \A i, j \in Ids : i <= minted' /\ j <= minted' /\ forms'[i].form = forms'[j].form
                             /\ Alive(i) /\ Alive(j) => i = j \/ LapsedId(i)'
      BY <2>2, <2>3, <2>4, <2>6, <2>7 DEF Once, OneAlivePerForm
    <3>3. \A i \in Ids : starts[i] > 1 => LapsedId(i)'
      BY <2>4, <2>6 DEF Once, OneAlivePerForm
    <3> QED BY <1>1, <2>5, <3>1, <3>2, <3>3 DEF OneAlivePerForm
  <2>15. UnsettledIsKept'
    <3>1. \A i \in Ids : starts[i] > 0 => i # id  BY <2>4
    <3> QED BY <1>1, <1>4, <2>6, <3>1 DEF Once, UnsettledIsKept
  <2> QED BY <1>6, <2>10, <2>11, <2>12, <2>13, <2>14, <2>15 DEF Once
<1> QED BY <1>7, <1>8

LEMMA OnceStep ==
  ASSUME Typed, Once, [Next]_vars
  PROVE  Once'
<1> USE DEF sourceVars, rosterVars, rowVars, hubVars, draftVars
<1>1. CASE UNCHANGED <<minted, edits, draft, call, starts, memory, kept, wire, lapsed, forms>>
  BY <1>1, OnceUnchanged
<1>2. CASE SubmitNowhere
  <2>1. draft' = Settle(IF Held(draft) THEN "unknown" ELSE "definite")
        /\ UNCHANGED <<minted, edits, forms, starts, memory, kept, wire, lapsed, call>>
        /\ draft.phase # "submitting"
    BY <1>2 DEF SubmitNowhere
  <2>2. ~Held(draft) => draft.id = None  BY <2>1 DEF Held, Once, DraftHasTheId
  <2>3. call'.at = "none"  BY <2>1 DEF Once, DraftHasTheId
  <2> QED BY <2>1, <2>2, <2>3, OnceSettle
<1> QED BY <1>1, <1>2, OnceCalls, OnceHub, OnceForget, OnceSend, OnceEdit, OnceLand, OnceSubmit
        DEF Next, OpenSource, CloseSource, SeedBegins, SeedReady, StaleReady, LinkLost,
            TellSession, TellRemoved, SessionEnds, Pull, vars

\* One press of Create, however often it is tried again, starts at most one session, as long
\* as craze has not forgotten the request while it could be sent again or was under way.
THEOREM OneSession == Spec => []OneSessionPerForm
<1> DEFINE I == Typed /\ Once
<1>1. Init => I  BY TypeInit, OnceInit
<1>2. I /\ [Next]_vars => I'  BY TypeStep, OnceStep
<1>3. I => OneSessionPerForm
  <2> SUFFICES ASSUME I, NEW r \in Begun, NEW t \in Begun, FormOf(r) = FormOf(t),
                      FormOf(r) \notin lapsed
               PROVE  r = t
    BY DEF OneSessionPerForm
  <2>1. /\ r = <<r[1], r[2]>> /\ r[1] \in Ids /\ r[2] \in 1..MaxStarts /\ r[2] <= starts[r[1]]
        /\ t = <<t[1], t[2]>> /\ t[1] \in Ids /\ t[2] \in 1..MaxStarts /\ t[2] <= starts[t[1]]
    BY DEF Begun, Sessions
  <2>2. starts[r[1]] \in Nat /\ starts[t[1]] \in Nat /\ starts[r[1]] > 0 /\ starts[t[1]] > 0
    BY <2>1, Bounds DEF Typed, MemoryOK
  <2>3. r[1] <= minted /\ t[1] <= minted
    BY <2>1, <2>2 DEF Once, UnmintedIsUnused, Alive, Ids, Typed, NumbersOK
  <2>4. r[1] = t[1]
    BY <2>1, <2>2, <2>3 DEF Once, OneAlivePerForm, Alive, LapsedId, FormOf
  <2>5. ~(starts[r[1]] > 1)  BY <2>1 DEF Once, OneAlivePerForm, LapsedId, FormOf
  <2>6. r[2] = 1 /\ t[2] = 1  BY <2>1, <2>2, <2>4, <2>5, Bounds
  <2> QED BY <2>1, <2>4, <2>6
<1> QED BY <1>1, <1>2, <1>3, PTL DEF Spec

\* A refusal the draft takes for definite is one: no session of this form was started,
\* unless craze forgot it, and none can be.
THEOREM RefusalIsDefinite == Spec => []RefusedMeansNothingStarted
<1> DEFINE I == Typed /\ Once
<1>1. Init => I  BY TypeInit, OnceInit
<1>2. I /\ [Next]_vars => I'  BY TypeStep, OnceStep
<1>3. I => RefusedMeansNothingStarted
  <2> SUFFICES ASSUME I, draft.phase = "refused", NEW i \in 1..minted, forms[i].form = edits
               PROVE  i \notin wire /\ (starts[i] = 0 \/ edits \in lapsed)
    BY DEF RefusedMeansNothingStarted
  <2>1. draft.id = None  BY DEF Once, DraftHasTheId
  <2>2. i \in Ids /\ i <= minted /\ i # None
    BY Bounds DEF Ids, None, Typed, NumbersOK
  <2>3. starts[i] = 0 \/ starts[i] > 0  BY <2>2, Bounds DEF Typed, MemoryOK
  <2> QED BY <2>1, <2>2, <2>3 DEF Once, OnlyTheDraftsIdIsAlive
<1> QED BY <1>1, <1>2, <1>3, PTL DEF Spec
-----------------------------------------------------------------------------
(* What a create says of its session.                                      *)

Ends == StartedOnly /\ SourcesInOrder /\ CreatedIsThere

LEMMA EndsInit == Init => Ends
BY Bounds DEF Init, Ends, StartedOnly, SourcesInOrder, CreatedIsThere, EmptyView, NoCall, None

LEMMA EndsUnchanged ==
  ASSUME Ends, UNCHANGED <<live, view, said, tombs, created, starts, current, opened, call, landed>>,
         draft'.ended = draft.ended
  PROVE  Ends'
BY DEF Ends, StartedOnly, SourcesInOrder, CreatedIsThere, Snapshot, Started, Begun

\* The roster is told something: what was shown and still runs stays shown.
LEMMA EndsTold ==
  ASSUME Typed, Ends,
         UNCHANGED <<live, starts, current, opened, call, landed, draft>>,
         view'.rows \cup said' \cup tombs' \subseteq Begun,
         tombs' \cap live = {}, Snapshot \cap live \subseteq Snapshot'
  PROVE  Ends'
BY DEF Ends, StartedOnly, SourcesInOrder, CreatedIsThere, Started, Begun

LEMMA EndsFold ==
  ASSUME Typed, FoldFollows, Ends,
         \/ SeedBegins \/ LinkLost \/ SeedReady
         \/ \E g \in 1..MaxSeeds : StaleReady(g)
         \/ \E t \in Sessions : TellSession(t) \/ TellRemoved(t)
  PROVE  Ends'
<1> USE DEF sourceVars, rosterVars, rowVars, hubVars, draftVars
<1>1. UNCHANGED <<live, starts, current, opened, call, landed, draft>>
  BY DEF SeedBegins, LinkLost, SeedReady, StaleReady, TellSession, TellRemoved
<1>2. CASE SeedBegins
  <2>1. view'.rows = view.rows /\ said' = {} /\ UNCHANGED <<tombs, created>>
    BY <1>2 DEF SeedBegins, ApplyReset, Typed, ViewOK, Views
  <2> QED BY <1>1, <2>1, EndsTold DEF Ends, StartedOnly, Snapshot
<1>3. CASE LinkLost
  <2>1. view'.rows = view.rows /\ said' = {} /\ UNCHANGED <<tombs, created>>
    BY <1>3 DEF LinkLost, ApplyOffline, Typed, ViewOK, Views
  <2> QED BY <1>1, <2>1, EndsTold DEF Ends, StartedOnly, Snapshot
<1>4. CASE SeedReady
  <2>1. view.gen = seeds /\ view.staged = said  BY <1>4 DEF SeedReady, FoldFollows
  <2>2. view'.rows = said /\ said' = said /\ tombs' = tombs /\ live \subseteq said
    BY <1>4, <2>1 DEF SeedReady, ApplyReady
  <2> QED BY <1>1, <2>2, EndsTold DEF Ends, StartedOnly, Snapshot
<1>5. ASSUME NEW t \in Sessions, TellSession(t)  PROVE Ends'
  <2>1. view' = ApplySession(view, t) /\ t \in live /\ tombs' = tombs /\ said' = said \cup {t}
        /\ created' = created \ view'.rows
    BY <1>5 DEF TellSession, Listed
  <2>2. view.rows \subseteq view'.rows /\ view'.rows \subseteq view.rows \cup {t}
    BY <2>1, FoldSteps
  <2>3. view'.rows \cup said' \cup tombs' \subseteq Begun
    BY <2>1, <2>2 DEF Ends, StartedOnly
  <2> QED BY <1>1, <2>1, <2>2, <2>3, EndsTold DEF Ends, StartedOnly, Snapshot
<1>6. ASSUME NEW t \in Sessions, TellRemoved(t)  PROVE Ends'
  <2>1. view' = ApplyRemoved(view, t) /\ t \in said \ live /\ tombs' = tombs \cup {t}
        /\ created' = created /\ said' = said \ {t}
    BY <1>6 DEF TellRemoved
  <2>2. view.rows \ {t} \subseteq view'.rows /\ view'.rows \subseteq view.rows
    BY <2>1, FoldSteps
  <2> QED BY <1>1, <2>1, <2>2, EndsTold DEF Ends, StartedOnly, Snapshot
<1>7. ASSUME NEW g \in 1..MaxSeeds, StaleReady(g)  PROVE Ends'
  <2>1. view' = view /\ UNCHANGED <<said, tombs>> /\ created' = created \ view'.rows
    BY <1>7, StaleChangesNothing DEF StaleReady, Listed
  <2> QED BY <1>1, <2>1, EndsTold DEF Ends, StartedOnly, Snapshot
<1> QED BY <1>2, <1>3, <1>4, <1>5, <1>6, <1>7

LEMMA EndsSource ==
  ASSUME Typed, Ends, OpenSource \/ CloseSource
  PROVE  Ends'
<1> USE DEF sourceVars, rosterVars, rowVars, hubVars, draftVars
<1>1. UNCHANGED <<live, starts, call, landed, draft>>  BY DEF OpenSource, CloseSource
<1>2. current' <= opened' /\ call.src <= opened'
      /\ (call.at # "none" => call.src # current')
  BY DEF OpenSource, CloseSource, Ends, SourcesInOrder, Typed, NumbersOK, CallOK, CallRecords,
         None
<1>3. view'.rows \subseteq view.rows /\ said' \subseteq said /\ tombs' \subseteq tombs
  BY DEF OpenSource, CloseSource, EmptyView
<1>4. StartedOnly'  BY <1>1, <1>3 DEF Ends, StartedOnly, Begun
<1>5. SourcesInOrder'  BY <1>1, <1>2 DEF Ends, SourcesInOrder
<1>6. CreatedIsThere'
  BY <1>1, <1>2 DEF Ends, CreatedIsThere, Begun
<1> QED BY <1>4, <1>5, <1>6 DEF Ends

\* A session ends.
LEMMA EndsSession ==
  ASSUME Typed, Ends, NEW t \in Sessions, SessionEnds(t)
  PROVE  Ends'
<1> USE DEF sourceVars, rosterVars, rowVars, hubVars, draftVars
<1>1. /\ UNCHANGED <<starts, view, said, tombs, created, current, opened, call, landed, draft>>
      /\ live' = live \ {t}
  BY DEF SessionEnds
<1> QED BY <1>1 DEF Ends, StartedOnly, SourcesInOrder, CreatedIsThere, Snapshot, Started, Begun

\* A session begins: it is another one than all that were known of, and the call that has
\* its answer is not the one it begins for.
LEMMA EndsHub ==
  ASSUME Typed, Once, Ends, NEW i \in Ids, HubTakes(i)
  PROVE  Ends'
<1> USE DEF sourceVars, rosterVars, rowVars, hubVars, draftVars
<1>1. UNCHANGED <<view, said, tombs, created, current, opened, call, landed, draft>>
  BY DEF HubTakes
<1>2. CASE UNCHANGED <<starts, live>>
  BY <1>1, <1>2, EndsUnchanged
<1> DEFINE n == <<i, starts[i] + 1>>
<1>3. CASE /\ starts'[i] = starts[i] + 1 /\ starts[i] \in Nat /\ i \in wire
           /\ live' = live \cup {n}
           /\ \A j \in Ids : j # i => starts'[j] = starts[j]
           /\ starts[i] < MaxStarts
  <2>1. n \in Sessions /\ n[1] = i /\ n[2] = starts[i] + 1
    <3>1. starts[i] + 1 \in 1..MaxStarts  BY <1>3, Bounds
    <3> QED BY <3>1 DEF Sessions
  <2>2. n \notin Begun
    <3>1. ~(starts[i] + 1 <= starts[i])  BY <1>3
    <3> QED BY <2>1, <3>1 DEF Begun
  <2> HIDE DEF n
  <2>3. \A j \in Ids : starts[j] <= starts'[j]
    <3>1. \A j \in Ids : starts[j] <= starts[j]  BY Bounds DEF Typed, MemoryOK
    <3>2. starts[i] <= starts'[i]  BY <1>3
    <3> QED BY <1>3, <3>1, <3>2
  <2>4. Begun \subseteq Begun'
    <3> SUFFICES ASSUME NEW t \in Begun  PROVE t \in Begun'  OBVIOUS
    <3>1. t \in Sessions /\ t[1] \in Ids /\ t[2] \in Nat /\ t[2] <= starts[t[1]]
      BY DEF Begun, Sessions
    <3>2. starts[t[1]] \in Nat  BY <3>1, Bounds DEF Typed, MemoryOK
    <3>3. starts'[t[1]] \in Nat  BY <1>3, <3>1, <3>2
    <3>4. t[2] <= starts'[t[1]]  BY <2>3, <3>1, <3>2, <3>3
    <3> QED BY <3>1, <3>4 DEF Begun
  <2>5. n \in Begun'
    <3>1. starts[i] + 1 <= starts'[i]  BY <1>3
    <3> QED BY <2>1, <3>1 DEF Begun
  <2>6. StartedOnly'
    BY <1>1, <1>3, <2>2, <2>4, <2>5 DEF Ends, StartedOnly
  <2>7. SourcesInOrder'  BY <1>1 DEF Ends, SourcesInOrder
  <2>8. CreatedIsThere'
    <3>1. call.at = "answered" /\ call.answer = "ok" =>
            call.id \in Ids /\ call.id # i /\ starts[call.id] > 0
      BY <1>3, Bounds DEF Once, CallIsInOrder, Typed, CallOK, CallRecords, Ids, None
    <3>2. call.at = "answered" /\ call.answer = "ok" =>
            Started(call.id)' = Started(call.id) /\ Started(call.id) \in Begun
      BY <1>1, <1>3, <3>1, StartedTyped DEF Started, Typed
    <3> QED BY <1>1, <1>3, <2>2, <2>4, <3>2 DEF Ends, CreatedIsThere, Snapshot
  <2> QED BY <2>6, <2>7, <2>8 DEF Ends
<1>4. \/ UNCHANGED <<starts, live>>
      \/ /\ starts'[i] = starts[i] + 1 /\ starts[i] \in Nat /\ i \in wire
         /\ live' = live \cup {n}
         /\ \A j \in Ids : j # i => starts'[j] = starts[j]
         /\ starts[i] < MaxStarts
  <2>1. UNCHANGED <<starts, live>> \/ starts[i] < MaxStarts  BY DEF HubTakes
  <2> QED BY <2>1, Taking
<1> QED BY <1>2, <1>3, <1>4

LEMMA EndsCall ==
  ASSUME Typed, Ends, Begin \/ DialFails \/ Send \/ Reply \/ ReplyLost \/ Cut
  PROVE  Ends'
<1> USE DEF sourceVars, rosterVars, rowVars, hubVars, draftVars
<1>1. UNCHANGED <<live, starts, view, said, tombs, current, opened, landed, draft>>
      /\ call.at # "none"
  BY DEF Begin, DialFails, Send, Reply, ReplyLost, Cut
<1>2. call'.src = call.src /\ call'.id = call.id
  BY DEF Begin, DialFails, Send, Reply, ReplyLost, Cut, Answer, Typed, CallOK, CallRecords
<1>3. call'.at = "answered" /\ call'.answer = "ok" =>
        Reply /\ created' = created \cup ({Started(call.id)} \ (tombs \cup view.rows))
  BY DEF Begin, DialFails, Send, Reply, ReplyLost, Cut, Answer, Typed, CallOK, CallRecords
<1>4. StartedOnly' /\ SourcesInOrder'
  BY <1>1, <1>2 DEF Ends, StartedOnly, SourcesInOrder, Begun
<1>5. Started(call.id)' = Started(call.id)  BY <1>1, <1>2 DEF Started
<1>6. CreatedIsThere'
  <2>1. call'.at = "answered" /\ call'.answer = "ok" =>
          (Started(call.id) \in Snapshot \/ Started(call.id) \notin live)'
    BY <1>1, <1>2, <1>3, <1>5 DEF Ends, StartedOnly, Snapshot, Started
  <2>2. draft'.ended => landed'.session \in Begun' /\ (landed'.current => landed'.session \notin live')
    BY <1>1 DEF Ends, CreatedIsThere, Begun
  <2> QED BY <2>1, <2>2 DEF CreatedIsThere
<1> QED BY <1>4, <1>6 DEF Ends

LEMMA EndsDraft ==
  ASSUME Typed, Ends, Edit \/ SubmitNowhere \/ Land \/ \E h \in Homes : Submit(h)
  PROVE  Ends'
<1> USE DEF sourceVars, rosterVars, rowVars, hubVars, draftVars
<1>1. UNCHANGED <<live, starts, view, said, tombs, created, current, opened>>
  BY DEF Edit, SubmitNowhere, Land, Submit
<1>2. StartedOnly'  BY <1>1 DEF Ends, StartedOnly, Begun
<1>3. CASE Edit \/ SubmitNowhere
  <2>1. draft'.ended = draft.ended
    BY <1>3, UnheldTyped, SettleTyped DEF Edit, SubmitNowhere, Typed, Phases
  <2>2. UNCHANGED <<call, landed>>  BY <1>3 DEF Edit, SubmitNowhere
  <2> QED BY <1>1, <2>1, <2>2, EndsUnchanged
<1>4. ASSUME NEW h \in Homes, Submit(h)  PROVE Ends'
  <2>1. draft'.ended = draft.ended /\ landed' = landed
    BY <1>4 DEF Submit, Typed, DraftOK, DraftRecords
  <2>2. call'.at = "asked" /\ call'.src = current /\ current # None
    BY <1>4 DEF Submit, NoCall
  <2> QED BY <1>1, <1>2, <2>1, <2>2 DEF Ends, SourcesInOrder, CreatedIsThere, Begun
<1>5. CASE Land
  <2>1. call'.at = "none" /\ call'.src = None /\ call.at = "answered"
    BY <1>5 DEF Land, NoCall
  <2>2. SourcesInOrder'
    BY <1>1, <2>1 DEF Ends, SourcesInOrder, Typed, NumbersOK, None
  <2>3. CASE call.answer # "ok"
    <3>1. draft'.ended = draft.ended /\ landed' = landed
      BY <1>5, <2>3, SettleTyped DEF Land, Typed
    <3> QED BY <1>1, <1>2, <2>1, <2>2, <3>1 DEF Ends, CreatedIsThere, Begun
  <2>4. CASE call.answer = "ok"
    <3>1. draft' = [Unheld("idle") EXCEPT !.ended = Started(call.id) \notin LandRead]
          /\ landed' = [session |-> Started(call.id), current |-> call.src = current]
      BY <1>5, <2>4 DEF Land
    <3>2. draft'.ended => Started(call.id) \notin LandRead
      <4>1. Unheld("idle") \in DraftRecords  BY UnheldTyped DEF Typed, Phases
      <4> QED BY <3>1, <4>1 DEF DraftRecords
    <3>3. landed'.session = Started(call.id) /\ (landed'.current => call.src = current)
      BY <3>1
    <3>4. Started(call.id) \in Begun
      <4>1. call.id \in Ids  BY <2>1, Bounds DEF Typed, CallOK, CallRecords, Ids, None
      <4>2. starts[call.id] > 0  BY <2>1, <2>4 DEF Typed, CallOK
      <4> QED BY <4>1, <4>2, StartedTyped DEF Typed
    <3>5. call.src = current => Started(call.id) \in Snapshot \/ Started(call.id) \notin live
      BY <2>1, <2>4 DEF Ends, CreatedIsThere
    <3>6. CreatedIsThere'
      BY <1>1, <2>1, <3>2, <3>3, <3>4, <3>5 DEF CreatedIsThere, LandRead, Begun
    <3> QED BY <1>2, <2>2, <3>6 DEF Ends
  <2> QED BY <2>3, <2>4
<1> QED BY <1>3, <1>4, <1>5

LEMMA EndsStep ==
  ASSUME Typed, FoldFollows, Once, Ends, [Next]_vars
  PROVE  Ends'
<1> USE DEF sourceVars, rosterVars, rowVars, hubVars, draftVars
<1>1. CASE Pull \/ UNCHANGED vars \/ \E i \in Ids : Forget(i)
  BY <1>1, EndsUnchanged DEF Pull, Forget, vars
<1> QED BY <1>1, EndsFold, EndsSource, EndsSession, EndsHub, EndsCall, EndsDraft DEF Next

\* A created session is said to have ended only when it has.
THEOREM SaidEndedIsTrue == Spec => []SaidEndedHasEnded
<1> DEFINE I == Typed /\ FoldFollows /\ Once /\ Ends
<1>1. Init => I  BY TypeInit, FoldInit, OnceInit, EndsInit
<1>2. I /\ [Next]_vars => I'  BY TypeStep, FoldStep, OnceStep, EndsStep
<1>3. I => SaidEndedHasEnded  BY DEF Ends, CreatedIsThere, SaidEndedHasEnded
<1> QED BY <1>1, <1>2, <1>3, PTL DEF Spec
-----------------------------------------------------------------------------
(* What is sent under an id.                                               *)

\* Only the draft's id is sent, always with the home the draft holds.
SentWithItsHome ==
  /\ \A i \in Ids : i > minted => forms[i].sent = {}
  /\ draft.id # None => forms[draft.id].sent \subseteq {draft.home}
  /\ \A i \in Ids : \E h \in Homes \cup {NoHome} : forms[i].sent \subseteq {h}

LEMMA SentInit == Init => SentWithItsHome
<1> SUFFICES ASSUME Init PROVE SentWithItsHome  OBVIOUS
<1>1. draft.id = None /\ \A i \in Ids : forms[i].sent = {}  BY DEF Init
<1>2. \A i \in Ids : \E h \in Homes \cup {NoHome} : forms[i].sent \subseteq {h}
  <2>1. NoHome \in Homes \cup {NoHome}  OBVIOUS
  <2> QED BY <1>1, <2>1
<1> QED BY <1>1, <1>2 DEF SentWithItsHome

LEMMA SentStep ==
  ASSUME Typed, Once, SentWithItsHome, [Next]_vars
  PROVE  SentWithItsHome'
<1> USE DEF sourceVars, rosterVars, rowVars, hubVars, draftVars
<1>1. ASSUME UNCHANGED <<minted, forms>>,
             draft'.id # None => draft'.id = draft.id /\ draft'.home = draft.home
      PROVE  SentWithItsHome'
  BY <1>1 DEF SentWithItsHome
<1>2. CASE UNCHANGED <<minted, forms, draft>>  BY <1>1, <1>2
<1>3. CASE Edit
  BY <1>1, <1>3, UnheldTyped DEF Edit, Typed, Phases
<1>4. CASE SubmitNowhere
  BY <1>1, <1>4, SettleTyped DEF SubmitNowhere, Typed
<1>5. CASE Land
  <2>1. CASE call.answer = "ok"
    <3>1. draft' = [Unheld("idle") EXCEPT !.ended = Started(call.id) \notin LandRead]
      BY <1>5, <2>1 DEF Land
    <3>2. Unheld("idle") \in DraftRecords /\ Unheld("idle").id = None
      BY UnheldTyped DEF Typed, Phases
    <3>3. draft'.id = None  BY <3>1, <3>2 DEF DraftRecords
    <3> QED BY <1>1, <1>5, <3>3 DEF Land
  <2>2. CASE call.answer # "ok"
    BY <1>1, <1>5, <2>2, SettleTyped DEF Land, Typed
  <2> QED BY <2>1, <2>2
<1>6. CASE Send
  <2>1. UNCHANGED <<minted, draft>>
        /\ forms' = [forms EXCEPT ![call.id].sent = @ \cup {draft.home}]
    BY <1>6 DEF Send
  <2>2. /\ call.id = draft.id /\ call.id \in Ids /\ call.id <= minted /\ draft.id # None
        /\ minted \in Nat
    BY <1>6, Bounds DEF Send, Once, DraftHasTheId, Typed, CallOK, CallRecords, NumbersOK, Ids, None
  <2>3. draft.home \in Homes \cup {NoHome}  BY DEF Typed, DraftOK, DraftRecords
  <2>4. forms'[call.id].sent \subseteq {draft.home}
    BY <2>1, <2>2 DEF Typed, FormsOK, SentWithItsHome
  <2>5. \A i \in Ids : i # call.id => forms'[i] = forms[i]
    BY <2>1 DEF Typed, FormsOK
  <2> QED BY <2>1, <2>2, <2>3, <2>4, <2>5 DEF SentWithItsHome, Ids
<1>7. ASSUME NEW h \in Homes, Submit(h)  PROVE SentWithItsHome'
  <2>1. draft.id \in 0..MaxIds /\ minted \in 0..MaxIds
    BY DEF Typed, DraftOK, DraftRecords, NumbersOK
  <2>2. CASE draft.id # None
    <3>1. draft' = [draft EXCEPT !.phase = "submitting", !.id = draft.id, !.home = draft.home]
          /\ UNCHANGED <<minted, forms>>
      BY <1>7, <2>2 DEF Submit, SentHome
    <3> QED BY <1>1, <3>1 DEF Typed, DraftOK, DraftRecords
  <2>3. CASE draft.id = None
    <3> DEFINE id == minted + 1
    <3>1. /\ forms' = [forms EXCEPT ![id].form = edits] /\ minted' = id
          /\ draft' = [draft EXCEPT !.phase = "submitting", !.id = id, !.home = SentHome(h)]
          /\ minted < MaxIds
      BY <1>7, <2>3 DEF Submit
    <3>2. id \in Ids /\ id > minted  BY <2>1, <3>1, Bounds DEF Ids
    <3>3. \A i \in Ids : forms'[i].sent = forms[i].sent
      BY <3>1, <3>2 DEF Typed, FormsOK
    <3>4. draft'.id = id  BY <3>1 DEF Typed, DraftOK, DraftRecords
    <3>5. forms'[id].sent = {}  BY <3>2, <3>3 DEF SentWithItsHome
    <3>6. \A i \in Ids : i > minted' => i > minted  BY <2>1, <3>1 DEF Ids
    <3> QED BY <3>3, <3>4, <3>5, <3>6 DEF SentWithItsHome
  <2> QED BY <2>2, <2>3
<1> QED BY <1>2, <1>3, <1>4, <1>5, <1>6, <1>7
        DEF Next, OpenSource, CloseSource, SeedBegins, SeedReady, StaleReady, LinkLost,
            TellSession, TellRemoved, SessionEnds, HubTakes, Forget, Begin, DialFails, Reply,
            ReplyLost, Cut, Pull, vars

\* Whatever is sent under one id is the same request.
THEOREM RetriesAreTheSame == Spec => []RetriesSendTheSame
<1> DEFINE I == Typed /\ Once /\ SentWithItsHome
<1>1. Init => I  BY TypeInit, OnceInit, SentInit
<1>2. I /\ [Next]_vars => I'  BY TypeStep, OnceStep, SentStep
<1>3. I => RetriesSendTheSame
  <2> SUFFICES ASSUME I, NEW i \in Ids  PROVE Cardinality(forms[i].sent) <= 1
    BY DEF RetriesSendTheSame
  <2>1. PICK h : forms[i].sent \subseteq {h}  BY DEF SentWithItsHome
  <2>2. Cardinality({}) = 0 /\ Cardinality({h}) = 1  BY FS_EmptySet, FS_Singleton
  <2>3. forms[i].sent = {} \/ forms[i].sent = {h}  BY <2>1
  <2> QED BY <2>2, <2>3
<1> QED BY <1>1, <1>2, <1>3, PTL DEF Spec

-----------------------------------------------------------------------------
(* The contract.                                                           *)

\* An outcome that is unknown is that of the id the draft keeps.
UnknownHasId == draft.phase = "unknown" => draft.id # None

LEMMA UnknownStep ==
  ASSUME Typed, Once, UnknownHasId, [Next]_vars
  PROVE  UnknownHasId'
<1> USE DEF sourceVars, rosterVars, rowVars, hubVars, draftVars
<1>1. CASE draft' = draft  BY <1>1 DEF UnknownHasId
<1>2. CASE Edit  BY <1>2, UnheldTyped DEF Edit, UnknownHasId, Typed, Phases
<1>3. CASE SubmitNowhere
  <2>1. draft' = Settle(IF Held(draft) THEN "unknown" ELSE "definite")  BY <1>3 DEF SubmitNowhere
  <2> QED BY <2>1, SettleTyped DEF UnknownHasId, Typed, Held
<1>4. ASSUME NEW h \in Homes, Submit(h)  PROVE UnknownHasId'
  <2>1. draft'.phase = "submitting"
    BY <1>4 DEF Submit, Typed, DraftOK, DraftRecords
  <2> QED BY <2>1 DEF UnknownHasId
<1>5. CASE Land
  <2>1. CASE call.answer = "ok"
    <3>1. draft' = [Unheld("idle") EXCEPT !.ended = Started(call.id) \notin LandRead]
      BY <1>5, <2>1 DEF Land
    <3>2. Unheld("idle") \in DraftRecords /\ Unheld("idle").phase = "idle"
      BY UnheldTyped DEF Typed, Phases
    <3>3. draft'.phase = "idle"  BY <3>1, <3>2 DEF DraftRecords
    <3> QED BY <3>3 DEF UnknownHasId
  <2>2. CASE call.answer # "ok"
    <3>1. draft' = Settle(call.answer) /\ call.at = "answered"  BY <1>5, <2>2 DEF Land
    <3>2. draft.id # None  BY <3>1 DEF Once, DraftHasTheId
    <3> QED BY <3>1, <3>2, SettleTyped DEF UnknownHasId, Typed
  <2> QED BY <2>1, <2>2
<1> QED BY <1>1, <1>2, <1>3, <1>4, <1>5
        DEF Next, OpenSource, CloseSource, SeedBegins, SeedReady, StaleReady, LinkLost,
            TellSession, TellRemoved, SessionEnds, HubTakes, Forget, Begin, DialFails, Send, Reply,
            ReplyLost, Cut, Pull, vars

\* What is alive was minted, for a form that is not newer than the sheet's; for the
\* sheet's own form the draft's id is on the wire, which is being submitted or whose
\* outcome is unknown.
LEMMA AliveIs ==
  ASSUME Typed, Once, NEW i \in Ids, Alive(i)
  PROVE  /\ i <= minted /\ forms[i].form \in 0..edits
         /\ forms[i].form = edits /\ i \in wire => i = draft.id
<1>1. i <= minted  BY DEF Once, UnmintedIsUnused, Ids, Typed, NumbersOK
<1>2. forms[i].form \in 0..edits
  BY <1>1 DEF Once, FormsAreOlder, Typed, FormsOK, NumbersOK
<1>3. forms[i].form = edits /\ i \in wire => i = draft.id
  BY <1>1 DEF Once, OnlyTheDraftsIdIsAlive
<1> QED BY <1>1, <1>2, <1>3

\* An id that may be taken again is one of a form that is under way.
LEMMA UnsettledIsUnderWay ==
  ASSUME Typed, Once, NEW i \in Ids, Unsettled(i)
  PROVE  forms[i].form \in 0..edits /\ Contract!UnderWay(forms[i].form)
<1>1. Alive(i) /\ i # None  BY DEF Unsettled, Alive, Ids, None
<1>2. i = draft.id => forms[i].form = edits /\ draft.phase \in {"submitting", "unknown"}
  BY <1>1 DEF Once, DraftHasTheId
<1>3. i \in wire /\ forms[i].form # edits => forms[i].form \in ContractLoose
  BY DEF ContractLoose
<1> QED BY <1>1, <1>2, <1>3, AliveIs DEF Unsettled, Contract!UnderWay

LEMMA MadeIs ==
  ASSUME NEW f
  PROVE  f \in ContractMade <=> \E i \in Ids : starts[i] > 0 /\ forms[i].form = f
BY DEF ContractMade, StartedIds

\* Unless craze forgot the form, no session was made of it before the call's end is a
\* definite refusal, or without a call.
LEMMA NoneMade ==
  ASSUME Typed, Once, draft.id = None \/ starts[draft.id] = 0 \/ LapsedId(draft.id),
         draft.id # None => forms[draft.id].form = edits
  PROVE  edits \in ContractMade => edits \in lapsed
<1> SUFFICES ASSUME NEW i \in Ids, starts[i] > 0, forms[i].form = edits
             PROVE  edits \in lapsed
  BY MadeIs
<1>1. Alive(i) /\ i # None  BY DEF Alive, Ids, None
<1>2. i = draft.id \/ edits \in lapsed
  BY <1>1, AliveIs DEF Once, OnlyTheDraftsIdIsAlive
<1> QED BY <1>1, <1>2 DEF LapsedId

\* What was made stays so when no session starts.
LEMMA MadeStays ==
  ASSUME Typed, starts' = starts, \A i \in Ids : starts[i] > 0 => forms'[i].form = forms[i].form
  PROVE  ContractMade' = ContractMade /\ ContractAgain' = ContractAgain
<1>1. StartedIds' = StartedIds  BY DEF StartedIds
<1>2. \A i \in StartedIds : forms'[i].form = forms[i].form  BY DEF StartedIds
<1>3. ContractMade' = ContractMade  BY <1>1, <1>2 DEF ContractMade
<1>4. ContractAgain' = ContractAgain  BY <1>1, <1>2 DEF ContractAgain
<1> QED BY <1>3, <1>4

\* What the hub knows of the forms, when a step leaves it all alone.
LEMMA HubStays ==
  ASSUME UNCHANGED <<starts, wire, edits>>, \A i \in Ids : forms'[i].form = forms[i].form, Typed
  PROVE  /\ ContractMade' = ContractMade /\ ContractAgain' = ContractAgain
         /\ ContractLoose' = ContractLoose
<1>1. wire \subseteq Ids  BY DEF Typed, MemoryOK
<1>2. ContractLoose' = ContractLoose  BY <1>1 DEF ContractLoose
<1> QED BY <1>2, MadeStays

LEMMA TakingIsMakeOrDrop ==
  ASSUME Typed, Once, NEW i \in Ids, HubTakes(i)
  PROVE  Contract!ContractNext
<1> USE DEF sourceVars, rosterVars, rowVars, hubVars, draftVars
<1> DEFINE f == forms[i].form
           n == <<i, starts[i] + 1>>
<1>1. UNCHANGED <<draft, edits, forms, lapsed>> /\ i \in wire /\ wire' = wire \ {i}
      /\ wire \subseteq Ids
  BY Taking DEF Typed, MemoryOK
<1>2. f \in 0..edits /\ Contract!UnderWay(f)  BY <1>1, UnsettledIsUnderWay DEF Unsettled
<1>3. Alive(i) /\ i <= minted  BY <1>1, AliveIs DEF Alive
<1>4. ContractLoose' = ContractLoose \ {f}
  <2>1. \A j \in wire : forms[j].form = f => j = i  BY <1>1 DEF Once, OneAlivePerForm
  <2> QED BY <1>1, <2>1 DEF ContractLoose
<1>5. CASE starts' = starts
  <2>1. ContractMade' = ContractMade /\ ContractAgain' = ContractAgain
    BY <1>1, <1>5, MadeStays
  <2>2. Contract!Drop(f)  BY <1>1, <1>4, <2>1 DEF Contract!Drop
  <2> QED BY <1>2, <2>2 DEF Contract!ContractNext
<1>6. CASE /\ i \notin kept /\ starts'[i] = starts[i] + 1 /\ starts[i] \in Nat
           /\ starts' = [starts EXCEPT ![i] = starts[i] + 1] /\ starts[i] < MaxStarts
  <2>1. f \in ContractMade => f \in lapsed
    <3> SUFFICES ASSUME NEW j \in Ids, starts[j] > 0, forms[j].form = f
                 PROVE  f \in lapsed
      BY MadeIs
    <3>1. CASE j = i  BY <1>1, <1>6, <3>1 DEF Once, UnsettledIsKept, LapsedId
    <3>2. CASE j # i
      <4>1. Alive(j)  BY DEF Alive
      <4>2. j <= minted  BY <4>1, AliveIs
      <4> QED BY <1>3, <3>2, <4>1, <4>2 DEF Once, OneAlivePerForm, LapsedId
    <3> QED BY <3>1, <3>2
  <2>2. StartedIds' = StartedIds \cup {i}
    BY <1>6, Bounds DEF StartedIds, Typed, MemoryOK
  <2>3. i \in StartedIds <=> starts'[i] > 1  BY <1>1, <1>6 DEF StartedIds, Typed, MemoryOK
  <2>4. \A j \in Ids \ {i} : starts'[j] = starts[j]  BY <1>6 DEF Typed, MemoryOK
  <2>5. StartedIds \subseteq Ids  BY DEF StartedIds
  <2> DEFINE More(S, st) == {j \in S : st[j] > 1
                               \/ \E k \in S \ {j} : forms[k].form = forms[j].form}
  <2>6. /\ ContractMade = {forms[j].form : j \in StartedIds}
        /\ ContractMade' = {forms[j].form : j \in StartedIds'}
        /\ ContractAgain = {forms[j].form : j \in More(StartedIds, starts)}
        /\ ContractAgain' = {forms[j].form : j \in More(StartedIds', starts')}
    BY <1>1 DEF ContractMade, ContractAgain
  <2>7. ContractMade' = ContractMade \cup {f}  BY <2>2, <2>6
  <2>8. ContractAgain' = ContractAgain \cup ({f} \cap ContractMade)
    <3>1. \A j \in StartedIds : j \in More(StartedIds, starts) => j \in More(StartedIds', starts')
      BY <1>6, <2>2, <2>3, <2>4, <2>5
    <3>2. \A j \in StartedIds : forms[j].form = f => \E k \in More(StartedIds', starts') : forms[k].form = f
      BY <2>2, <2>3, <2>4, <2>5
    <3>3. \A j \in More(StartedIds', starts') :
            \/ forms[j].form = f /\ \E k \in StartedIds : forms[k].form = f
            \/ j \in More(StartedIds, starts)
      BY <2>2, <2>3, <2>4, <2>5
    <3>4. More(StartedIds, starts) \subseteq StartedIds  OBVIOUS
    <3> HIDE DEF More, f
    <3> QED BY <2>6, <3>1, <3>2, <3>3, <3>4
  <2>9. Contract!Make(f)
    BY <1>1, <1>2, <1>4, <2>1, <2>7, <2>8 DEF Contract!Make
  <2> QED BY <1>2, <2>9 DEF Contract!ContractNext
<1>7. starts' = starts \/ starts[i] < MaxStarts  BY DEF HubTakes
<1> QED BY <1>5, <1>6, <1>7, Taking

LEMMA ForgettingIsLapse ==
  ASSUME Typed, Once, NEW i \in Ids, Forget(i)
  PROVE  Contract!ContractNext \/ UNCHANGED Contract!cvars
<1> USE DEF sourceVars, rosterVars, rowVars, hubVars, draftVars
<1>1. UNCHANGED <<starts, wire, edits, forms, draft>>  BY DEF Forget
<1>2. /\ ContractMade' = ContractMade /\ ContractAgain' = ContractAgain
      /\ ContractLoose' = ContractLoose
  BY <1>1, HubStays
<1>3. CASE Unsettled(i)
  <2>1. forms[i].form \in 0..edits /\ Contract!UnderWay(forms[i].form)
    BY <1>3, UnsettledIsUnderWay
  <2>2. lapsed' = lapsed \cup {forms[i].form}  BY <1>3 DEF Forget
  <2>3. Contract!Lapse(forms[i].form)  BY <1>1, <1>2, <2>1, <2>2 DEF Contract!Lapse
  <2> QED BY <2>1, <2>3 DEF Contract!ContractNext
<1>4. CASE ~Unsettled(i)
  <2>1. lapsed' = lapsed  BY <1>4 DEF Forget
  <2> QED BY <1>1, <1>2, <2>1 DEF Contract!cvars
<1> QED BY <1>3, <1>4

LEMMA EditingIsChange ==
  ASSUME Typed, Once, Edit
  PROVE  Contract!Change
<1> USE DEF sourceVars, rosterVars, rowVars, hubVars, draftVars
<1>1. /\ UNCHANGED <<forms, starts, wire, lapsed>> /\ edits' = edits + 1 /\ edits \in Nat
      /\ draft.phase # "submitting" /\ draft' = Unheld("idle") /\ wire \subseteq Ids
  BY DEF Edit, Typed, NumbersOK, MemoryOK
<1>2. draft'.phase = "idle"  BY <1>1, UnheldTyped DEF Typed, Phases
<1>3. ContractMade' = ContractMade /\ ContractAgain' = ContractAgain  BY <1>1, MadeStays
<1> DEFINE Open == {forms[i].form : i \in wire}
<1>4. \A f \in Open : f \in 0..edits
  BY <1>1, AliveIs DEF Alive
<1>5. edits \in Open => draft.phase = "unknown"
  <2> SUFFICES ASSUME NEW i \in wire, forms[i].form = edits  PROVE draft.phase = "unknown"
    OBVIOUS
  <2>1. i \in Ids /\ Alive(i) /\ i # None  BY <1>1 DEF Alive, Ids, None
  <2>2. i = draft.id  BY <2>1, AliveIs
  <2> QED BY <1>1, <2>1, <2>2 DEF Once, DraftHasTheId
<1>6. ContractLoose = Open \ {edits} /\ ContractLoose' = Open \ {edits + 1}
  BY <1>1 DEF ContractLoose
<1> HIDE DEF Open
<1>7. edits + 1 \notin Open  BY <1>1, <1>4
<1>8. \/ UNCHANGED ContractLoose
      \/ draft.phase = "unknown" /\ ContractLoose' = ContractLoose \cup {edits}
  BY <1>5, <1>6, <1>7
<1> QED BY <1>1, <1>2, <1>3, <1>8 DEF Contract!Change

LEMMA SubmittingIsPress ==
  ASSUME Typed, Once, NEW h \in Homes, Submit(h)
  PROVE  Contract!Press
<1> USE DEF sourceVars, rosterVars, rowVars, hubVars, draftVars
<1>1. UNCHANGED <<starts, wire, edits, lapsed>> /\ draft.phase # "submitting"
  BY DEF Submit
<1>2. draft'.phase = "submitting"  BY DEF Submit, Typed, DraftOK, DraftRecords
<1>3. forms' = forms \/ forms' = [forms EXCEPT ![minted + 1].form = edits]
  BY DEF Submit
<1>4. \A i \in Ids : Alive(i) => forms'[i] = forms[i]
  <2>1. \A i \in Ids : Alive(i) => i # minted + 1
    BY AliveIs DEF Ids, Typed, NumbersOK
  <2> QED BY <1>3, <2>1 DEF Typed, FormsOK
<1>5. ContractMade' = ContractMade /\ ContractAgain' = ContractAgain
  BY <1>1, <1>4, MadeStays DEF Alive
<1>6. ContractLoose' = ContractLoose
  <2>1. wire \subseteq Ids  BY DEF Typed, MemoryOK
  <2> QED BY <1>1, <1>4, <2>1 DEF ContractLoose, Alive
<1> QED BY <1>1, <1>2, <1>5, <1>6 DEF Contract!Press

LEMMA LandingIsSaying ==
  ASSUME Typed, Once, Land
  PROVE  Contract!SayCreated \/ Contract!SayRefused \/ Contract!SayUnknown
<1> USE DEF sourceVars, rosterVars, rowVars, hubVars, draftVars
<1>1. /\ UNCHANGED <<forms, starts, wire, lapsed>> /\ call.at = "answered"
      /\ draft.phase = "submitting"
      /\ call.id = draft.id /\ draft.id # None /\ forms[draft.id].form = edits
      /\ draft.id \in Ids /\ wire \subseteq Ids /\ edits \in Nat
  BY Bounds DEF Land, Once, DraftHasTheId, Typed, DraftOK, DraftRecords, Ids, None, NumbersOK,
                MemoryOK
<1>2. CASE call.answer = "ok"
  <2>1. draft' = [Unheld("idle") EXCEPT !.ended = Started(call.id) \notin LandRead]
        /\ edits' = edits + 1
    BY <1>2 DEF Land
  <2>2. Unheld("idle") \in DraftRecords /\ Unheld("idle").phase = "idle"
    BY UnheldTyped DEF Typed, Phases
  <2>3. draft'.phase = "idle"  BY <2>1, <2>2 DEF DraftRecords
  <2>4. starts[draft.id] > 0 /\ draft.id \notin wire
    BY <1>1, <1>2 DEF Typed, CallOK, Once, CallIsInOrder
  <2>5. edits \in ContractMade  BY <1>1, <2>4, MadeIs
  <2>6. ContractMade' = ContractMade /\ ContractAgain' = ContractAgain  BY <1>1, MadeStays
  <2>7. \A i \in wire : forms[i].form \in 0..edits /\ forms[i].form # edits
    BY <1>1, <2>4, AliveIs DEF Alive
  <2>8. \A i \in wire : forms[i].form # edits /\ forms[i].form # edits + 1
    BY <1>1, <2>7
  <2>9. ContractLoose' = ContractLoose  BY <1>1, <2>1, <2>8 DEF ContractLoose
  <2> QED BY <1>1, <2>1, <2>3, <2>5, <2>6, <2>9 DEF Contract!SayCreated
<1>3. CASE call.answer # "ok"
  <2>1. draft' = Settle(call.answer) /\ edits' = edits  BY <1>3 DEF Land
  <2>2. /\ ContractMade' = ContractMade /\ ContractAgain' = ContractAgain
        /\ ContractLoose' = ContractLoose
    BY <1>1, <2>1, HubStays
  <2>3. call.answer \in {"unknown", "definite"}
    BY <1>1, <1>3 DEF Once, CallIsInOrder, Typed, CallOK, CallRecords
  <2>4. draft'.phase = IF call.answer = "unknown" THEN "unknown" ELSE "refused"
    BY <2>1, SettleTyped DEF Typed
  <2>5. call.answer = "definite" => (edits \in ContractMade => edits \in lapsed)
    BY <1>1, NoneMade DEF Once, OnlyTheDraftsIdIsAlive
  <2> QED BY <1>1, <2>1, <2>2, <2>3, <2>4, <2>5 DEF Contract!SayRefused, Contract!SayUnknown
<1> QED BY <1>2, <1>3

LEMMA SubmittingNowhereIsRefused ==
  ASSUME Typed, Once, UnknownHasId, SubmitNowhere
  PROVE  Contract!SayRefused \/ UNCHANGED Contract!cvars
<1> USE DEF sourceVars, rosterVars, rowVars, hubVars, draftVars
<1>1. /\ UNCHANGED <<starts, wire, edits, forms, lapsed>> /\ draft.phase # "submitting"
      /\ draft' = Settle(IF Held(draft) THEN "unknown" ELSE "definite")
  BY DEF SubmitNowhere
<1>2. /\ ContractMade' = ContractMade /\ ContractAgain' = ContractAgain
      /\ ContractLoose' = ContractLoose
  BY <1>1, HubStays
<1>3. draft'.phase = IF Held(draft) THEN "unknown" ELSE "refused"
  BY <1>1, SettleTyped DEF Typed
<1>4. CASE Held(draft)
  BY <1>1, <1>2, <1>3, <1>4 DEF Held, Contract!cvars
<1>5. CASE ~Held(draft)
  <2>1. draft.id = None /\ draft.phase # "unknown"
    BY <1>1, <1>5 DEF Held, UnknownHasId, Once, DraftHasTheId
  <2>2. edits \in ContractMade => edits \in lapsed  BY <2>1, NoneMade
  <2> QED BY <1>1, <1>2, <1>3, <1>5, <2>1, <2>2 DEF Contract!SayRefused
<1> QED BY <1>4, <1>5

\* A create that loses answers, is sent again, is cut short by a closed source and goes
\* on through another one keeps the sheet's promise: a form makes at most one session, unless
\* craze forgets it while its outcome is open, and what the sheet says of a form is so.
THEOREM CreateImplementsContract == Spec => ImplementsCreateContract
<1> DEFINE I == Typed /\ Once /\ UnknownHasId
<1>1. Init => I
  <2>1. Init => UnknownHasId  BY DEF Init, UnknownHasId
  <2> QED BY <2>1, TypeInit, OnceInit
<1>2. I /\ [Next]_vars => I'  BY TypeStep, OnceStep, UnknownStep
<1>3. Init => Contract!ContractInit
  <2> SUFFICES ASSUME Init PROVE Contract!ContractInit  OBVIOUS
  <2>1. StartedIds = {}  BY DEF Init, StartedIds
  <2> QED BY <2>1 DEF Init, Contract!ContractInit, ContractMade, ContractAgain, ContractLoose
<1>4. I /\ [Next]_vars => [Contract!ContractNext]_(Contract!cvars)
  <2> SUFFICES ASSUME I, [Next]_vars
               PROVE  Contract!ContractNext \/ UNCHANGED Contract!cvars
    OBVIOUS
  <2> USE DEF sourceVars, rosterVars, rowVars, hubVars, draftVars
  <2>1. CASE UNCHANGED <<starts, wire, lapsed, edits, forms, draft>>
    BY <2>1, HubStays DEF Contract!cvars
  <2>2. CASE Send
    <3>1. /\ UNCHANGED <<starts, lapsed, edits, draft>> /\ wire' = wire \cup {call.id}
          /\ \A i \in Ids : forms'[i].form = forms[i].form
      BY <2>2 DEF Send, Typed, FormsOK
    <3>2. call.id \in Ids /\ forms[call.id].form = edits
      BY <2>2, Bounds DEF Send, Once, DraftHasTheId, Typed, CallOK, CallRecords, Ids, None
    <3>3. ContractMade' = ContractMade /\ ContractAgain' = ContractAgain  BY <3>1, MadeStays
    <3>4. ContractLoose' = ContractLoose
      BY <3>1, <3>2 DEF ContractLoose, Typed, MemoryOK
    <3> QED BY <3>1, <3>3, <3>4 DEF Contract!cvars
  <2>3. ASSUME NEW i \in Ids, HubTakes(i)
        PROVE  Contract!ContractNext
    BY <2>3, TakingIsMakeOrDrop
  <2>4. ASSUME NEW i \in Ids, Forget(i)
        PROVE  Contract!ContractNext \/ UNCHANGED Contract!cvars
    BY <2>4, ForgettingIsLapse
  <2>5. CASE Edit  BY <2>5, EditingIsChange DEF Contract!ContractNext
  <2>6. ASSUME NEW h \in Homes, Submit(h) PROVE Contract!ContractNext
    BY <2>6, SubmittingIsPress DEF Contract!ContractNext
  <2>7. CASE Land  BY <2>7, LandingIsSaying DEF Contract!ContractNext
  <2>8. CASE SubmitNowhere  BY <2>8, SubmittingNowhereIsRefused DEF Contract!ContractNext
  <2> QED BY <2>1, <2>2, <2>3, <2>4, <2>5, <2>6, <2>7, <2>8
          DEF Next, OpenSource, CloseSource, SeedBegins, SeedReady, StaleReady, LinkLost,
              TellSession, TellRemoved, SessionEnds, Begin, DialFails, Reply, ReplyLost, Cut,
              Pull, vars
<1> QED BY <1>1, <1>2, <1>3, <1>4, PTL
        DEF Spec, ImplementsCreateContract, Contract!ContractSpec
=============================================================================
