------------------------- MODULE VersionLineProofs -------------------------
(***************************************************************************)
(* Proofs about VersionLine, for any set of calls, users, documents and    *)
(* versions, and whether or not cached reads lag.                          *)
(***************************************************************************)
EXTENDS VersionLine, TLAPS

\* A call that is running or answered has a real request, and that of a running
\* call is on record.
RunningCallHasRequest ==
  \A c \in Calls : /\ pc[c] # "idle" => req[c] \in Requests
                   /\ pc[c] \notin {"idle", "done"} => req[c] \in submitted

Typed == TypeOK /\ RunningCallHasRequest

----------------------------------------------------------------------------
(* Lemmas about the operators. *)

\* The "no row" value is a row, and reading metadata yields a row.
LEMMA RowLemma ==
  /\ NoRow \in Rows
  /\ NoOrigin \in Origins
  /\ \A r \in Rows : Meta(r) \in Rows /\ Mark(r) \in Rows /\ Use(r) \in Rows
  <1>1. NoRow \in Rows /\ NoOrigin \in Origins
    BY DEF NoRow, Rows, NoOrigin, Origins
  <1>2. \A r \in Rows : Meta(r) \in Rows
    BY DEF Rows, Meta
  <1>3. \A r \in Rows : Mark(r) \in Rows /\ Use(r) \in Rows
    BY DEF Rows, Mark, Use
  <1>. QED BY <1>1, <1>2, <1>3

\* Whatever get_spec_content returns is a document or None.
LEMMA ContentReadsLemma ==
  ASSUME TypeOK, NEW id
  PROVE  ContentReads(id) \subseteq Contents \cup {NoContent}
  BY DEF ContentReads, TypeOK, Rows

\* The fields of a running call that its steps use have their types.
LEMMA RunningCall ==
  ASSUME Typed, NEW c \in Calls, pc[c] # "idle"
  PROVE  /\ req[c] \in Requests
         /\ VersionOf[req[c].content] \in Versions
         /\ Existing(c) \in Rows
         /\ Credited(c) \in Users \cup {NoUser}
  <1>1. req[c] \in Requests
    BY DEF Typed, TypeOK, RunningCallHasRequest
  <1>2. VersionOf[req[c].content] \in Versions
    BY <1>1, VersionLineAssumptions DEF Requests
  <1>3. Existing(c) \in Rows
    BY <1>2 DEF Existing, Typed, TypeOK
  <1>4. Credited(c) \in Users \cup {NoUser}
    BY <1>1, <1>3 DEF Credited, Requests, Rows
  <1>. QED BY <1>1, <1>2, <1>3, <1>4

\* The upsert leaves a row of the request's content and stability.
LEMMA UpsertedLemma ==
  ASSUME Typed, NEW c \in Calls, pc[c] \notin {"idle", "done"}, NEW old \in Rows
  PROVE  Upserted(c, old) \in Rows
  <1>1. req[c] \in Requests /\ Credited(c) \in Users \cup {NoUser}
    BY RunningCall
  <1>2. nextId \in Nat
    BY DEF Typed, TypeOK
  <1>. QED BY <1>1, <1>2 DEF Upserted, Rows, Requests, Stabilities

----------------------------------------------------------------------------
(* Type correctness. *)

LEMMA TypeInit == Init => Typed
  <1>. SUFFICES ASSUME Init PROVE Typed
    OBVIOUS
  <1>1. rows \in [Versions -> Rows] /\ seen \in [Calls -> [Versions -> Rows]]
    BY RowLemma DEF Init
  <1>2. pc \in [Calls -> Steps] /\ answer \in [Calls -> Answers]
    BY DEF Init, Steps, Answers
  <1>3. req \in [Calls -> Requests \cup {NoRequest}] /\ got \in [Calls -> Origins]
    BY RowLemma DEF Init
  <1>4. announced \in [Versions -> Stabilities \cup {"none", "promoted"}]
    BY DEF Init
  <1>5. entry \in [Calls -> Nat] /\ nextId \in Nat \ {0}
    BY DEF Init
  <1>6. RunningCallHasRequest
    BY DEF Init, RunningCallHasRequest
  <1>. QED BY <1>1, <1>2, <1>3, <1>4, <1>5, <1>6 DEF Init, Typed, TypeOK

\* Answering ends the call and leaves its request alone.
LEMMA AnswerLemma ==
  ASSUME Typed, NEW c \in Calls, NEW a \in Answers, Answer(c, a),
         UNCHANGED submitted, pc[c] # "idle"
  PROVE  /\ pc' \in [Calls -> Steps] /\ req' = req
         /\ seen' \in [Calls -> [Versions -> Rows]]
         /\ got' \in [Calls -> Origins]
         /\ entry' \in [Calls -> Nat]
         /\ answer' \in [Calls -> Answers]
         /\ RunningCallHasRequest'
  <1>1. pc' \in [Calls -> Steps]
    BY DEF Answer, Typed, TypeOK, Steps
  <1>2. seen' \in [Calls -> [Versions -> Rows]]
    BY RowLemma DEF Answer, Typed, TypeOK
  <1>3. got' \in [Calls -> Origins] /\ entry' \in [Calls -> Nat]
    BY RowLemma DEF Answer, Typed, TypeOK
  <1>4. answer' \in [Calls -> Answers]
    BY DEF Answer, Typed, TypeOK
  <1>5. RunningCallHasRequest'
    BY DEF Answer, Typed, TypeOK, RunningCallHasRequest
  <1>. QED BY <1>1, <1>2, <1>3, <1>4, <1>5 DEF Answer

\* So does going on to another step of a running call.
LEMMA GotoLemma ==
  ASSUME Typed, NEW c \in Calls, NEW step \in Steps, Goto(c, step),
         UNCHANGED submitted, pc[c] \notin {"idle", "done"}
  PROVE  /\ pc' \in [Calls -> Steps] /\ req' = req /\ answer' = answer
         /\ RunningCallHasRequest'
  BY DEF Goto, Typed, TypeOK, RunningCallHasRequest

LEMMA GotoOrAnswerLemma ==
  ASSUME Typed, NEW c \in Calls, NEW step \in Steps, NEW a \in Answers,
         GotoOrAnswer(c, step, a), UNCHANGED submitted, pc[c] \notin {"idle", "done"}
  PROVE  /\ pc' \in [Calls -> Steps] /\ req' = req
         /\ seen' \in [Calls -> [Versions -> Rows]]
         /\ got' \in [Calls -> Origins]
         /\ entry' \in [Calls -> Nat]
         /\ answer' \in [Calls -> Answers]
         /\ RunningCallHasRequest'
  <1>1. CASE step = "done"
    BY <1>1, AnswerLemma DEF GotoOrAnswer
  <1>2. CASE step # "done"
    BY <1>2, GotoLemma DEF GotoOrAnswer, Typed, TypeOK
  <1>. QED BY <1>1, <1>2

LEMMA NoopFromLemma ==
  ASSUME NEW c, NEW todo PROVE NoopFrom(c, todo) \in Steps
  BY DEF NoopFrom, Steps

LEMMA BeginType ==
  ASSUME Typed, NEW c \in Calls, NEW r \in Requests, Begin(c, r)
  PROVE  Typed'
  <1>1. pc' \in [Calls -> Steps] /\ answer' \in [Calls -> Answers]
    BY DEF Begin, Typed, TypeOK, Steps, Answers
  <1>2. req' \in [Calls -> Requests \cup {NoRequest}] /\ submitted' \subseteq Requests
    BY DEF Begin, Typed, TypeOK
  <1>3. RunningCallHasRequest'
    BY DEF Begin, Typed, TypeOK, RunningCallHasRequest
  <1>. QED BY <1>1, <1>2, <1>3 DEF Begin, Typed, TypeOK, line, trunkData

LEMMA DecideType ==
  ASSUME Typed, NEW c \in Calls,
         ReadLine(c) \/ DecideIdentical(c) \/ DecideRefused(c) \/ DecideAccepted(c)
  PROVE  Typed'
  <1>0. pc[c] \notin {"idle", "done"}
    BY DEF ReadLine, DecideIdentical, DecideRefused, DecideAccepted
  <1>1. CASE ReadLine(c)
    <2>1. seen' \in [Calls -> [Versions -> Rows]]
      BY <1>1, RowLemma DEF ReadLine, Typed, TypeOK
    <2>2. "decide" \in Steps
      BY DEF Steps
    <2>. QED BY <1>0, <1>1, <2>1, <2>2, GotoLemma
         DEF ReadLine, Typed, TypeOK, line, trunkData, history
  <1>2. CASE DecideIdentical(c)
    <2>. DEFINE step == IF req[c].dry THEN "done" ELSE NoopFrom(c, NoopSteps(c))
    <2>1. step \in Steps /\ "noop" \in Answers
      BY NoopFromLemma DEF Steps, Answers
    <2>2. UNCHANGED <<line, origins, trunkData, announced, history>>
      BY <1>2 DEF DecideIdentical
    <2>3. CASE step = "done"
      <3>1. Answer(c, "noop")
        BY <1>2, <2>3 DEF DecideIdentical
      <3>. QED BY <1>0, <3>1, <2>1, <2>2, AnswerLemma
           DEF Typed, TypeOK, line, trunkData, history
    <2>4. CASE step # "done"
      <3>1. Goto(c, step) /\ UNCHANGED <<seen, got>>
            /\ entry' = [entry EXCEPT ![c] = Existing(c).id]
        BY <1>2, <2>4 DEF DecideIdentical
      <3>2. Existing(c).id \in Nat
        BY <1>0, RunningCall DEF Rows
      <3>3. entry' \in [Calls -> Nat]
        BY <3>1, <3>2 DEF Typed, TypeOK
      <3>. HIDE DEF step
      <3>. QED BY <1>0, <3>1, <3>3, <2>1, <2>2, GotoLemma
           DEF Typed, TypeOK, line, trunkData, history
    <2>. QED BY <2>3, <2>4
  <1>3. CASE DecideRefused(c)
    <2>1. PICK a \in Answers : Answer(c, a)
      BY <1>3 DEF DecideRefused, Answers
    <2>. QED BY <1>0, <1>3, <2>1, AnswerLemma
         DEF DecideRefused, Typed, TypeOK, line, trunkData, history
  <1>4. CASE DecideAccepted(c)
    <2>1. PICK step \in Steps, a \in Answers : GotoOrAnswer(c, step, a)
      BY <1>4 DEF DecideAccepted, Steps, Answers
    <2>. QED BY <1>0, <1>4, <2>1, GotoOrAnswerLemma
         DEF DecideAccepted, Typed, TypeOK, line, trunkData, history
  <1>. QED BY <1>1, <1>2, <1>3, <1>4

LEMMA CommitType ==
  ASSUME Typed, NEW c \in Calls, Commit(c) \/ CommitConflict(c)
  PROVE  Typed'
  <1>0. pc[c] \notin {"idle", "done"}
    BY DEF Commit, CommitConflict
  <1>. DEFINE v == VersionOf[req[c].content]
              new == Upserted(c, rows[v])
  <1>1. CASE Commit(c)
    <2>1. v \in Versions /\ rows[v] \in Rows /\ req[c] \in Requests
      BY <1>0, RunningCall DEF Typed, TypeOK
    <2>2. new \in Rows /\ new.content \in Contents
      BY <1>0, <2>1, UpsertedLemma DEF Upserted, Requests
    <2>3. rows' \in [Versions -> Rows]
      <3>1. rows' = [rows EXCEPT ![v] = new]
        BY <1>1 DEF Commit
      <3>. HIDE DEF v, new
      <3>. QED BY <2>1, <2>2, <3>1 DEF Typed, TypeOK
    <2>4. nextId' \in Nat \ {0}
      <3>1. nextId' = nextId \/ nextId' = nextId + 1
        BY <1>1, Zenon DEF Commit
      <3>. QED BY <3>1 DEF Typed, TypeOK
    <2>5. held' \subseteq Nat \X Versions \X Contents
      <3>1. held' = IF StaleReads THEN held \cup {<<new.id, v, new.content>>} ELSE held
        BY <1>1, Zenon DEF Commit
      <3>2. new.id \in Nat
        BY <2>2 DEF Rows
      <3>. HIDE DEF v, new
      <3>. QED BY <2>1, <2>2, <3>1, <3>2 DEF Typed, TypeOK
    <2>6. announced' \in [Versions -> Stabilities \cup {"none", "promoted"}]
      <3>1. announced' = [announced EXCEPT ![v] = PublishedEvent(c)]
        BY <1>1 DEF Commit
      <3>2. PublishedEvent(c) \in Stabilities \cup {"none", "promoted"}
        BY <2>1 DEF PublishedEvent, Requests
      <3>. QED BY <3>1, <3>2 DEF Typed, TypeOK
    <2>7. UNCHANGED <<origins, trunkData, history>>
      BY <1>1 DEF Commit
    <2>8. /\ pc' \in [Calls -> Steps] /\ req' = req
          /\ seen' \in [Calls -> [Versions -> Rows]]
          /\ got' \in [Calls -> Origins]
          /\ entry' \in [Calls -> Nat]
          /\ answer' \in [Calls -> Answers]
          /\ RunningCallHasRequest'
      <3>1. CASE SetsOrigin(c) \/ req[c].trunk
        <4>1. PICK step \in Steps : Goto(c, step)
          BY <1>1, <3>1 DEF Commit, Steps
        <4>2. entry' = [entry EXCEPT ![c] = new.id] /\ UNCHANGED <<seen, got>>
          BY <1>1, <3>1 DEF Commit
        <4>3. new.id \in Nat
          BY <2>2 DEF Rows
        <4>. HIDE DEF new
        <4>4. entry' \in [Calls -> Nat]
          BY <4>2, <4>3 DEF Typed, TypeOK
        <4>. QED BY <1>0, <2>7, <4>1, <4>2, <4>4, GotoLemma DEF Typed, TypeOK, history
      <3>2. CASE ~(SetsOrigin(c) \/ req[c].trunk)
        <4>1. Answer(c, "stored") /\ "stored" \in Answers
          BY <1>1, <3>2 DEF Commit, Answers
        <4>. QED BY <1>0, <2>7, <4>1, AnswerLemma DEF history
      <3>. QED BY <3>1, <3>2
    <2>. HIDE DEF v, new
    <2>. QED BY <2>3, <2>4, <2>5, <2>6, <2>7, <2>8 DEF Typed, TypeOK, trunkData, history
  <1>2. CASE CommitConflict(c)
    <2>1. "conflict" \in Answers
      BY DEF Answers
    <2>. QED BY <1>0, <1>2, <2>1, AnswerLemma
         DEF CommitConflict, Typed, TypeOK, line, trunkData, history
  <1>. QED BY <1>1, <1>2

\* Updates by id keep the line a line.
LEMMA ByIdType ==
  ASSUME Typed, NEW id
  PROVE  ById(id, Mark) \in [Versions -> Rows] /\ ById(id, Use) \in [Versions -> Rows]
  BY RowLemma DEF ById, Typed, TypeOK

LEMMA TrunkTouchType ==
  ASSUME Typed, NEW id, TrunkTouch(id)
  PROVE  rows' \in [Versions -> Rows] /\ member' \subseteq Versions /\ memberOld' \in BOOLEAN
  <1>1. rows' \in [Versions -> Rows]
    BY ByIdType DEF TrunkTouch
  <1>2. member' \subseteq Versions
    BY DEF TrunkTouch, Typed, TypeOK
  <1>3. memberOld' \in BOOLEAN
    BY DEF TrunkTouch, Typed, TypeOK
  <1>. QED BY <1>1, <1>2, <1>3

LEMMA WithOriginType ==
  ASSUME Typed, NEW o \in Origins
  PROVE  WithOrigin(o) \subseteq Origins
  BY DEF WithOrigin, Typed, TypeOK

LEMMA LateWritesType ==
  ASSUME Typed, NEW c \in Calls,
         SetOrigin(c) \/ SetTrunk(c) \/ TouchProvided(c) \/ NoopTrunk(c)
           \/ GetOrigin(c) \/ FillOrigin(c)
  PROVE  Typed'
  <1>0. pc[c] \notin {"idle", "done"}
    BY DEF SetOrigin, SetTrunk, TouchProvided, NoopTrunk, GetOrigin, FillOrigin
  <1>a. req[c] \in Requests /\ entry[c] \in Nat
    BY <1>0, RunningCall DEF Typed, TypeOK
  <1>b. "stored" \in Answers /\ "noop" \in Answers /\ "fill_origin" \in Steps
    BY DEF Answers, Steps
  <1>1. CASE SetOrigin(c)
    <2>1. PICK step \in Steps : GotoOrAnswer(c, step, "stored")
      BY <1>1 DEF SetOrigin, Steps
    <2>2. origins' \subseteq Origins
      <3>. DEFINE o == [id |-> entry[c], build |-> req[c].build, why |-> req[c].why,
                        trunkBuild |-> req[c].trunk /\ req[c].build # NoLink]
      <3>1. o \in Origins
        BY <1>a DEF Origins, Requests
      <3>. QED BY <1>1, <3>1, WithOriginType DEF SetOrigin
    <2>. QED BY <1>0, <1>1, <1>b, <2>1, <2>2, GotoOrAnswerLemma
         DEF SetOrigin, Typed, TypeOK, line, trunkData, history
  <1>2. CASE SetTrunk(c)
    BY <1>0, <1>2, <1>b, AnswerLemma, TrunkTouchType
       DEF SetTrunk, Typed, TypeOK, history
  <1>3. CASE TouchProvided(c)
    <2>1. PICK step \in Steps : GotoOrAnswer(c, step, "noop")
      BY <1>3, NoopFromLemma DEF TouchProvided
    <2>. QED BY <1>0, <1>3, <1>b, <2>1, GotoOrAnswerLemma, ByIdType
         DEF TouchProvided, Typed, TypeOK, trunkData, history
  <1>4. CASE NoopTrunk(c)
    <2>1. PICK step \in Steps : GotoOrAnswer(c, step, "noop")
      BY <1>4, NoopFromLemma DEF NoopTrunk
    <2>. QED BY <1>0, <1>4, <1>b, <2>1, GotoOrAnswerLemma, TrunkTouchType
         DEF NoopTrunk, Typed, TypeOK, history
  <1>5. CASE GetOrigin(c)
    <2>1. got' \in [Calls -> Origins]
      BY <1>5, RowLemma DEF GetOrigin, Typed, TypeOK
    <2>. QED BY <1>0, <1>5, <1>b, <2>1, GotoLemma
         DEF GetOrigin, Typed, TypeOK, line, trunkData, history
  <1>6. CASE FillOrigin(c)
    <2>1. OriginForIdentical(c) \in Origins
      <3>1. got[c] \in Origins
        BY DEF Typed, TypeOK
      <3>. QED BY <1>a, <3>1, RowLemma DEF OriginForIdentical, Origins, Requests
    <2>2. origins' \subseteq Origins
      BY <1>6, <2>1, WithOriginType DEF FillOrigin, Typed, TypeOK
    <2>. QED BY <1>0, <1>6, <1>b, <2>2, AnswerLemma
         DEF FillOrigin, Typed, TypeOK, line, trunkData, history
  <1>. QED BY <1>1, <1>2, <1>3, <1>4, <1>5, <1>6

LEMMA DropType ==
  ASSUME Typed, NEW c \in Calls, Drop(c)
  PROVE  Typed'
  <1>1. pc' \in [Calls -> Steps]
    BY DEF Drop, Typed, TypeOK, Steps
  <1>2. seen' \in [Calls -> [Versions -> Rows]]
    BY RowLemma DEF Drop, Typed, TypeOK
  <1>3. got' \in [Calls -> Origins] /\ entry' \in [Calls -> Nat]
    BY RowLemma DEF Drop, Typed, TypeOK
  <1>4. req' \in [Calls -> Requests \cup {NoRequest}]
    BY DEF Drop, Typed, TypeOK
  <1>5. RunningCallHasRequest'
    BY DEF Drop, Typed, TypeOK, RunningCallHasRequest, history
  <1>. QED BY <1>1, <1>2, <1>3, <1>4, <1>5
       DEF Drop, Typed, TypeOK, line, trunkData, history

LEMMA EnvironmentType ==
  ASSUME Typed, Environment
  PROVE  Typed'
  <1>0. rows' \in [Versions -> Rows]
    <2>1. ASSUME NEW v \in Versions, RequireVersion(v) PROVE rows' \in [Versions -> Rows]
      BY <2>1, ByIdType DEF RequireVersion
    <2>2. ASSUME NEW v \in Versions, DeleteVersion(v) PROVE rows' \in [Versions -> Rows]
      BY <2>2, RowLemma DEF DeleteVersion, Typed, TypeOK
    <2>3. ASSUME NEW v \in Versions, RowAges(v) PROVE rows' \in [Versions -> Rows]
      <3>1. \A r \in Rows : [r EXCEPT !.fresh = FALSE] \in Rows
        BY DEF Rows
      <3>. QED BY <2>3, <3>1 DEF RowAges, Typed, TypeOK
    <2>4. ASSUME NEW v \in Versions, TrunkAges(v) PROVE rows' \in [Versions -> Rows]
      <3>1. \A r \in Rows : [r EXCEPT !.trunk = IF r.trunk = "yes" THEN "old" ELSE r.trunk]
                            \in Rows
        BY DEF Rows
      <3>. QED BY <2>4, <3>1 DEF TrunkAges, Typed, TypeOK
    <2>5. CASE ExpireSnapshots
      BY <2>5, RowLemma DEF ExpireSnapshots, Typed, TypeOK
    <2>6. CASE ClearTrunkMarkers
      <3>1. \A r \in Rows : [r EXCEPT !.trunk = "no"] \in Rows
        BY DEF Rows
      <3>. QED BY <2>6, <3>1 DEF ClearTrunkMarkers, Typed, TypeOK
    <2>7. CASE CloseTrunkMembers
      BY <2>7 DEF CloseTrunkMembers, Typed, TypeOK
    <2>8. CASE SweepOrigins
      BY <2>8 DEF SweepOrigins, line, Typed, TypeOK
    <2>. QED BY <2>1, <2>2, <2>3, <2>4, <2>5, <2>6, <2>7, <2>8 DEF Environment
  <1>1. origins' \subseteq Origins /\ deleted' \subseteq Versions
    BY DEF Environment, RequireVersion, DeleteVersion, RowAges, TrunkAges,
           ExpireSnapshots, SweepOrigins, ClearTrunkMarkers, CloseTrunkMembers, Typed, TypeOK,
           history
  <1>2. /\ member' \subseteq Versions /\ memberOld' \in BOOLEAN
        /\ sweep' \in {"idle", "members"}
    BY DEF Environment, RequireVersion, DeleteVersion, RowAges, TrunkAges,
           ExpireSnapshots, SweepOrigins, ClearTrunkMarkers, CloseTrunkMembers, Typed, TypeOK,
           trunkData, history
  <1>3. UNCHANGED <<nextId, held, calls, announced, submitted>>
    BY DEF Environment, RequireVersion, DeleteVersion, RowAges, TrunkAges,
           ExpireSnapshots, SweepOrigins, ClearTrunkMarkers, CloseTrunkMembers,
           line, history
  <1>. QED BY <1>0, <1>1, <1>2, <1>3
       DEF Typed, TypeOK, RunningCallHasRequest, calls

\* The requests a call can begin with are requests.
LEMMA BeginRequest ==
  ASSUME Typed, NEW c \in Calls, BeginProvide(c) \/ BeginPromote(c)
  PROVE  \E r \in Requests : Begin(c, r) /\ (r.cas => r.stability = "ga")
  <1>1. CASE BeginProvide(c)
    BY <1>1, VersionLineAssumptions DEF BeginProvide, Requests
  <1>2. CASE BeginPromote(c)
    <2>1. ASSUME NEW id, NEW k \in ContentReads(id) \ {NoContent} PROVE k \in Contents
      BY <2>1, ContentReadsLemma DEF Typed
    <2>2. PICK u \in Promoters, content \in Contents : Begin(c, PromoteRequest(content, u))
      BY <1>2, <2>1, Zenon DEF BeginPromote
    <2>3. PromoteRequest(content, u) \in Requests /\ PromoteRequest(content, u).stability = "ga"
      BY <2>2, VersionLineAssumptions DEF PromoteRequest, NoRequest, Requests, Stabilities
    <2>. QED BY <2>2, <2>3
  <1>. QED BY <1>1, <1>2

LEMMA TypeNext == Typed /\ [Next]_vars => Typed'
  <1>. SUFFICES ASSUME Typed, [Next]_vars PROVE Typed'
    OBVIOUS
  <1>1. CASE UNCHANGED vars
    BY <1>1 DEF vars, Typed, TypeOK, RunningCallHasRequest
  <1>2. ASSUME NEW c \in Calls, Call(c) PROVE Typed'
    <2>1. CASE BeginProvide(c) \/ BeginPromote(c)
      BY <2>1, BeginRequest, BeginType
    <2>2. CASE ReadLine(c) \/ DecideIdentical(c) \/ DecideRefused(c) \/ DecideAccepted(c)
      BY <2>2, DecideType
    <2>3. CASE Commit(c) \/ CommitConflict(c)
      BY <2>3, CommitType
    <2>4. CASE SetOrigin(c) \/ SetTrunk(c) \/ TouchProvided(c) \/ NoopTrunk(c)
                 \/ GetOrigin(c) \/ FillOrigin(c)
      BY <2>4, LateWritesType
    <2>5. CASE Drop(c)
      BY <2>5, DropType
    <2>. QED BY <1>2, <2>1, <2>2, <2>3, <2>4, <2>5 DEF Call
  <1>3. CASE Environment
    BY <1>3, EnvironmentType
  <1>. QED BY <1>1, <1>2, <1>3 DEF Next

\* Type correctness of the version line and of every call in flight.
THEOREM TypeCorrect == Spec => []TypeOK
  <1>1. Spec => []Typed
    BY TypeInit, TypeNext, PTL DEF Spec
  <1>2. Typed => TypeOK
    BY DEF Typed
  <1>. QED BY <1>1, <1>2, PTL

----------------------------------------------------------------------------
(* What a step does to the rows. *)

Kept(r, s) == /\ s.id = r.id /\ s.stability = r.stability
              /\ s.content = r.content /\ s.by = r.by

LEMMA ByIdKeeps ==
  ASSUME Typed, NEW id, NEW v \in Versions
  PROVE  Kept(rows[v], ById(id, Mark)[v]) /\ Kept(rows[v], ById(id, Use)[v])
  <1>1. \A r \in Rows : Kept(r, r) /\ Kept(r, Mark(r)) /\ Kept(r, Use(r))
    BY DEF Kept, Mark, Use, Rows
  <1>. QED BY <1>1 DEF ById, Typed, TypeOK

\* Only the upsert, delete-version and the snapshot cleanup change what an
\* entry is; every other step at most stamps its use and its trunk marker.
LEMMA RowSteps ==
  ASSUME Typed, [Next]_vars
  PROVE  \/ \A v \in Versions : Kept(rows[v], rows'[v])
         \/ \E c \in Calls : Commit(c)
         \/ \E v \in Versions : DeleteVersion(v)
         \/ ExpireSnapshots
  <1>0. ASSUME rows' = rows PROVE \A v \in Versions : Kept(rows[v], rows'[v])
    BY <1>0 DEF Kept
  <1>1. CASE UNCHANGED vars
    BY <1>0, <1>1 DEF vars
  <1>2. ASSUME NEW c \in Calls, Call(c), ~Commit(c)
        PROVE  \A v \in Versions : Kept(rows[v], rows'[v])
    <2>1. CASE BeginProvide(c) \/ BeginPromote(c)
      <3>1. rows' = rows
        BY <2>1, BeginRequest DEF Begin, line
      <3>. QED BY <1>0, <3>1
    <2>2. CASE ReadLine(c) \/ DecideIdentical(c) \/ DecideRefused(c) \/ DecideAccepted(c)
                 \/ CommitConflict(c) \/ SetOrigin(c) \/ GetOrigin(c) \/ FillOrigin(c)
                 \/ Drop(c)
      <3>1. rows' = rows
        BY <2>2 DEF ReadLine, DecideIdentical, DecideRefused, DecideAccepted,
                    CommitConflict, SetOrigin, GetOrigin, FillOrigin, Drop, line
      <3>. QED BY <1>0, <3>1
    <2>3. CASE SetTrunk(c) \/ TouchProvided(c) \/ NoopTrunk(c)
      BY <2>3, ByIdKeeps DEF SetTrunk, TouchProvided, NoopTrunk, TrunkTouch
    <2>. QED BY <1>2, <2>1, <2>2, <2>3 DEF Call
  <1>3. ASSUME NEW w \in Versions, RequireVersion(w)
        PROVE  \A v \in Versions : Kept(rows[v], rows'[v])
    BY <1>3, ByIdKeeps DEF RequireVersion
  <1>4. ASSUME NEW w \in Versions, RowAges(w) \/ TrunkAges(w)
        PROVE  \A v \in Versions : Kept(rows[v], rows'[v])
    <2>1. \A r \in Rows :
            /\ Kept(r, r)
            /\ Kept(r, [r EXCEPT !.fresh = FALSE])
            /\ Kept(r, [r EXCEPT !.trunk = IF r.trunk = "yes" THEN "old" ELSE r.trunk])
      BY DEF Kept, Rows
    <2>2. CASE RowAges(w)
      BY <2>1, <2>2 DEF RowAges, Typed, TypeOK
    <2>3. CASE TrunkAges(w)
      BY <2>1, <2>3 DEF TrunkAges, Typed, TypeOK
    <2>. QED BY <1>4, <2>2, <2>3
  <1>5. CASE ClearTrunkMarkers
    <2>1. \A r \in Rows : Kept(r, r) /\ Kept(r, [r EXCEPT !.trunk = "no"])
      BY DEF Kept, Rows
    <2>. QED BY <1>5, <2>1 DEF ClearTrunkMarkers, Typed, TypeOK
  <1>6. CASE CloseTrunkMembers \/ SweepOrigins
    BY <1>0, <1>6 DEF CloseTrunkMembers, SweepOrigins, line
  <1>. QED BY <1>1, <1>2, <1>3, <1>4, <1>5, <1>6 DEF Next, Environment

\* A GA entry survives every step but its own delete-version.
LEMMA ReleaseStep ==
  ASSUME Typed, [Next]_vars, NEW v \in Versions, rows[v].stability = "ga"
  PROVE  SameRelease(rows[v], rows'[v]) \/ DeleteVersion(v)
  <1>1. CASE \A w \in Versions : Kept(rows[w], rows'[w])
    BY <1>1 DEF Kept, SameRelease
  <1>2. ASSUME NEW c \in Calls, Commit(c) PROVE SameRelease(rows[v], rows'[v])
    <2>1. VersionOf[req[c].content] # v
      BY <1>2 DEF Commit, UpsertGuard
    <2>. QED BY <1>2, <2>1 DEF Commit, SameRelease, Typed, TypeOK
  <1>3. ASSUME NEW w \in Versions, DeleteVersion(w), w # v
        PROVE  SameRelease(rows[v], rows'[v])
    BY <1>3 DEF DeleteVersion, SameRelease, Typed, TypeOK
  <1>4. CASE ExpireSnapshots
    BY <1>4 DEF ExpireSnapshots, Expired, SameRelease, Typed, TypeOK
  <1>. QED BY <1>1, <1>2, <1>3, <1>4, RowSteps

\* GA immutability: for any number of overlapping calls, cleanups and lagging
\* caches, a released entry keeps its bytes, provider and identity until
\* delete_version removes it.
THEOREM ReleasedIsImmutable == Spec => GaImmutable
  <1>1. Typed /\ [Next]_vars =>
          [\A v \in Versions : rows[v].stability = "ga" =>
             SameRelease(rows[v], rows'[v]) \/ DeleteVersion(v)]_vars
    BY ReleaseStep
  <1>. QED BY <1>1, TypeInit, TypeNext, PTL DEF Spec, GaImmutable

----------------------------------------------------------------------------
(* Promotion. *)

\* A step of one call leaves the control state of the others alone.
LEMMA OnlyOwnStep ==
  ASSUME Typed, NEW c \in Calls, Call(c), NEW d \in Calls, d # c
  PROVE  /\ pc'[d] = pc[d] /\ req'[d] = req[d] /\ seen'[d] = seen[d]
         /\ answer'[d] = answer[d]
  <1>. USE DEF Typed, TypeOK
  <1>1. CASE BeginProvide(c) \/ BeginPromote(c)
    BY <1>1, BeginRequest DEF Begin
  <1>2. CASE ReadLine(c) \/ DecideIdentical(c) \/ DecideRefused(c) \/ DecideAccepted(c)
    BY <1>2 DEF ReadLine, DecideIdentical, DecideRefused, DecideAccepted,
                GotoOrAnswer, Goto, Answer
  <1>3. CASE Commit(c)
    BY <1>3 DEF Commit, Goto, Answer
  <1>4. CASE CommitConflict(c) \/ SetOrigin(c) \/ SetTrunk(c)
    BY <1>4 DEF CommitConflict, SetOrigin, SetTrunk, GotoOrAnswer, Goto, Answer
  <1>5. CASE TouchProvided(c) \/ NoopTrunk(c) \/ GetOrigin(c) \/ FillOrigin(c)
    BY <1>5 DEF TouchProvided, NoopTrunk, GetOrigin, FillOrigin, GotoOrAnswer, Goto, Answer
  <1>6. CASE Drop(c)
    BY <1>6 DEF Drop
  <1>. QED BY <1>1, <1>2, <1>3, <1>4, <1>5, <1>6 DEF Call

LEMMA EnvironmentLeavesCalls ==
  ASSUME Environment
  PROVE  UNCHANGED <<calls, submitted>> /\ deleted \subseteq deleted'
  BY DEF Environment, RequireVersion, DeleteVersion, RowAges, TrunkAges,
         ExpireSnapshots, SweepOrigins, ClearTrunkMarkers, CloseTrunkMembers, history

\* The step that writes the line for a call is its upsert.
LEMMA WriterCommits ==
  ASSUME Typed, [Next]_vars, NEW c \in Calls, Writes(c)
  PROVE  Commit(c)
  <1>1. CASE UNCHANGED vars
    BY <1>1 DEF vars, Writes
  <1>2. CASE Environment
    BY <1>2, EnvironmentLeavesCalls DEF calls, Writes
  <1>3. ASSUME NEW d \in Calls, Call(d), d # c PROVE FALSE
    BY <1>3, OnlyOwnStep DEF Writes
  <1>4. ASSUME Call(c), ~Commit(c) PROVE FALSE
    <2>1. ~(BeginProvide(c) \/ BeginPromote(c))
      <3>1. pc[c] \notin {"idle", "done"}
        BY DEF Writes
      <3>. QED BY <3>1, BeginRequest DEF Begin
    <2>2. CommitConflict(c) \/ Drop(c)
      BY <1>4, <2>1 DEF Call, Writes, ReadLine, DecideIdentical, DecideRefused,
         DecideAccepted, SetOrigin, SetTrunk, TouchProvided, NoopTrunk, GetOrigin,
         FillOrigin
    <2>. QED BY <2>2 DEF CommitConflict, Drop, line, Writes
  <1>. QED BY <1>1, <1>2, <1>3, <1>4 DEF Next

\* A compare-and-set request is a release.
CasReleases == \A c \in Calls : req[c].cas => req[c].stability = "ga"

LEMMA CasInit == Init => CasReleases
  BY DEF Init, CasReleases, NoRequest

LEMMA CasNext == Typed /\ CasReleases /\ [Next]_vars => CasReleases'
  <1>. SUFFICES ASSUME Typed, CasReleases, [Next]_vars, NEW d \in Calls, req'[d].cas
                PROVE  req'[d].stability = "ga"
    BY DEF CasReleases
  <1>1. CASE UNCHANGED vars
    BY <1>1 DEF vars, CasReleases
  <1>2. CASE Environment
    BY <1>2, EnvironmentLeavesCalls DEF calls, CasReleases
  <1>3. ASSUME NEW c \in Calls, Call(c), c # d PROVE req'[d] = req[d]
    BY <1>3, OnlyOwnStep
  <1>4. CASE Call(d)
    <2>1. CASE BeginProvide(d) \/ BeginPromote(d)
      BY <2>1, BeginRequest DEF Begin, Typed, TypeOK
    <2>2. CASE Drop(d)
      BY <2>2 DEF Drop, NoRequest, Typed, TypeOK
    <2>3. CASE ReadLine(d) \/ DecideIdentical(d) \/ DecideRefused(d) \/ DecideAccepted(d)
                 \/ Commit(d) \/ CommitConflict(d) \/ SetOrigin(d) \/ SetTrunk(d)
                 \/ TouchProvided(d) \/ NoopTrunk(d) \/ GetOrigin(d) \/ FillOrigin(d)
      <3>. USE DEF GotoOrAnswer, Goto, Answer
      <3>1. CASE ReadLine(d) \/ DecideIdentical(d) \/ DecideRefused(d) \/ DecideAccepted(d)
        BY <3>1 DEF ReadLine, DecideIdentical, DecideRefused, DecideAccepted, CasReleases
      <3>2. CASE Commit(d) \/ CommitConflict(d) \/ SetOrigin(d) \/ SetTrunk(d)
        BY <3>2 DEF Commit, CommitConflict, SetOrigin, SetTrunk, CasReleases
      <3>3. CASE TouchProvided(d) \/ NoopTrunk(d) \/ GetOrigin(d) \/ FillOrigin(d)
        BY <3>3 DEF TouchProvided, NoopTrunk, GetOrigin, FillOrigin, CasReleases
      <3>. QED BY <2>3, <3>1, <3>2, <3>3
    <2>. QED BY <1>4, <2>1, <2>2, <2>3 DEF Call
  <1>. QED BY <1>1, <1>2, <1>3, <1>4 DEF Next, CasReleases

LEMMA PromotionStep ==
  ASSUME Typed, CasReleases, [Next]_vars, NEW c \in Calls, Writes(c), req[c].cas
  PROVE  LET v == VersionOf[req[c].content]
         IN  /\ rows[v].stability = "snapshot" /\ rows'[v].stability = "ga"
             /\ rows'[v].content = rows[v].content /\ rows'[v].id = rows[v].id
  <1>. DEFINE v == VersionOf[req[c].content]
  <1>1. Commit(c) /\ pc[c] \notin {"idle", "done"}
    BY WriterCommits DEF Commit
  <1>2. v \in Versions
    BY <1>1, RunningCall
  <1>3. rows[v].stability = "snapshot" /\ rows[v].content = req[c].content
    BY <1>1 DEF Commit, UpsertGuard
  <1>4. rows'[v] = Upserted(c, rows[v])
    BY <1>1, <1>2 DEF Commit, Typed, TypeOK
  <1>5. req[c].stability = "ga"
    BY DEF CasReleases
  <1>. QED BY <1>3, <1>4, <1>5 DEF Upserted

\* Promote to GA releases exactly the stored bytes in place, for any lag of
\* the caches it read them through and any interleaving with other writers.
THEOREM PromotionIsExact == Spec => PromotionReleasesStored
  <1>1. Typed /\ CasReleases /\ [Next]_vars =>
          [\A c \in Calls : Writes(c) /\ req[c].cas =>
             LET v == VersionOf[req[c].content]
             IN  /\ rows[v].stability = "snapshot" /\ rows'[v].stability = "ga"
                 /\ rows'[v].content = rows[v].content /\ rows'[v].id = rows[v].id]_vars
    BY PromotionStep
  <1>2. Spec => [](Typed /\ CasReleases)
    BY TypeInit, TypeNext, CasInit, CasNext, PTL DEF Spec
  <1>. QED BY <1>1, <1>2, PTL DEF Spec, PromotionReleasesStored

----------------------------------------------------------------------------
(* Attribution. *)

Asked(r) == \E q \in submitted : q.user = r.by /\ q.content = r.content

\* The strengthening: what a call has read was attributed honestly, too.
SeenCredited ==
  \A c \in Calls, v \in Versions : seen[c][v].stability # "none" => Asked(seen[c][v])

\* A step leaves what a call has read, forgets it, or reads the line.
LEMMA SeenSteps ==
  ASSUME Typed, [Next]_vars, NEW c \in Calls, NEW v \in Versions
  PROVE  \/ seen'[c][v] = seen[c][v]
         \/ seen'[c][v] = NoRow
         \/ seen'[c][v] = Meta(rows[v]) /\ rows' = rows /\ deleted' = deleted
  <1>. USE DEF Typed, TypeOK
  <1>1. CASE UNCHANGED vars
    BY <1>1 DEF vars
  <1>2. CASE Environment
    BY <1>2, EnvironmentLeavesCalls DEF calls
  <1>3. ASSUME NEW d \in Calls, Call(d), d # c PROVE seen'[c] = seen[c]
    BY <1>3, OnlyOwnStep
  <1>4. CASE Call(c)
    <2>1. CASE BeginProvide(c) \/ BeginPromote(c)
      BY <2>1, BeginRequest DEF Begin
    <2>2. CASE ReadLine(c)
      BY <2>2 DEF ReadLine, line, history
    <2>0. ASSUME seen' = seen \/ \E a \in Answers : Answer(c, a)
          PROVE  seen'[c][v] = seen[c][v] \/ seen'[c][v] = NoRow
      BY <2>0 DEF Answer
    <2>3. CASE DecideRefused(c) \/ DecideAccepted(c)
      <3>1. seen' = seen \/ \E a \in Answers : Answer(c, a)
        BY <2>3 DEF DecideRefused, DecideAccepted, GotoOrAnswer, Answers
      <3>. QED BY <2>0, <3>1
    <2>4. CASE Commit(c) \/ CommitConflict(c)
      <3>1. seen' = seen \/ \E a \in Answers : Answer(c, a)
        BY <2>4, Zenon DEF Commit, CommitConflict, Answers
      <3>. QED BY <2>0, <3>1
    <2>5. CASE SetOrigin(c) \/ SetTrunk(c)
      BY <2>5 DEF SetOrigin, SetTrunk, GotoOrAnswer, Answer
    <2>6. CASE DecideIdentical(c)
      BY <2>6 DEF DecideIdentical, GotoOrAnswer, Answer
    <2>7. CASE TouchProvided(c) \/ NoopTrunk(c) \/ GetOrigin(c) \/ FillOrigin(c)
      BY <2>7 DEF TouchProvided, NoopTrunk, GetOrigin, FillOrigin, GotoOrAnswer, Answer
    <2>8. CASE Drop(c)
      BY <2>8 DEF Drop
    <2>. QED BY <1>4, <2>1, <2>2, <2>3, <2>4, <2>5, <2>6, <2>7, <2>8 DEF Call
  <1>. QED BY <1>1, <1>2, <1>3, <1>4 DEF Next

LEMMA HistoryGrows ==
  ASSUME Typed, [Next]_vars
  PROVE  submitted \subseteq submitted' /\ deleted \subseteq deleted'
  <1>1. CASE UNCHANGED vars
    BY <1>1 DEF vars
  <1>2. CASE Environment
    BY <1>2, EnvironmentLeavesCalls
  <1>3. ASSUME NEW c \in Calls, Call(c) PROVE submitted \subseteq submitted' /\ deleted' = deleted
    <2>1. CASE BeginProvide(c) \/ BeginPromote(c)
      BY <2>1, BeginRequest DEF Begin
    <2>2. CASE ~(BeginProvide(c) \/ BeginPromote(c))
      BY <1>3, <2>2 DEF Call, ReadLine, DecideIdentical, DecideRefused, DecideAccepted,
         Commit, CommitConflict, SetOrigin, SetTrunk, TouchProvided, NoopTrunk,
         GetOrigin, FillOrigin, Drop, history
    <2>. QED BY <2>1, <2>2
  <1>. QED BY <1>1, <1>2, <1>3 DEF Next

\* An entry after a step is the entry before it, nothing, or an upsert.
LEMMA EntryAfterStep ==
  ASSUME Typed, [Next]_vars, NEW v \in Versions
  PROVE  \/ Kept(rows[v], rows'[v])
         \/ rows'[v] = NoRow
         \/ \E c \in Calls : /\ Commit(c) /\ VersionOf[req[c].content] = v
                             /\ rows'[v] = Upserted(c, rows[v])
  <1>. USE DEF Typed, TypeOK
  <1>1. ASSUME NEW c \in Calls, Commit(c), VersionOf[req[c].content] = v
        PROVE  rows'[v] = Upserted(c, rows[v])
    BY <1>1 DEF Commit
  <1>2. ASSUME NEW c \in Calls, Commit(c), VersionOf[req[c].content] # v
        PROVE  Kept(rows[v], rows'[v])
    BY <1>2 DEF Commit, Kept
  <1>3. ASSUME NEW w \in Versions, DeleteVersion(w)
        PROVE  Kept(rows[v], rows'[v]) \/ rows'[v] = NoRow
    BY <1>3 DEF DeleteVersion, Kept
  <1>4. CASE ExpireSnapshots
    BY <1>4 DEF ExpireSnapshots, Kept
  <1>. QED BY <1>1, <1>2, <1>3, <1>4, RowSteps

Attributed == CreditedAskedForBytes /\ SeenCredited

LEMMA AttributionInit == Init => Attributed
  BY DEF Init, Attributed, CreditedAskedForBytes, SeenCredited, NoRow

LEMMA AttributionNext == Typed /\ Attributed /\ [Next]_vars => Attributed'
  <1>. SUFFICES ASSUME Typed, Attributed, [Next]_vars PROVE Attributed'
    OBVIOUS
  <1>1. submitted \subseteq submitted'
    BY HistoryGrows
  <1>2. ASSUME NEW v \in Versions, rows'[v].stability # "none"
        PROVE  \E q \in submitted' : q.user = rows'[v].by /\ q.content = rows'[v].content
    <2>1. CASE Kept(rows[v], rows'[v])
      BY <1>1, <1>2, <2>1 DEF Kept, Attributed, CreditedAskedForBytes
    <2>2. CASE rows'[v] = NoRow
      BY <1>2, <2>2 DEF NoRow
    <2>3. ASSUME NEW c \in Calls, Commit(c), rows'[v] = Upserted(c, rows[v])
          PROVE  \E q \in submitted' : q.user = rows'[v].by /\ q.content = rows'[v].content
      <3>1. rows'[v].by = Credited(c) /\ rows'[v].content = req[c].content
        BY <2>3 DEF Upserted
      <3>2. req[c] \in submitted /\ VersionOf[req[c].content] \in Versions
        BY <2>3, RunningCall DEF Commit, Typed, RunningCallHasRequest
      <3>3. CASE Promoting(c) /\ Existing(c).content = req[c].content
        <4>1. Asked(Existing(c))
          BY <3>2, <3>3 DEF Promoting, Existing, Attributed, SeenCredited
        <4>2. Credited(c) = Existing(c).by
          BY <3>3 DEF Credited
        <4>. QED BY <1>1, <3>1, <3>3, <4>1, <4>2 DEF Asked
      <3>4. CASE ~(Promoting(c) /\ Existing(c).content = req[c].content)
        <4>1. Credited(c) = req[c].user
          BY <3>4 DEF Credited
        <4>. QED BY <1>1, <3>1, <3>2, <4>1
      <3>. QED BY <3>3, <3>4
    <2>. QED BY <2>1, <2>2, <2>3, EntryAfterStep
  <1>3. ASSUME NEW c \in Calls, NEW v \in Versions, seen'[c][v].stability # "none"
        PROVE  \E q \in submitted' : q.user = seen'[c][v].by /\ q.content = seen'[c][v].content
    <2>1. CASE seen'[c][v] = seen[c][v]
      BY <1>1, <1>3, <2>1 DEF Attributed, SeenCredited, Asked
    <2>2. CASE seen'[c][v] = NoRow
      BY <1>3, <2>2 DEF NoRow
    <2>3. CASE seen'[c][v] = Meta(rows[v])
      <3>1. Kept(rows[v], Meta(rows[v]))
        BY DEF Kept, Meta, Typed, TypeOK, Rows
      <3>. QED BY <1>1, <1>3, <2>3, <3>1 DEF Kept, Attributed, CreditedAskedForBytes
    <2>. QED BY <2>1, <2>2, <2>3, SeenSteps
  <1>. QED BY <1>2, <1>3 DEF Attributed, CreditedAskedForBytes, SeenCredited, Asked

\* Attribution: the provider shown on an entry asked for exactly its bytes,
\* also where a promotion takes the credit from a line that has moved on.
THEOREM AttributionIsHonest == Spec => []CreditedAskedForBytes
  <1>1. Spec => [](Typed /\ Attributed)
    BY TypeInit, TypeNext, AttributionInit, AttributionNext, PTL DEF Spec
  <1>2. Attributed => CreditedAskedForBytes
    BY DEF Attributed
  <1>. QED BY <1>1, <1>2, PTL

----------------------------------------------------------------------------
(* A positive answer to a release stays true. *)

Released(v, content) ==
  v \in deleted \/ (rows[v].stability = "ga" /\ rows[v].content = content)

NoopPath == {"touch", "noop_trunk", "get_origin", "fill_origin"}

\* An absent entry has no content, in the line and in what a call read.
AbsentIsEmpty ==
  /\ \A v \in Versions : rows[v].stability = "none" => rows[v].content = NoContent
  /\ \A c \in Calls, v \in Versions :
       seen[c][v].stability = "none" => seen[c][v].content = NoContent

\* A GA that a call read is still released.
SeenReleased ==
  \A c \in Calls, v \in Versions :
    seen[c][v].stability = "ga" => Released(v, seen[c][v].content)

\* A call on the identical-content path read the bytes it was asked to store,
\* as a GA if it was asked for a release.
NoopRead ==
  \A c \in Calls : pc[c] \in NoopPath =>
    /\ Existing(c).content = req[c].content
    /\ req[c].stability = "ga" => Existing(c).stability = "ga"

\* A call past its upsert has released what it was asked to release.
WrittenReleased ==
  \A c \in Calls :
    pc[c] \in {"set_origin", "set_trunk"} /\ req[c].stability = "ga" =>
      Released(VersionOf[req[c].content], req[c].content)

Durable == /\ AbsentIsEmpty /\ SeenReleased /\ NoopRead /\ WrittenReleased
           /\ ReleaseAnswerHolds

LEMMA ReleasedStays ==
  ASSUME Typed, [Next]_vars, NEW v \in Versions, NEW content, Released(v, content)
  PROVE  v \in deleted' \/ (rows'[v].stability = "ga" /\ rows'[v].content = content)
  <1>1. CASE v \in deleted
    BY <1>1, HistoryGrows
  <1>2. CASE rows[v].stability = "ga" /\ rows[v].content = content
    <2>1. SameRelease(rows[v], rows'[v]) \/ DeleteVersion(v)
      BY <1>2, ReleaseStep
    <2>. QED BY <1>2, <2>1 DEF SameRelease, DeleteVersion
  <1>. QED BY <1>1, <1>2 DEF Released

LEMMA DurableInit == Init => Durable
  BY DEF Init, Durable, AbsentIsEmpty, SeenReleased, NoopRead, NoopPath, WrittenReleased,
         ReleaseAnswerHolds, NoRow

LEMMA AbsentNext == Typed /\ AbsentIsEmpty /\ [Next]_vars => AbsentIsEmpty'
  <1>. SUFFICES ASSUME Typed, AbsentIsEmpty, [Next]_vars PROVE AbsentIsEmpty'
    OBVIOUS
  <1>1. ASSUME NEW v \in Versions, rows'[v].stability = "none"
        PROVE  rows'[v].content = NoContent
    <2>1. CASE Kept(rows[v], rows'[v])
      BY <1>1, <2>1 DEF Kept, AbsentIsEmpty
    <2>2. CASE rows'[v] = NoRow
      BY <2>2 DEF NoRow
    <2>3. ASSUME NEW c \in Calls, Commit(c), rows'[v] = Upserted(c, rows[v]) PROVE FALSE
      <3>1. req[c].stability \in Stabilities
        BY <2>3, RunningCall DEF Commit, Requests
      <3>. QED BY <1>1, <2>3, <3>1 DEF Upserted, Stabilities
    <2>. QED BY <2>1, <2>2, <2>3, EntryAfterStep
  <1>2. ASSUME NEW c \in Calls, NEW v \in Versions, seen'[c][v].stability = "none"
        PROVE  seen'[c][v].content = NoContent
    <2>1. Kept(rows[v], Meta(rows[v]))
      BY DEF Kept, Meta, Typed, TypeOK, Rows
    <2>. QED BY <1>2, <2>1, SeenSteps DEF Kept, AbsentIsEmpty, NoRow
  <1>. QED BY <1>1, <1>2 DEF AbsentIsEmpty

LEMMA SeenReleasedNext == Typed /\ SeenReleased /\ [Next]_vars => SeenReleased'
  <1>. SUFFICES ASSUME Typed, SeenReleased, [Next]_vars, NEW c \in Calls,
                       NEW v \in Versions, seen'[c][v].stability = "ga"
                PROVE  v \in deleted' \/ (/\ rows'[v].stability = "ga"
                                          /\ rows'[v].content = seen'[c][v].content)
    BY DEF SeenReleased, Released
  <1>1. CASE seen'[c][v] = seen[c][v]
    BY <1>1, ReleasedStays DEF SeenReleased
  <1>2. CASE seen'[c][v] = NoRow
    BY <1>2 DEF NoRow
  <1>3. CASE seen'[c][v] = Meta(rows[v]) /\ rows' = rows
    <2>1. Kept(rows[v], Meta(rows[v]))
      BY DEF Kept, Meta, Typed, TypeOK, Rows
    <2>. QED BY <1>3, <2>1 DEF Kept
  <1>. QED BY <1>1, <1>2, <1>3, SeenSteps

\* What an identical request finds: the released bytes, when it is a release.
LEMMA IdenticalRelease ==
  ASSUME Typed, AbsentIsEmpty, NEW c \in Calls, pc[c] \notin {"idle", "done"}, Identical(c)
  PROVE  /\ Existing(c).content = req[c].content
         /\ req[c].stability = "ga" => Existing(c).stability = "ga"
  <1>1. req[c].content \in Contents /\ Existing(c) \in Rows
    BY RunningCall DEF Requests
  <1>2. VersionOf[req[c].content] \in Versions
    BY RunningCall
  <1>3. Existing(c).stability # "none"
    BY <1>1, <1>2, VersionLineAssumptions DEF Identical, Existing, AbsentIsEmpty
  <1>. QED BY <1>1, <1>3 DEF Identical, Promoting, Rows, Stabilities

IdenticalRead(c) == /\ Existing(c).content = req[c].content
                    /\ req[c].stability = "ga" => Existing(c).stability = "ga"

\* How one step moves a call, as far as its answer to a release depends on it.
CallMove(c) ==
  \/ /\ pc'[c] = pc[c] /\ req'[c] = req[c] /\ seen'[c] = seen[c]
     /\ answer'[c] = answer[c]
  \/ pc'[c] \in {"idle", "line", "decide", "commit"}
  \/ pc'[c] = "done" /\ answer'[c] \notin {"stored", "noop"}
  \/ /\ IdenticalRead(c) /\ req'[c] = req[c] /\ pc[c] \notin {"idle", "done"}
     /\ \/ pc'[c] \in NoopPath /\ seen'[c] = seen[c]
        \/ pc'[c] = "done"
  \/ /\ Commit(c) /\ req'[c] = req[c] /\ pc'[c] \in {"set_origin", "set_trunk", "done"}
  \/ /\ pc[c] \in {"set_origin", "set_trunk"} /\ req'[c] = req[c]
     /\ pc'[c] \in {"set_trunk", "done"}

LEMMA CallMoves ==
  ASSUME Typed, AbsentIsEmpty, NoopRead, [Next]_vars, NEW c \in Calls
  PROVE  CallMove(c)
  <1>. USE DEF Typed, TypeOK
  <1>1. CASE UNCHANGED vars
    BY <1>1 DEF vars, CallMove
  <1>2. CASE Environment
    BY <1>2, EnvironmentLeavesCalls DEF calls, CallMove
  <1>3. ASSUME NEW d \in Calls, Call(d), d # c PROVE CallMove(c)
    BY <1>3, OnlyOwnStep DEF CallMove
  <1>4. CASE Call(c)
    <2>1. CASE BeginProvide(c) \/ BeginPromote(c)
      <3>1. PICK r \in Requests : Begin(c, r)
        BY <2>1, BeginRequest
      <3>. QED BY <3>1 DEF Begin, CallMove
    <2>2. CASE ReadLine(c) \/ Drop(c)
      BY <2>2 DEF ReadLine, Drop, Goto, CallMove
    <2>3. CASE DecideRefused(c)
      <3>1. PICK a \in Answers \ {"stored", "noop"} : Answer(c, a)
        BY <2>3 DEF DecideRefused, Answers
      <3>. QED BY <3>1 DEF Answer, CallMove
    <2>4. CASE DecideAccepted(c)
      BY <2>4 DEF DecideAccepted, GotoOrAnswer, Goto, Answer, CallMove
    <2>5. CASE CommitConflict(c)
      BY <2>5 DEF CommitConflict, Answer, CallMove
    <2>6. CASE Commit(c)
      <3>1. req'[c] = req[c] /\ pc'[c] \in {"set_origin", "set_trunk", "done"}
        BY <2>6 DEF Commit, Goto, Answer
      <3>. QED BY <2>6, <3>1 DEF CallMove
    <2>7. CASE SetOrigin(c) \/ SetTrunk(c)
      BY <2>7 DEF SetOrigin, SetTrunk, GotoOrAnswer, Goto, Answer, CallMove
    <2>8. CASE DecideIdentical(c)
      <3>1. IdenticalRead(c) /\ pc[c] \notin {"idle", "done"}
        BY <2>8, IdenticalRelease DEF DecideIdentical, IdenticalRead
      <3>2. /\ req'[c] = req[c]
            /\ \/ pc'[c] \in NoopPath /\ seen'[c] = seen[c]
               \/ pc'[c] = "done"
        BY <2>8 DEF DecideIdentical, NoopFrom, Goto, Answer, NoopPath
      <3>. QED BY <3>1, <3>2 DEF CallMove
    <2>9. CASE TouchProvided(c) \/ NoopTrunk(c) \/ GetOrigin(c) \/ FillOrigin(c)
      <3>1. IdenticalRead(c) /\ pc[c] \notin {"idle", "done"}
        BY <2>9 DEF TouchProvided, NoopTrunk, GetOrigin, FillOrigin, NoopRead, NoopPath,
                    IdenticalRead
      <3>2. /\ req'[c] = req[c]
            /\ \/ pc'[c] \in NoopPath /\ seen'[c] = seen[c]
               \/ pc'[c] = "done"
        BY <2>9 DEF TouchProvided, NoopTrunk, GetOrigin, FillOrigin, NoopFrom,
                    GotoOrAnswer, Goto, Answer, NoopPath
      <3>. QED BY <3>1, <3>2 DEF CallMove
    <2>. QED BY <1>4, <2>1, <2>2, <2>3, <2>4, <2>5, <2>6, <2>7, <2>8, <2>9 DEF Call
  <1>. QED BY <1>1, <1>2, <1>3, <1>4 DEF Next

\* An upsert of a release leaves it released.
LEMMA CommitReleases ==
  ASSUME Typed, NEW c \in Calls, Commit(c), req[c].stability = "ga"
  PROVE  LET v == VersionOf[req[c].content]
         IN  rows'[v].stability = "ga" /\ rows'[v].content = req[c].content
  <1>1. VersionOf[req[c].content] \in Versions
    BY RunningCall DEF Commit
  <1>. QED BY <1>1 DEF Commit, Upserted, Typed, TypeOK

LEMMA DurableNext == Typed /\ Durable /\ [Next]_vars => Durable'
  <1>. SUFFICES ASSUME Typed, Durable, [Next]_vars PROVE Durable'
    OBVIOUS
  <1>1. AbsentIsEmpty' /\ SeenReleased'
    BY AbsentNext, SeenReleasedNext DEF Durable
  <1>2. NoopRead'
    <2>. SUFFICES ASSUME NEW c \in Calls, pc'[c] \in NoopPath
                  PROVE  /\ seen'[c][VersionOf[req'[c].content]].content = req'[c].content
                         /\ req'[c].stability = "ga" =>
                              seen'[c][VersionOf[req'[c].content]].stability = "ga"
      BY DEF NoopRead, Existing
    <2>1. CallMove(c)
      BY CallMoves DEF Durable
    <2>. QED BY <2>1 DEF CallMove, Durable, NoopRead, NoopPath, Existing, IdenticalRead
  <1>3. ASSUME NEW c \in Calls, req'[c].stability = "ga",
               \/ pc'[c] \in {"set_origin", "set_trunk"}
               \/ pc'[c] = "done" /\ answer'[c] \in {"stored", "noop"}
        PROVE  LET v == VersionOf[req'[c].content]
               IN  v \in deleted' \/ (rows'[v].stability = "ga" /\ rows'[v].content = req'[c].content)
    <2>. DEFINE v == VersionOf[req[c].content]
    <2>1. CallMove(c)
      BY CallMoves DEF Durable
    <2>2. ASSUME Released(v, req[c].content), v \in Versions, req'[c] = req[c]
          PROVE  v \in deleted' \/ (rows'[v].stability = "ga" /\ rows'[v].content = req[c].content)
      BY <2>2, ReleasedStays
    <2>3. CASE pc'[c] = pc[c] /\ req'[c] = req[c] /\ answer'[c] = answer[c]
      <3>1. Released(v, req[c].content)
        BY <1>3, <2>3 DEF Durable, WrittenReleased, ReleaseAnswerHolds, Released
      <3>2. v \in Versions
        BY <1>3, <2>3, RunningCall
      <3>. QED BY <2>2, <2>3, <3>1, <3>2
    <2>4. CASE IdenticalRead(c) /\ req'[c] = req[c] /\ pc[c] \notin {"idle", "done"}
      <3>1. v \in Versions
        BY <2>4, RunningCall
      <3>2. Released(v, req[c].content)
        BY <1>3, <2>4, <3>1 DEF IdenticalRead, Existing, Durable, SeenReleased
      <3>. QED BY <2>2, <2>4, <3>1, <3>2
    <2>5. CASE Commit(c) /\ req'[c] = req[c]
      BY <1>3, <2>5, CommitReleases
    <2>6. CASE pc[c] \in {"set_origin", "set_trunk"} /\ req'[c] = req[c]
      <3>1. v \in Versions
        BY <2>6, RunningCall
      <3>2. Released(v, req[c].content)
        BY <1>3, <2>6 DEF Durable, WrittenReleased
      <3>. QED BY <2>2, <2>6, <3>1, <3>2
    <2>. HIDE DEF v
    <2>. QED BY <1>3, <2>1, <2>3, <2>4, <2>5, <2>6 DEF CallMove
  <1>4. WrittenReleased' /\ ReleaseAnswerHolds'
    BY <1>3 DEF WrittenReleased, ReleaseAnswerHolds, Released
  <1>. QED BY <1>1, <1>2, <1>4 DEF Durable

\* A client told that its release is stored, or already is, can rely on it:
\* the number stays GA with its bytes until an admin deletes it, although the
\* call may have answered from a line read long before.
THEOREM ReleaseAnswerIsDurable == Spec => []ReleaseAnswerHolds
  <1>1. Spec => [](Typed /\ Durable)
    BY TypeInit, TypeNext, DurableInit, DurableNext, PTL DEF Spec
  <1>2. Durable => ReleaseAnswerHolds
    BY DEF Durable
  <1>. QED BY <1>1, <1>2, PTL

----------------------------------------------------------------------------
(* Row ids: what a call read or wrote long ago still names the same number. *)

\* An entry has an id exactly while it is stored, drawn from the counter and
\* its own, and stands for a document.
IdsFit ==
  /\ \A v \in Versions : /\ rows[v].id = 0 <=> rows[v].stability = "none"
                         /\ rows[v].id < nextId
                         /\ rows[v].stability # "none" => rows[v].content \in Contents
  /\ \A v, w \in Versions : rows[v].id = rows[w].id /\ rows[v].id # 0 => v = w

\* An id a call read is stored, if at all, under the number it was read for,
\* and a GA it read still has its bytes.
SeenFits ==
  \A c \in Calls, v \in Versions :
    /\ seen[c][v].id = 0 <=> seen[c][v].stability = "none"
    /\ seen[c][v].id < nextId
    /\ \A w \in Versions : rows[w].id = seen[c][v].id /\ rows[w].id # 0 => w = v
    /\ seen[c][v].stability = "ga" /\ rows[v].id = seen[c][v].id =>
         rows[v].stability = "ga" /\ rows[v].content = seen[c][v].content

LatePath == NoopPath \cup {"set_origin", "set_trunk"}

\* The id a call's late writes address belongs to no number but its own.
EntryFits ==
  \A c \in Calls : pc[c] \in LatePath =>
    /\ entry[c] < nextId
    /\ \A w \in Versions : rows[w].id = entry[c] /\ entry[c] # 0 =>
                             w = VersionOf[req[c].content]

OriginsFit == OriginOfItsNumber /\ \A o \in origins : o.id < nextId

\* What DecideAccepted has established for the upsert that follows.
Decided ==
  \A c \in Calls : pc[c] = "commit" =>
    /\ Existing(c).stability # "ga" /\ ~OwnedByOther(c)
    /\ req[c].stability = "ga" =>
         LET v == VersionOf[req[c].content]
         IN  \A b \in Versions :
               IsGaBaseline(seen[c], v, b) /\ v[1] = b[1] /\ rows[b].id = seen[c][b].id
                 => \E x \in ContentReads(rows[b].id) : <<x, req[c].content>> \in Compatible

Identified == IdsFit /\ SeenFits

LEMMA CounterSteps ==
  ASSUME Typed, [Next]_vars
  PROVE  UNCHANGED nextId \/ \E c \in Calls : Commit(c)
  <1>1. CASE UNCHANGED vars
    BY <1>1 DEF vars
  <1>2. CASE Environment
    BY <1>2 DEF Environment, RequireVersion, DeleteVersion, RowAges, TrunkAges,
         ExpireSnapshots, SweepOrigins, ClearTrunkMarkers, CloseTrunkMembers, line
  <1>3. ASSUME NEW c \in Calls, Call(c), ~Commit(c) PROVE UNCHANGED nextId
    <2>1. CASE BeginProvide(c) \/ BeginPromote(c)
      BY <2>1, BeginRequest DEF Begin, line
    <2>. QED BY <1>3, <2>1 DEF Call, ReadLine, DecideIdentical, DecideRefused, DecideAccepted,
         CommitConflict, SetOrigin, SetTrunk, TouchProvided, NoopTrunk, GetOrigin,
         FillOrigin, Drop, line
  <1>. QED BY <1>1, <1>2, <1>3 DEF Next

\* Where an upsert puts its entry, and which id it gives it.
LEMMA CommitRow ==
  ASSUME Typed, NEW c \in Calls, Commit(c)
  PROVE  LET v == VersionOf[req[c].content]
         IN  /\ v \in Versions /\ req[c] \in Requests
             /\ rows' = [rows EXCEPT ![v] = Upserted(c, rows[v])]
             /\ rows'[v] = Upserted(c, rows[v])
             /\ \/ /\ rows[v].stability = "none" /\ nextId' = nextId + 1
                   /\ rows'[v].id = nextId
                \/ /\ rows[v].stability # "none" /\ nextId' = nextId
                   /\ rows'[v].id = rows[v].id
  <1>. DEFINE v == VersionOf[req[c].content]
  <1>1. v \in Versions /\ req[c] \in Requests
    BY RunningCall DEF Commit
  <1>2. /\ rows' = [rows EXCEPT ![v] = Upserted(c, rows[v])]
        /\ nextId' = IF rows[v].stability = "none" THEN nextId + 1 ELSE nextId
    BY DEF Commit
  <1>3. rows'[v] = Upserted(c, rows[v])
    BY <1>1, <1>2 DEF Typed, TypeOK
  <1>. QED BY <1>1, <1>2, <1>3 DEF Upserted

\* A step takes the next id for one number, or gives out none.
LEMMA IdSteps ==
  ASSUME Typed, [Next]_vars
  PROVE  \/ nextId' = nextId /\ \A v \in Versions : rows'[v].id \in {rows[v].id, 0}
         \/ /\ nextId' = nextId + 1
            /\ \E w \in Versions : /\ rows'[w].id = nextId
                                   /\ \A v \in Versions \ {w} : rows'[v] = rows[v]
  <1>1. ASSUME NEW c \in Calls, Commit(c)
        PROVE  \/ nextId' = nextId /\ \A v \in Versions : rows'[v].id = rows[v].id
               \/ /\ nextId' = nextId + 1
                  /\ \E w \in Versions : /\ rows'[w].id = nextId
                                         /\ \A v \in Versions \ {w} : rows'[v] = rows[v]
    <2>. DEFINE w == VersionOf[req[c].content]
    <2>1. w \in Versions /\ rows' = [rows EXCEPT ![w] = Upserted(c, rows[w])]
      BY <1>1, CommitRow
    <2>2. \A v \in Versions \ {w} : rows'[v] = rows[v]
      BY <2>1 DEF Typed, TypeOK
    <2>3. \/ nextId' = nextId + 1 /\ rows'[w].id = nextId
          \/ nextId' = nextId /\ rows'[w].id = rows[w].id
      BY <1>1, CommitRow
    <2>. HIDE DEF w
    <2>. QED BY <2>1, <2>2, <2>3
  <1>2. CASE nextId' = nextId /\ ~\E c \in Calls : Commit(c)
    BY <1>2, EntryAfterStep DEF Kept, NoRow
  <1>. QED BY <1>1, <1>2, CounterSteps

\* An id handed out before the step is stored after it only where it was.
LEMMA OldIds ==
  ASSUME Typed, [Next]_vars, NEW w \in Versions, rows'[w].id # 0, rows'[w].id < nextId
  PROVE  rows[w].id = rows'[w].id
  <1>1. nextId \in Nat
    BY DEF Typed, TypeOK
  <1>. QED BY <1>1, IdSteps

LEMMA IdsFitNext == Typed /\ IdsFit /\ [Next]_vars => IdsFit'
  <1>. SUFFICES ASSUME Typed, IdsFit, [Next]_vars PROVE IdsFit'
    OBVIOUS
  <1>0. /\ nextId \in Nat \ {0} /\ nextId' \in Nat
        /\ \A v \in Versions : rows[v] \in Rows /\ rows'[v] \in Rows
    BY TypeNext DEF Typed, TypeOK
  <1>a. \A v \in Versions : rows[v].id \in Nat /\ rows'[v].id \in Nat
    BY <1>0 DEF Rows
  <1>1. ASSUME NEW v \in Versions
        PROVE  /\ rows'[v].id = 0 <=> rows'[v].stability = "none"
               /\ rows'[v].stability # "none" => rows'[v].content \in Contents
    <2>1. CASE Kept(rows[v], rows'[v])
      BY <2>1 DEF Kept, IdsFit
    <2>2. CASE rows'[v] = NoRow
      BY <2>2 DEF NoRow
    <2>3. ASSUME NEW c \in Calls, Commit(c), VersionOf[req[c].content] = v
          PROVE  /\ rows'[v].id # 0 /\ rows'[v].stability # "none"
                 /\ rows'[v].content \in Contents
      <3>1. rows'[v].id # 0
        BY <1>0, <2>3, CommitRow DEF IdsFit
      <3>2. req[c] \in Requests /\ rows'[v] = Upserted(c, rows[v])
        BY <2>3, CommitRow
      <3>. QED BY <3>1, <3>2 DEF Upserted, Requests, Stabilities
    <2>. QED BY <2>1, <2>2, <2>3, EntryAfterStep
  <1>2. \A v \in Versions : rows'[v].id < nextId'
    BY <1>0, <1>a, IdSteps DEF IdsFit
  <1>3. ASSUME NEW v \in Versions, NEW w \in Versions, rows'[v].id = rows'[w].id,
               rows'[v].id # 0
        PROVE  v = w
    BY <1>0, <1>a, <1>3, IdSteps DEF IdsFit
  <1>. QED BY <1>1, <1>2, <1>3 DEF IdsFit

LEMMA SeenFitsNext == Typed /\ Identified /\ [Next]_vars => SeenFits'
  <1>. SUFFICES ASSUME Typed, Identified, [Next]_vars, NEW c \in Calls, NEW v \in Versions
                PROVE  /\ seen'[c][v].id = 0 <=> seen'[c][v].stability = "none"
                       /\ seen'[c][v].id < nextId'
                       /\ \A w \in Versions :
                            rows'[w].id = seen'[c][v].id /\ rows'[w].id # 0 => w = v
                       /\ seen'[c][v].stability = "ga" /\ rows'[v].id = seen'[c][v].id =>
                            /\ rows'[v].stability = "ga"
                            /\ rows'[v].content = seen'[c][v].content
    BY DEF SeenFits
  <1>0. /\ nextId \in Nat \ {0} /\ nextId' \in Nat /\ nextId <= nextId'
        /\ seen[c][v] \in Rows /\ seen[c][v].id \in Nat
    BY TypeNext, IdSteps DEF Typed, TypeOK, Rows
  <1>1. CASE seen'[c][v] = seen[c][v]
    <2>1. seen[c][v].id < nextId /\ (seen[c][v].id = 0 <=> seen[c][v].stability = "none")
      BY DEF Identified, SeenFits
    <2>2. ASSUME NEW w \in Versions, rows'[w].id = seen[c][v].id, rows'[w].id # 0
          PROVE  rows[w].id = seen[c][v].id /\ w = v
      BY <2>1, <2>2, OldIds DEF Identified, SeenFits
    <2>3. ASSUME seen[c][v].stability = "ga", rows'[v].id = seen[c][v].id
          PROVE  rows'[v].stability = "ga" /\ rows'[v].content = seen[c][v].content
      <3>1. rows[v].id = seen[c][v].id /\ rows'[v].id # 0
        BY <2>1, <2>2, <2>3
      <3>2. rows[v].stability = "ga" /\ rows[v].content = seen[c][v].content
        BY <2>3, <3>1 DEF Identified, SeenFits
      <3>3. ~DeleteVersion(v)
        BY <3>1 DEF DeleteVersion, NoRow, Typed, TypeOK
      <3>. QED BY <3>2, <3>3, ReleaseStep DEF SameRelease
    <2>. QED BY <1>0, <1>1, <2>1, <2>2, <2>3
  <1>2. CASE seen'[c][v] = NoRow
    BY <1>0, <1>2 DEF NoRow
  <1>3. CASE seen'[c][v] = Meta(rows[v]) /\ rows' = rows
    <2>1. Kept(rows[v], seen'[c][v])
      BY <1>3 DEF Kept, Meta, Typed, TypeOK, Rows
    <2>2. rows[v].id < nextId /\ rows[v].id \in Nat
      BY DEF Identified, IdsFit, Typed, TypeOK, Rows
    <2>. QED BY <1>0, <1>3, <2>1, <2>2 DEF Kept, Identified, IdsFit
  <1>. QED BY <1>1, <1>2, <1>3, SeenSteps

LEMMA IdentifiedInit == Init => Identified
  BY DEF Init, Identified, IdsFit, SeenFits, NoRow

LEMMA IdentifiedNext == Typed /\ Identified /\ [Next]_vars => Identified'
  BY IdsFitNext, SeenFitsNext DEF Identified

----------------------------------------------------------------------------
(* Origins. *)

\* How a step moves a call that has late writes to do.
LateMove(c) ==
  \/ pc'[c] \notin LatePath
  \/ pc[c] \in LatePath /\ entry'[c] = entry[c] /\ req'[c] = req[c]
  \/ /\ pc[c] = "decide" /\ Identical(c) /\ req'[c] = req[c] /\ rows' = rows
     /\ entry'[c] = Existing(c).id
  \/ /\ Commit(c) /\ req'[c] = req[c]
     /\ entry'[c] = Upserted(c, rows[VersionOf[req[c].content]]).id

LEMMA OtherEntryStays ==
  ASSUME Typed, NEW d \in Calls, Call(d), NEW c \in Calls, c # d
  PROVE  entry'[c] = entry[c]
  <1>. USE DEF Typed, TypeOK
  <1>1. CASE BeginProvide(d) \/ BeginPromote(d)
    BY <1>1, BeginRequest DEF Begin
  <1>2. CASE ReadLine(d) \/ DecideIdentical(d) \/ DecideRefused(d) \/ DecideAccepted(d)
    BY <1>2 DEF ReadLine, DecideIdentical, DecideRefused, DecideAccepted,
                GotoOrAnswer, Goto, Answer
  <1>3. CASE Commit(d)
    BY <1>3 DEF Commit, Goto, Answer
  <1>4. CASE CommitConflict(d) \/ SetOrigin(d) \/ SetTrunk(d)
    BY <1>4 DEF CommitConflict, SetOrigin, SetTrunk, GotoOrAnswer, Goto, Answer
  <1>5. CASE TouchProvided(d) \/ NoopTrunk(d) \/ GetOrigin(d) \/ FillOrigin(d)
    BY <1>5 DEF TouchProvided, NoopTrunk, GetOrigin, FillOrigin, GotoOrAnswer, Goto, Answer
  <1>6. CASE Drop(d)
    BY <1>6 DEF Drop
  <1>. QED BY <1>1, <1>2, <1>3, <1>4, <1>5, <1>6 DEF Call

LEMMA LateMoves ==
  ASSUME Typed, [Next]_vars, NEW c \in Calls
  PROVE  LateMove(c)
  <1>. USE DEF Typed, TypeOK, LatePath, NoopPath
  <1>1. CASE UNCHANGED vars
    BY <1>1 DEF vars, LateMove
  <1>2. CASE Environment
    BY <1>2, EnvironmentLeavesCalls DEF calls, LateMove
  <1>3. ASSUME NEW d \in Calls, Call(d), d # c PROVE LateMove(c)
    BY <1>3, OnlyOwnStep, OtherEntryStays DEF LateMove
  <1>4. CASE Call(c)
    <2>1. CASE BeginProvide(c) \/ BeginPromote(c)
      <3>1. PICK r \in Requests : Begin(c, r)
        BY <2>1, BeginRequest
      <3>. QED BY <3>1 DEF Begin, LateMove
    <2>2. CASE ReadLine(c) \/ Drop(c)
      BY <2>2 DEF ReadLine, Drop, Goto, LateMove
    <2>3. CASE DecideRefused(c) \/ CommitConflict(c)
      BY <2>3 DEF DecideRefused, CommitConflict, Answer, LateMove
    <2>4. CASE DecideAccepted(c)
      BY <2>4 DEF DecideAccepted, GotoOrAnswer, Goto, Answer, LateMove
    <2>5. CASE DecideIdentical(c)
      <3>1. CASE pc'[c] = "done"
        BY <3>1 DEF LateMove
      <3>2. CASE pc'[c] # "done"
        <4>1. /\ entry' = [entry EXCEPT ![c] = Existing(c).id]
              /\ req' = req /\ rows' = rows
          BY <2>5, <3>2 DEF DecideIdentical, Goto, Answer, line
        <4>. QED BY <2>5, <4>1 DEF DecideIdentical, LateMove
      <3>. QED BY <3>1, <3>2
    <2>6. CASE Commit(c)
      <3>1. CASE pc'[c] = "done"
        BY <3>1 DEF LateMove
      <3>2. CASE pc'[c] # "done"
        <4>1. /\ entry' = [entry EXCEPT ![c] = Upserted(c, rows[VersionOf[req[c].content]]).id]
              /\ req' = req
          BY <2>6, <3>2 DEF Commit, Goto, Answer
        <4>. QED BY <2>6, <4>1 DEF LateMove
      <3>. QED BY <3>1, <3>2
    <2>7. CASE SetOrigin(c) \/ SetTrunk(c)
      BY <2>7 DEF SetOrigin, SetTrunk, GotoOrAnswer, Goto, Answer, LateMove
    <2>8. CASE TouchProvided(c) \/ NoopTrunk(c)
      BY <2>8 DEF TouchProvided, NoopTrunk, NoopFrom, GotoOrAnswer, Goto, Answer, LateMove
    <2>9. CASE GetOrigin(c) \/ FillOrigin(c)
      BY <2>9 DEF GetOrigin, FillOrigin, Goto, Answer, LateMove
    <2>. QED BY <1>4, <2>1, <2>2, <2>3, <2>4, <2>5, <2>6, <2>7, <2>8, <2>9 DEF Call
  <1>. QED BY <1>1, <1>2, <1>3, <1>4 DEF Next

LEMMA EntryFitsNext == Typed /\ Identified /\ EntryFits /\ [Next]_vars => EntryFits'
  <1>. SUFFICES ASSUME Typed, Identified, EntryFits, [Next]_vars, NEW c \in Calls,
                       pc'[c] \in LatePath
                PROVE  /\ entry'[c] < nextId'
                       /\ \A w \in Versions : rows'[w].id = entry'[c] /\ entry'[c] # 0 =>
                                                w = VersionOf[req'[c].content]
    BY DEF EntryFits
  <1>. DEFINE v == VersionOf[req[c].content]
  <1>0. /\ nextId \in Nat \ {0} /\ nextId' \in Nat /\ nextId <= nextId'
        /\ entry[c] \in Nat /\ entry'[c] \in Nat
    BY TypeNext, IdSteps DEF Typed, TypeOK
  <1>1. CASE pc[c] \in LatePath /\ entry'[c] = entry[c] /\ req'[c] = req[c]
    <2>1. /\ entry[c] < nextId
          /\ \A w \in Versions : rows[w].id = entry[c] /\ entry[c] # 0 => w = v
      BY <1>1 DEF EntryFits
    <2>. HIDE DEF v
    <2>2. \A w \in Versions : rows'[w].id = entry[c] /\ entry[c] # 0 => w = v
      BY <2>1, OldIds
    <2>. QED BY <1>0, <1>1, <2>1, <2>2 DEF v
  <1>2. CASE /\ pc[c] = "decide" /\ Identical(c) /\ req'[c] = req[c] /\ rows' = rows
             /\ entry'[c] = Existing(c).id
    <2>1. v \in Versions
      BY <1>2, RunningCall
    <2>2. /\ seen[c][v].id < nextId /\ entry'[c] = seen[c][v].id
          /\ \A w \in Versions : rows[w].id = seen[c][v].id /\ rows[w].id # 0 => w = v
      BY <1>2, <2>1 DEF Existing, Identified, SeenFits
    <2>. HIDE DEF v
    <2>3. \A w \in Versions : rows'[w].id = entry'[c] /\ entry'[c] # 0 => w = v
      BY <1>2, <2>2
    <2>4. entry'[c] < nextId'
      BY <1>0, <2>2
    <2>. QED BY <1>2, <2>3, <2>4 DEF v
  <1>3. CASE /\ Commit(c) /\ req'[c] = req[c]
             /\ entry'[c] = Upserted(c, rows[v]).id
    <2>1. v \in Versions /\ entry'[c] = rows'[v].id
      BY <1>3, CommitRow
    <2>2. IdsFit'
      BY IdsFitNext DEF Identified
    <2>. HIDE DEF v
    <2>3. \A w \in Versions : rows'[w].id = entry'[c] /\ entry'[c] # 0 => w = v
      BY <2>1, <2>2 DEF IdsFit
    <2>4. entry'[c] < nextId'
      BY <2>1, <2>2 DEF IdsFit
    <2>. QED BY <1>3, <2>3, <2>4 DEF v
  <1>. QED BY <1>1, <1>2, <1>3, LateMoves DEF LateMove

\* A step attaches at most one origin, that of a request on record, to the id
\* a call on its late path addresses.
LEMMA OriginSteps ==
  ASSUME Typed, [Next]_vars
  PROVE  \/ origins' \subseteq origins
         \/ \E c \in Calls, o \in Origins :
              /\ pc[c] \in LatePath /\ rows' = rows
              /\ origins' \subseteq origins \cup {o}
              /\ o.id = entry[c] /\ o.build = req[c].build
  <1>1. CASE UNCHANGED vars
    BY <1>1 DEF vars
  <1>2. CASE Environment
    BY <1>2 DEF Environment, RequireVersion, DeleteVersion, RowAges, TrunkAges,
         ExpireSnapshots, SweepOrigins, ClearTrunkMarkers, CloseTrunkMembers
  <1>3. ASSUME NEW c \in Calls, SetOrigin(c)
        PROVE  \E o \in Origins :
                 /\ pc[c] \in LatePath /\ rows' = rows
                 /\ origins' \subseteq origins \cup {o}
                 /\ o.id = entry[c] /\ o.build = req[c].build
    <2>. DEFINE o == [id |-> entry[c], build |-> req[c].build, why |-> req[c].why,
                      trunkBuild |-> req[c].trunk /\ req[c].build # NoLink]
    <2>1. pc[c] = "set_origin" /\ rows' = rows /\ origins' = WithOrigin(o)
      BY <1>3 DEF SetOrigin, line
    <2>2. req[c] \in Requests /\ entry[c] \in Nat
      BY <2>1, RunningCall DEF Typed, TypeOK
    <2>3. o \in Origins /\ o.id = entry[c] /\ o.build = req[c].build
      BY <2>2 DEF Origins, Requests
    <2>. HIDE DEF o
    <2>. QED BY <2>1, <2>3 DEF WithOrigin, LatePath
  <1>4. ASSUME NEW c \in Calls, FillOrigin(c)
        PROVE  \/ origins' \subseteq origins
               \/ \E o \in Origins :
                    /\ pc[c] \in LatePath /\ rows' = rows
                    /\ origins' \subseteq origins \cup {o}
                    /\ o.id = entry[c] /\ o.build = req[c].build
    <2>. DEFINE o == OriginForIdentical(c)
    <2>1. /\ pc[c] = "fill_origin" /\ rows' = rows
          /\ origins' = IF o = NoOrigin THEN origins ELSE WithOrigin(o)
      BY <1>4 DEF FillOrigin, line
    <2>2. req[c] \in Requests /\ entry[c] \in Nat /\ got[c] \in Origins
      BY <2>1, RunningCall DEF Typed, TypeOK
    <2>3. o # NoOrigin => o \in Origins /\ o.id = entry[c] /\ o.build = req[c].build
      BY <2>2 DEF OriginForIdentical, Origins, Requests
    <2>. HIDE DEF o
    <2>. QED BY <2>1, <2>3 DEF WithOrigin, LatePath, NoopPath
  <1>5. ASSUME NEW c \in Calls, Call(c), ~SetOrigin(c), ~FillOrigin(c)
        PROVE  origins' = origins
    <2>1. CASE BeginProvide(c) \/ BeginPromote(c)
      BY <2>1, BeginRequest DEF Begin
    <2>. QED BY <1>5, <2>1 DEF Call, ReadLine, DecideIdentical, DecideRefused, DecideAccepted,
         Commit, CommitConflict, SetTrunk, TouchProvided, NoopTrunk, GetOrigin, Drop
  <1>. QED BY <1>1, <1>2, <1>3, <1>4, <1>5 DEF Next

LEMMA OriginsFitNext ==
  Typed /\ Identified /\ EntryFits /\ OriginsFit /\ [Next]_vars => OriginsFit'
  <1>. SUFFICES ASSUME Typed, Identified, EntryFits, OriginsFit, [Next]_vars,
                       NEW o \in origins'
                PROVE  /\ o.id < nextId'
                       /\ \A v \in Versions :
                            rows'[v].stability # "none" /\ o.id = rows'[v].id =>
                              \E r \in submitted' : /\ VersionOf[r.content] = v
                                                    /\ o.build \in {NoLink, r.build}
    BY DEF OriginsFit, OriginOfItsNumber
  <1>0. /\ nextId \in Nat \ {0} /\ nextId' \in Nat /\ nextId <= nextId'
        /\ submitted \subseteq submitted' /\ IdsFit'
    BY TypeNext, IdSteps, HistoryGrows, IdsFitNext DEF Typed, TypeOK, Identified
  <1>1. CASE o \in origins
    <2>0. o.id \in Nat /\ o.id < nextId
      BY <1>1 DEF OriginsFit, Typed, TypeOK, Origins
    <2>1. ASSUME NEW v \in Versions, rows'[v].stability # "none", o.id = rows'[v].id
          PROVE  \E r \in submitted : VersionOf[r.content] = v /\ o.build \in {NoLink, r.build}
      <3>1. rows'[v].id # 0 /\ rows[v].id = rows'[v].id
        BY <1>0, <2>0, <2>1, OldIds DEF IdsFit
      <3>2. rows[v].stability # "none"
        BY <3>1 DEF Identified, IdsFit
      <3>. QED BY <1>1, <2>1, <3>1, <3>2 DEF OriginsFit, OriginOfItsNumber
    <2>. QED BY <1>0, <2>0, <2>1
  <1>2. ASSUME NEW c \in Calls, pc[c] \in LatePath, rows' = rows,
               o.id = entry[c], o.build = req[c].build
        PROVE  /\ o.id < nextId'
               /\ \A v \in Versions :
                    rows'[v].stability # "none" /\ o.id = rows'[v].id =>
                      \E r \in submitted' : /\ VersionOf[r.content] = v
                                            /\ o.build \in {NoLink, r.build}
    <2>1. req[c] \in submitted'
      BY <1>0, <1>2 DEF Typed, RunningCallHasRequest, LatePath, NoopPath
    <2>2. o.id < nextId'
      BY <1>0, <1>2 DEF EntryFits, Typed, TypeOK
    <2>3. ASSUME NEW v \in Versions, rows'[v].stability # "none", o.id = rows'[v].id
          PROVE  VersionOf[req[c].content] = v
      BY <1>0, <1>2, <2>3 DEF EntryFits, IdsFit
    <2>. QED BY <1>2, <2>1, <2>2, <2>3
  <1>. QED BY <1>1, <1>2, OriginSteps

\* The origin is written in a transaction of its own, after the upsert, by row
\* id: however late it lands, and whatever was deleted, expired or provided
\* again meanwhile, it is attached to the number it was sent for or to none.
THEOREM OriginsKeepTheirNumber == Spec => []OriginOfItsNumber
  <1>1. Init => EntryFits /\ OriginsFit
    BY DEF Init, EntryFits, OriginsFit, OriginOfItsNumber, LatePath, NoopPath
  <1>2. Spec => [](Typed /\ Identified /\ EntryFits /\ OriginsFit)
    BY <1>1, TypeInit, TypeNext, IdentifiedInit, IdentifiedNext, EntryFitsNext,
       OriginsFitNext, PTL DEF Spec
  <1>3. OriginsFit => OriginOfItsNumber
    BY DEF OriginsFit
  <1>. QED BY <1>2, <1>3, PTL

----------------------------------------------------------------------------
(* What the decision established still protects the line at the upsert. *)

\* Two entries of a line are not both the highest GA below a number.
LEMMA OneBaseline ==
  ASSUME NEW l, NEW v \in Versions, NEW a \in Versions, NEW b \in Versions,
         IsGaBaseline(l, v, a), IsGaBaseline(l, v, b)
  PROVE  a = b
  <1>1. ~Below(a, b) /\ ~Below(b, a)
    BY DEF IsGaBaseline
  <1>2. a \in Nat \X Nat \X Nat /\ b \in Nat \X Nat \X Nat
    BY VersionLineAssumptions
  <1>. QED BY <1>1, <1>2 DEF Below

\* A call waits to write because it did, or because it was just accepted.
LEMMA CommitReached ==
  ASSUME Typed, [Next]_vars, NEW c \in Calls, pc'[c] = "commit"
  PROVE  /\ req'[c] = req[c] /\ seen'[c] = seen[c]
         /\ pc[c] = "commit" \/ (DecideAccepted(c) /\ rows' = rows)
  <1>. USE DEF Typed, TypeOK
  <1>1. CASE UNCHANGED vars
    BY <1>1 DEF vars
  <1>2. CASE Environment
    BY <1>2, EnvironmentLeavesCalls DEF calls
  <1>3. ASSUME NEW d \in Calls, Call(d), d # c
        PROVE  req'[c] = req[c] /\ seen'[c] = seen[c] /\ pc[c] = "commit"
    BY <1>3, OnlyOwnStep
  <1>4. CASE Call(c)
    <2>1. ~(BeginProvide(c) \/ BeginPromote(c))
      BY BeginRequest DEF Begin
    <2>2. ~(ReadLine(c) \/ Drop(c) \/ DecideRefused(c) \/ CommitConflict(c) \/ SetTrunk(c)
            \/ GetOrigin(c) \/ FillOrigin(c))
      BY DEF ReadLine, Drop, DecideRefused, CommitConflict, SetTrunk, GetOrigin, FillOrigin,
             Goto, Answer
    <2>3. ~(Commit(c) \/ SetOrigin(c))
      BY DEF Commit, SetOrigin, GotoOrAnswer, Goto, Answer
    <2>4. ~(DecideIdentical(c) \/ TouchProvided(c) \/ NoopTrunk(c))
      BY DEF DecideIdentical, TouchProvided, NoopTrunk, NoopFrom, GotoOrAnswer, Goto, Answer
    <2>5. DecideAccepted(c)
      BY <1>4, <2>1, <2>2, <2>3, <2>4 DEF Call
    <2>. QED BY <2>5 DEF DecideAccepted, GotoOrAnswer, Goto, Answer, line
  <1>. QED BY <1>1, <1>2, <1>3, <1>4 DEF Next

\* What the content reads may return of a stored entry is bytes, and those it has
\* now where no cache lags.
LEMMA ReadsOfStored ==
  ASSUME Typed, Identified, NEW b \in Versions, rows[b].id # 0
  PROVE  /\ ContentReads(rows[b].id) \subseteq Contents
         /\ rows[b].content \in ContentReads(rows[b].id)
         /\ ~StaleReads => ContentReads(rows[b].id) = {rows[b].content}
  <1>1. {w \in Versions : rows[w].id = rows[b].id} = {b}
    BY DEF Identified, IdsFit
  <1>2. rows[b].content \in Contents
    BY DEF Identified, IdsFit
  <1>. QED BY <1>1, <1>2 DEF ContentReads

\* Bytes once written under an id may be read for ever after.
LEMMA HeldGrows ==
  ASSUME Typed, [Next]_vars
  PROVE  held \subseteq held'
  <1>1. CASE UNCHANGED vars
    BY <1>1 DEF vars
  <1>2. CASE Environment
    BY <1>2 DEF Environment, RequireVersion, DeleteVersion, RowAges, TrunkAges,
         ExpireSnapshots, SweepOrigins, ClearTrunkMarkers, CloseTrunkMembers, line
  <1>3. ASSUME NEW c \in Calls, Call(c) PROVE held \subseteq held'
    <2>1. CASE BeginProvide(c) \/ BeginPromote(c)
      BY <2>1, BeginRequest DEF Begin, line
    <2>2. CASE Commit(c)
      BY <2>2 DEF Commit
    <2>. QED BY <1>3, <2>1, <2>2 DEF Call, ReadLine, DecideIdentical, DecideRefused,
         DecideAccepted, CommitConflict, SetOrigin, SetTrunk, TouchProvided, NoopTrunk,
         GetOrigin, FillOrigin, Drop, line
  <1>. QED BY <1>1, <1>2, <1>3 DEF Next

\* An accepted release was compared with bytes its baseline has had, if that
\* entry is still stored.
LEMMA AcceptedRelease ==
  ASSUME Typed, Identified, NEW c \in Calls, DecideAccepted(c),
         req[c].stability = "ga", NEW b \in Versions,
         IsGaBaseline(seen[c], VersionOf[req[c].content], b),
         VersionOf[req[c].content][1] = b[1], rows[b].id = seen[c][b].id
  PROVE  \E x \in ContentReads(rows[b].id) : <<x, req[c].content>> \in Compatible
  <1>. DEFINE v == VersionOf[req[c].content]
              baselines == {x \in Versions : IsGaBaseline(seen[c], v, x) /\ v[1] <= x[1]}
              old == UNION {ContentReads(seen[c][x].id) : x \in baselines}
  <1>1. v \in Versions
    BY RunningCall DEF DecideAccepted
  <1>2. b[1] \in Nat
    BY VersionLineAssumptions
  <1>3. baselines = {b}
    BY <1>1, <1>2, OneBaseline
  <1>4. seen[c][b].stability = "ga" /\ rows[b].id # 0 /\ rows[b].stability = "ga"
    BY DEF IsGaBaseline, Identified, SeenFits
  <1>5. /\ ContentReads(rows[b].id) \subseteq Contents
        /\ rows[b].content \in ContentReads(rows[b].id)
    BY <1>4, ReadsOfStored
  <1>6. old = ContentReads(rows[b].id)
    BY <1>3
  <1>7. old # {}
    BY <1>5, <1>6
  <1>8. HonestyVerdicts(c) =
          {IF o = NoContent \/ <<o, req[c].content>> \in Compatible
           THEN "honest" ELSE "breaking" : o \in old}
    BY <1>7 DEF HonestyVerdicts
  <1>9. "honest" \in HonestyVerdicts(c)
    BY DEF DecideAccepted
  <1>. HIDE DEF old
  <1>10. PICK o \in old : o = NoContent \/ <<o, req[c].content>> \in Compatible
    BY <1>8, <1>9
  <1>. QED BY <1>5, <1>6, <1>10, VersionLineAssumptions

LEMMA DecidedNext == Typed /\ Identified /\ Decided /\ [Next]_vars => Decided'
  <1>. SUFFICES ASSUME Typed, Identified, Decided, [Next]_vars, NEW c \in Calls,
                       pc'[c] = "commit"
                PROVE  /\ Existing(c)'.stability # "ga" /\ ~OwnedByOther(c)'
                       /\ req'[c].stability = "ga" =>
                            LET v == VersionOf[req'[c].content]
                            IN  \A b \in Versions :
                                  IsGaBaseline(seen'[c], v, b) /\ v[1] = b[1]
                                    /\ rows'[b].id = seen'[c][b].id
                                    => \E x \in ContentReads(rows[b].id)' :
                                         <<x, req'[c].content>> \in Compatible
    BY DEF Decided
  <1>. DEFINE v == VersionOf[req[c].content]
  <1>0. /\ req'[c] = req[c] /\ seen'[c] = seen[c]
        /\ pc[c] = "commit" \/ (DecideAccepted(c) /\ rows' = rows)
    BY CommitReached
  <1>1. Existing(c)' = Existing(c) /\ OwnedByOther(c)' = OwnedByOther(c)
    BY <1>0 DEF Existing, OwnedByOther
  <1>2. Existing(c).stability # "ga" /\ ~OwnedByOther(c)
    BY <1>0 DEF Decided, DecideAccepted
  <1>3. ASSUME req[c].stability = "ga", NEW b \in Versions,
               IsGaBaseline(seen[c], v, b), v[1] = b[1], rows'[b].id = seen[c][b].id
        PROVE  \E x \in ContentReads(rows[b].id)' : <<x, req[c].content>> \in Compatible
    <2>1. /\ seen[c][b].stability = "ga" /\ seen[c][b].id # 0 /\ seen[c][b].id < nextId
      BY <1>3 DEF IsGaBaseline, Identified, SeenFits
    <2>2. rows[b].id = seen[c][b].id
      BY <1>3, <2>1, OldIds
    <2>3. \E x \in ContentReads(rows[b].id) : <<x, req[c].content>> \in Compatible
      <3>1. CASE DecideAccepted(c)
        BY <1>3, <2>2, <3>1, AcceptedRelease
      <3>2. CASE pc[c] = "commit"
        BY <1>3, <2>2, <3>2 DEF Decided
      <3>. QED BY <1>0, <3>1, <3>2
    <2>4. rows'[b].content = rows[b].content
      <3>1. rows[b].content = seen[c][b].content
        BY <2>1, <2>2 DEF Identified, SeenFits
      <3>2. rows'[b].content = seen[c][b].content
        BY <1>0, <1>3, <2>1, SeenFitsNext DEF SeenFits
      <3>. QED BY <3>1, <3>2
    <2>5. ContentReads(rows[b].id) \subseteq ContentReads(rows[b].id)'
      <3>1. {w \in Versions : rows[w].id = rows[b].id} = {b}
        BY <2>1, <2>2 DEF Identified, IdsFit
      <3>2. b \in {w \in Versions : rows'[w].id = rows'[b].id} /\ rows'[b].id = rows[b].id
        BY <1>3, <2>2
      <3>. QED BY <2>4, <3>1, <3>2, HeldGrows DEF ContentReads
    <2>. QED BY <2>3, <2>5
  <1>. QED BY <1>0, <1>1, <1>2, <1>3

LEMMA DecidedAlways == Spec => [](Typed /\ Identified /\ Decided)
  <1>1. Init => Decided
    BY DEF Init, Decided
  <1>. QED BY <1>1, TypeInit, TypeNext, IdentifiedInit, IdentifiedNext, DecidedNext,
              PTL DEF Spec

LEMMA WriterLemma ==
  ASSUME Typed, [Next]_vars, NEW c \in Calls, Writes(c)
  PROVE  pc[c] = "commit" /\ VersionOf[req[c].content] \in Versions
  <1>1. Commit(c)
    BY WriterCommits
  <1>2. pc[c] = "commit"
    BY <1>1 DEF Commit
  <1>. QED BY <1>2, RunningCall

LEMMA ReleaseIsHonest ==
  ASSUME Typed, Decided, [Next]_vars, NEW c \in Calls, Writes(c),
         req[c].stability = "ga"
  PROVE  LET v == VersionOf[req[c].content]
         IN  \A b \in Versions :
               /\ IsGaBaseline(seen[c], v, b) /\ v[1] = b[1]
               /\ rows[b].id = seen[c][b].id
               => \E x \in ContentReads(rows[b].id) : <<x, req[c].content>> \in Compatible
  <1>1. pc[c] = "commit"
    BY WriterCommits DEF Commit
  <1>. QED BY <1>1 DEF Decided

\* Semver honesty up to the line and the bytes read, on any number of replicas: a
\* release that does not bump the major is compatible with bytes that the highest
\* GA below it that the call had read has had, for as long as that entry is stored.
\* A lagging replica may compare with bytes the entry had as a snapshot.
THEOREM ReleasesAreHonestToBytesRead == Spec => HonestAgainstBytesRead
  <1>1. Typed /\ Identified /\ Decided /\ [Next]_vars =>
          [\A c \in Calls : Writes(c) /\ req[c].stability = "ga" =>
             LET v == VersionOf[req[c].content]
             IN  \A b \in Versions :
                   /\ IsGaBaseline(seen[c], v, b) /\ v[1] = b[1]
                   /\ rows[b].id = seen[c][b].id
                   => \E x \in ContentReads(rows[b].id) :
                        <<x, req[c].content>> \in Compatible]_vars
    BY ReleaseIsHonest
  <1>. QED BY <1>1, DecidedAlways, PTL DEF Spec, HonestAgainstBytesRead

\* Where the content cache does not lag (a single replica), these are the bytes the
\* entry has.
THEOREM ReleasesAreHonest == ~StaleReads => (Spec => HonestAgainstLineRead)
  <1>. SUFFICES ASSUME ~StaleReads PROVE Spec => HonestAgainstLineRead
    OBVIOUS
  <1>1. Typed /\ Identified /\ Decided /\ [Next]_vars =>
          [\A c \in Calls : Writes(c) /\ req[c].stability = "ga" =>
             LET v == VersionOf[req[c].content]
             IN  \A b \in Versions :
                   /\ IsGaBaseline(seen[c], v, b) /\ v[1] = b[1]
                   /\ rows[b].id = seen[c][b].id
                   => <<rows[b].content, req[c].content>> \in Compatible]_vars
    <2>1. ASSUME Typed, Identified, Decided, [Next]_vars, NEW c \in Calls, Writes(c),
                 req[c].stability = "ga", NEW b \in Versions,
                 IsGaBaseline(seen[c], VersionOf[req[c].content], b),
                 VersionOf[req[c].content][1] = b[1], rows[b].id = seen[c][b].id
          PROVE  <<rows[b].content, req[c].content>> \in Compatible
      <3>1. rows[b].id # 0
        BY <2>1 DEF IsGaBaseline, Identified, SeenFits
      <3>2. ContentReads(rows[b].id) = {rows[b].content}
        BY <2>1, <3>1, ReadsOfStored
      <3>. QED BY <2>1, <3>2, ReleaseIsHonest
    <2>. QED BY <2>1
  <1>. QED BY <1>1, DecidedAlways, PTL DEF Spec, HonestAgainstLineRead
----------------------------------------------------------------------------
(* Refinement of AtomicLine. *)

Entries    == [v \in Versions |-> Visible(rows[v])]
Asks       == [c \in Calls |-> IF pc[c] = "idle" THEN NoRequest ELSE req[c]]
Outcomes   == [c \in Calls |-> Outcome(c)]
Overtakens == {c \in Calls : Overtaken(c)}

mapped == <<Entries, announced, Asks, Outcomes, Overtakens, submitted>>

\* A call that is about to write read something else than it brings, and is no
\* dry run.
Accepted == \A c \in Calls : pc[c] = "commit" => ~Identical(c) /\ ~req[c].dry

\* A call that is done has an answer.
Answered == \A c \in Calls : pc[c] = "done" => answer[c] # "none"

LEMMA AcceptedNext == Typed /\ Accepted /\ [Next]_vars => Accepted'
  <1>. SUFFICES ASSUME Typed, Accepted, [Next]_vars, NEW c \in Calls, pc'[c] = "commit"
                PROVE  ~Identical(c)' /\ ~req'[c].dry
    BY DEF Accepted
  <1>1. /\ req'[c] = req[c] /\ seen'[c] = seen[c]
        /\ pc[c] = "commit" \/ (DecideAccepted(c) /\ rows' = rows)
    BY CommitReached
  <1>2. Identical(c)' = Identical(c)
    BY <1>1 DEF Identical, Promoting, Existing
  <1>3. CASE pc[c] = "commit"
    BY <1>1, <1>2, <1>3 DEF Accepted
  <1>4. CASE DecideAccepted(c)
    BY <1>1, <1>2, <1>4 DEF DecideAccepted, GotoOrAnswer, Goto, Answer, Typed, TypeOK
  <1>. QED BY <1>1, <1>3, <1>4

LEMMA AnsweredNext == Typed /\ Answered /\ [Next]_vars => Answered'
  <1>. SUFFICES ASSUME Typed, Answered, [Next]_vars, NEW c \in Calls, pc'[c] = "done"
                PROVE  answer'[c] # "none"
    BY DEF Answered
  <1>. USE DEF Typed, TypeOK
  <1>1. CASE UNCHANGED vars
    BY <1>1 DEF vars, Answered
  <1>2. CASE Environment
    BY <1>2, EnvironmentLeavesCalls DEF calls, Answered
  <1>3. ASSUME NEW d \in Calls, Call(d), d # c PROVE answer'[c] # "none"
    BY <1>3, OnlyOwnStep DEF Answered
  <1>4. CASE Call(c)
    <2>0. ASSUME NEW a \in Answers \ {"none"}, Answer(c, a) PROVE answer'[c] # "none"
      BY <2>0 DEF Answer
    <2>1. CASE BeginProvide(c) \/ BeginPromote(c)
      <3>1. PICK r \in Requests : Begin(c, r)
        BY <2>1, BeginRequest
      <3>. QED BY <3>1 DEF Begin
    <2>2. CASE ReadLine(c) \/ Drop(c) \/ GetOrigin(c)
      BY <2>2 DEF ReadLine, Drop, GetOrigin, Goto
    <2>3. CASE DecideRefused(c)
      <3>1. PICK a \in Answers \ {"none"} : Answer(c, a)
        BY <2>3 DEF DecideRefused, Answers
      <3>. QED BY <2>0, <3>1
    <2>4. CASE CommitConflict(c) \/ FillOrigin(c) \/ SetTrunk(c)
      <3>1. PICK a \in Answers \ {"none"} : Answer(c, a)
        BY <2>4 DEF CommitConflict, FillOrigin, SetTrunk, Answers
      <3>. QED BY <2>0, <3>1
    <2>5. CASE DecideIdentical(c) \/ Commit(c)
      BY <2>5 DEF DecideIdentical, Commit, Goto, Answer
    <2>6. CASE DecideAccepted(c) \/ SetOrigin(c) \/ TouchProvided(c) \/ NoopTrunk(c)
      BY <2>6 DEF DecideAccepted, SetOrigin, TouchProvided, NoopTrunk, GotoOrAnswer, Goto, Answer
    <2>. QED BY <1>4, <2>1, <2>2, <2>3, <2>4, <2>5, <2>6 DEF Call
  <1>. QED BY <1>1, <1>2, <1>3, <1>4 DEF Next

\* A request is not the absence of one.
LEMMA RealRequest == \A r \in Requests : r # NoRequest
  BY VersionLineAssumptions DEF Requests, NoRequest

\* The part of a call's state that its outcome depends on.
SameCall(c) == /\ pc'[c] = pc[c] /\ req'[c] = req[c] /\ seen'[c] = seen[c]
               /\ answer'[c] = answer[c]

LEMMA OutcomeKept ==
  ASSUME NEW c \in Calls, SameCall(c)
  PROVE  Outcome(c)' = Outcome(c)
  BY DEF SameCall, Outcome, LineOutcome, Identical, Promoting, Existing, OwnedByOther

LEMMA EntriesKept ==
  ASSUME \A v \in Versions : Kept(rows[v], rows'[v])
  PROVE  Entries' = Entries
  BY DEF Entries, Visible, Kept

\* What a call reads of an entry shows it as clients see it.
LEMMA MetaVisible == \A r \in Rows : Visible(Meta(r)) = Visible(r)
  <1>. SUFFICES ASSUME NEW r \in Rows PROVE Visible(Meta(r)) = Visible(r)
    OBVIOUS
  <1>1. Kept(r, Meta(r))
    BY DEF Kept, Meta, Rows
  <1>. QED BY <1>1 DEF Kept, Visible

\* A step of one call changes the request and the outcome of no other.
LEMMA CallFrame ==
  ASSUME Typed, NEW c \in Calls, Call(c)
  PROVE  /\ Outcomes' = [Outcomes EXCEPT ![c] = Outcome(c)']
         /\ Asks' = [Asks EXCEPT ![c] = IF pc'[c] = "idle" THEN NoRequest ELSE req'[c]]
         /\ \A d \in Calls : d # c => SameCall(d)
  <1>1. \A d \in Calls : d # c => SameCall(d)
    BY OnlyOwnStep DEF SameCall
  <1>2. \A d \in Calls : d # c => Outcome(d)' = Outcome(d)
    BY <1>1, OutcomeKept
  <1>3. Outcomes' = [Outcomes EXCEPT ![c] = Outcome(c)']
    BY <1>2 DEF Outcomes
  <1>4. Asks' = [Asks EXCEPT ![c] = IF pc'[c] = "idle" THEN NoRequest ELSE req'[c]]
    BY <1>1 DEF Asks, SameCall
  <1>. QED BY <1>1, <1>3, <1>4

\* A call stands before its decision because it did, or because it just read.
LEMMA DecideReached ==
  ASSUME Typed, [Next]_vars, NEW c \in Calls, pc'[c] = "decide"
  PROVE  SameCall(c) \/ ReadLine(c)
  <1>. USE DEF Typed, TypeOK
  <1>1. CASE UNCHANGED vars
    BY <1>1 DEF vars, SameCall
  <1>2. CASE Environment
    BY <1>2, EnvironmentLeavesCalls DEF calls, SameCall
  <1>3. ASSUME NEW d \in Calls, Call(d), d # c PROVE SameCall(c)
    BY <1>3, OnlyOwnStep DEF SameCall
  <1>4. CASE Call(c)
    <2>1. ~(BeginProvide(c) \/ BeginPromote(c))
      BY BeginRequest DEF Begin
    <2>2. ~(Drop(c) \/ DecideRefused(c) \/ CommitConflict(c) \/ SetTrunk(c)
            \/ GetOrigin(c) \/ FillOrigin(c))
      BY DEF Drop, DecideRefused, CommitConflict, SetTrunk, GetOrigin, FillOrigin, Goto, Answer
    <2>3. ~(Commit(c) \/ SetOrigin(c) \/ DecideAccepted(c))
      BY DEF Commit, SetOrigin, DecideAccepted, GotoOrAnswer, Goto, Answer
    <2>4. ~(DecideIdentical(c) \/ TouchProvided(c) \/ NoopTrunk(c))
      BY DEF DecideIdentical, TouchProvided, NoopTrunk, NoopFrom, GotoOrAnswer, Goto, Answer
    <2>. QED BY <1>4, <2>1, <2>2, <2>3, <2>4 DEF Call
  <1>. QED BY <1>1, <1>2, <1>3, <1>4 DEF Next

\* A call that is accepted was undecided, and is as overtaken as before.
LEMMA AcceptedUndecided ==
  ASSUME Typed, NEW c \in Calls, DecideAccepted(c)
  PROVE  Outcome(c) = "none"
  BY DEF DecideAccepted, Outcome, LineOutcome

LEMMA OutcomeAt ==
  ASSUME Typed, NEW c \in Calls
  PROVE  /\ pc[c] \in {"idle", "line", "commit"} => Outcome(c) = "none"
         /\ pc[c] \in NoopPath => Outcome(c) = "noop"
         /\ pc[c] \in {"set_origin", "set_trunk"} => Outcome(c) = "stored"
         /\ pc[c] = "done" => Outcome(c) = answer[c]
         /\ pc[c] = "decide" => Outcome(c) = LineOutcome(c)
  BY DEF Outcome, Effective, Steps, NoopPath, Typed, TypeOK

\* Being overtaken takes a change of the number while the call is undecided.
LEMMA OvertakingStep ==
  ASSUME Typed, [Next]_vars
  PROVE  Atomic!Overtaking
  <1>. SUFFICES ASSUME NEW c \in Calls, Overtaken(c)'
                PROVE  \/ Overtaken(c)
                       \/ /\ Asks[c] # NoRequest /\ Outcomes[c] = "none"
                          /\ Entries'[VersionOf[Asks[c].content]] # Entries[VersionOf[Asks[c].content]]
    BY DEF Atomic!Overtaking, Atomic!Pending, Atomic!Number, Atomic!Target,
           Asks, Outcomes, Entries
  <1>. DEFINE v == VersionOf[req[c].content]
  <1>1. pc'[c] \in {"decide", "commit"} /\ Outcome(c)' = "none"
    BY DEF Overtaken
  <1>2. CASE pc'[c] = pc[c] /\ req'[c] = req[c] /\ seen'[c] = seen[c] /\ Outcome(c) = "none"
    <2>1. /\ pc[c] \in {"decide", "commit"} /\ Outcome(c) = "none"
          /\ v \in Versions /\ req[c] \in Requests
      BY <1>1, <1>2, RunningCall
    <2>2. Asks[c] = req[c] /\ Asks[c] # NoRequest /\ Outcomes[c] = "none"
      BY <2>1, RealRequest DEF Asks, Outcomes
    <2>3. Visible(Existing(c)) # Visible(rows[v])'
      BY <1>2 DEF Overtaken, Existing, Visible
    <2>4. CASE Visible(rows[v])' = Visible(rows[v])
      BY <2>1, <2>3, <2>4 DEF Overtaken
    <2>5. CASE Visible(rows[v])' # Visible(rows[v])
      <3>1. Entries[v] = Visible(rows[v]) /\ Entries'[v] = Visible(rows[v])'
        BY <1>2, <2>1 DEF Entries, Visible
      <3>. QED BY <2>2, <2>5, <3>1
    <2>. QED BY <2>4, <2>5
  <1>3. CASE ReadLine(c)
    <2>1. /\ req' = req /\ rows' = rows /\ v \in Versions
          /\ seen'[c] = [w \in Versions |-> Meta(rows[w])]
      BY <1>3, RunningCall DEF ReadLine, Goto, line, Typed, TypeOK
    <2>2. Visible(Meta(rows[v])) = Visible(rows[v])
      BY <2>1, MetaVisible DEF Typed, TypeOK
    <2>. QED BY <2>1, <2>2 DEF Overtaken, Existing, Visible
  <1>4. CASE DecideAccepted(c) /\ pc'[c] = "commit" /\ rows' = rows
                /\ req'[c] = req[c] /\ seen'[c] = seen[c]
    <2>1. pc[c] = "decide" /\ Outcome(c) = "none"
      BY <1>4, AcceptedUndecided DEF DecideAccepted
    <2>. QED BY <1>4, <2>1 DEF Overtaken, Existing, Visible
  <1>5. SameCall(c) => Outcome(c) = "none"
    BY <1>1, OutcomeKept
  <1>6. CASE pc'[c] = "decide"
    BY <1>2, <1>3, <1>5, <1>6, DecideReached DEF SameCall
  <1>7. CASE pc'[c] = "commit"
    BY <1>2, <1>4, <1>7, CommitReached, OutcomeAt
  <1>. QED BY <1>1, <1>6, <1>7

LEMMA OvertakenKept ==
  ASSUME Typed, NEW c \in Calls, SameCall(c), Entries' = Entries
  PROVE  Overtaken(c)' <=> Overtaken(c)
  <1>. DEFINE v == VersionOf[req[c].content]
  <1>1. CASE pc[c] \notin {"decide", "commit"}
    BY <1>1 DEF Overtaken, SameCall
  <1>2. CASE pc[c] \in {"decide", "commit"}
    <2>1. v \in Versions
      BY <1>2, RunningCall
    <2>2. Visible(rows[v])' = Visible(rows[v])
      <3>1. Entries[v] = Visible(rows[v]) /\ Entries'[v] = Visible(rows[v])'
        BY <2>1 DEF Entries, Visible, SameCall
      <3>. QED BY <3>1
    <2>3. Visible(Existing(c))' = Visible(Existing(c)) /\ Outcome(c)' = Outcome(c)
      BY OutcomeKept DEF SameCall, Existing, Visible
    <2>. QED BY <2>2, <2>3 DEF Overtaken, SameCall
  <1>. QED BY <1>1, <1>2

\* A step of a call that shows neither in the line nor in its outcome.
LEMMA HiddenStep ==
  ASSUME Typed, NEW c \in Calls, Call(c), Entries' = Entries, announced' = announced,
         submitted' = submitted, req'[c] = req[c], pc[c] # "idle", pc'[c] # "idle",
         Outcome(c)' = Outcome(c), Overtaken(c)' <=> Overtaken(c)
  PROVE  UNCHANGED mapped
  <1>1. Outcomes' = Outcomes
    BY CallFrame DEF Outcomes
  <1>2. Asks' = Asks
    BY CallFrame DEF Asks
  <1>3. \A d \in Calls : Overtaken(d)' <=> Overtaken(d)
    BY CallFrame, OvertakenKept
  <1>4. Overtakens' = Overtakens
    BY <1>3 DEF Overtakens
  <1>. QED BY <1>1, <1>2, <1>4 DEF mapped

\* A step that settles an answer and leaves the line alone.
LEMMA TellStep ==
  ASSUME Typed, NEW c \in Calls, Call(c), Entries' = Entries, announced' = announced,
         submitted' = submitted, req'[c] = req[c], pc[c] # "idle", pc'[c] # "idle",
         Outcome(c) = "none", Outcome(c)' # "none", Atomic!Justified(c, Outcome(c)')
  PROVE  Atomic!Call(c)
  <1>1. Asks' = Asks /\ Asks[c] = req[c] /\ req[c] \in Requests
    BY CallFrame, RunningCall DEF Asks
  <1>2. Outcomes' = [Outcomes EXCEPT ![c] = Outcomes'[c]] /\ Outcomes'[c] = Outcome(c)'
    BY CallFrame DEF Outcomes
  <1>3. Atomic!Pending(c)
    BY <1>1, RealRequest DEF Atomic!Pending, Asks, Outcomes
  <1>4. Atomic!Settle(c)
    BY <1>1, <1>2, <1>3 DEF Atomic!Settle, Asks, Outcomes
  <1>5. Atomic!Tell(c)
    BY <1>2, <1>4 DEF Atomic!Tell, Outcomes, Entries
  <1>. QED BY <1>5 DEF Atomic!Call

\* The abstract entry a call works on.
LEMMA TargetIs ==
  ASSUME Typed, NEW c \in Calls, pc[c] # "idle"
  PROVE  /\ Asks[c] = req[c] /\ VersionOf[req[c].content] \in Versions
         /\ Atomic!Number(c) = VersionOf[req[c].content]
         /\ Atomic!Target(c) = Visible(rows[VersionOf[req[c].content]])
  BY RunningCall DEF Asks, Atomic!Number, Atomic!Target

\* What was read decides as what is visible does.
LEMMA ReadAsSeen ==
  ASSUME NEW c \in Calls, NEW e, e = Visible(Existing(c)), req[c] \in Requests
  PROVE  /\ Identical(c) <=> Atomic!Same(e, req[c])
         /\ OwnedByOther(c) <=> Atomic!Owned(e, req[c])
         /\ Promoting(c) <=> Atomic!Promotes(e, req[c])
         /\ e.stability = Existing(c).stability /\ e.content = Existing(c).content
         /\ e.by = Existing(c).by
  BY DEF Visible, Identical, Promoting, OwnedByOther, Atomic!Same, Atomic!Owned,
         Atomic!Promotes

\* Reading the line settles the answer that the line then gives.
LEMMA ReadLineStep ==
  ASSUME Typed, NEW c \in Calls, ReadLine(c)
  PROVE  Atomic!Call(c) \/ UNCHANGED mapped
  <1>. DEFINE v == VersionOf[req[c].content]
              e == Visible(rows[v])
  <1>1. /\ Call(c) /\ pc[c] = "line" /\ pc'[c] = "decide" /\ req' = req /\ rows' = rows
        /\ announced' = announced /\ submitted' = submitted
        /\ seen'[c] = [w \in Versions |-> Meta(rows[w])]
    BY DEF Call, ReadLine, Goto, line, history, Typed, TypeOK
  <1>2. v \in Versions /\ req[c] \in Requests /\ Entries' = Entries
    BY <1>1, RunningCall DEF Entries, Visible
  <1>3. /\ Outcome(c) = "none" /\ Outcome(c)' = LineOutcome(c)'
        /\ ~Overtaken(c)
    BY <1>1, OutcomeAt DEF Outcome, Overtaken
  <1>4. Existing(c)' = Meta(rows[v]) /\ Visible(Existing(c)') = e
    BY <1>1, <1>2, MetaVisible DEF Existing, Typed, TypeOK
  <1>5. ~Overtaken(c)'
    BY <1>1, <1>4 DEF Overtaken, Visible
  <1>6. CASE LineOutcome(c)' = "none"
    BY <1>1, <1>2, <1>3, <1>5, <1>6, HiddenStep
  <1>7. CASE LineOutcome(c)' # "none"
    <2>1. Atomic!Target(c) = e /\ Asks[c] = req[c]
      BY <1>1, TargetIs
    <2>2. /\ Identical(c)' <=> Atomic!Same(e, req[c])
          /\ OwnedByOther(c)' <=> Atomic!Owned(e, req[c])
          /\ Existing(c)'.stability = e.stability
      BY <1>1, <1>2, <1>4 DEF Visible, Identical, Promoting, OwnedByOther,
         Atomic!Same, Atomic!Owned, Atomic!Promotes
    <2>3. Atomic!Justified(c, LineOutcome(c)')
      BY <1>1, <1>2, <1>7, <2>1, <2>2
         DEF LineOutcome, Atomic!Justified, Asks, Requests, Stabilities
    <2>. QED BY <1>1, <1>2, <1>3, <1>7, <2>3, TellStep
  <1>. QED BY <1>6, <1>7

\* A new request, or one that is refused for want of the right to release.
LEMMA BeginStep ==
  ASSUME Typed, Answered, NEW c \in Calls, BeginProvide(c) \/ BeginPromote(c)
  PROVE  Atomic!Call(c)
  <1>1. PICK r \in Requests : Begin(c, r)
    BY BeginRequest
  <1>2. /\ Call(c) /\ pc[c] \in {"idle", "done"} /\ req'[c] = r /\ rows' = rows
        /\ announced' = announced
        /\ pc'[c] = IF MayRelease(r) THEN "line" ELSE "done"
        /\ answer'[c] = IF MayRelease(r) THEN "none" ELSE "ga_requires_releaser"
        /\ submitted' = IF MayRelease(r) THEN submitted \cup {r} ELSE submitted
    BY <1>1 DEF Call, Begin, line, Typed, TypeOK
  <1>3. Asks' = [Asks EXCEPT ![c] = r]
    BY <1>2, CallFrame
  <1>4. Outcomes' = [Outcomes EXCEPT ![c] =
                       IF MayRelease(r) THEN "none" ELSE "ga_requires_releaser"]
    <2>1. Outcome(c)' = IF MayRelease(r) THEN "none" ELSE "ga_requires_releaser"
      <3>1. CASE MayRelease(r)
        BY <1>2, <3>1 DEF Outcome, Effective, Steps
      <3>2. CASE ~MayRelease(r)
        BY <1>2, <3>2 DEF Outcome
      <3>. QED BY <3>1, <3>2
    <2>. QED BY <1>2, <2>1, CallFrame
  <1>5. ~(Asks[c] # NoRequest /\ Outcomes[c] = "none")
    BY <1>2, OutcomeAt DEF Asks, Outcomes, Answered
  <1>6. c \notin Overtakens' /\ Entries' = Entries
    BY <1>2 DEF Overtakens, Overtaken, Entries, Visible
  <1>7. Asks'[c] = r
    BY <1>2 DEF Asks
  <1>8. Atomic!Ask(c)
    BY <1>2, <1>3, <1>4, <1>5, <1>6, <1>7
       DEF Atomic!Ask, Atomic!Pending, Atomic!MayRelease, MayRelease, Asks, Outcomes,
           Overtakens, Entries
  <1>. QED BY <1>8 DEF Atomic!Call

\* The decision: what the line read settles is answered so; the verdict of the
\* semver check and the end of a dry run are settled here.
LEMMA DecideStep ==
  ASSUME Typed, NEW c \in Calls, DecideIdentical(c) \/ DecideRefused(c) \/ DecideAccepted(c)
  PROVE  Atomic!Call(c) \/ UNCHANGED mapped
  <1>. DEFINE v == VersionOf[req[c].content]
              e == Visible(rows[v])
  <1>1. /\ Call(c) /\ pc[c] = "decide" /\ req' = req /\ rows' = rows
        /\ announced' = announced /\ submitted' = submitted
    BY DEF Call, DecideIdentical, DecideRefused, DecideAccepted, GotoOrAnswer, Goto, Answer,
           line, history
  <1>2. /\ v \in Versions /\ req[c] \in Requests /\ Entries' = Entries
        /\ Existing(c) \in Rows /\ Outcome(c) = LineOutcome(c)
    BY <1>1, RunningCall, OutcomeAt DEF Entries, Visible
  <1>3. Atomic!Target(c) = e /\ Asks[c] = req[c]
    BY <1>1, TargetIs
  <1>4. ~Overtaken(c) /\ Outcome(c) = "none" => e = Visible(Existing(c))
    BY <1>1 DEF Overtaken
  <1>5. e = Visible(Existing(c)) =>
          /\ Identical(c) <=> Atomic!Same(e, req[c])
          /\ OwnedByOther(c) <=> Atomic!Owned(e, req[c])
          /\ e.stability = Existing(c).stability
    BY <1>2, ReadAsSeen
  <1>6. c \in Overtakens <=> Overtaken(c)
    BY DEF Overtakens
  <1>10. ASSUME NEW a \in Answers, Answer(c, a), Outcome(c) = a, a # "none"
         PROVE  UNCHANGED mapped
    <2>1. pc'[c] = "done" /\ answer'[c] = a
      BY <1>10 DEF Answer, Typed, TypeOK
    <2>2. Outcome(c)' = Outcome(c) /\ ~Overtaken(c) /\ ~Overtaken(c)'
      BY <1>10, <2>1 DEF Outcome, Overtaken
    <2>. QED BY <1>1, <1>2, <2>1, <2>2, HiddenStep
  <1>11. CASE DecideIdentical(c)
    <2>1. Outcome(c) = "noop"
      BY <1>2, <1>11 DEF DecideIdentical, LineOutcome
    <2>2. CASE Answer(c, "noop")
      BY <1>10, <2>1, <2>2 DEF Answers
    <2>3. CASE pc'[c] \in NoopPath
      <3>1. Outcome(c)' = "noop"
        BY <2>3 DEF Outcome, Effective, Steps, NoopPath
      <3>2. ~Overtaken(c) /\ ~Overtaken(c)'
        BY <2>1, <2>3, <3>1 DEF Overtaken
      <3>. QED BY <1>1, <1>2, <2>1, <2>3, <3>1, <3>2, HiddenStep DEF NoopPath
    <2>4. Answer(c, "noop") \/ pc'[c] \in NoopPath
      BY <1>11 DEF DecideIdentical, NoopFrom, Goto, NoopPath, Typed, TypeOK
    <2>. QED BY <2>2, <2>3, <2>4
  <1>12. CASE DecideRefused(c)
    <2>0. pc[c] = "decide" /\ ~Identical(c)
      BY <1>12 DEF DecideRefused
    <2>1. CASE /\ Existing(c).stability = "ga"
               /\ Answer(c, IF req[c].stability = "ga" THEN "immutable_ga" ELSE "snapshot_on_ga")
      BY <1>2, <1>10, <2>0, <2>1 DEF LineOutcome, Answers
    <2>2. CASE OwnedByOther(c) /\ Answer(c, "snapshot_owned")
      BY <1>2, <1>10, <2>0, <2>2 DEF LineOutcome, Answers, OwnedByOther
    <2>3. CASE /\ Existing(c).stability # "ga" /\ "breaking" \in HonestyVerdicts(c)
               /\ Answer(c, "breaking_without_major")
      <3>1. req[c].stability = "ga"
        BY <1>2, <2>3 DEF HonestyVerdicts, Requests, Stabilities
      <3>2. ~OwnedByOther(c) /\ Outcome(c) = "none"
        BY <1>2, <2>0, <2>3, <3>1 DEF OwnedByOther, LineOutcome
      <3>3. pc'[c] = "done" /\ Outcome(c)' = "breaking_without_major"
        BY <2>3 DEF Answer, Outcome, Typed, TypeOK
      <3>4. Atomic!Justified(c, "breaking_without_major")
        BY <1>3, <1>4, <1>5, <1>6, <2>0, <2>3, <3>1, <3>2
           DEF Atomic!Justified, Atomic!Open, Asks, Overtakens
      <3>. QED BY <1>1, <1>2, <3>2, <3>3, <3>4, TellStep
    <2>. QED BY <1>12, <2>1, <2>2, <2>3 DEF DecideRefused
  <1>13. CASE DecideAccepted(c)
    <2>1. /\ Outcome(c) = "none" /\ ~Identical(c) /\ ~OwnedByOther(c)
          /\ Existing(c).stability # "ga"
      BY <1>13, AcceptedUndecided DEF DecideAccepted
    <2>2. CASE req[c].dry
      <3>1. pc'[c] = "done" /\ Outcome(c)' = "preview"
        BY <1>13, <2>2 DEF DecideAccepted, GotoOrAnswer, Answer, Outcome, Typed, TypeOK
      <3>2. Atomic!Justified(c, "preview")
        BY <1>3, <1>4, <1>5, <1>6, <2>1, <2>2
           DEF Atomic!Justified, Atomic!Open, Asks, Overtakens
      <3>. QED BY <1>1, <1>2, <2>1, <3>1, <3>2, TellStep
    <2>3. CASE ~req[c].dry
      <3>1. pc'[c] = "commit" /\ seen' = seen
        BY <1>13, <2>3 DEF DecideAccepted, GotoOrAnswer, Goto, Typed, TypeOK
      <3>2. Outcome(c)' = "none"
        BY <3>1 DEF Outcome, Effective, Steps
      <3>3. Overtaken(c)' <=> Overtaken(c)
        BY <1>1, <2>1, <3>1, <3>2 DEF Overtaken, Existing, Visible
      <3>. QED BY <1>1, <1>2, <2>1, <3>1, <3>2, <3>3, HiddenStep
    <2>. QED BY <2>2, <2>3
  <1>. QED BY <1>11, <1>12, <1>13

\* A call at its upsert that is not overtaken finds what it decided on.
LEMMA AtCommit ==
  ASSUME Typed, Decided, Accepted, NEW c \in Calls, pc[c] = "commit"
  PROVE  LET v == VersionOf[req[c].content]
             e == Visible(rows[v])
         IN  /\ Outcome(c) = "none" /\ ~req[c].dry
             /\ c \in Overtakens <=> Overtaken(c)
             /\ ~Overtaken(c) =>
                  /\ e = Visible(Existing(c)) /\ Atomic!Open(e, req[c])
                  /\ Promoting(c) <=> Atomic!Promotes(e, req[c])
                  /\ e.content = Existing(c).content /\ e.by = Existing(c).by
  <1>. DEFINE v == VersionOf[req[c].content]
              e == Visible(rows[v])
  <1>1. Outcome(c) = "none" /\ req[c] \in Requests
    BY OutcomeAt, RunningCall
  <1>2. ~Overtaken(c) => e = Visible(Existing(c))
    BY <1>1 DEF Overtaken
  <1>3. ~Identical(c) /\ ~req[c].dry /\ ~OwnedByOther(c) /\ Existing(c).stability # "ga"
    BY DEF Decided, Accepted
  <1>4. c \in Overtakens <=> Overtaken(c)
    BY DEF Overtakens
  <1>. HIDE DEF e
  <1>5. e = Visible(Existing(c)) =>
          /\ Atomic!Open(e, req[c])
          /\ Promoting(c) <=> Atomic!Promotes(e, req[c])
          /\ e.content = Existing(c).content /\ e.by = Existing(c).by
    BY <1>1, <1>3, ReadAsSeen DEF Atomic!Open
  <1>. QED BY <1>1, <1>2, <1>3, <1>4, <1>5 DEF e

\* The upsert is the instant at which a Provide or a promotion takes effect.
LEMMA StoreStep ==
  ASSUME Typed, Decided, Accepted, Attributed, NEW c \in Calls, Commit(c)
  PROVE  Atomic!Call(c)
  <1>. DEFINE v == VersionOf[req[c].content]
              e == Visible(rows[v])
              new == [stability |-> req[c].stability, content |-> req[c].content,
                      by |-> Credited(c)]
  <1>1. /\ Call(c) /\ pc[c] = "commit" /\ req' = req /\ UpsertGuard(c, rows[v])
        /\ rows' = [rows EXCEPT ![v] = Upserted(c, rows[v])]
        /\ announced' = [announced EXCEPT ![v] = PublishedEvent(c)]
        /\ submitted' = submitted
    BY DEF Call, Commit, Goto, Answer, history
  <1>2. v \in Versions /\ req[c] \in Requests /\ req[c] \in submitted
    BY <1>1, RunningCall DEF Typed, RunningCallHasRequest
  <1>3. pc'[c] # "idle" /\ Outcome(c)' = "stored"
    <2>1. \/ pc'[c] \in {"set_origin", "set_trunk"}
          \/ pc'[c] = "done" /\ answer'[c] = "stored"
      BY DEF Commit, Goto, Answer, Typed, TypeOK
    <2>. QED BY <2>1 DEF Outcome, Effective, Steps
  <1>4. Entries' = [Entries EXCEPT ![v] = new]
    <2>1. \A w \in Versions : Visible(rows'[w]) = IF w = v THEN new ELSE Visible(rows[w])
      BY <1>1, <1>2 DEF Visible, Upserted, Typed, TypeOK
    <2>. QED BY <1>2, <2>1 DEF Entries, Visible
  <1>5. PICK q \in submitted : q.user = Credited(c) /\ q.content = req[c].content
    <2>1. CASE Promoting(c) /\ Existing(c).content = req[c].content
      <3>1. Asked(Existing(c)) /\ Credited(c) = Existing(c).by
        BY <1>2, <2>1 DEF Promoting, Existing, Attributed, SeenCredited, Credited
      <3>. QED BY <2>1, <3>1 DEF Asked
    <2>2. CASE ~(Promoting(c) /\ Existing(c).content = req[c].content)
      BY <1>2, <2>2 DEF Credited
    <2>. QED BY <2>1, <2>2
  <1>6. /\ Outcome(c) = "none" /\ ~req[c].dry
        /\ c \notin Overtakens =>
             /\ Atomic!Open(e, req[c])
             /\ Promoting(c) <=> Atomic!Promotes(e, req[c])
             /\ e.content = Existing(c).content /\ e.by = Existing(c).by
    BY <1>1, AtCommit
  <1>7. Atomic!Takes(e, req[c])
    BY <1>1 DEF UpsertGuard, Atomic!Takes, Visible
  <1>8. PublishedEvent(c) \in IF req[c].stability = "ga" THEN {"ga", "promoted"}
                             ELSE {"snapshot"}
    BY <1>2 DEF PublishedEvent, Promoting, Requests, Stabilities
  <1>9. c \notin Overtakens =>
          /\ Atomic!Open(e, req[c])
          /\ Credited(c) = IF Atomic!Promotes(e, req[c]) /\ e.content = req[c].content
                           THEN e.by ELSE req[c].user
          /\ PublishedEvent(c) = IF Atomic!Promotes(e, req[c]) THEN "promoted"
                                 ELSE req[c].stability
    <2>. HIDE DEF e
    <2>. QED BY <1>6 DEF Credited, PublishedEvent
  <1>10. /\ Asks[c] = req[c] /\ Atomic!Target(c) = e /\ Atomic!Number(c) = v
         /\ Asks' = Asks
    BY <1>1, <1>3, TargetIs, CallFrame DEF Asks
  <1>11. Outcomes' = [Outcomes EXCEPT ![c] = Outcomes'[c]] /\ Outcomes'[c] = "stored"
    BY <1>1, <1>3, CallFrame DEF Outcomes
  <1>12. Atomic!Pending(c)
    BY <1>2, <1>6, <1>10, RealRequest DEF Atomic!Pending, Asks, Outcomes
  <1>13. Atomic!Settle(c)
    BY <1>1, <1>10, <1>11, <1>12 DEF Atomic!Settle, Asks, Outcomes
  <1>14. /\ Credited(c) \in {x.user : x \in {y \in submitted : y.content = Asks[c].content}}
         /\ PublishedEvent(c) \in IF Asks[c].stability = "ga" THEN {"ga", "promoted"}
                                                              ELSE {"snapshot"}
    BY <1>5, <1>8, <1>10
  <1>15. \E u \in {x.user : x \in {y \in submitted : y.content = Asks[c].content}},
            what \in IF Asks[c].stability = "ga" THEN {"ga", "promoted"} ELSE {"snapshot"} :
           /\ c \notin Overtakens =>
                /\ Atomic!Open(Atomic!Target(c), Asks[c])
                /\ u = IF Atomic!Promotes(Atomic!Target(c), Asks[c])
                         /\ Atomic!Target(c).content = Asks[c].content
                       THEN Atomic!Target(c).by ELSE Asks[c].user
                /\ what = IF Atomic!Promotes(Atomic!Target(c), Asks[c])
                          THEN "promoted" ELSE Asks[c].stability
           /\ Entries' = [Entries EXCEPT ![Atomic!Number(c)] =
                            [stability |-> Asks[c].stability,
                             content |-> Asks[c].content, by |-> u]]
           /\ announced' = [announced EXCEPT ![Atomic!Number(c)] = what]
    <2>. HIDE DEF v, e
    <2>. USE <1>14
    <2>. WITNESS Credited(c) \in {x.user : x \in {y \in submitted : y.content = Asks[c].content}},
                 PublishedEvent(c) \in IF Asks[c].stability = "ga" THEN {"ga", "promoted"}
                                                                   ELSE {"snapshot"}
    <2>. QED BY <1>1, <1>4, <1>9, <1>10
  <1>16. Atomic!Takes(Atomic!Target(c), Asks[c]) /\ ~Asks[c].dry
    BY <1>6, <1>7, <1>10
  <1>17. Outcomes'[c] = "stored"
    BY <1>11
  <1>. HIDE DEF v, e, new
  <1>18. Atomic!Store(c)
    BY <1>10, <1>13, <1>15, <1>16, <1>17 DEF Atomic!Store, Asks, Outcomes, Entries, Overtakens
  <1>. QED BY <1>18 DEF Atomic!Call

\* A refused upsert: the number was released, or does not hold the promoted bytes.
LEMMA ConflictStep ==
  ASSUME Typed, Decided, Accepted, NEW c \in Calls, CommitConflict(c)
  PROVE  Atomic!Call(c)
  <1>. DEFINE v == VersionOf[req[c].content]
              e == Visible(rows[v])
  <1>1. /\ Call(c) /\ pc[c] = "commit" /\ req' = req /\ rows' = rows
        /\ announced' = announced /\ submitted' = submitted
        /\ pc'[c] = "done" /\ answer'[c] = "conflict"
    BY DEF Call, CommitConflict, Answer, line, history, Typed, TypeOK
  <1>2. ~Atomic!Takes(e, req[c])
    BY DEF CommitConflict, UpsertGuard, Atomic!Takes, Visible
  <1>3. /\ Outcome(c) = "none" /\ Outcome(c)' = "conflict" /\ Entries' = Entries
        /\ c \notin Overtakens => Atomic!Open(e, req[c])
    BY <1>1, AtCommit DEF Outcome, Entries, Visible
  <1>4. Atomic!Target(c) = e /\ Asks[c] = req[c]
    BY <1>1, TargetIs
  <1>. HIDE DEF e
  <1>5. Atomic!Justified(c, "conflict")
    BY <1>2, <1>3, <1>4 DEF Atomic!Justified, Atomic!Open, Atomic!Takes, Asks, Overtakens
  <1>. QED BY <1>1, <1>3, <1>5, TellStep

\* The writes by id after the decision change nothing that clients were told.
LEMMA LateStep ==
  ASSUME Typed, NEW c \in Calls,
         SetOrigin(c) \/ SetTrunk(c) \/ TouchProvided(c) \/ NoopTrunk(c)
           \/ GetOrigin(c) \/ FillOrigin(c)
  PROVE  UNCHANGED mapped
  <1>1. /\ Call(c) /\ pc[c] \in LatePath /\ req' = req
        /\ announced' = announced /\ submitted' = submitted
    BY DEF Call, SetOrigin, SetTrunk, TouchProvided, NoopTrunk, GetOrigin, FillOrigin,
           GotoOrAnswer, Goto, Answer, history, LatePath, NoopPath
  <1>2. Entries' = Entries
    <2>1. CASE SetOrigin(c) \/ GetOrigin(c) \/ FillOrigin(c)
      BY <2>1 DEF SetOrigin, GetOrigin, FillOrigin, line, Entries, Visible
    <2>2. CASE SetTrunk(c) \/ TouchProvided(c) \/ NoopTrunk(c)
      BY <2>2, ByIdKeeps, EntriesKept DEF SetTrunk, TouchProvided, NoopTrunk, TrunkTouch
    <2>. QED BY <2>1, <2>2
  <1>3. CASE pc[c] \in {"set_origin", "set_trunk"}
    <2>1. \/ pc'[c] = "set_trunk"
          \/ pc'[c] = "done" /\ answer'[c] = "stored"
      BY <1>3 DEF SetOrigin, SetTrunk, TouchProvided, NoopTrunk, GetOrigin, FillOrigin,
             GotoOrAnswer, Goto, Answer, Typed, TypeOK
    <2>2. Outcome(c) = "stored" /\ Outcome(c)' = "stored"
      BY <1>3, <2>1, OutcomeAt DEF Outcome, Effective, Steps
    <2>3. ~Overtaken(c) /\ ~Overtaken(c)'
      BY <2>2 DEF Overtaken
    <2>. QED BY <1>1, <1>2, <1>3, <2>1, <2>2, <2>3, HiddenStep
  <1>4. CASE pc[c] \in NoopPath
    <2>1. pc'[c] \in NoopPath \/ (pc'[c] = "done" /\ answer'[c] = "noop")
      BY <1>4 DEF SetOrigin, SetTrunk, TouchProvided, NoopTrunk, GetOrigin, FillOrigin,
             NoopFrom, GotoOrAnswer, Goto, Answer, NoopPath, Typed, TypeOK
    <2>2. Outcome(c) = "noop" /\ Outcome(c)' = "noop"
      BY <1>4, <2>1, OutcomeAt DEF Outcome, Effective, Steps, NoopPath
    <2>3. ~Overtaken(c) /\ ~Overtaken(c)'
      BY <2>2 DEF Overtaken
    <2>. QED BY <1>1, <1>2, <1>4, <2>1, <2>2, <2>3, HiddenStep DEF NoopPath
  <1>. QED BY <1>1, <1>3, <1>4 DEF LatePath

LEMMA ForgetStep ==
  ASSUME Typed, NEW c \in Calls, Drop(c)
  PROVE  Atomic!Call(c)
  <1>1. /\ Call(c) /\ pc'[c] = "idle" /\ rows' = rows
        /\ announced' = announced /\ submitted' = submitted
    BY DEF Call, Drop, line, history, Typed, TypeOK
  <1>2. Outcome(c)' = "none" /\ Entries' = Entries
    BY <1>1 DEF Outcome, Effective, Steps, Entries, Visible
  <1>3. Asks' = [Asks EXCEPT ![c] = NoRequest] /\ Outcomes' = [Outcomes EXCEPT ![c] = "none"]
    BY <1>1, <1>2, CallFrame
  <1>4. Atomic!Forget(c)
    BY <1>1, <1>2, <1>3 DEF Atomic!Forget, Asks, Outcomes, Entries
  <1>. QED BY <1>4 DEF Atomic!Call

\* Requires, cleanups and the admin leave every call as it is.
LEMMA EnvironmentStep ==
  ASSUME Typed, [Next]_vars, Environment
  PROVE  [Atomic!Next]_mapped
  <1>1. /\ \A c \in Calls : SameCall(c)
        /\ submitted' = submitted /\ announced' = announced
    BY EnvironmentLeavesCalls DEF calls, SameCall, Environment, RequireVersion,
       DeleteVersion, RowAges, TrunkAges, ExpireSnapshots, SweepOrigins,
       ClearTrunkMarkers, CloseTrunkMembers
  <1>2. Asks' = Asks /\ Outcomes' = Outcomes
    <2>1. \A c \in Calls : Outcome(c)' = Outcome(c)
      BY <1>1, OutcomeKept
    <2>. QED BY <1>1, <2>1 DEF Asks, Outcomes, SameCall
  <1>3. Atomic!Overtaking
    BY OvertakingStep
  <1>4. CASE \A v \in Versions : Kept(rows[v], rows'[v])
    <2>1. Entries' = Entries
      BY <1>4, EntriesKept
    <2>2. Overtakens' = Overtakens
      BY <1>1, <2>1, OvertakenKept DEF Overtakens
    <2>. QED BY <1>1, <1>2, <2>1, <2>2 DEF mapped
  <1>5. ASSUME NEW w \in Versions, DeleteVersion(w) PROVE Atomic!Next
    <2>1. rows' = [rows EXCEPT ![w] = NoRow] /\ rows[w].stability # "none"
      BY <1>5 DEF DeleteVersion
    <2>2. \A v \in Versions :
            Visible(rows'[v]) = IF v \in {w} THEN Visible(NoRow) ELSE Visible(rows[v])
      BY <2>1 DEF Typed, TypeOK
    <2>3. Visible(NoRow) = Atomic!Absent
      BY DEF Visible, NoRow, Atomic!Absent
    <2>4. Entries' = [v \in Versions |-> IF v \in {w} THEN Atomic!Absent ELSE Entries[v]]
      BY <2>2, <2>3 DEF Entries, Visible
    <2>5. Entries[w] # Atomic!Absent
      BY <2>1 DEF Entries, Visible, Atomic!Absent
    <2>6. Atomic!Delete(w)
      BY <1>1, <1>2, <2>4, <2>5
         DEF Atomic!Delete, Atomic!Withdraw, Entries, Asks, Outcomes
    <2>. QED BY <1>3, <2>6 DEF Atomic!Next
  <1>6. CASE ExpireSnapshots
    <2>. DEFINE S == {v \in Versions : Expired(rows[v])}
    <2>1. rows' = [v \in Versions |-> IF v \in S THEN NoRow ELSE rows[v]] /\ S # {}
      BY <1>6 DEF ExpireSnapshots
    <2>2. \A v \in Versions :
            Visible(rows'[v]) = IF v \in S THEN Visible(NoRow) ELSE Visible(rows[v])
      BY <2>1
    <2>3. Visible(NoRow) = Atomic!Absent
      BY DEF Visible, NoRow, Atomic!Absent
    <2>4. Entries' = [v \in Versions |-> IF v \in S THEN Atomic!Absent ELSE Entries[v]]
      BY <2>2, <2>3 DEF Entries, Visible
    <2>5. S \subseteq {v \in Versions : Entries[v].stability = "snapshot"}
      BY DEF Entries, Visible, Expired
    <2>6. Entries' # Entries
      <3>1. PICK v \in Versions : v \in S
        BY <2>1
      <3>2. Entries[v].stability = "snapshot" /\ Entries'[v].stability = "none"
        BY <2>4, <2>5, <3>1 DEF Atomic!Absent
      <3>. QED BY <3>2
    <2>. HIDE DEF S
    <2>7. Atomic!Withdraw(S)
      BY <1>1, <1>2, <2>4 DEF Atomic!Withdraw, Entries, Asks, Outcomes
    <2>8. Atomic!Expire
      BY <2>5, <2>6, <2>7 DEF Atomic!Expire, Entries
    <2>. QED BY <1>3, <2>8 DEF Atomic!Next
  <1>7. ASSUME NEW c \in Calls, Commit(c) PROVE FALSE
    BY <1>1, <1>7 DEF SameCall, Commit, Goto, Answer, Typed, TypeOK
  <1>. QED BY <1>4, <1>5, <1>6, <1>7, RowSteps

AtomicInv == /\ Typed /\ Identified /\ Decided /\ Accepted /\ Answered /\ Attributed

LEMMA AtomicStep == AtomicInv /\ [Next]_vars => [Atomic!Next]_mapped
  <1>. SUFFICES ASSUME AtomicInv, [Next]_vars PROVE [Atomic!Next]_mapped
    OBVIOUS
  <1>. USE DEF AtomicInv
  <1>1. CASE UNCHANGED vars
    BY <1>1 DEF vars, mapped, Entries, Asks, Outcomes, Overtakens, Visible, Overtaken,
       Outcome, LineOutcome, Identical, Promoting, Existing, OwnedByOther
  <1>2. CASE Environment
    BY <1>2, EnvironmentStep
  <1>3. ASSUME NEW c \in Calls, Call(c) PROVE Atomic!Call(c) \/ UNCHANGED mapped
    BY <1>3, BeginStep, ReadLineStep, DecideStep, StoreStep, ConflictStep, LateStep,
       ForgetStep DEF Call
  <1>4. ASSUME NEW c \in Calls, Atomic!Call(c) PROVE Atomic!Next
    BY <1>4, OvertakingStep DEF Atomic!Next
  <1>. QED BY <1>1, <1>2, <1>3, <1>4 DEF Next

\* For any number of overlapping calls, replicas with lagging caches, cleanups and
\* admins: every call takes effect at one instant between its request and its
\* answer, and its answer is what the line was at that instant, save for what
\* AtomicLine allows a call whose number changed between its read and its upsert.
THEOREM LineIsAtomic == Spec => ImplementsAtomicLine
  <1>1. Init => Atomic!Init
    <2>. SUFFICES ASSUME Init PROVE Atomic!Init
      OBVIOUS
    <2>1. Entries = [v \in Versions |-> Atomic!Absent]
      BY DEF Init, Entries, Visible, NoRow, Atomic!Absent
    <2>2. Asks = [c \in Calls |-> NoRequest] /\ Outcomes = [c \in Calls |-> "none"]
      BY DEF Init, Asks, Outcomes, Outcome, Effective, Steps
    <2>3. Overtakens = {}
      BY DEF Init, Overtakens, Overtaken
    <2>. QED BY <2>1, <2>2, <2>3
         DEF Init, Atomic!Init, Entries, Asks, Outcomes, Overtakens
  <1>2. Init => Accepted /\ Answered
    BY DEF Init, Accepted, Answered
  <1>3. Init => Typed /\ Attributed
    BY TypeInit, AttributionInit
  <1>4. Spec => []AtomicInv
    BY <1>2, <1>3, DecidedAlways, TypeNext, AcceptedNext, AnsweredNext, AttributionNext,
       PTL DEF Spec, AtomicInv
  <1>. QED BY <1>1, <1>4, AtomicStep, PTL
       DEF Spec, ImplementsAtomicLine, Atomic!Spec, Atomic!vars, mapped, Entries, Asks,
           Outcomes, Overtakens
=============================================================================
