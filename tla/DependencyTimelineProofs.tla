---------------------- MODULE DependencyTimelineProofs ----------------------
(***************************************************************************)
(* Proofs about DependencyTimeline, for any calls, creations, keys,        *)
(* versions, names and bounds.                                             *)
(***************************************************************************)
EXTENDS DependencyTimeline, TLAPS

\* What a creation knows at each of its steps.
CutOK ==
  \A a \in Cutters :
    /\ cut[a].step # "idle" => cut[a].name \in Names
    /\ cut[a].step \in {"idle", "insert"} => cut[a].id = 0
    /\ cut[a].step \notin {"idle", "insert"} => cut[a].id \in Ids

\* A Require that writes pins has read the clock.
ReadOK == \A c \in Calls : step[c] = "pins" => at[c] # 0

TypeInv == TypeOK /\ CutOK /\ ReadOK

CutRecords == [step : {"idle", "insert", "copy", "periphery", "cleanup"},
               name : Names \cup {NoName}, source : Graphs, asOf : Nat,
               at : Nat, id : {0} \cup Ids]

----------------------------------------------------------------------------
(* Types. *)

LEMMA InitType == Init => TypeInv
  <1> SUFFICES ASSUME Init PROVE TypeInv
    OBVIOUS
  <1>1. NoCut \in CutRecords
    BY DEF NoCut, CutRecords, Graphs, Ids, Trunk
  <1>2. (CHOOSE v \in Versions : TRUE) \in Versions
    BY TimelineAssumptions
  <1>3. TypeOK
    BY <1>1, <1>2 DEF Init, TypeOK, CutRecords, Graphs, Ids, Trunk, Pins
  <1>4. CutOK
    BY DEF Init, CutOK, NoCut
  <1>5. ReadOK
    BY DEF Init, ReadOK
  <1> QED
    BY <1>3, <1>4, <1>5 DEF TypeInv

\* The pins a Require writes are pins.
LEMMA RecordedType ==
  ASSUME TypeInv, NEW c \in Calls PROVE Recorded(c) \subseteq Pins
  <1> DEFINE mine == {p \in OpenIn(graph[c]) : p.key \in keys[c]}
             same == {p \in mine : p.version = version[c]}
  <1>1. at[c] \in Nat /\ graph[c] \in Graphs /\ version[c] \in Versions
        /\ keys[c] \subseteq Keys /\ pins \subseteq Pins
    BY DEF TypeInv, TypeOK
  <1>2. mine \subseteq pins
    BY DEF OpenIn
  <1>3. ASSUME NEW p \in pins PROVE [p EXCEPT !.to = at[c]] \in Pins
    BY <1>1, <1>3 DEF Pins
  <1>4. ASSUME NEW p \in pins PROVE [p EXCEPT !.last = at[c]] \in Pins
    BY <1>1, <1>4 DEF Pins
  <1>5. ASSUME NEW k \in keys[c] PROVE NewPin(graph[c], k, version[c], at[c]) \in Pins
    BY <1>1, <1>5 DEF Pins, NewPin, NoEnd
  <1>6. Recorded(c) = (pins \ mine)
          \cup {[p EXCEPT !.to = at[c]] : p \in mine \ same}
          \cup {[p EXCEPT !.last = at[c]] : p \in same}
          \cup {NewPin(graph[c], k, version[c], at[c]) : k \in keys[c] \ {p.key : p \in same}}
    BY DEF Recorded
  <1> QED
    <2> HIDE DEF mine, same
    <2>1. same \subseteq pins
      BY <1>2 DEF same
    <2> QED
      BY <1>1, <1>2, <1>3, <1>4, <1>5, <1>6, <2>1

LEMMA SweptType == ASSUME TypeInv PROVE Swept \subseteq Pins
  <1>1. pins \subseteq Pins /\ sweep \in Nat
    BY DEF TypeInv, TypeOK
  <1>2. ASSUME NEW p \in pins PROVE [p EXCEPT !.to = sweep] \in Pins
    BY <1>1, <1>2 DEF Pins
  <1> QED
    BY <1>1, <1>2 DEF Swept

LEMMA CopiedType ==
  ASSUME TypeInv, NEW a \in Cutters, NEW p \in Cut(a)
  PROVE  NewPin(cut[a].id, p.key, p.version, CutFrom(a)) \in Pins
  <1>1. p \in Pins /\ cut[a] \in CutRecords
    BY DEF TypeInv, TypeOK, Cut, CutRecords
  <1>2. cut[a].id \in Graphs /\ cut[a].at \in Nat
    BY <1>1 DEF CutRecords, Graphs, Trunk
  <1> QED
    BY <1>1, <1>2 DEF Pins, NewPin, NoEnd, CutFrom

\* Who is written where: each action of a Require touches its own call only.
LEMMA EndType == ASSUME TypeInv, NEW c \in Calls, End(c)
  PROVE  /\ step' \in [Calls -> {"idle", "plan", "deps", "pins"}]
         /\ graph' \in [Calls -> Graphs]
         /\ tag' \in [Calls -> Names \cup {NoName}]
         /\ keys' \in [Calls -> SUBSET Keys] /\ fresh' \in [Calls -> SUBSET Keys]
         /\ version' \in [Calls -> Versions]
         /\ at' \in [Calls -> Nat]
         /\ ReadOK'
  <1>1. (CHOOSE v \in Versions : TRUE) \in Versions
    BY TimelineAssumptions
  <1>2. Trunk \in Graphs
    BY DEF Graphs
  <1> QED
    BY <1>1, <1>2 DEF End, TypeInv, TypeOK, ReadOK

LEMMA EndCutType == ASSUME TypeInv, NEW a \in Cutters, EndCut(a)
  PROVE cut' \in [Cutters -> CutRecords] /\ CutOK'
  <1>1. NoCut \in CutRecords
    BY DEF NoCut, CutRecords, Graphs, Ids, Trunk
  <1>2. cut \in [Cutters -> CutRecords] /\ CutOK
    BY DEF TypeInv, TypeOK, CutRecords
  <1>3. cut' = [cut EXCEPT ![a] = NoCut]
    BY DEF EndCut
  <1>4. cut' \in [Cutters -> CutRecords]
    BY <1>1, <1>2, <1>3
  <1>5. \A b \in Cutters : cut'[b] = IF b = a THEN NoCut ELSE cut[b]
    BY <1>2, <1>3
  <1>6. CutOK'
    BY <1>2, <1>5 DEF CutOK, NoCut
  <1> QED
    BY <1>4, <1>6

\* A creation that goes on to another step.
LEMMA CutStepType ==
  ASSUME TypeInv, NEW a \in Cutters, NEW s \in {"periphery", "cleanup"},
         cut[a].step \notin {"idle", "insert"},
         cut' = [cut EXCEPT ![a].step = s]
  PROVE  cut' \in [Cutters -> CutRecords] /\ CutOK'
  <1>1. cut \in [Cutters -> CutRecords] /\ CutOK
    BY DEF TypeInv, TypeOK, CutRecords
  <1>2. cut[a] \in CutRecords
    BY <1>1
  <1>3. \A b \in Cutters : cut'[b] = IF b = a THEN [cut[a] EXCEPT !.step = s] ELSE cut[b]
    BY <1>1
  <1>4. [cut[a] EXCEPT !.step = s] \in CutRecords
    BY <1>2 DEF CutRecords
  <1>5. cut' \in [Cutters -> CutRecords]
    BY <1>1, <1>3, <1>4
  <1>6. /\ [cut[a] EXCEPT !.step = s].step = s
        /\ [cut[a] EXCEPT !.step = s].id = cut[a].id
        /\ [cut[a] EXCEPT !.step = s].name = cut[a].name
    BY <1>2 DEF CutRecords
  <1>7. CutOK'
    BY <1>1, <1>3, <1>6 DEF CutOK
  <1> QED
    BY <1>5, <1>7

\* Every step keeps the types and the facts about creations and readings.
LEMMA TypeStep == TypeInv /\ [Next]_vars => TypeInv'
  <1> SUFFICES ASSUME TypeInv, [Next]_vars PROVE TypeInv'
    OBVIOUS
  <1> USE DEF TypeInv
  <1>1. ASSUME NEW c \in Calls, Resolve(c) PROVE TypeInv'
    <2>1. PICK g \in Streams, K \in SUBSET Keys \ {{}}, v \in Versions :
            /\ graph' = [graph EXCEPT ![c] = g]
            /\ tag' = [tag EXCEPT ![c] = IF g = Trunk THEN NoName ELSE branches[g]]
            /\ keys' = [keys EXCEPT ![c] = K]
            /\ version' = [version EXCEPT ![c] = v]
      BY <1>1 DEF Resolve
    <2>2. g \in Graphs /\ (g # Trunk => branches[g] \in Names \cup {NoName})
      BY DEF Streams, Graphs, TypeOK
    <2>3. TypeOK'
      BY <1>1, <2>1, <2>2 DEF Resolve, TypeOK
    <2>4. CutOK' /\ ReadOK'
      BY <1>1 DEF Resolve, CutOK, ReadOK, TypeOK
    <2> QED BY <2>3, <2>4
  <1>2. ASSUME NEW c \in Calls, Plan(c) PROVE TypeInv'
    BY <1>2 DEF Plan, TypeOK, CutOK, ReadOK
  <1>3. ASSUME NEW c \in Calls, RecordDeps(c) PROVE TypeInv'
    <2>1. {<<graph[c], k, version[c]>> : k \in fresh[c]} \subseteq Graphs \X Keys \X Versions
      BY DEF TypeOK
    <2>2. TypeOK'
      BY <1>3, <2>1 DEF RecordDeps, TypeOK
    <2>3. CutOK' /\ ReadOK'
      BY <1>3 DEF RecordDeps, CutOK, ReadOK, TypeOK
    <2> QED BY <2>2, <2>3
  <1>4. ASSUME NEW c \in Calls, RecordPins(c) PROVE TypeInv'
    <2>1. pins' \subseteq Pins
      BY <1>4, RecordedType DEF RecordPins, TypeOK
    <2>2. \A q \in pins : q.key \in Keys
      BY DEF TypeOK, Pins
    <2>3. late' \subseteq Graphs \X Keys
      <3>1. CASE graph[c] = Trunk \/ Exists(graph[c])
        <4>1. late' = late \cup {<<graph[c], p.key>> : p \in
                       {q \in pins : /\ q.graph = graph[c] /\ q.key \in keys[c]
                                     /\ q.from > at[c] \/ q.to > at[c]}}
          BY <1>4, <3>1 DEF RecordPins
        <4> QED BY <4>1, <2>2 DEF TypeOK
      <3>2. CASE ~(graph[c] = Trunk \/ Exists(graph[c]))
        BY <1>4, <3>2 DEF RecordPins, TypeOK
      <3> QED BY <3>1, <3>2
    <2>4. End(c) /\ UNCHANGED <<now, branches, nextId, cut, sweep, requires, told, copied,
                                abandoned, named>>
      BY <1>4 DEF RecordPins
    <2>5. TypeOK' /\ ReadOK'
      BY <2>1, <2>3, <2>4, EndType DEF TypeOK
    <2>6. CutOK'
      BY <2>4 DEF CutOK
    <2> QED BY <2>5, <2>6
  <1>5. ASSUME NEW c \in Calls, Drop(c) PROVE TypeInv'
    <2>1. End(c) /\ UNCHANGED <<now, pins, branches, nextId, cut, sweep, requires, told,
                                copied, abandoned, named, late>>
      BY <1>5 DEF Drop
    <2>2. TypeOK' /\ ReadOK'
      BY <2>1, EndType DEF TypeOK
    <2>3. CutOK'
      BY <2>1 DEF CutOK
    <2> QED BY <2>2, <2>3
  <1>6. ASSUME NEW a \in Cutters, BeginCut(a) PROVE TypeInv'
    <2>1. PICK n \in Names, s \in Streams, t \in 1..MaxTime :
            cut' = [cut EXCEPT ![a] = [step |-> "insert", name |-> n, source |-> s,
                                       asOf |-> t, at |-> now, id |-> 0]]
      BY <1>6 DEF BeginCut
    <2> DEFINE new == [step |-> "insert", name |-> n, source |-> s, asOf |-> t, at |-> now, id |-> 0]
    <2>2. s \in Graphs /\ t \in Nat /\ now \in Nat
      BY TimelineAssumptions DEF Streams, Graphs, TypeOK
    <2>3. new \in CutRecords
      BY <2>2 DEF CutRecords
    <2>4. cut \in [Cutters -> CutRecords]
      BY DEF TypeOK, CutRecords
    <2>5. /\ cut' \in [Cutters -> CutRecords]
          /\ \A b \in Cutters : cut'[b] = IF b = a THEN new ELSE cut[b]
      BY <2>1, <2>3, <2>4
    <2>6. CutOK'
      BY <2>5 DEF CutOK
    <2>7. TypeOK' /\ ReadOK'
      BY <1>6, <2>5 DEF BeginCut, TypeOK, CutRecords, ReadOK, call
    <2> QED BY <2>6, <2>7
  <1>7. ASSUME NEW a \in Cutters, InsertBranch(a) PROVE TypeInv'
    <2>0. UNCHANGED <<now, pins, call, sweep, requires, told, copied, abandoned, late>>
      BY <1>7 DEF InsertBranch
    <2>1. CASE EndCut(a) /\ UNCHANGED <<branches, nextId, named>>
      <3>1. cut' \in [Cutters -> CutRecords] /\ CutOK'
        BY <2>1, EndCutType
      <3>2. TypeOK' /\ ReadOK'
        BY <2>0, <2>1, <3>1 DEF TypeOK, CutRecords, ReadOK, call
      <3> QED BY <3>1, <3>2
    <2>2. CASE /\ FreshId \in Ids
               /\ branches' = [branches EXCEPT ![FreshId] = cut[a].name]
               /\ named' = [named EXCEPT ![FreshId] = {cut[a].name}]
               /\ nextId' = nextId + 1
               /\ cut' = [cut EXCEPT ![a].step = "copy", ![a].id = FreshId]
      <3>1. cut \in [Cutters -> CutRecords] /\ cut[a] \in CutRecords
        BY DEF TypeOK, CutRecords
      <3> DEFINE new == [cut[a] EXCEPT !.step = "copy", !.id = FreshId]
      <3>2. new \in CutRecords /\ new.step = "copy" /\ new.id = FreshId /\ new.name = cut[a].name
        BY <2>2, <3>1 DEF CutRecords
      <3>3. cut[a].name \in Names
        BY <1>7 DEF InsertBranch, CutOK
      <3>4. \A b \in Cutters : cut'[b] = IF b = a THEN new ELSE cut[b]
        BY <2>2, <3>1 DEF CutRecords
      <3>5. cut' \in [Cutters -> CutRecords]
        BY <2>2, <3>1, <3>2, <3>4
      <3> HIDE DEF new
      <3>6. CutOK'
        BY <2>2, <3>2, <3>3, <3>4 DEF CutOK
      <3>7. TypeOK' /\ ReadOK'
        BY <2>0, <2>2, <3>3, <3>5 DEF TypeOK, CutRecords, ReadOK, call
      <3> QED BY <3>6, <3>7
    <2> QED BY <1>7, <2>1, <2>2 DEF InsertBranch
  <1>8. ASSUME NEW a \in Cutters, CopyGraph(a) PROVE TypeInv'
    <2>1. pins' \subseteq Pins
      BY <1>8, CopiedType DEF CopyGraph, TypeOK
    <2>2. \A p \in Cut(a) : <<cut[a].id, p.key, p.version>> \in Graphs \X Keys \X Versions
      BY <1>8 DEF CopyGraph, Cut, Pins, TypeOK, CutOK, Graphs
    <2>3. cut' \in [Cutters -> CutRecords] /\ CutOK'
      BY <1>8, CutStepType DEF CopyGraph
    <2>4. told' \subseteq Graphs \X Keys \X Versions
      BY <1>8, <2>2 DEF CopyGraph, TypeOK
    <2>5. TypeOK' /\ ReadOK'
      BY <1>8, <2>1, <2>3, <2>4 DEF CopyGraph, TypeOK, CutRecords, ReadOK, call
    <2> QED BY <2>3, <2>5
  <1>9. ASSUME NEW a \in Cutters, CopyPeriphery(a) PROVE TypeInv'
    <2>1. cut' \in [Cutters -> CutRecords] /\ CutOK'
      BY <1>9, EndCutType DEF CopyPeriphery
    <2>2. cut[a].id \in Ids
      BY <1>9 DEF CopyPeriphery, CutOK
    <2>3. TypeOK' /\ ReadOK'
      BY <1>9, <2>1, <2>2 DEF CopyPeriphery, TypeOK, CutRecords, ReadOK, call
    <2> QED BY <2>1, <2>3
  <1>10. ASSUME NEW a \in Cutters, CopyFails(a) PROVE TypeInv'
    <2>1. cut' \in [Cutters -> CutRecords] /\ CutOK'
      BY <1>10, CutStepType DEF CopyFails, Failing
    <2>2. TypeOK' /\ ReadOK'
      BY <1>10, <2>1 DEF CopyFails, TypeOK, CutRecords, ReadOK, call
    <2> QED BY <2>1, <2>2
  <1>11. ASSUME NEW a \in Cutters, CleanUp(a) PROVE TypeInv'
    <2>1. cut' \in [Cutters -> CutRecords] /\ CutOK'
      BY <1>11, EndCutType DEF CleanUp
    <2>2. TypeOK' /\ ReadOK'
      BY <1>11, <2>1 DEF CleanUp, Deleted, TypeOK, CutRecords, ReadOK, call
    <2> QED BY <2>1, <2>2
  <1>12. ASSUME NEW a \in Cutters, DropCut(a) PROVE TypeInv'
    <2>1. cut' \in [Cutters -> CutRecords] /\ CutOK'
      BY <1>12, EndCutType DEF DropCut
    <2>2. cut[a].id \in {0} \cup Ids
      BY DEF TypeOK
    <2>3. TypeOK' /\ ReadOK'
      BY <1>12, <2>1, <2>2 DEF DropCut, TypeOK, CutRecords, ReadOK, call
    <2> QED BY <2>1, <2>3
  <1>13. ASSUME NEW b \in Ids, DeleteBranch(b) PROVE TypeInv'
    BY <1>13 DEF DeleteBranch, Deleted, TypeOK, CutOK, ReadOK, call
  <1>14. ASSUME NEW b \in Ids, NEW n \in Names, RenameBranch(b, n) PROVE TypeInv'
    BY <1>14 DEF RenameBranch, TypeOK, CutOK, ReadOK, call
  <1>15. CASE StartSweep
    BY <1>15 DEF StartSweep, TypeOK, CutOK, ReadOK, call
  <1>16. CASE Sweep
    BY <1>16, SweptType DEF Sweep, TypeOK, CutOK, ReadOK, call
  <1>17. CASE Tick
    BY <1>17 DEF Tick, TypeOK, CutOK, ReadOK, call
  <1>18. CASE UNCHANGED vars
    BY <1>18 DEF vars, TypeOK, CutOK, ReadOK, call
  <1> QED
    BY <1>1, <1>2, <1>3, <1>4, <1>5, <1>6, <1>7, <1>8, <1>9, <1>10, <1>11, <1>12, <1>13,
       <1>14, <1>15, <1>16, <1>17, <1>18 DEF Next

\* Every variable keeps its type.
THEOREM TypeCorrect == Spec => []TypeOK
  <1>1. Spec => []TypeInv
    BY InitType, TypeStep, PTL DEF Spec
  <1>2. TypeInv => TypeOK
    BY DEF TypeInv
  <1> QED
    BY <1>1, <1>2, PTL
----------------------------------------------------------------------------
(* What the writes do to the single records. *)

Mine(c) == {p \in OpenIn(graph[c]) : p.key \in keys[c]}
Same(c) == {p \in Mine(c) : p.version = version[c]}

\* A record after a Require, and after a sweep.
RecordedAs(c, p) ==
  IF p \notin Mine(c) THEN p
  ELSE IF p \in Same(c) THEN [p EXCEPT !.last = at[c]] ELSE [p EXCEPT !.to = at[c]]

SweptAs(p) == IF Stale(p) THEN [p EXCEPT !.to = sweep] ELSE p

NewKeys(c) == keys[c] \ {p.key : p \in Same(c)}

LEMMA RecordedIs ==
  ASSUME NEW c \in Calls
  PROVE  Recorded(c) = {RecordedAs(c, p) : p \in pins}
                         \cup {NewPin(graph[c], k, version[c], at[c]) : k \in NewKeys(c)}
  <1>1. Recorded(c) = (pins \ Mine(c))
          \cup {[p EXCEPT !.to = at[c]] : p \in Mine(c) \ Same(c)}
          \cup {[p EXCEPT !.last = at[c]] : p \in Same(c)}
          \cup {NewPin(graph[c], k, version[c], at[c]) : k \in NewKeys(c)}
    BY DEF Recorded, Mine, Same, NewKeys
  <1>2. Mine(c) \subseteq pins /\ Same(c) \subseteq Mine(c)
    BY DEF Mine, Same, OpenIn
  <1> HIDE DEF Mine, Same, NewKeys
  <1>3. {RecordedAs(c, p) : p \in pins} = (pins \ Mine(c))
          \cup {[p EXCEPT !.to = at[c]] : p \in Mine(c) \ Same(c)}
          \cup {[p EXCEPT !.last = at[c]] : p \in Same(c)}
    BY <1>2 DEF RecordedAs
  <1> QED
    BY <1>1, <1>3

LEMMA SweptIs == Swept = {SweptAs(p) : p \in pins}
  BY DEF Swept, SweptAs

\* A Require refreshes or closes a record and changes nothing else of it.
LEMMA RecordedAsFacts ==
  ASSUME TypeInv, NEW c \in Calls, step[c] = "pins", NEW p \in pins
  PROVE  LET r == RecordedAs(c, p)
         IN  /\ r.graph = p.graph /\ r.key = p.key /\ r.version = p.version /\ r.from = p.from
             /\ r.to = IF p \in Mine(c) \ Same(c) THEN at[c] ELSE p.to
             /\ ~IsOpen(p) => r = p
             /\ p \in Mine(c) \ Same(c) => ~IsOpen(r)
             /\ p.graph # graph[c] \/ p.key \notin keys[c] => r = p
  <1>1. p \in Pins /\ at[c] # 0
    BY DEF TypeInv, TypeOK, ReadOK
  <1>2. p \in Mine(c) => p.graph = graph[c] /\ p.key \in keys[c] /\ IsOpen(p)
    BY DEF Mine, OpenIn
  <1>3. Same(c) \subseteq Mine(c)
    BY DEF Same
  <1> QED
    BY <1>1, <1>2, <1>3 DEF RecordedAs, IsOpen, NoEnd, Pins

\* The sweep only closes.
LEMMA SweptAsFacts ==
  ASSUME TypeInv, sweep # 0, NEW p \in pins
  PROVE  LET r == SweptAs(p)
         IN  /\ r.graph = p.graph /\ r.key = p.key /\ r.version = p.version /\ r.from = p.from
             /\ r.to = IF Stale(p) THEN sweep ELSE p.to
             /\ Stale(p) => IsOpen(p) /\ ~IsOpen(r)
             /\ ~IsOpen(p) => r = p
             /\ p.graph # Trunk => r = p
  <1>1. p \in Pins
    BY DEF TypeInv, TypeOK
  <1>2. Stale(p) => IsOpen(p) /\ p.graph = Trunk
    BY DEF Stale
  <1> QED
    BY <1>1, <1>2 DEF SweptAs, IsOpen, NoEnd, Pins

LEMMA NewPinFacts ==
  ASSUME NEW g, NEW k, NEW v, NEW t
  PROVE  LET r == NewPin(g, k, v, t)
         IN  r.graph = g /\ r.key = k /\ r.version = v /\ r.from = t /\ r.to = NoEnd /\ IsOpen(r)
  BY DEF NewPin, IsOpen

\* The graph a Require resolved to is still there.
Alive(c) == graph[c] = Trunk \/ Exists(graph[c])

\* The ways a step changes the records.
PinChange ==
  \/ pins' = pins
  \/ \E b \in Ids : pins' = {p \in pins : p.graph # b} /\ branches'[b] = NoName
  \/ \E c \in Calls : RecordPins(c) /\ Alive(c) /\ pins' = Recorded(c)
  \/ \E a \in Cutters : CopyGraph(a)
  \/ Sweep

LEMMA PinStep == ASSUME TypeInv, [Next]_vars
                 PROVE  PinChange /\ told \subseteq told' /\ late \subseteq late'
  <1> DEFINE Goal == PinChange /\ told \subseteq told' /\ late \subseteq late'
  <1>1. ASSUME NEW c \in Calls, Resolve(c) \/ Plan(c) \/ RecordDeps(c) \/ Drop(c) PROVE Goal
    BY <1>1 DEF Resolve, Plan, RecordDeps, Drop, PinChange
  <1>2. ASSUME NEW c \in Calls, RecordPins(c) PROVE Goal
    BY <1>2 DEF RecordPins, PinChange, Alive
  <1>3. ASSUME NEW a \in Cutters, BeginCut(a) \/ InsertBranch(a) \/ CopyPeriphery(a) PROVE Goal
    BY <1>3 DEF BeginCut, InsertBranch, CopyPeriphery, PinChange
  <1>4. ASSUME NEW a \in Cutters, CopyFails(a) \/ DropCut(a) PROVE Goal
    BY <1>4 DEF CopyFails, DropCut, PinChange
  <1>5. ASSUME NEW a \in Cutters, CopyGraph(a) PROVE Goal
    BY <1>5 DEF CopyGraph, PinChange
  <1>6. ASSUME NEW a \in Cutters, CleanUp(a) PROVE Goal
    <2>1. cut[a].id \in Ids
      BY <1>6 DEF CleanUp, TypeInv, CutOK
    <2>2. pins' = {p \in pins : p.graph # cut[a].id} /\ branches'[cut[a].id] = NoName
      BY <1>6, <2>1 DEF CleanUp, Deleted, TypeInv, TypeOK
    <2>3. told' = told /\ late' = late
      BY <1>6 DEF CleanUp
    <2> QED BY <2>1, <2>2, <2>3 DEF PinChange
  <1>7. ASSUME NEW b \in Ids, DeleteBranch(b) PROVE Goal
    <2>1. pins' = {p \in pins : p.graph # b} /\ branches'[b] = NoName
      BY <1>7 DEF DeleteBranch, Deleted, TypeInv, TypeOK
    <2>2. told' = told /\ late' = late
      BY <1>7 DEF DeleteBranch
    <2> QED BY <2>1, <2>2 DEF PinChange
  <1>8. ASSUME NEW b \in Ids, NEW n \in Names, RenameBranch(b, n) PROVE Goal
    BY <1>8 DEF RenameBranch, PinChange
  <1>9. CASE StartSweep \/ Sweep \/ Tick
    BY <1>9 DEF StartSweep, Sweep, Tick, PinChange
  <1>10. CASE UNCHANGED vars
    BY <1>10 DEF vars, PinChange
  <1> QED
    BY <1>1, <1>2, <1>3, <1>4, <1>5, <1>6, <1>7, <1>8, <1>9, <1>10 DEF Next

----------------------------------------------------------------------------
(* One current pin per key. *)

LEMMA OneCurrentStep == TypeInv /\ OneCurrentPin /\ [Next]_vars => OneCurrentPin'
  <1> SUFFICES ASSUME TypeInv, OneCurrentPin, [Next]_vars,
                      NEW r \in pins', NEW s \in pins',
                      r.graph = s.graph, r.key = s.key, IsOpen(r), IsOpen(s)
               PROVE  r = s
    BY DEF OneCurrentPin, IsOpen
  <1>1. ASSUME NEW p \in pins, NEW q \in pins, p.graph = q.graph, p.key = q.key,
               IsOpen(p), IsOpen(q)
        PROVE  p = q
    BY <1>1 DEF OneCurrentPin
  <1>2. CASE pins' = pins \/ \E b \in Ids : pins' = {p \in pins : p.graph # b}
    BY <1>1, <1>2
  <1>3. ASSUME NEW c \in Calls, RecordPins(c), pins' = Recorded(c) PROVE r = s
    <2>0. step[c] = "pins"
      BY <1>3 DEF RecordPins
    <2> DEFINE New(k) == NewPin(graph[c], k, version[c], at[c])
    <2>1. \A x \in pins' : (\E p \in pins : x = RecordedAs(c, p)) \/ (\E k \in NewKeys(c) : x = New(k))
      BY <1>3, RecordedIs
    <2>2. ASSUME NEW p \in pins, NEW k \in NewKeys(c), IsOpen(RecordedAs(c, p)),
                 RecordedAs(c, p).graph = New(k).graph, RecordedAs(c, p).key = New(k).key
          PROVE  FALSE
      <3>1. p.graph = graph[c] /\ p.key = k /\ k \in keys[c]
        BY <2>0, <2>2, RecordedAsFacts, NewPinFacts DEF NewKeys
      <3>2. IsOpen(p) /\ p \notin Mine(c) \ Same(c)
        BY <2>0, <2>2, RecordedAsFacts DEF IsOpen
      <3>3. p \in Same(c)
        BY <3>1, <3>2 DEF Mine, OpenIn
      <3> QED BY <3>1, <3>3 DEF NewKeys
    <2>3. ASSUME NEW p \in pins, NEW q \in pins, r = RecordedAs(c, p), s = RecordedAs(c, q)
          PROVE  r = s
      <3>1. p.graph = q.graph /\ p.key = q.key /\ IsOpen(p) /\ IsOpen(q)
        BY <2>0, <2>3, RecordedAsFacts DEF IsOpen
      <3> QED BY <1>1, <2>3, <3>1
    <2>4. ASSUME NEW k \in NewKeys(c), NEW l \in NewKeys(c), r = New(k), s = New(l)
          PROVE  r = s
      BY <2>4, NewPinFacts
    <2> QED
      BY <2>1, <2>2, <2>3, <2>4
  <1>4. ASSUME NEW a \in Cutters, CopyGraph(a) PROVE r = s
    <2> DEFINE New(p) == NewPin(cut[a].id, p.key, p.version, CutFrom(a))
    <2>1. \A x \in pins' : x \in pins \/ \E p \in Cut(a) : x = New(p)
      BY <1>4 DEF CopyGraph
    <2>2. Fits(a)
      BY <1>4 DEF CopyGraph
    <2>3. ASSUME NEW x \in pins, NEW p \in Cut(a), IsOpen(x), x.graph = New(p).graph,
                 x.key = New(p).key
          PROVE  FALSE
      BY <2>2, <2>3, NewPinFacts DEF Fits, OpenIn
    <2>4. ASSUME NEW p \in Cut(a), NEW q \in Cut(a), r = New(p), s = New(q) PROVE r = s
      BY <2>2, <2>4, NewPinFacts DEF Fits
    <2> QED
      BY <1>1, <2>1, <2>3, <2>4
  <1>5. CASE Sweep
    <2>1. PICK p \in pins, q \in pins : r = SweptAs(p) /\ s = SweptAs(q)
      BY <1>5, SweptIs DEF Sweep
    <2>2. p.graph = q.graph /\ p.key = q.key /\ IsOpen(p) /\ IsOpen(q)
      BY <1>5, <2>1, SweptAsFacts DEF Sweep, IsOpen
    <2> QED BY <1>1, <2>1, <2>2
  <1> QED
    BY <1>2, <1>3, <1>4, <1>5, PinStep DEF PinChange

\* No graph ever has two open records of one key: whatever Requires, cuts and
\* sweeps overlap, a key has one current pin.
THEOREM CurrentPinIsUnique == Spec => []OneCurrentPin
  <1>1. Init => OneCurrentPin
    BY DEF Init, OneCurrentPin
  <1> QED
    BY <1>1, InitType, TypeStep, OneCurrentStep, PTL DEF Spec
----------------------------------------------------------------------------
(* The past. *)

\* A record is only refreshed, closed, or removed with its branch.
THEOREM HistoryIsAppendOnly == Spec => AppendOnly
  <1>1. ASSUME TypeInv, [Next]_vars, NEW p \in pins
        PROVE  Survives(p) \/ (p.graph # Trunk /\ branches'[p.graph] = NoName)
    <2>1. CASE pins' = pins
      BY <2>1 DEF Survives
    <2>2. ASSUME NEW b \in Ids, pins' = {q \in pins : q.graph # b}, branches'[b] = NoName
          PROVE  Survives(p) \/ (p.graph # Trunk /\ branches'[p.graph] = NoName)
      BY <2>2 DEF Survives, Ids, Trunk
    <2>3. ASSUME NEW c \in Calls, RecordPins(c), pins' = Recorded(c) PROVE Survives(p)
      <3>1. RecordedAs(c, p) \in pins' /\ step[c] = "pins"
        BY <2>3, RecordedIs DEF RecordPins
      <3> QED BY <1>1, <3>1, RecordedAsFacts DEF Survives
    <2>4. ASSUME NEW a \in Cutters, CopyGraph(a) PROVE Survives(p)
      BY <2>4 DEF CopyGraph, Survives
    <2>5. CASE Sweep
      <3>1. SweptAs(p) \in pins' /\ sweep # 0
        BY <2>5, SweptIs DEF Sweep
      <3> QED BY <1>1, <3>1, SweptAsFacts DEF Survives
    <2> QED
      BY <1>1, <2>1, <2>2, <2>3, <2>4, <2>5, PinStep DEF PinChange
  <1>2. TypeInv /\ [Next]_vars =>
          [\A p \in pins : Survives(p) \/ (p.graph # Trunk /\ branches'[p.graph] = NoName)]_vars
    BY <1>1
  <1> QED
    BY <1>2, InitType, TypeStep, PTL DEF Spec, AppendOnly

EdgeAt(P, g, t) == {<<p.key, p.version>> : p \in {q \in P : q.graph = g /\ Valid(q, t)}}

\* A graph at an instant that every clock reading in use has passed is the
\* same after any step, unless the branch is deleted.
THEOREM PastIsOnlyRead == Spec => PastIsFixed
  <1> DEFINE Fixed(g, t) == \/ GraphAt(g, t)' = GraphAt(g, t)
                            \/ g # Trunk /\ branches'[g] = NoName
  <1>1. ASSUME TypeInv, [Next]_vars, NEW g \in Graphs, NEW t \in 1..now,
               \A r \in Readings : t < r
        PROVE  Fixed(g, t)
    <2>0. t \in Nat /\ pins \subseteq Pins
      BY <1>1 DEF TypeInv, TypeOK
    <2>00. GraphAt(g, t) = EdgeAt(pins, g, t) /\ GraphAt(g, t)' = EdgeAt(pins', g, t)
      BY DEF GraphAt, EdgeAt
    <2>1. CASE pins' = pins
      BY <2>1, <2>00
    <2>2. ASSUME NEW b \in Ids, pins' = {q \in pins : q.graph # b}, branches'[b] = NoName
          PROVE  Fixed(g, t)
      <3>1. CASE g = b
        BY <3>1, <2>2 DEF Ids, Trunk
      <3>2. CASE g # b
        <4>1. {q \in pins' : q.graph = g /\ Valid(q, t)} = {q \in pins : q.graph = g /\ Valid(q, t)}
          BY <2>2, <3>2
        <4> QED BY <2>00, <4>1 DEF EdgeAt
      <3> QED BY <3>1, <3>2
    <2>3. ASSUME NEW c \in Calls, RecordPins(c), pins' = Recorded(c) PROVE Fixed(g, t)
      <3>1. step[c] = "pins" /\ at[c] \in Nat
        BY <1>1, <2>3 DEF RecordPins, TypeInv, TypeOK
      <3>2. t < at[c]
        BY <1>1, <3>1 DEF Readings
      <3>3. ASSUME NEW p \in pins
            PROVE  /\ RecordedAs(c, p).graph = p.graph /\ RecordedAs(c, p).key = p.key
                   /\ RecordedAs(c, p).version = p.version
                   /\ Valid(RecordedAs(c, p), t) <=> Valid(p, t)
        <4>1. p \in Mine(c) \ Same(c) => IsOpen(p)
          BY DEF Mine, OpenIn
        <4> QED BY <1>1, <2>0, <3>1, <3>2, <3>3, <4>1, RecordedAsFacts DEF Valid, IsOpen
      <3>4. \A k \in NewKeys(c) : ~Valid(NewPin(graph[c], k, version[c], at[c]), t)
        BY <2>0, <3>1, <3>2, NewPinFacts DEF Valid
      <3>5. pins' = {RecordedAs(c, p) : p \in pins}
                      \cup {NewPin(graph[c], k, version[c], at[c]) : k \in NewKeys(c)}
        BY <2>3, RecordedIs
      <3>6. EdgeAt(pins', g, t) = EdgeAt(pins, g, t)
        BY <3>3, <3>4, <3>5 DEF EdgeAt
      <3> QED BY <2>00, <3>6
    <2>4. ASSUME NEW a \in Cutters, CopyGraph(a) PROVE Fixed(g, t)
      <3>1. cut[a].at \in Nat /\ t < cut[a].at
        BY <1>1, <2>4 DEF CopyGraph, Readings, TypeInv, TypeOK
      <3>2. \A p \in Cut(a) : ~Valid(NewPin(cut[a].id, p.key, p.version, CutFrom(a)), t)
        BY <2>0, <3>1, NewPinFacts DEF Valid, CutFrom
      <3>3. pins' = pins \cup {NewPin(cut[a].id, p.key, p.version, CutFrom(a)) : p \in Cut(a)}
        BY <2>4 DEF CopyGraph
      <3>4. {q \in pins' : q.graph = g /\ Valid(q, t)} = {q \in pins : q.graph = g /\ Valid(q, t)}
        BY <3>2, <3>3
      <3> QED BY <2>00, <3>4 DEF EdgeAt
    <2>5. CASE Sweep
      <3>1. sweep # 0 /\ sweep \in Nat /\ pins' = {SweptAs(p) : p \in pins}
        BY <1>1, <2>5, SweptIs DEF Sweep, TypeInv, TypeOK
      <3>2. t < sweep
        BY <1>1, <3>1 DEF Readings
      <3>3. ASSUME NEW p \in pins
            PROVE  /\ SweptAs(p).graph = p.graph /\ SweptAs(p).key = p.key
                   /\ SweptAs(p).version = p.version
                   /\ Valid(SweptAs(p), t) <=> Valid(p, t)
        BY <1>1, <2>0, <3>1, <3>2, <3>3, SweptAsFacts DEF Valid, IsOpen
      <3>4. EdgeAt(pins', g, t) = EdgeAt(pins, g, t)
        BY <3>1, <3>3 DEF EdgeAt
      <3> QED BY <2>00, <3>4
    <2> QED
      BY <1>1, <2>1, <2>2, <2>3, <2>4, <2>5, PinStep DEF PinChange
  <1>2. TypeInv /\ [Next]_vars =>
          [\A g \in Graphs, t \in 1..now : (\A r \in Readings : t < r) => Fixed(g, t)]_vars
    BY <1>1
  <1> QED
    BY <1>2, InitType, TypeStep, PTL DEF Spec, PastIsFixed
----------------------------------------------------------------------------
(* Announcements. *)

\* What a Require will write was announced before, or is in its event.
ToldOK ==
  \A c \in Calls : \A k \in keys[c] :
    /\ step[c] = "deps" => k \in fresh[c] \/ <<graph[c], k, version[c]>> \in told
    /\ step[c] = "pins" => <<graph[c], k, version[c]>> \in told

LEMMA ToldStep == TypeInv /\ NoSilentEdge /\ ToldOK /\ [Next]_vars => ToldOK'
  <1> SUFFICES ASSUME TypeInv, NoSilentEdge, ToldOK, [Next]_vars PROVE ToldOK'
    OBVIOUS
  <1>0. told \subseteq told'
    BY PinStep
  <1>1. ASSUME NEW c \in Calls, Resolve(c) PROVE ToldOK'
    <2>1. step' = [step EXCEPT ![c] = "plan"] /\ UNCHANGED <<fresh, told>>
      BY <1>1 DEF Resolve
    <2>2. ASSUME NEW d \in Calls, d # c
          PROVE  graph'[d] = graph[d] /\ keys'[d] = keys[d] /\ version'[d] = version[d]
      BY <1>1, <2>2 DEF Resolve, TypeInv, TypeOK
    <2> QED BY <2>1, <2>2 DEF ToldOK, TypeInv, TypeOK
  <1>2. ASSUME NEW c \in Calls, Plan(c) PROVE ToldOK'
    <2>1. \A k \in Held(c) : <<graph[c], k, version[c]>> \in told
      BY DEF Held, OpenIn, NoSilentEdge
    <2>2. /\ fresh' = [fresh EXCEPT ![c] = keys[c] \ Held(c)]
          /\ step' = [step EXCEPT ![c] = "deps"]
          /\ UNCHANGED <<graph, keys, version, told>>
      BY <1>2 DEF Plan
    <2> QED BY <2>1, <2>2 DEF ToldOK, TypeInv, TypeOK
  <1>3. ASSUME NEW c \in Calls, RecordDeps(c) PROVE ToldOK'
    <2>1. /\ told' = told \cup {<<graph[c], k, version[c]>> : k \in fresh[c]}
          /\ step' = [step EXCEPT ![c] = "pins"] /\ step[c] = "deps"
          /\ UNCHANGED <<graph, keys, version, fresh>>
      BY <1>3 DEF RecordDeps
    <2>2. \A k \in keys[c] : <<graph[c], k, version[c]>> \in told'
      BY <2>1 DEF ToldOK
    <2> QED BY <2>1, <2>2 DEF ToldOK, TypeInv, TypeOK
  <1>4. ASSUME NEW c \in Calls, RecordPins(c) \/ Drop(c) PROVE ToldOK'
    <2>1. End(c) /\ told' = told
      BY <1>4 DEF RecordPins, Drop
    <2> QED BY <2>1 DEF End, ToldOK, TypeInv, TypeOK
  <1>5. ASSUME UNCHANGED call PROVE ToldOK'
    BY <1>0, <1>5 DEF ToldOK, call
  <1>6. ASSUME NEW a \in Cutters, BeginCut(a) \/ InsertBranch(a) \/ CopyGraph(a) \/ CopyPeriphery(a)
        PROVE  UNCHANGED call
    BY <1>6 DEF BeginCut, InsertBranch, CopyGraph, CopyPeriphery
  <1>7. ASSUME NEW a \in Cutters, CopyFails(a) \/ CleanUp(a) \/ DropCut(a) PROVE UNCHANGED call
    BY <1>7 DEF CopyFails, CleanUp, DropCut
  <1>8. ASSUME NEW b \in Ids, DeleteBranch(b) \/ \E n \in Names : RenameBranch(b, n)
        PROVE  UNCHANGED call
    BY <1>8 DEF DeleteBranch, RenameBranch
  <1>9. StartSweep \/ Sweep \/ Tick => UNCHANGED call
    BY DEF StartSweep, Sweep, Tick
  <1>10. UNCHANGED vars => UNCHANGED call
    BY DEF vars
  <1> QED
    BY <1>1, <1>2, <1>3, <1>4, <1>5, <1>6, <1>7, <1>8, <1>9, <1>10 DEF Next

LEMMA EdgeStep == TypeInv /\ NoSilentEdge /\ ToldOK /\ [Next]_vars => NoSilentEdge'
  <1> SUFFICES ASSUME TypeInv, NoSilentEdge, ToldOK, [Next]_vars, NEW r \in pins'
               PROVE  <<r.graph, r.key, r.version>> \in told'
    BY DEF NoSilentEdge
  <1>0. told \subseteq told' /\ PinChange
    BY PinStep
  <1>1. CASE pins' = pins \/ \E b \in Ids : pins' = {p \in pins : p.graph # b}
    BY <1>0, <1>1 DEF NoSilentEdge
  <1>2. ASSUME NEW c \in Calls, RecordPins(c), pins' = Recorded(c)
        PROVE  <<r.graph, r.key, r.version>> \in told'
    <2>1. step[c] = "pins"
      BY <1>2 DEF RecordPins
    <2>2. CASE \E p \in pins : r = RecordedAs(c, p)
      BY <1>0, <2>1, <2>2, RecordedAsFacts DEF NoSilentEdge
    <2>3. CASE \E k \in NewKeys(c) : r = NewPin(graph[c], k, version[c], at[c])
      BY <1>0, <2>1, <2>3, NewPinFacts DEF ToldOK, NewKeys
    <2> QED BY <1>2, <2>2, <2>3, RecordedIs
  <1>3. ASSUME NEW a \in Cutters, CopyGraph(a) PROVE <<r.graph, r.key, r.version>> \in told'
    <2>1. CASE r \in pins
      BY <1>0, <2>1 DEF NoSilentEdge
    <2>2. ASSUME NEW p \in Cut(a), r = NewPin(cut[a].id, p.key, p.version, CutFrom(a))
          PROVE  <<r.graph, r.key, r.version>> \in told'
      BY <1>3, <2>2, NewPinFacts DEF CopyGraph
    <2> QED BY <1>3, <2>1, <2>2 DEF CopyGraph
  <1>4. CASE Sweep
    BY <1>0, <1>4, SweptIs, SweptAsFacts DEF Sweep, NoSilentEdge
  <1> QED
    BY <1>0, <1>1, <1>2, <1>3, <1>4 DEF PinChange

\* Although an event is decided on pins read before the write, no edge is
\* recorded that neither an event nor a cut announced.
THEOREM EveryEdgeIsAnnounced == Spec => []NoSilentEdge
  <1>1. Init => NoSilentEdge /\ ToldOK
    BY DEF Init, NoSilentEdge, ToldOK
  <1> QED
    BY <1>1, InitType, TypeStep, ToldStep, EdgeStep, PTL DEF Spec

----------------------------------------------------------------------------
(* Branch identity. *)

\* Ids are handed out once, so a resolved stream never becomes another branch.
IdsOK ==
  /\ \A b \in Ids : Exists(b) => b < nextId /\ branches[b] \in named[b]
  /\ \A c \in Calls : graph[c] < nextId

LEMMA TagStep == TypeInv /\ IdsOK /\ TagNeverStrays /\ [Next]_vars => IdsOK' /\ TagNeverStrays'
  <1> SUFFICES ASSUME TypeInv, IdsOK, TagNeverStrays, [Next]_vars PROVE IdsOK' /\ TagNeverStrays'
    OBVIOUS
  <1>0. nextId \in Nat \ {0} /\ branches \in [Ids -> Names \cup {NoName}]
        /\ named \in [Ids -> SUBSET Names] /\ graph \in [Calls -> Graphs]
        /\ tag \in [Calls -> Names \cup {NoName}]
    BY DEF TypeInv, TypeOK
  <1>1. ASSUME NEW c \in Calls, Resolve(c) PROVE IdsOK' /\ TagNeverStrays'
    <2>1. PICK g \in Streams :
            /\ graph' = [graph EXCEPT ![c] = g]
            /\ tag' = [tag EXCEPT ![c] = IF g = Trunk THEN NoName ELSE branches[g]]
      BY <1>1 DEF Resolve
    <2>2. g < nextId /\ (g # Trunk => g \in Ids /\ branches[g] \in named[g])
      BY <1>0 DEF IdsOK, Streams, Trunk
    <2>3. UNCHANGED <<branches, named, nextId>>
      BY <1>1 DEF Resolve
    <2> QED BY <1>0, <2>1, <2>2, <2>3 DEF IdsOK, TagNeverStrays, Exists
  <1>2. ASSUME NEW c \in Calls, Plan(c) \/ RecordDeps(c) PROVE IdsOK' /\ TagNeverStrays'
    BY <1>2 DEF Plan, RecordDeps, IdsOK, TagNeverStrays, Exists
  <1>3. ASSUME NEW c \in Calls, RecordPins(c) \/ Drop(c) PROVE IdsOK' /\ TagNeverStrays'
    <2>1. End(c) /\ UNCHANGED <<branches, named, nextId>>
      BY <1>3 DEF RecordPins, Drop
    <2>2. graph' = [graph EXCEPT ![c] = Trunk] /\ tag' = [tag EXCEPT ![c] = NoName]
      BY <2>1 DEF End
    <2> QED BY <1>0, <2>1, <2>2 DEF IdsOK, TagNeverStrays, Exists, Trunk
  <1>4. ASSUME NEW a \in Cutters, InsertBranch(a), FreshId \in Ids,
               branches' = [branches EXCEPT ![FreshId] = cut[a].name],
               named' = [named EXCEPT ![FreshId] = {cut[a].name}],
               nextId' = nextId + 1
        PROVE  IdsOK' /\ TagNeverStrays'
    <2>1. UNCHANGED <<graph, tag>>
      BY <1>4 DEF InsertBranch, call
    <2>2. \A c \in Calls : graph[c] < FreshId /\ graph[c] \in Graphs
      BY <1>0 DEF IdsOK, FreshId
    <2>3. \A c \in Calls : graph[c] # Trunk => named'[graph[c]] = named[graph[c]]
      BY <1>0, <1>4, <2>2 DEF Graphs, Ids
    <2>4. TagNeverStrays'
      BY <2>1, <2>3 DEF TagNeverStrays
    <2>5. IdsOK'
      BY <1>0, <1>4, <2>1, <2>2 DEF IdsOK, Exists, FreshId, Ids, Graphs, Trunk
    <2> QED BY <2>4, <2>5
  <1>5. ASSUME UNCHANGED <<branches, named, nextId, graph, tag>> PROVE IdsOK' /\ TagNeverStrays'
    BY <1>5 DEF IdsOK, TagNeverStrays, Exists
  <1>6. ASSUME NEW a \in Cutters, InsertBranch(a) PROVE IdsOK' /\ TagNeverStrays'
    <2>1. UNCHANGED <<graph, tag>>
      BY <1>6 DEF InsertBranch, call
    <2> QED BY <1>4, <1>5, <1>6, <2>1 DEF InsertBranch
  <1>7. ASSUME NEW a \in Cutters, BeginCut(a) \/ CopyGraph(a) \/ CopyPeriphery(a)
        PROVE  IdsOK' /\ TagNeverStrays'
    BY <1>5, <1>7 DEF BeginCut, CopyGraph, CopyPeriphery, call
  <1>8. ASSUME NEW a \in Cutters, CopyFails(a) \/ DropCut(a) PROVE IdsOK' /\ TagNeverStrays'
    BY <1>5, <1>8 DEF CopyFails, DropCut, call
  <1>9. ASSUME NEW b, branches' = [branches EXCEPT ![b] = NoName],
               UNCHANGED <<named, nextId, graph, tag>>
        PROVE  IdsOK' /\ TagNeverStrays'
    BY <1>0, <1>9 DEF IdsOK, TagNeverStrays, Exists
  <1>10. ASSUME NEW a \in Cutters, CleanUp(a) PROVE IdsOK' /\ TagNeverStrays'
    BY <1>9, <1>10 DEF CleanUp, Deleted, call
  <1>11. ASSUME NEW b \in Ids, DeleteBranch(b) PROVE IdsOK' /\ TagNeverStrays'
    BY <1>9, <1>11 DEF DeleteBranch, Deleted, call
  <1>12. ASSUME NEW b \in Ids, NEW n \in Names, RenameBranch(b, n) PROVE IdsOK' /\ TagNeverStrays'
    <2>1. /\ Exists(b) /\ branches' = [branches EXCEPT ![b] = n]
          /\ named' = [named EXCEPT ![b] = @ \cup {n}]
          /\ UNCHANGED <<nextId, graph, tag>>
      BY <1>12 DEF RenameBranch, call
    <2> QED BY <1>0, <2>1 DEF IdsOK, TagNeverStrays, Exists, Graphs
  <1>13. CASE StartSweep \/ Sweep \/ Tick
    BY <1>5, <1>13 DEF StartSweep, Sweep, Tick, call
  <1>14. CASE UNCHANGED vars
    BY <1>5, <1>14 DEF vars, call
  <1> QED
    BY <1>1, <1>2, <1>3, <1>6, <1>7, <1>8, <1>10, <1>11, <1>12, <1>13, <1>14 DEF Next

\* A tagged Require only ever writes to a branch that bore its tag, however
\* branches are deleted, renamed and created under it.
THEOREM TagsNeverStray == Spec => []TagNeverStrays
  <1>1. Init => IdsOK /\ TagNeverStrays
    BY DEF Init, IdsOK, TagNeverStrays, Exists, Trunk
  <1> QED
    BY <1>1, InitType, TypeStep, TagStep, PTL DEF Spec
----------------------------------------------------------------------------
(* Creations. *)

\* A branch whose copy is not complete is in the hands of its creation.
LEMMA BornStep == TypeInv /\ BornComplete /\ [Next]_vars => BornComplete'
  <1> SUFFICES ASSUME TypeInv, BornComplete, [Next]_vars,
                      NEW b \in Ids, Finished(b)'
               PROVE  b \in copied' \cup abandoned'
    BY DEF BornComplete
  <1>0. cut \in [Cutters -> CutRecords] /\ branches \in [Ids -> Names \cup {NoName}]
        /\ b # 0 /\ CutOK
    BY DEF TypeInv, TypeOK, CutRecords, Ids
  <1>1. ASSUME cut' = cut, branches'[b] # NoName => Exists(b), copied' = copied,
               abandoned' = abandoned
        PROVE  b \in copied' \cup abandoned'
    BY <1>1 DEF BornComplete, Finished, Exists
  <1>2. ASSUME NEW c \in Calls, Resolve(c) \/ Plan(c) \/ RecordDeps(c)
        PROVE  b \in copied' \cup abandoned'
    BY <1>1, <1>2 DEF Resolve, Plan, RecordDeps, Exists
  <1>3. ASSUME NEW c \in Calls, RecordPins(c) \/ Drop(c)
        PROVE  b \in copied' \cup abandoned'
    BY <1>1, <1>3 DEF RecordPins, Drop, Exists
  <1>4. ASSUME NEW a \in Cutters, BeginCut(a) PROVE b \in copied' \cup abandoned'
    <2>1. /\ cut[a].id = 0 /\ cut[a].step = "idle"
          /\ UNCHANGED <<branches, copied, abandoned>>
          /\ \A x \in Cutters : x # a => cut'[x] = cut[x]
      BY <1>0, <1>4 DEF BeginCut, CutOK
    <2> QED BY <1>0, <2>1 DEF BornComplete, Finished, Exists
  <1>5. ASSUME NEW a \in Cutters, InsertBranch(a) PROVE b \in copied' \cup abandoned'
    <2>0. cut[a].id = 0 /\ UNCHANGED <<copied, abandoned>>
      BY <1>0, <1>5 DEF InsertBranch, CutOK
    <2>1. CASE EndCut(a) /\ UNCHANGED branches
      <3>1. \A x \in Cutters : x # a => cut'[x] = cut[x]
        BY <1>0, <2>1 DEF EndCut
      <3> QED BY <1>0, <2>0, <2>1, <3>1 DEF BornComplete, Finished, Exists
    <2>2. CASE /\ FreshId \in Ids
               /\ branches' = [branches EXCEPT ![FreshId] = cut[a].name]
               /\ cut' = [cut EXCEPT ![a].step = "copy", ![a].id = FreshId]
      <3>1. cut'[a].step = "copy" /\ cut'[a].id = FreshId
        BY <1>0, <2>2 DEF CutRecords
      <3>2. \A x \in Cutters : x # a => cut'[x] = cut[x]
        BY <1>0, <2>2
      <3>3. b # FreshId
        BY <3>1 DEF Finished
      <3>4. branches'[b] = branches[b]
        BY <1>0, <2>2, <3>3
      <3> QED BY <1>0, <2>0, <3>2, <3>4 DEF BornComplete, Finished, Exists
    <2> QED BY <1>5, <2>1, <2>2 DEF InsertBranch
  <1>6. ASSUME NEW a \in Cutters, CopyGraph(a) \/ CopyFails(a) PROVE b \in copied' \cup abandoned'
    <2>1. UNCHANGED <<branches, copied, abandoned>>
      BY <1>6 DEF CopyGraph, CopyFails
    <2>2. \E s \in {"periphery", "cleanup"} : cut' = [cut EXCEPT ![a].step = s]
      BY <1>6 DEF CopyGraph, CopyFails
    <2>3. cut'[a].step # "idle" /\ cut'[a].id = cut[a].id
      BY <1>0, <2>2 DEF CutRecords
    <2>4. \A x \in Cutters : x # a => cut'[x] = cut[x]
      BY <1>0, <2>2
    <2> QED BY <2>1, <2>3, <2>4 DEF BornComplete, Finished, Exists
  <1>7. ASSUME NEW a \in Cutters, CopyPeriphery(a) \/ CleanUp(a) \/ DropCut(a)
        PROVE  b \in copied' \cup abandoned'
    <2>1. EndCut(a) /\ copied \subseteq copied' /\ abandoned \subseteq abandoned'
      BY <1>7 DEF CopyPeriphery, CleanUp, DropCut
    <2>2. \A x \in Cutters : x # a => cut'[x] = cut[x]
      BY <1>0, <2>1 DEF EndCut
    <2>3. branches'[b] # NoName => Exists(b)
      BY <1>0, <1>7 DEF CopyPeriphery, CleanUp, DropCut, Deleted, Exists
    <2>4. CASE b # cut[a].id
      BY <2>1, <2>2, <2>3, <2>4 DEF BornComplete, Finished, Exists
    <2>5. CASE b = cut[a].id
      <3>1. b \in copied' \/ b \in abandoned' \/ branches'[b] = NoName
        BY <1>0, <1>7, <2>5 DEF CopyPeriphery, CleanUp, DropCut, Deleted
      <3> QED BY <3>1 DEF Finished, Exists
    <2> QED BY <2>4, <2>5
  <1>8. ASSUME NEW x \in Ids, DeleteBranch(x) PROVE b \in copied' \cup abandoned'
    BY <1>0, <1>1, <1>8 DEF DeleteBranch, Deleted, Exists
  <1>9. ASSUME NEW x \in Ids, NEW n \in Names, RenameBranch(x, n) PROVE b \in copied' \cup abandoned'
    BY <1>0, <1>1, <1>9 DEF RenameBranch, Exists
  <1>10. CASE StartSweep \/ Sweep \/ Tick
    BY <1>1, <1>10 DEF StartSweep, Sweep, Tick, Exists
  <1>11. CASE UNCHANGED vars
    BY <1>1, <1>11 DEF vars, Exists
  <1> QED
    BY <1>2, <1>3, <1>4, <1>5, <1>6, <1>7, <1>8, <1>9, <1>10, <1>11 DEF Next

\* A branch nobody is creating holds its whole cut unless its creation ended
\* before its cleanup: whichever statement fails, no half-made branch stays.
THEOREM BranchesAreBornComplete == Spec => []BornComplete
  <1>1. Init => BornComplete
    BY DEF Init, BornComplete, Finished, Exists
  <1> QED
    BY <1>1, InitType, TypeStep, BornStep, PTL DEF Spec

----------------------------------------------------------------------------
(* Validity intervals. *)

\* A branch never loses a key: every recorded key has an open record.
KeptOpen == \A p \in pins : p.graph # Trunk => \E q \in pins :
              q.graph = p.graph /\ q.key = p.key /\ IsOpen(q)

\* Records of a key that no overtaken Require wrote are never valid together.
Disjoint ==
  \A p \in pins, q \in pins, t \in Nat :
    /\ p # q /\ p.graph = q.graph /\ p.key = q.key
    /\ Valid(p, t) /\ Valid(q, t)
    => <<p.graph, p.key>> \in late

LEMMA KeptOpenStep == TypeInv /\ KeptOpen /\ [Next]_vars => KeptOpen'
  <1> SUFFICES ASSUME TypeInv, KeptOpen, [Next]_vars, NEW r \in pins', r.graph # Trunk
               PROVE  \E s \in pins' : s.graph = r.graph /\ s.key = r.key /\ IsOpen(s)
    BY DEF KeptOpen, IsOpen
  <1> DEFINE Kept == \E s \in pins' : s.graph = r.graph /\ s.key = r.key /\ IsOpen(s)
  <1>1. CASE pins' = pins
    BY <1>1 DEF KeptOpen
  <1>2. ASSUME NEW b \in Ids, pins' = {p \in pins : p.graph # b} PROVE Kept
    BY <1>2 DEF KeptOpen
  <1>3. ASSUME NEW c \in Calls, RecordPins(c), pins' = Recorded(c) PROVE Kept
    <2>1. step[c] = "pins"
      BY <1>3 DEF RecordPins
    <2> DEFINE New(k) == NewPin(graph[c], k, version[c], at[c])
    <2>2. pins' = {RecordedAs(c, p) : p \in pins} \cup {New(k) : k \in NewKeys(c)}
      BY <1>3, RecordedIs
    <2>3. CASE \E k \in NewKeys(c) : r = New(k)
      BY <2>3, NewPinFacts
    <2>4. ASSUME NEW p \in pins, r = RecordedAs(c, p) PROVE Kept
      <3>1. p.graph = r.graph /\ p.key = r.key
        BY <2>1, <2>4, RecordedAsFacts
      <3>2. PICK q \in pins : q.graph = p.graph /\ q.key = p.key /\ IsOpen(q)
        BY <3>1 DEF KeptOpen
      <3>3. CASE q \in Mine(c) \ Same(c) /\ q.key \in NewKeys(c)
        <4>1. New(q.key) \in pins' /\ q.graph = graph[c]
          BY <2>2, <3>3 DEF Mine, OpenIn
        <4> QED BY <3>1, <3>2, <4>1, NewPinFacts
      <3>4. CASE q \in Mine(c) \ Same(c) /\ q.key \notin NewKeys(c)
        <4>1. PICK x \in Same(c) : x.key = q.key
          BY <3>4 DEF NewKeys, Mine
        <4>2. x \in pins /\ x.graph = q.graph /\ IsOpen(x) /\ x \notin Mine(c) \ Same(c)
          BY <3>4, <4>1 DEF Same, Mine, OpenIn
        <4>3. RecordedAs(c, x) \in pins' /\ IsOpen(RecordedAs(c, x))
          BY <2>1, <2>2, <4>2, RecordedAsFacts DEF IsOpen
        <4> QED BY <2>1, <3>1, <3>2, <4>1, <4>2, <4>3, RecordedAsFacts
      <3>5. CASE q \notin Mine(c) \ Same(c)
        <4>1. RecordedAs(c, q) \in pins' /\ IsOpen(RecordedAs(c, q))
          BY <2>1, <2>2, <3>2, <3>5, RecordedAsFacts DEF IsOpen
        <4> QED BY <2>1, <3>1, <3>2, <4>1, RecordedAsFacts
      <3> QED BY <3>3, <3>4, <3>5
    <2> QED BY <2>2, <2>3, <2>4
  <1>4. ASSUME NEW a \in Cutters, CopyGraph(a) PROVE Kept
    <2>1. pins \subseteq pins'
      BY <1>4 DEF CopyGraph
    <2>2. r \in pins \/ IsOpen(r)
      BY <1>4, NewPinFacts DEF CopyGraph
    <2> QED BY <2>1, <2>2 DEF KeptOpen
  <1>5. CASE Sweep
    <2>1. pins' = {SweptAs(p) : p \in pins} /\ sweep # 0
      BY <1>5, SweptIs DEF Sweep
    <2>2. PICK p \in pins : r = SweptAs(p)
      BY <2>1
    <2>3. p.graph = r.graph /\ p.key = r.key
      BY <2>1, <2>2, SweptAsFacts
    <2>4. PICK q \in pins : q.graph = p.graph /\ q.key = p.key /\ IsOpen(q)
      BY <2>3 DEF KeptOpen
    <2>5. SweptAs(q) = q /\ SweptAs(q) \in pins'
      BY <2>1, <2>3, <2>4, SweptAsFacts
    <2> QED BY <2>3, <2>4, <2>5
  <1> QED
    BY <1>1, <1>2, <1>3, <1>4, <1>5, PinStep DEF PinChange

\* A Require opens its record at its reading: where no record of the key lies
\* beyond that reading, the old ones end by then.
LEMMA NotLate ==
  ASSUME TypeInv, NEW c \in Calls, RecordPins(c), Alive(c),
         NEW p \in pins, p.graph = graph[c], p.key \in keys[c],
         <<p.graph, p.key>> \notin late'
  PROVE  p.from <= at[c] /\ p.to <= at[c]
  <1>1. p \in Pins /\ at[c] \in Nat
    BY DEF TypeInv, TypeOK
  <1>2. late' = late \cup {<<graph[c], q.key>> : q \in
                       {x \in pins : /\ x.graph = graph[c] /\ x.key \in keys[c]
                                     /\ x.from > at[c] \/ x.to > at[c]}}
    BY DEF RecordPins, Alive
  <1>3. ~(p.from > at[c] \/ p.to > at[c])
    BY <1>2
  <1> QED
    BY <1>1, <1>3 DEF Pins

LEMMA DisjointStep == TypeInv /\ KeptOpen /\ Disjoint /\ [Next]_vars => Disjoint'
  <1> SUFFICES ASSUME TypeInv, KeptOpen, Disjoint, [Next]_vars,
                      NEW r \in pins', NEW s \in pins', NEW t \in Nat,
                      r # s, r.graph = s.graph, r.key = s.key, Valid(r, t), Valid(s, t),
                      <<r.graph, r.key>> \notin late'
               PROVE  FALSE
    BY DEF Disjoint, Valid, IsOpen
  <1>0. late \subseteq late' /\ pins \subseteq Pins
    BY PinStep DEF TypeInv, TypeOK
  <1>1. ASSUME NEW p \in pins, NEW q \in pins, p # q, p.graph = q.graph, p.key = q.key,
               Valid(p, t), Valid(q, t), p.graph = r.graph, p.key = r.key
        PROVE  FALSE
    BY <1>0, <1>1 DEF Disjoint
  <1>2. CASE pins' = pins \/ \E b \in Ids : pins' = {p \in pins : p.graph # b}
    BY <1>1, <1>2
  <1>3. ASSUME NEW c \in Calls, RecordPins(c), Alive(c), pins' = Recorded(c) PROVE FALSE
    <2>0. step[c] = "pins" /\ at[c] \in Nat
      BY <1>3 DEF RecordPins, TypeInv, TypeOK
    <2> DEFINE New(k) == NewPin(graph[c], k, version[c], at[c])
    <2>1. \A x \in pins' : (\E p \in pins : x = RecordedAs(c, p)) \/ (\E k \in NewKeys(c) : x = New(k))
      BY <1>3, RecordedIs
    <2>2. ASSUME NEW p \in pins, Valid(RecordedAs(c, p), t) PROVE Valid(p, t)
      <3>1. p \in Mine(c) \ Same(c) => IsOpen(p)
        BY DEF Mine, OpenIn
      <3> QED BY <2>0, <2>2, <3>1, RecordedAsFacts DEF Valid, IsOpen
    <2>3. ASSUME NEW p \in pins, NEW k \in NewKeys(c), Valid(RecordedAs(c, p), t), Valid(New(k), t),
                 RecordedAs(c, p).graph = New(k).graph, RecordedAs(c, p).key = New(k).key,
                 <<RecordedAs(c, p).graph, RecordedAs(c, p).key>> \notin late'
          PROVE  FALSE
      <3>1. p.graph = graph[c] /\ p.key = k /\ k \in keys[c] /\ <<p.graph, p.key>> \notin late'
        BY <2>0, <2>3, RecordedAsFacts, NewPinFacts DEF NewKeys
      <3>2. p.from <= at[c] /\ p.to <= at[c]
        BY <1>3, <3>1, NotLate
      <3>3. at[c] <= t
        BY <2>3, NewPinFacts DEF Valid
      <3>4. p \notin Same(c)
        BY <3>1 DEF NewKeys
      <3>5. CASE IsOpen(p)
        <4>1. p \in Mine(c) \ Same(c)
          BY <3>1, <3>4, <3>5 DEF Mine, OpenIn
        <4>2. RecordedAs(c, p).to = at[c] /\ ~IsOpen(RecordedAs(c, p))
          BY <2>0, <4>1, RecordedAsFacts
        <4> QED BY <2>0, <2>3, <3>3, <4>2 DEF Valid
      <3>6. CASE ~IsOpen(p)
        <4>1. RecordedAs(c, p) = p
          BY <2>0, <3>6, RecordedAsFacts
        <4>2. p.to \in Nat /\ p.to > t
          BY <1>0, <2>3, <3>6, <4>1 DEF Valid, Pins
        <4> QED BY <2>0, <3>2, <3>3, <4>2
      <3> QED BY <3>5, <3>6
    <2>4. ASSUME NEW p \in pins, NEW q \in pins, r = RecordedAs(c, p), s = RecordedAs(c, q)
          PROVE  FALSE
      <3>1. /\ p # q /\ p.graph = q.graph /\ p.key = q.key
            /\ p.graph = r.graph /\ p.key = r.key
        BY <2>0, <2>4, RecordedAsFacts
      <3> QED BY <1>1, <2>2, <2>4, <3>1
    <2>5. ASSUME NEW k \in NewKeys(c), NEW l \in NewKeys(c), r = New(k), s = New(l)
          PROVE  FALSE
      BY <2>5, NewPinFacts
    <2> QED
      BY <2>1, <2>3, <2>4, <2>5
  <1>4. ASSUME NEW a \in Cutters, CopyGraph(a) PROVE FALSE
    <2> DEFINE New(p) == NewPin(cut[a].id, p.key, p.version, CutFrom(a))
    <2>1. \A x \in pins' : x \in pins \/ \E p \in Cut(a) : x = New(p)
      BY <1>4 DEF CopyGraph
    <2>2. Fits(a) /\ cut[a].id # Trunk
      BY <1>4 DEF CopyGraph, TypeInv, CutOK, Ids, Trunk
    <2>3. ASSUME NEW x \in pins, NEW p \in Cut(a), x.graph = New(p).graph, x.key = New(p).key
          PROVE  FALSE
      <3>1. x.graph = cut[a].id /\ x.key = p.key
        BY <2>3, NewPinFacts
      <3>2. PICK q \in pins : q.graph = x.graph /\ q.key = x.key /\ IsOpen(q)
        BY <2>2, <3>1 DEF KeptOpen
      <3> QED BY <2>2, <3>1, <3>2 DEF Fits, OpenIn
    <2>4. ASSUME NEW p \in Cut(a), NEW q \in Cut(a), r = New(p), s = New(q) PROVE FALSE
      <3>1. p.key = q.key
        BY <2>4, NewPinFacts
      <3> QED BY <2>2, <2>4, <3>1 DEF Fits
    <2> QED
      BY <1>1, <2>1, <2>3, <2>4
  <1>5. CASE Sweep
    <2>1. PICK p \in pins, q \in pins : r = SweptAs(p) /\ s = SweptAs(q)
      BY <1>5, SweptIs DEF Sweep
    <2>2. sweep # 0
      BY <1>5 DEF Sweep
    <2>3. /\ p # q /\ p.graph = q.graph /\ p.key = q.key
          /\ p.graph = r.graph /\ p.key = r.key
      BY <2>1, <2>2, SweptAsFacts
    <2>4. Valid(p, t) /\ Valid(q, t)
      BY <2>1, <2>2, SweptAsFacts DEF Valid, IsOpen
    <2> QED BY <1>1, <2>3, <2>4
  <1> QED
    BY <1>2, <1>3, <1>4, <1>5, PinStep DEF PinChange

\* Two records of a key share an instant only where a Require wrote after its
\* clock reading had been overtaken: nothing else can blur the history.
THEOREM OverlapIsOnlyLate == Spec => []OverlapNeedsLateWrite
  <1>1. Init => KeptOpen /\ Disjoint
    BY DEF Init, KeptOpen, Disjoint
  <1>2. TypeInv /\ Disjoint => OverlapNeedsLateWrite
    BY DEF Disjoint, OverlapNeedsLateWrite, TypeInv, TypeOK
  <1> QED
    BY <1>1, <1>2, InitType, TypeStep, KeptOpenStep, DisjointStep, PTL DEF Spec
=============================================================================
