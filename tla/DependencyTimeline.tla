------------------------- MODULE DependencyTimeline -------------------------
(***************************************************************************)
(* The dependency graph on its timeline: the pins of trunk and of every    *)
(* sanshain-branch as records with a validity interval, the trunk-flagged  *)
(* and tagged Requires that append to them, the releasers who cut, rename  *)
(* and delete branches, and the sweep that closes stale trunk pins.        *)
(*                                                                         *)
(* A Require resolves its stream, plans its dependency.recorded event on   *)
(* the pins open then, writes the event with the dev graph, reads the      *)
(* clock, and writes the pins in another transaction.  A cut inserts the   *)
(* branch and copies the source graph with two later statements.  Between  *)
(* the steps others run, and with Faults a request may end or a statement  *)
(* of a copy fail.                                                         *)
(*                                                                         *)
(* Abstractions.  A pin key stands for (client, producer, api type, path,  *)
(* method); pins are stored by version value, so the version line is not   *)
(* needed here.  Rows equal in every column are one element of pins.       *)
(* Requires without an honoured stream touch no pin and are left out, as   *)
(* are member versions, the rows of the periphery and the deletion of      *)
(* participants.  The transactions of SQLite's one writer are atomic.      *)
(***************************************************************************)
EXTENDS Integers, FiniteSets

CONSTANTS
  Calls,        \* requires being served
  Cutters,      \* branch creations being served
  Keys, Versions,
  Names, NoName,
  MaxAge,       \* trunk_max_age_days
  Faults,       \* TRUE: requests may be dropped and statements may fail
  MaxRequires,  \* bound: requires ever begun
  MaxBranches,  \* bound: branches ever created
  MaxTime       \* bound: the clock stops there

Trunk  == 0
Ids    == 1..MaxBranches
Graphs == {Trunk} \cup Ids
NoEnd  == 0           \* valid_to IS NULL; the clock starts at 1

Pins == [graph : Graphs, key : Keys, version : Versions,
         from : Nat, to : Nat, last : Nat]

ASSUME TimelineAssumptions ==
  /\ NoName \notin Names /\ Versions # {}
  /\ MaxAge \in Nat /\ Faults \in BOOLEAN
  /\ MaxRequires \in Nat /\ MaxBranches \in Nat /\ MaxTime \in Nat

VARIABLES
  now,
  pins,       \* trunk_dependencies and branch_dependencies
  branches,   \* sanshain_branches: the name of each id, NoName where absent
  nextId,     \* its AUTOINCREMENT counter
  step,       \* where each require stands
  graph, tag, keys, version,   \* what it resolved to and was asked
  fresh,      \* the keys its event announces
  at,         \* its clock reading
  cut,        \* each creation: [step, name, source, asOf, at, id]
  sweep,      \* the sweep's clock reading, 0 when none runs
  requires,   \* counter of the bound
  told,       \* edges <<graph, key, version>> of dependency.recorded events and of cuts
  copied,     \* history: branches whose copy committed
  abandoned,  \* history: branches whose creation ended without copy or cleanup
  named,      \* history: the names each branch has had
  late        \* history: <<graph, key>> written with a reading older than its records

call  == <<step, graph, tag, keys, version, fresh, at>>
vars  == <<now, pins, branches, nextId, call, cut, sweep, requires, told, copied,
           abandoned, named, late>>

----------------------------------------------------------------------------
(* The timeline as it is read. *)

IsOpen(p) == p.to = NoEnd

\* valid_from <= t AND (valid_to IS NULL OR valid_to > t)
Valid(p, t) == p.from <= t /\ (IsOpen(p) \/ p.to > t)

\* list_trunk_pins_at and list_branch_pins: the edges of a graph at an instant.
GraphAt(g, t) == {<<p.key, p.version>> : p \in {q \in pins : q.graph = g /\ Valid(q, t)}}

OpenIn(g) == {p \in pins : p.graph = g /\ IsOpen(p)}
Exists(b) == branches[b] # NoName

----------------------------------------------------------------------------
NoCut == [step |-> "idle", name |-> NoName, source |-> Trunk, asOf |-> 0, at |-> 0, id |-> 0]

Init ==
  /\ now = 1 /\ pins = {} /\ sweep = 0
  /\ branches = [b \in Ids |-> NoName] /\ nextId = 1
  /\ step = [c \in Calls |-> "idle"]
  /\ graph = [c \in Calls |-> Trunk]
  /\ tag = [c \in Calls |-> NoName]
  /\ keys = [c \in Calls |-> {}]
  /\ version \in [Calls -> {CHOOSE v \in Versions : TRUE}]
  /\ fresh = [c \in Calls |-> {}]
  /\ at = [c \in Calls |-> 0]
  /\ cut = [a \in Cutters |-> NoCut]
  /\ requires = 0 /\ told = {} /\ copied = {} /\ abandoned = {} /\ late = {}
  /\ named = [b \in Ids |-> {}]

----------------------------------------------------------------------------
(* A Require that records pins. *)

\* resolve_stream: the trunk flag, or a tag naming a branch that exists.
Streams == {Trunk} \cup {b \in Ids : Exists(b)}

\* A Require that will record: its stream and its pins are resolved.
Resolve(c) ==
  /\ step[c] = "idle" /\ requires < MaxRequires
  /\ requires' = requires + 1
  /\ \E g \in Streams, K \in SUBSET Keys \ {{}}, v \in Versions :
       /\ graph' = [graph EXCEPT ![c] = g]
       /\ tag' = [tag EXCEPT ![c] = IF g = Trunk THEN NoName ELSE branches[g]]
       /\ keys' = [keys EXCEPT ![c] = K]
       /\ version' = [version EXCEPT ![c] = v]
  /\ step' = [step EXCEPT ![c] = "plan"]
  /\ UNCHANGED <<now, pins, branches, nextId, fresh, at, cut, sweep, told, copied,
                 abandoned, named, late>>

\* Mutant: a pin of any version counts as the edge.
HeldInAnyVersion(c) == {p.key : p \in OpenIn(graph[c])}

\* The keys the consumer already pins at this version in this stream.
Held(c) == {p.key : p \in {q \in OpenIn(graph[c]) : q.version = version[c]}}

\* plan_dependency_event: the edges new to the stream.
Plan(c) ==
  /\ step[c] = "plan"
  /\ fresh' = [fresh EXCEPT ![c] = keys[c] \ Held(c)]
  /\ step' = [step EXCEPT ![c] = "deps"]
  /\ UNCHANGED <<now, pins, branches, nextId, graph, tag, keys, version, at, cut, sweep,
                 requires, told, copied, abandoned, named, late>>

\* record_dependencies_bulk with the event, the version's last-required stamp,
\* and the reading the pins are stamped with.
RecordDeps(c) ==
  /\ step[c] = "deps"
  /\ told' = told \cup {<<graph[c], k, version[c]>> : k \in fresh[c]}
  /\ at' = [at EXCEPT ![c] = now]
  /\ step' = [step EXCEPT ![c] = "pins"]
  /\ UNCHANGED <<now, pins, branches, nextId, graph, tag, keys, version, fresh, cut, sweep,
                 requires, copied, abandoned, named, late>>

End(c) ==
  /\ step' = [step EXCEPT ![c] = "idle"]
  /\ graph' = [graph EXCEPT ![c] = Trunk]
  /\ tag' = [tag EXCEPT ![c] = NoName]
  /\ keys' = [keys EXCEPT ![c] = {}]
  /\ fresh' = [fresh EXCEPT ![c] = {}]
  /\ at' = [at EXCEPT ![c] = 0]
  /\ version' = [version EXCEPT ![c] = CHOOSE v \in Versions : TRUE]

NewPin(g, k, v, t) == [graph |-> g, key |-> k, version |-> v, from |-> t, to |-> NoEnd, last |-> t]

\* Mutant: the open record of another version stays open.
RecordedBeside(c) ==
  LET g    == graph[c]
      same == {p \in OpenIn(g) : p.key \in keys[c] /\ p.version = version[c]}
  IN  (pins \ same) \cup {[p EXCEPT !.last = at[c]] : p \in same}
        \cup {NewPin(g, k, version[c], at[c]) : k \in keys[c] \ {p.key : p \in same}}

\* Another version closes the open record, the same version refreshes it, and
\* a key without an open record gets one.
Recorded(c) ==
  LET g      == graph[c]
      v      == version[c]
      t      == at[c]
      mine   == {p \in OpenIn(g) : p.key \in keys[c]}
      same   == {p \in mine : p.version = v}
  IN  (pins \ mine)
        \cup {[p EXCEPT !.to = t] : p \in mine \ same}
        \cup {[p EXCEPT !.last = t] : p \in same}
        \cup {NewPin(g, k, v, t) : k \in keys[c] \ {p.key : p \in same}}

\* record_trunk_pins and record_branch_pins, one transaction; the foreign key
\* refuses the rows of a branch that is gone.
RecordPins(c) ==
  /\ step[c] = "pins"
  /\ IF graph[c] = Trunk \/ Exists(graph[c])
     THEN /\ pins' = Recorded(c)
          /\ late' = late \cup {<<graph[c], p.key>> : p \in
                       {q \in pins : /\ q.graph = graph[c] /\ q.key \in keys[c]
                                     /\ q.from > at[c] \/ q.to > at[c]}}
     ELSE UNCHANGED <<pins, late>>
  /\ End(c)
  /\ UNCHANGED <<now, branches, nextId, cut, sweep, requires, told, copied, abandoned, named>>

\* The client is gone or the process stopped: the future is dropped.
Drop(c) ==
  /\ Faults /\ step[c] # "idle"
  /\ End(c)
  /\ UNCHANGED <<now, pins, branches, nextId, cut, sweep, requires, told, copied,
                 abandoned, named, late>>

----------------------------------------------------------------------------
(* Branches. *)

\* create_branch up to its readings: the source is looked up, the instant may
\* lie in the past or ahead.
BeginCut(a) ==
  /\ cut[a].step = "idle"
  /\ \E n \in Names, s \in Streams, t \in 1..MaxTime :
       cut' = [cut EXCEPT ![a] = [step |-> "insert", name |-> n, source |-> s,
                                  asOf |-> t, at |-> now, id |-> 0]]
  /\ UNCHANGED <<now, pins, branches, nextId, call, sweep, requires, told, copied,
                 abandoned, named, late>>

Taken(n) == \E b \in Ids : branches[b] = n

EndCut(a) == cut' = [cut EXCEPT ![a] = NoCut]

\* Mutant: ids are handed out again.
HighestIdPlusOne == CHOOSE i \in 1..(MaxBranches + 1) :
                      /\ \A b \in Ids : Exists(b) => b < i
                      /\ i = 1 \/ Exists(i - 1)

FreshId == nextId

\* insert_branch with its branch.cut event: Conflict when the name is taken.
InsertBranch(a) ==
  /\ cut[a].step = "insert"
  /\ \/ /\ Taken(cut[a].name)
        /\ EndCut(a)
        /\ UNCHANGED <<branches, nextId, named>>
     \/ /\ ~Taken(cut[a].name) /\ FreshId \in Ids
        /\ branches' = [branches EXCEPT ![FreshId] = cut[a].name]
        /\ named' = [named EXCEPT ![FreshId] = {cut[a].name}]
        /\ nextId' = nextId + 1
        /\ cut' = [cut EXCEPT ![a].step = "copy", ![a].id = FreshId]
  /\ UNCHANGED <<now, pins, call, sweep, requires, told, copied, abandoned, late>>

\* The rows of the cut.
Cut(a) == {p \in pins : p.graph = cut[a].source /\ Valid(p, cut[a].asOf)}

\* Mutant: the copy ignores the unique index of open records.
FitsAnyway(a) == Cut(a) = {} \/ Exists(cut[a].id)

\* The foreign key and the unique index of open records hold for the copy.
Fits(a) ==
  /\ Cut(a) = {} \/ Exists(cut[a].id)
  /\ \A p \in Cut(a), q \in Cut(a) : p.key = q.key => p = q
  /\ \A p \in Cut(a), q \in OpenIn(cut[a].id) : p.key # q.key

\* valid_from of the copies: the creation, not the instant of the cut.
CutFrom(a) == cut[a].at

\* copy_trunk_graph_to_branch, copy_branch_graph_to_branch: the pins.
CopyGraph(a) ==
  /\ cut[a].step = "copy" /\ Fits(a)
  /\ pins' = pins \cup {NewPin(cut[a].id, p.key, p.version, CutFrom(a)) : p \in Cut(a)}
  /\ told' = told \cup {<<cut[a].id, p.key, p.version>> : p \in Cut(a)}
  /\ cut' = [cut EXCEPT ![a].step = "periphery"]
  /\ UNCHANGED <<now, branches, nextId, call, sweep, requires, copied, abandoned, named, late>>

\* Their second statement, whose rows are left out; the branch is created.
CopyPeriphery(a) ==
  /\ cut[a].step = "periphery"
  /\ copied' = copied \cup {cut[a].id}
  /\ EndCut(a)
  /\ UNCHANGED <<now, pins, branches, nextId, call, sweep, requires, told, abandoned, named, late>>

Failing(a) ==
  \/ cut[a].step = "copy" /\ (Faults \/ ~Fits(a))
  \/ cut[a].step = "periphery" /\ (Faults \/ ~Exists(cut[a].id))

\* Mutant: a failed copy is only reported.
CopyFailsOnly(a) ==
  /\ Failing(a)
  /\ EndCut(a)
  /\ UNCHANGED <<now, pins, branches, nextId, call, sweep, requires, told, copied,
                 abandoned, named, late>>

\* One of the two statements fails; the branch row has to go again.
CopyFails(a) ==
  /\ Failing(a)
  /\ cut' = [cut EXCEPT ![a].step = "cleanup"]
  /\ UNCHANGED <<now, pins, branches, nextId, call, sweep, requires, told, copied,
                 abandoned, named, late>>

\* delete_branch: the branch and its graph in one transaction.
Deleted(b) ==
  /\ branches' = [branches EXCEPT ![b] = NoName]
  /\ pins' = {p \in pins : p.graph # b}

CleanUp(a) ==
  /\ cut[a].step = "cleanup"
  /\ Deleted(cut[a].id)
  /\ EndCut(a)
  /\ UNCHANGED <<now, nextId, call, sweep, requires, told, copied, abandoned, named, late>>

\* The request ends here, or its cleanup fails and is only logged.
DropCut(a) ==
  /\ Faults /\ cut[a].step # "idle"
  /\ abandoned' = abandoned \cup ({cut[a].id} \ {0})
  /\ EndCut(a)
  /\ UNCHANGED <<now, pins, branches, nextId, call, sweep, requires, told, copied, named, late>>

DeleteBranch(b) ==
  /\ Exists(b)
  /\ Deleted(b)
  /\ UNCHANGED <<now, nextId, call, cut, sweep, requires, told, copied, abandoned, named, late>>

RenameBranch(b, n) ==
  /\ Exists(b) /\ ~Taken(n)
  /\ branches' = [branches EXCEPT ![b] = n]
  /\ named' = [named EXCEPT ![b] = @ \cup {n}]
  /\ UNCHANGED <<now, pins, nextId, call, cut, sweep, requires, told, copied, abandoned, late>>

----------------------------------------------------------------------------
(* The sweep and the clock. *)

\* cleanup_stale_trunk_data reads the clock.
StartSweep ==
  /\ MaxAge # 0 /\ sweep = 0
  /\ sweep' = now
  /\ UNCHANGED <<now, pins, branches, nextId, call, cut, requires, told, copied,
                 abandoned, named, late>>

Stale(p) == p.graph = Trunk /\ IsOpen(p) /\ p.last + MaxAge < sweep

\* Mutant: a stale record ends when it was last required.
SweptBack == {p \in pins : ~Stale(p)} \cup {[p EXCEPT !.to = p.last] : p \in {q \in pins : Stale(q)}}

Swept == {p \in pins : ~Stale(p)} \cup {[p EXCEPT !.to = sweep] : p \in {q \in pins : Stale(q)}}

\* close_expired_trunk_data: closed, never removed.
Sweep ==
  /\ sweep # 0
  /\ pins' = Swept
  /\ sweep' = 0
  /\ UNCHANGED <<now, branches, nextId, call, cut, requires, told, copied, abandoned, named, late>>

Tick ==
  /\ now < MaxTime
  /\ now' = now + 1
  /\ UNCHANGED <<pins, branches, nextId, call, cut, sweep, requires, told, copied,
                 abandoned, named, late>>

----------------------------------------------------------------------------
Next ==
  \/ \E c \in Calls : Resolve(c) \/ Plan(c) \/ RecordDeps(c) \/ RecordPins(c) \/ Drop(c)
  \/ \E a \in Cutters : \/ BeginCut(a) \/ InsertBranch(a) \/ CopyGraph(a)
                        \/ CopyPeriphery(a) \/ CopyFails(a) \/ CleanUp(a) \/ DropCut(a)
  \/ \E b \in Ids : DeleteBranch(b) \/ \E n \in Names : RenameBranch(b, n)
  \/ StartSweep \/ Sweep \/ Tick

Spec == Init /\ [][Next]_vars

----------------------------------------------------------------------------
(* Properties. *)

\* Every variable keeps its type.
TypeOK ==
  /\ now \in Nat \ {0} /\ sweep \in Nat /\ nextId \in Nat \ {0} /\ requires \in Nat
  /\ pins \subseteq Pins
  /\ branches \in [Ids -> Names \cup {NoName}]
  /\ step \in [Calls -> {"idle", "plan", "deps", "pins"}]
  /\ graph \in [Calls -> Graphs]
  /\ tag \in [Calls -> Names \cup {NoName}]
  /\ keys \in [Calls -> SUBSET Keys] /\ fresh \in [Calls -> SUBSET Keys]
  /\ version \in [Calls -> Versions]
  /\ at \in [Calls -> Nat]
  /\ cut \in [Cutters -> [step : {"idle", "insert", "copy", "periphery", "cleanup"},
                          name : Names \cup {NoName}, source : Graphs, asOf : Nat,
                          at : Nat, id : {0} \cup Ids]]
  /\ told \subseteq Graphs \X Keys \X Versions
  /\ copied \subseteq Ids /\ abandoned \subseteq Ids
  /\ named \in [Ids -> SUBSET Names]
  /\ late \subseteq Graphs \X Keys

\* A key has one current pin: whatever Requires and cuts overlap, no graph has
\* two open records of one key.
OneCurrentPin ==
  \A p \in pins, q \in pins :
    p.graph = q.graph /\ p.key = q.key /\ IsOpen(p) /\ IsOpen(q) => p = q

\* The timeline is append-only: a closed record never changes or goes, and an
\* open one is only refreshed or closed, until its branch is deleted.
Survives(p) == \E q \in pins' : /\ q.graph = p.graph /\ q.key = p.key
                                /\ q.version = p.version /\ q.from = p.from
                                /\ ~IsOpen(p) => q = p

AppendOnly ==
  [][\A p \in pins : Survives(p) \/ (p.graph # Trunk /\ branches'[p.graph] = NoName)]_vars

\* The past is only ever read: a graph at an instant stays what it was once
\* every request and sweep that read the clock up to then has ended.
Readings == {now} \cup {at[c] : c \in {x \in Calls : step[x] = "pins"}}
                  \cup {cut[a].at : a \in {x \in Cutters : cut[x].step # "idle"}}
                  \cup (IF sweep = 0 THEN {} ELSE {sweep})

PastIsFixed ==
  [][\A g \in Graphs, t \in 1..now :
       (\A r \in Readings : t < r) =>
         \/ GraphAt(g, t)' = GraphAt(g, t)
         \/ g # Trunk /\ branches'[g] = NoName]_vars

\* Two versions of one key are valid at the same instant only where a Require
\* was written after its clock reading had been overtaken.
OverlapNeedsLateWrite ==
  \A p \in pins, q \in pins :
    /\ p # q /\ p.graph = q.graph /\ p.key = q.key
    /\ \E t \in 1..now : Valid(p, t) /\ Valid(q, t)
    => <<p.graph, p.key>> \in late

\* Every recorded edge was announced by dependency.recorded or came with the
\* cut, although the event is decided on pins read before the write.
NoSilentEdge ==
  \A p \in pins : <<p.graph, p.key, p.version>> \in told

\* A tagged Require writes only to a branch that has borne its tag's name, even
\* when branches are deleted and created while it runs.
TagNeverStrays ==
  \A c \in Calls : graph[c] # Trunk => tag[c] \in named[graph[c]]

\* A branch nobody is creating any more holds the whole cut, unless its creation
\* ended early: one whose copy fails leaves no half-made branch behind.
Finished(b) == Exists(b) /\ \A a \in Cutters : cut[a].step = "idle" \/ cut[a].id # b

BornComplete == \A b \in Ids : Finished(b) => b \in copied \cup abandoned

\* What the documentation says of every schedule: the graph at a past date has
\* one version per key.  Late writes break it, see OverlapNeedsLateWrite and the
\* README; no run checks it.
OneVersionAtEveryInstant ==
  \A p \in pins, q \in pins, t \in 1..now :
    p.graph = q.graph /\ p.key = q.key /\ Valid(p, t) /\ Valid(q, t) => p.version = q.version
=============================================================================
