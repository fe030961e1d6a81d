-------------------------- MODULE ChannelContracts --------------------------
(***************************************************************************)
(* Message contracts of AsyncAPI channels and the subscriptions harvested  *)
(* from provided documents (provide_service.rs, ADR-0006).                 *)
(*                                                                         *)
(* A topic is a channel and a message name; whoever first releases it owns *)
(* its payload.  A GA Provide plans what it will do with the contracts     *)
(* read by read, commits its version, and only then applies the plan, one  *)
(* statement at a time: each await lets the steps of other calls, and the  *)
(* end of this one, in between.                                            *)
(*                                                                         *)
(* A payload is the properties it carries, each with its type and whether  *)
(* it is deprecated; a nested property stands under its path.  Numbers,    *)
(* the compatibility rules of the version line and the trunk flag of a     *)
(* subscription are left to VersionLine and DependencyTimeline.            *)
(***************************************************************************)
EXTENDS Naturals, Sequences, FiniteSets, SequencesExt

CONSTANTS
  Names,      \* producers, which are the clients of their subscriptions too
  Topics,
  Docs,       \* [pubs, subs: sequences of [topic, payload]]; a document has its number
  Calls,      \* the slots of calls in flight
  MaxCalls,   \* bound on the calls begun
  MaxDeletes, \* bound on the producers and consumers deleted
  None

\* The payloads documents declare for their messages.
Payloads == UNION {{m.payload : m \in Range(d.pubs) \cup Range(d.subs)} : d \in Docs}

Message == [topic: Topics, payload: Payloads]

Row == [owner: Nat, payload: Payloads]

ASSUME ChannelAssumption ==
  /\ MaxCalls \in Nat
  /\ MaxDeletes \in Nat
  /\ IsFiniteSet(Topics)
  /\ \A d \in Docs : d.pubs \in Seq(Message) /\ d.subs \in Seq(Message)
  /\ None \notin Nat \cup Docs \cup Payloads \cup Row

VARIABLES
  ids,        \* name |-> the id of its services row, or None
  lastId,     \* AUTOINCREMENT
  released,   \* id |-> the documents stored as GA
  contracts,  \* channel_message_contracts: topic |-> [owner, payload] or None
  subs,       \* the open harvested_subscriptions: name |-> topic |-> row or None
  calls,      \* what is in flight
  begun,
  deleted,
  era,        \* history: how often a topic's contract began, ended or was
              \* written on a stale plan
  notice,     \* history: the properties the contract of a topic has carried as
              \* deprecated in this era
  stale       \* history: topics last written on a plan whose read no longer held

vars == <<ids, lastId, released, contracts, subs, calls, begun, deleted, era, notice, stale>>

Live == {ids[n] : n \in Names} \ {None}

Idle == [at |-> "idle"]

\* A statement of the plan: an upsert, or without payload a deletion; and a
\* subscription to record.  "read", "expects" and "era" are history.
Op == [topic: Topics, payload: Payloads \cup {None}, read: Row \cup {None}]

Harvested ==
  [topic: Topics, owner: Nat \cup {None}, expects: Payloads, era: Nat \cup {None}]

Subscription == [owner: Nat \cup {None}, expects: Payloads, era: Nat \cup {None}]

InFlight ==
  [at: {"sub", "sub_owner", "pub", "pub_owner", "commit", "apply", "harvest"},
   name: Names, id: Nat, doc: Docs \cup {None}, ga: BOOLEAN, next: Nat, row: Row \cup {None},
   seen: Nat, same: BOOLEAN, harvest: Seq(Harvested), ops: Seq(Op), quiet: BOOLEAN]

-----------------------------------------------------------------------------
(* Payloads.                                                               *)

Deprecated(payload) == {p \in DOMAIN payload : payload[p].deprecated}

\* find_schema_mismatch: new lacks what old has, or has it in another type.
FindSchemaMismatch(old, new) ==
  \E p \in DOMAIN old :
    IF p \in DOMAIN new THEN old[p].type # new[p].type ELSE p \notin Deprecated(old)

\* Mutant: old and new payload change places.
CheckPayloadSwapped(old, new) == ~FindSchemaMismatch(new, old)

CheckPayloadCompatible(old, new) == ~FindSchemaMismatch(old, new)

CheckExpectationSatisfied(contract, expectation) == ~FindSchemaMismatch(expectation, contract)

-----------------------------------------------------------------------------
(* Calls.                                                                  *)

Goto(c, at) == [calls EXCEPT ![c].at = at]

\* The others have been disturbed.
Disturbing(c, next) ==
  [d \in Calls |-> IF d = c THEN next
                   ELSE IF calls[d] = Idle THEN Idle
                   ELSE [calls[d] EXCEPT !.quiet = FALSE]]

\* ensure_service and the read of the version line, as one step: a service
\* deleted between the two leaves a call whose commit the foreign key refuses,
\* as one deleted right after them does.  A document stored already makes the
\* call a no-op, but for the subscriptions.
Provide(c, n, d, ga) ==
  LET id == IF ids[n] = None THEN lastId + 1 ELSE ids[n]
  IN /\ calls[c] = Idle
     /\ begun < MaxCalls
     /\ begun' = begun + 1
     /\ ids' = [ids EXCEPT ![n] = id]
     /\ lastId' = IF ids[n] = None THEN id ELSE lastId
     /\ released' = IF ids[n] = None THEN [i \in 0 .. id |-> IF i = id THEN {} ELSE released[i]]
                    ELSE released
     /\ calls' = [calls EXCEPT ![c] =
          [at |-> "sub", name |-> n, id |-> id, doc |-> d, ga |-> ga, next |-> 1, row |-> None,
           seen |-> 0, same |-> ids[n] # None /\ d \in released[id],
           harvest |-> <<>>, ops |-> <<>>, quiet |-> TRUE]]
     /\ UNCHANGED <<contracts, subs, deleted, era, notice, stale>>

\* A call may end anywhere: the process stops, the client goes away, the
\* database fails it, or, before it commits, another rule refuses it.
End(c) ==
  /\ calls[c] # Idle
  /\ calls' = [calls EXCEPT ![c] = Idle]
  /\ UNCHANGED <<ids, lastId, released, contracts, subs, begun, deleted, era, notice, stale>>

Reads == UNCHANGED <<ids, lastId, released, contracts, subs, begun, deleted, era, notice, stale>>

\* plan_subscription_harvest: the contract of the next subscription...
ReadSub(c) ==
  /\ calls[c].at = "sub"
  /\ calls[c].next <= Len(calls[c].doc.subs)
  /\ LET t == calls[c].doc.subs[calls[c].next].topic
     IN calls' = [calls EXCEPT ![c].at = "sub_owner", ![c].row = contracts[t], ![c].seen = era[t]]
  /\ Reads

\* ...and its owner's name.  An expectation the contract does not meet refuses
\* a GA and is a warning to a snapshot.
ReadSubOwner(c) ==
  LET call  == calls[c]
      sub   == call.doc.subs[call.next]
      owner == IF call.row # None /\ call.row.owner \in Live THEN call.row.owner ELSE None
      met   == call.row # None => CheckExpectationSatisfied(call.row.payload, sub.payload)
  IN /\ call.at = "sub_owner"
     /\ calls' = [calls EXCEPT ![c] =
          IF call.ga /\ ~met THEN Idle
          ELSE [call EXCEPT !.at = "sub", !.next = @ + 1, !.row = None, !.seen = 0,
                  !.harvest = Append(@,
                     [topic |-> sub.topic, owner |-> owner, expects |-> sub.payload,
                      era |-> IF met /\ call.row # None THEN call.seen ELSE None])]]
     /\ Reads

\* Mutant: snapshots plan contracts too.
AfterHarvestAnyStability(call) == IF call.same THEN "harvest" ELSE "pub"

\* On to the contracts, or, when the document is known or a snapshot, past
\* them.
AfterHarvest(call) ==
  IF call.same THEN "harvest" ELSE IF call.ga THEN "pub" ELSE "commit"

\* All subscriptions are planned.
Decide(c) ==
  LET call == calls[c]
  IN /\ call.at = "sub"
     /\ call.next > Len(call.doc.subs)
     /\ calls' = [calls EXCEPT ![c].next = 1, ![c].at = AfterHarvest(call)]
     /\ Reads

UpsertOf(m, row) == [topic |-> m.topic, payload |-> m.payload, read |-> row]
DeleteOf(t)      == [topic |-> t, payload |-> None, read |-> contracts[t]]

\* plan_channel_message_contracts: the contract of the next published message.
ReadPub(c) ==
  LET call == calls[c]
      m    == call.doc.pubs[call.next]
  IN /\ call.at = "pub"
     /\ call.next <= Len(call.doc.pubs)
     /\ calls' = [calls EXCEPT ![c] =
          IF contracts[m.topic] # None
          THEN [call EXCEPT !.at = "pub_owner", !.row = contracts[m.topic]]
          ELSE [call EXCEPT !.next = @ + 1, !.ops = Append(@, UpsertOf(m, None))]]
     /\ Reads

\* Mutant: a live owner's contract is rewritten when its payload is met.
PlannedTakingOver(call, m) ==
  IF \/ call.row.owner \notin Live
     \/ call.row.payload = m.payload
     \/ call.row.owner = call.id /\ CheckPayloadCompatible(call.row.payload, m.payload)
  THEN [call EXCEPT !.at = "pub", !.next = @ + 1, !.row = None, !.ops = Append(@, UpsertOf(m, call.row))]
  ELSE Idle

\* Its owner is asked for.  A vanished owner's contract, and one's own in a
\* compatible way, are rewritten; a live owner's must be met to the letter.
Planned(call, m) ==
  LET mine   == call.row.owner = call.id
      orphan == call.row.owner \notin Live
      done   == [call EXCEPT !.at = "pub", !.next = @ + 1, !.row = None]
  IN CASE orphan -> [done EXCEPT !.ops = Append(@, UpsertOf(m, call.row))]
       [] ~orphan /\ mine ->
            IF CheckPayloadCompatible(call.row.payload, m.payload)
            THEN [done EXCEPT !.ops = Append(@, UpsertOf(m, call.row))] ELSE Idle
       [] ~orphan /\ ~mine -> IF call.row.payload = m.payload THEN done ELSE Idle

ReadPubOwner(c) ==
  /\ calls[c].at = "pub_owner"
  /\ calls' = [calls EXCEPT ![c] = Planned(@, @.doc.pubs[@.next])]
  /\ Reads

OwnedBy(id) == {t \in Topics : contracts[t] # None /\ contracts[t].owner = id}

\* Mutant: contracts that are no longer published stay.
NothingDropped(call) == <<>>

\* The contracts one owns and no longer publishes are planned for deletion.
Dropped(call) ==
  LET published == {m.topic : m \in Range(call.doc.pubs)}
      gone      == SetToSeq(OwnedBy(call.id) \ published)
  IN [i \in DOMAIN gone |-> DeleteOf(gone[i])]

ListOwned(c) ==
  LET call == calls[c]
  IN /\ call.at = "pub"
     /\ call.next > Len(call.doc.pubs)
     /\ calls' = [calls EXCEPT ![c] = [call EXCEPT !.at = "commit", !.ops = @ \o Dropped(call)]]
     /\ Reads

\* upsert_spec_version: the service must be there (foreign key), and a
\* released number is not written again.
Commit(c) ==
  LET call == calls[c]
  IN /\ call.at = "commit"
     /\ IF call.id \in Live /\ call.doc \notin released[call.id]
        THEN /\ calls' = Goto(c, "apply")
             /\ released' = IF call.ga THEN [released EXCEPT ![call.id] = @ \cup {call.doc}]
                            ELSE released
        ELSE /\ calls' = [calls EXCEPT ![c] = Idle]
             /\ UNCHANGED released
     /\ UNCHANGED <<ids, lastId, contracts, subs, begun, deleted, era, notice, stale>>

\* apply_contract_ops, one statement.  Neither statement looks at the row that
\* was read; an upsert for a deleted service fails (foreign key).
Apply(c) ==
  LET call == calls[c]
      op   == Head(call.ops)
      t    == op.topic
      same == op.read = contracts[t]
      kept == same /\ op.payload # None /\ contracts[t] # None /\ contracts[t].owner = call.id
  IN /\ call.at = "apply"
     /\ call.ops # <<>>
     /\ op.payload # None => call.id \in Live
     /\ contracts' = [contracts EXCEPT ![t] =
          IF op.payload = None THEN None ELSE [owner |-> call.id, payload |-> op.payload]]
     /\ era' = IF kept THEN era ELSE [era EXCEPT ![t] = @ + 1]
     /\ notice' = [notice EXCEPT ![t] = (IF kept THEN @ ELSE {}) \cup
                     IF op.payload = None THEN {} ELSE Deprecated(op.payload)]
     /\ stale' = IF same THEN stale \ {t} ELSE stale \cup {t}
     /\ calls' = Disturbing(c, [call EXCEPT !.ops = Tail(@)])
     /\ UNCHANGED <<ids, lastId, released, subs, begun, deleted>>

ApplyRefused(c) ==
  /\ calls[c].at = "apply"
  /\ calls[c].ops # <<>>
  /\ Head(calls[c].ops).payload # None /\ calls[c].id \notin Live
  /\ calls' = [calls EXCEPT ![c] = Idle]
  /\ Reads

Applied(c) ==
  /\ calls[c].at = "apply"
  /\ calls[c].ops = <<>>
  /\ calls' = IF calls[c].doc = None THEN [calls EXCEPT ![c] = Idle] ELSE Goto(c, "harvest")
  /\ Reads

\* Mutant: a subscription may name an owner that is gone.
OwnersUnchecked(call) == TRUE

\* The foreign key on the owner of a subscription.
OwnersExist(call) == \A h \in Range(call.harvest) : h.owner \in Live \cup {None}

\* The row of a topic: of two entries the first is kept (DO NOTHING).
Declaring(harvest, t) == {i \in DOMAIN harvest : harvest[i].topic = t}

Recorded(harvest, t) ==
  LET i == CHOOSE i \in Declaring(harvest, t) : \A j \in Declaring(harvest, t) : i <= j
  IN IF Declaring(harvest, t) = {} THEN None
     ELSE [owner |-> harvest[i].owner, expects |-> harvest[i].expects, era |-> harvest[i].era]

\* reconcile_harvested_subscriptions: in one transaction the declared set
\* replaces the open rows.  It fails on an owner deleted since (foreign key).
Reconcile(c) ==
  LET call == calls[c]
  IN /\ call.at = "harvest"
     /\ IF OwnersExist(call)
        THEN subs' = [subs EXCEPT ![call.name] =
                        [t \in Topics |-> Recorded(call.harvest, t)]]
        ELSE UNCHANGED subs
     /\ calls' = [calls EXCEPT ![c] = Idle]
     /\ UNCHANGED <<ids, lastId, released, contracts, begun, deleted, era, notice, stale>>

\* retire_protocol_family: the contracts owned are listed, then deleted one by
\* one.
Retire(c, n) ==
  /\ calls[c] = Idle
  /\ ids[n] # None
  /\ begun < MaxCalls
  /\ begun' = begun + 1
  /\ LET owned == SetToSeq(OwnedBy(ids[n]))
     IN calls' = [calls EXCEPT ![c] =
          [at |-> "apply", name |-> n, id |-> ids[n], doc |-> None, ga |-> FALSE, next |-> 1,
           row |-> None, seen |-> 0, same |-> FALSE, harvest |-> <<>>,
           ops |-> [i \in DOMAIN owned |-> DeleteOf(owned[i])], quiet |-> TRUE]]
  /\ UNCHANGED <<ids, lastId, released, contracts, subs, deleted, era, notice, stale>>

\* delete_producer: its contracts go with it (ON DELETE CASCADE), and the
\* subscriptions that named it as owner name none (ON DELETE SET NULL).
DeleteProducer(n) ==
  /\ ids[n] # None
  /\ deleted < MaxDeletes
  /\ deleted' = deleted + 1
  /\ ids' = [ids EXCEPT ![n] = None]
  /\ contracts' = [t \in Topics |-> IF t \in OwnedBy(ids[n]) THEN None ELSE contracts[t]]
  /\ era' = [t \in Topics |-> IF t \in OwnedBy(ids[n]) THEN era[t] + 1 ELSE era[t]]
  /\ subs' = [m \in Names |-> [t \in Topics |->
       IF subs[m][t] # None /\ subs[m][t].owner = ids[n]
       THEN [subs[m][t] EXCEPT !.owner = None] ELSE subs[m][t]]]
  /\ calls' = [c \in Calls |-> IF calls[c] = Idle THEN Idle ELSE [calls[c] EXCEPT !.quiet = FALSE]]
  /\ UNCHANGED <<lastId, released, begun, notice, stale>>

\* delete_consumer: the client row and with it its subscriptions.
DeleteConsumer(n) ==
  /\ \E t \in Topics : subs[n][t] # None
  /\ deleted < MaxDeletes
  /\ deleted' = deleted + 1
  /\ subs' = [subs EXCEPT ![n] = [t \in Topics |-> None]]
  /\ UNCHANGED <<ids, lastId, released, contracts, calls, begun, era, notice, stale>>

Init ==
  /\ ids = [n \in Names |-> None]
  /\ lastId = 0
  /\ released = [i \in {0} |-> {}]
  /\ contracts = [t \in Topics |-> None]
  /\ subs = [n \in Names |-> [t \in Topics |-> None]]
  /\ calls = [c \in Calls |-> Idle]
  /\ begun = 0 /\ deleted = 0
  /\ era = [t \in Topics |-> 0]
  /\ notice = [t \in Topics |-> {}]
  /\ stale = {}

Step(c) ==
  \/ ReadSub(c) \/ ReadSubOwner(c) \/ Decide(c) \/ ReadPub(c) \/ ReadPubOwner(c) \/ ListOwned(c)
  \/ Commit(c) \/ Apply(c) \/ ApplyRefused(c) \/ Applied(c) \/ Reconcile(c) \/ End(c)

Next ==
  \/ \E c \in Calls : Step(c)
  \/ \E c \in Calls, n \in Names, d \in Docs, ga \in BOOLEAN : Provide(c, n, d, ga)
  \/ \E c \in Calls, n \in Names : Retire(c, n)
  \/ \E n \in Names : DeleteProducer(n) \/ DeleteConsumer(n)

Spec == Init /\ [][Next]_vars

-----------------------------------------------------------------------------
(* Properties.                                                             *)

\* The foreign keys hold too: a contract's owner is there, and that of a
\* subscription, if it has one.
TypeOK ==
  /\ lastId \in Nat
  /\ ids \in [Names -> 1 .. lastId \cup {None}]
  /\ \A m, n \in Names : ids[m] = ids[n] /\ ids[m] # None => m = n
  /\ released \in [0 .. lastId -> SUBSET Docs]
  /\ contracts \in [Topics -> Row \cup {None}]
  /\ \A t \in Topics : contracts[t] # None => contracts[t].owner \in Live
  /\ subs \in [Names -> [Topics -> Subscription \cup {None}]]
  /\ \A n \in Names, t \in Topics : subs[n][t] # None => subs[n][t].owner \in Live \cup {None}
  /\ calls \in [Calls -> InFlight \cup {Idle}]
  /\ begun \in 0 .. MaxCalls /\ deleted \in 0 .. MaxDeletes
  /\ era \in [Topics -> Nat]
  /\ notice \in [Topics -> SUBSET UNION {DOMAIN p : p \in Payloads}]
  /\ stale \subseteq Topics

\* "Only a publish operation ever registers a contract" (ADR-0006), and only
\* that of a release: whatever calls overlap or end half way, a contract is
\* what a GA version its owner really stored publishes.
ContractsWereReleased ==
  \A t \in Topics : contracts[t] # None =>
    \E d \in released[contracts[t].owner] :
      [topic |-> t, payload |-> contracts[t].payload] \in Range(d.pubs)

\* A contract changes by a call of its owner, or goes with it.  The one other
\* way is a plan made on a row that has changed since: neither statement of
\* apply_contract_ops compares.  What such a plan leaves is again changed by its
\* new owner alone.
OwnerDecides ==
  [][\A t \in Topics :
       contracts[t] # None /\ contracts'[t] # contracts[t] /\ t \notin stale' =>
         \/ contracts[t].owner \notin {ids'[n] : n \in Names}
         \/ \E c \in Calls : calls[c].at = "apply" /\ calls[c].id = contracts[t].owner
                             /\ calls'[c] # calls[c]]_vars

\* A subscription that was let in against a contract stays served by it: while
\* the contract lasts, its owner takes no property away that the subscriber
\* reads, or changes its type, without having carried it as deprecated.
SubscribersStayServed ==
  \A n \in Names, t \in Topics :
    LET s == subs[n][t]
    IN s # None /\ contracts[t] # None => (s.era = era[t] =>
         \A p \in DOMAIN s.expects \ (Deprecated(s.expects) \cup notice[t]) :
           /\ p \in DOMAIN contracts[t].payload
           /\ contracts[t].payload[p].type = s.expects[p].type)

\* A release no other call came between has, once its plan is applied, every
\* message it publishes under contract, its own or a live owner's with the
\* same payload, and owns no other.
QuietReleaseClaims ==
  \A c \in Calls :
    calls[c] # Idle => (calls[c].at = "harvest" /\ calls[c].ga /\ ~calls[c].same /\ calls[c].quiet =>
      /\ \A m \in Range(calls[c].doc.pubs) :
           /\ contracts[m.topic] # None
           /\ \/ contracts[m.topic].owner = calls[c].id
              \/ contracts[m.topic].payload = m.payload
      /\ OwnedBy(calls[c].id) \subseteq {m.topic : m \in Range(calls[c].doc.pubs)})
=============================================================================
