----------------------- MODULE ChannelContractsProofs -----------------------
(***************************************************************************)
(* Theorems of ChannelContracts, for any producers, topics, documents and  *)
(* calls.                                                                  *)
(***************************************************************************)
EXTENDS ChannelContracts, FiniteSetTheorems, WellFoundedInduction, TLAPS

\* SetToSeq lists a set of topics.
LEMMA TopicsInOrder ==
  ASSUME NEW S \in SUBSET Topics
  PROVE  SetToSeq(S) \in Seq(S)
<1>1. IsFiniteSet(S)
  BY ChannelAssumption, FS_Subset
<1>2. PICK n \in Nat : ExistsBijection(1 .. n, S)
  BY <1>1, FS_NatBijection
<1>3. Cardinality(S) = n
  BY <1>2, FS_CountingElements
<1>4. \E f \in [1 .. n -> S] : IsInjective(f)
  BY <1>2, Zenon DEF ExistsBijection, Bijection, Injection
<1>5. SetToSeq(S) \in [1 .. n -> S]
  BY <1>3, <1>4, Zenon DEF SetToSeq
<1> QED BY <1>5

LEMMA MessagesTyped ==
  ASSUME NEW d \in Docs
  PROVE  /\ d.pubs \in Seq(Message) /\ d.subs \in Seq(Message)
         /\ \A i \in DOMAIN d.pubs : d.pubs[i] \in Message /\ d.pubs[i] \in Range(d.pubs)
         /\ \A i \in DOMAIN d.subs : d.subs[i] \in Message
  BY ChannelAssumption DEF Range

-----------------------------------------------------------------------------
(* The inductive invariant.                                                *)

\* What a call knows of its own document and plan: it upserts only messages its
\* release publishes.
WellFormed(k) ==
  /\ k.next >= 1
  /\ k.at # "apply" => k.doc \in Docs
  /\ k.at = "sub_owner" => k.next <= Len(k.doc.subs)
  /\ k.at \in {"sub", "pub"} => k.row = None
  /\ k.at = "pub_owner" => k.next <= Len(k.doc.pubs) /\ k.row # None
  /\ k.at \in {"sub", "sub_owner"} => k.ops = <<>>
  /\ k.at \in {"pub", "pub_owner"} => k.ga
  /\ \A i \in 1 .. Len(k.ops) : k.ops[i].payload # None =>
       /\ k.ga /\ k.doc \in Docs
       /\ [topic |-> k.ops[i].topic, payload |-> k.ops[i].payload] \in Range(k.doc.pubs)

\* What it knows of the database: its service's id was given out, its release
\* is stored before the plan is applied, and the plan was made on rows that
\* were its own, to be changed compatibly, or belong to nobody any more.
RootedIn(k, last, stored, live) ==
  /\ k.id \in 1 .. last
  /\ k.at = "apply" /\ k.ga => k.doc \in stored[k.id]
  /\ k.row # None => k.row.owner \in 1 .. last
  /\ \A i \in 1 .. Len(k.ops) : k.ops[i].read # None =>
       /\ k.ops[i].read.owner \in 1 .. last
       /\ k.ops[i].read.owner = k.id \/ k.ops[i].read.owner \notin live
       /\ k.ops[i].payload # None /\ k.ops[i].read.owner \in live =>
            CheckPayloadCompatible(k.ops[i].read.payload, k.ops[i].payload)

Rooted(k) == RootedIn(k, lastId, released, Live)

CallsOK == \A c \in Calls : calls[c] # Idle => WellFormed(calls[c]) /\ Rooted(calls[c])

Inv == TypeOK /\ CallsOK /\ ContractsWereReleased

LEMMA InFlightWhen ==
  ASSUME Inv, NEW c \in Calls, calls[c].at # "idle"
  PROVE  calls[c] \in InFlight /\ calls[c] # Idle /\ WellFormed(calls[c]) /\ Rooted(calls[c])
<1>1. calls[c] # Idle
  BY DEF Idle
<1> QED BY <1>1 DEF Inv, TypeOK, CallsOK

LEMMA NotIdle ==
  ASSUME NEW k \in InFlight
  PROVE  k # Idle
  BY DEF InFlight, Idle

LEMMA ContractTyped ==
  ASSUME Inv, NEW t \in Topics
  PROVE  /\ contracts[t] \in Row \cup {None} /\ era[t] \in Nat
         /\ contracts[t] # None => contracts[t].owner \in 1 .. lastId
  BY DEF Inv, TypeOK, Live

\* A step that changes one call alone.
LEMMA OneCall ==
  ASSUME Inv, NEW c \in Calls, NEW x, calls' = [calls EXCEPT ![c] = x], Reads,
         x = Idle \/ (x \in InFlight /\ WellFormed(x) /\ Rooted(x))
  PROVE  Inv'
<1>1. Live' = Live
  BY DEF Reads, Live
<1>2. TypeOK'
  BY <1>1 DEF Reads, TypeOK, Inv
<1>3. \A k : Rooted(k)' <=> Rooted(k)
  BY <1>1 DEF Reads, Rooted, RootedIn
<1>4. CallsOK'
  <2> SUFFICES ASSUME NEW d \in Calls, calls'[d] # Idle
               PROVE  WellFormed(calls'[d]) /\ Rooted(calls'[d])
    BY <1>3 DEF CallsOK
  <2>1. CASE d = c
    BY <2>1 DEF Inv, TypeOK
  <2>2. CASE d # c
    BY <2>2 DEF Inv, TypeOK, CallsOK
  <2> QED BY <2>1, <2>2
<1>5. ContractsWereReleased'
  BY DEF Inv, ContractsWereReleased, Reads
<1> QED BY <1>2, <1>4, <1>5 DEF Inv

LEMMA InitInv == Init => Inv
<1> SUFFICES ASSUME Init PROVE Inv
  OBVIOUS
<1>1. TypeOK
  BY ChannelAssumption DEF Init, TypeOK, Live
<1>2. CallsOK /\ ContractsWereReleased
  BY DEF Init, CallsOK, ContractsWereReleased
<1> QED BY <1>1, <1>2 DEF Inv

LEMMA ReadSubInv ==
  ASSUME Inv, NEW c \in Calls, ReadSub(c)
  PROVE  Inv'
<1> DEFINE k == calls[c]
           t == k.doc.subs[k.next].topic
           x == [k EXCEPT !.at = "sub_owner", !.row = contracts[t], !.seen = era[t]]
<1>1. k \in InFlight /\ WellFormed(k) /\ Rooted(k) /\ k.at = "sub"
  BY InFlightWhen DEF ReadSub
<1>2. calls' = [calls EXCEPT ![c] = x]
  BY DEF ReadSub, Inv, TypeOK
<1>3. k.doc \in Docs /\ k.next \in 1 .. Len(k.doc.subs)
  <2>1. k.next <= Len(k.doc.subs)
    BY DEF ReadSub
  <2> HIDE DEF k
  <2>2. k.doc \in Docs /\ k.next \in Nat /\ k.next >= 1
    BY <1>1 DEF WellFormed, InFlight
  <2>3. Len(k.doc.subs) \in Nat
    BY <2>2, MessagesTyped
  <2> QED BY <2>1, <2>2, <2>3
<1>4. t \in Topics
  BY <1>3, MessagesTyped DEF Message
<1>5. /\ contracts[t] \in Row \cup {None} /\ era[t] \in Nat
      /\ contracts[t] # None => contracts[t].owner \in 1 .. lastId
  <2> HIDE DEF t
  <2> QED BY <1>4, ContractTyped
<1>6. x \in InFlight /\ WellFormed(x) /\ Rooted(x)
  <2> HIDE DEF k, t
  <2>1. x \in InFlight
    BY <1>1, <1>5 DEF InFlight
  <2>2. WellFormed(x)
    BY <1>1, <1>3 DEF WellFormed, InFlight
  <2>3. Rooted(x)
    BY <1>1, <1>5 DEF Rooted, RootedIn, InFlight
  <2> QED BY <2>1, <2>2, <2>3
<1>7. Reads
  BY DEF ReadSub
<1> HIDE DEF x
<1> QED BY <1>2, <1>6, <1>7, OneCall

LEMMA ReadSubOwnerInv ==
  ASSUME Inv, NEW c \in Calls, ReadSubOwner(c)
  PROVE  Inv'
<1> DEFINE k     == calls[c]
           sub   == k.doc.subs[k.next]
           owner == IF k.row # None /\ k.row.owner \in Live THEN k.row.owner ELSE None
           met   == k.row # None => CheckExpectationSatisfied(k.row.payload, sub.payload)
           h     == [topic |-> sub.topic, owner |-> owner, expects |-> sub.payload,
                     era |-> IF met /\ k.row # None THEN k.seen ELSE None]
           go    == [k EXCEPT !.at = "sub", !.next = @ + 1, !.row = None, !.seen = 0,
                              !.harvest = Append(@, h)]
           x     == IF k.ga /\ ~met THEN Idle ELSE go
<1>1. k \in InFlight /\ WellFormed(k) /\ Rooted(k) /\ k.at = "sub_owner"
  BY InFlightWhen DEF ReadSubOwner
<1>2. calls' = [calls EXCEPT ![c] = x] /\ Reads
  BY DEF ReadSubOwner
<1>3. k.doc \in Docs /\ k.next \in 1 .. Len(k.doc.subs)
  BY <1>1 DEF WellFormed, InFlight
<1>4. sub \in Message
  BY <1>3, MessagesTyped
<1>5. h \in Harvested
  <2>1. k.seen \in Nat /\ owner \in Nat \cup {None}
    BY <1>1 DEF InFlight, Row
  <2> HIDE DEF k, sub, owner, met
  <2> QED BY <1>4, <2>1 DEF Harvested, Message
<1>6. go \in InFlight /\ WellFormed(go) /\ Rooted(go)
  <2> HIDE DEF k, h
  <2>1. Append(k.harvest, h) \in Seq(Harvested)
    BY <1>1, <1>5 DEF InFlight
  <2>2. k.next + 1 \in Nat
    BY <1>1 DEF InFlight
  <2>3. go \in InFlight
    BY <1>1, <2>1, <2>2 DEF InFlight
  <2>4. WellFormed(go)
    BY <1>1, <1>3 DEF WellFormed, InFlight
  <2>5. Rooted(go)
    BY <1>1 DEF Rooted, RootedIn, InFlight
  <2> QED BY <2>3, <2>4, <2>5
<1>7. x = Idle \/ (x \in InFlight /\ WellFormed(x) /\ Rooted(x))
  <2>1. x = Idle \/ x = go
    OBVIOUS
  <2> HIDE DEF x, go
  <2> QED BY <1>6, <2>1
<1> HIDE DEF x
<1> QED BY <1>2, <1>7, OneCall

LEMMA DecideInv ==
  ASSUME Inv, NEW c \in Calls, Decide(c)
  PROVE  Inv'
<1> DEFINE k == calls[c]
           x == [k EXCEPT !.next = 1, !.at = AfterHarvest(k)]
<1>1. k \in InFlight /\ WellFormed(k) /\ Rooted(k) /\ k.at = "sub"
  BY InFlightWhen DEF Decide
<1>2. calls' = [calls EXCEPT ![c] = x] /\ Reads
  BY DEF Decide, Inv, TypeOK
<1>3. AfterHarvest(k) \in {"harvest", "pub", "commit"} /\ (AfterHarvest(k) = "pub" => k.ga)
  BY <1>1 DEF AfterHarvest, InFlight
<1>4. x \in InFlight /\ WellFormed(x) /\ Rooted(x)
  <2> HIDE DEF k
  <2>1. x \in InFlight
    BY <1>1, <1>3 DEF InFlight
  <2>2. WellFormed(x)
    BY <1>1, <1>3 DEF WellFormed, InFlight
  <2>3. Rooted(x)
    BY <1>1, <1>3 DEF Rooted, RootedIn, InFlight
  <2> QED BY <2>1, <2>2, <2>3
<1> HIDE DEF x
<1> QED BY <1>2, <1>4, OneCall

\* A statement added to a plan.
LEMMA Appending ==
  ASSUME NEW k \in InFlight, NEW op \in Op
  PROVE  /\ Append(k.ops, op) \in Seq(Op)
         /\ Len(Append(k.ops, op)) = Len(k.ops) + 1
         /\ \A i \in 1 .. Len(k.ops) : Append(k.ops, op)[i] = k.ops[i]
         /\ Append(k.ops, op)[Len(k.ops) + 1] = op
  BY DEF InFlight

Upserting(k, r) ==
  [k EXCEPT !.at = "pub", !.next = @ + 1, !.row = None,
            !.ops = Append(@, UpsertOf(k.doc.pubs[k.next], r))]

\* The upsert of the next message, on a row that is none, one's own, or an
\* orphan's.
LEMMA UpsertPlanned ==
  ASSUME NEW k \in InFlight, WellFormed(k), Rooted(k), k.at \in {"pub", "pub_owner"},
         k.next <= Len(k.doc.pubs), NEW r \in Row \cup {None},
         r # None => /\ r.owner \in 1 .. lastId
                     /\ r.owner = k.id \/ r.owner \notin Live
                     /\ r.owner \in Live =>
                          CheckPayloadCompatible(r.payload, k.doc.pubs[k.next].payload)
  PROVE  Upserting(k, r) \in InFlight /\ WellFormed(Upserting(k, r)) /\ Rooted(Upserting(k, r))
<1> DEFINE m  == k.doc.pubs[k.next]
           op == UpsertOf(m, r)
           s  == Append(k.ops, op)
           x  == [k EXCEPT !.at = "pub", !.next = @ + 1, !.row = None, !.ops = s]
<1>1. k.doc \in Docs /\ k.ga /\ k.next \in 1 .. Len(k.doc.pubs)
  BY DEF WellFormed, InFlight
<1>2. m \in Message /\ m \in Range(k.doc.pubs)
  BY <1>1, MessagesTyped
<1>3. m = [topic |-> m.topic, payload |-> m.payload]
  BY <1>2 DEF Message
<1>4. op \in Op /\ op.read = r /\ op.payload = m.payload /\ [topic |-> op.topic, payload |-> op.payload] \in Range(k.doc.pubs)
  <2> HIDE DEF m
  <2> QED BY <1>2, <1>3 DEF Op, UpsertOf, Message
<1>5. /\ s \in Seq(Op) /\ Len(s) = Len(k.ops) + 1 /\ Len(k.ops) \in Nat
      /\ \A i \in 1 .. Len(k.ops) : s[i] = k.ops[i]
      /\ s[Len(k.ops) + 1] = op
  <2> HIDE DEF op
  <2> QED BY <1>4, Appending DEF InFlight
<1> HIDE DEF s, op, m
<1>6. x \in InFlight
  <2>1. k.next + 1 \in Nat
    BY DEF InFlight
  <2> QED BY <1>5, <2>1 DEF InFlight
<1>7. WellFormed(x)
  BY <1>1, <1>4, <1>5 DEF WellFormed, InFlight
<1>8. Rooted(x)
  <2>1. r # None /\ r.owner \in Live => CheckPayloadCompatible(r.payload, m.payload)
    BY DEF m
  <2>2. x.id = k.id /\ x.at = "pub" /\ x.row = None /\ x.ops = s
    BY DEF InFlight
  <2> HIDE DEF x
  <2>3. ASSUME NEW i \in 1 .. Len(s), s[i].read # None
        PROVE  /\ s[i].read.owner \in 1 .. lastId
               /\ s[i].read.owner = k.id \/ s[i].read.owner \notin Live
               /\ s[i].payload # None /\ s[i].read.owner \in Live =>
                    CheckPayloadCompatible(s[i].read.payload, s[i].payload)
    <3>1. CASE i \in 1 .. Len(k.ops)
      BY <1>5, <2>3, <3>1 DEF Rooted, RootedIn
    <3>2. CASE i = Len(k.ops) + 1
      BY <1>4, <1>5, <2>1, <2>3, <3>2
    <3> QED BY <1>5, <3>1, <3>2
  <2> QED BY <2>2, <2>3 DEF Rooted, RootedIn
<1>9. x = Upserting(k, r)
  BY DEF Upserting, s, op, m
<1> HIDE DEF x
<1> QED BY <1>6, <1>7, <1>8, <1>9

LEMMA ReadPubInv ==
  ASSUME Inv, NEW c \in Calls, ReadPub(c)
  PROVE  Inv'
<1> DEFINE k == calls[c]
           m == k.doc.pubs[k.next]
<1>1. k \in InFlight /\ WellFormed(k) /\ Rooted(k) /\ k.at = "pub" /\ k.next <= Len(k.doc.pubs) /\ Reads
  BY InFlightWhen DEF ReadPub
<1>2. m \in Message
  BY <1>1, MessagesTyped DEF WellFormed, InFlight
<1>3. CASE contracts[m.topic] # None
  <2> DEFINE x == [k EXCEPT !.at = "pub_owner", !.row = contracts[m.topic]]
  <2>1. calls' = [calls EXCEPT ![c] = x]
    BY <1>3 DEF ReadPub
  <2>2. contracts[m.topic] \in Row /\ contracts[m.topic].owner \in 1 .. lastId
    <3>1. m.topic \in Topics
      BY <1>2 DEF Message
    <3> HIDE DEF m
    <3> QED BY <1>3, <3>1, ContractTyped
  <2>3. x \in InFlight /\ WellFormed(x) /\ Rooted(x)
    <3> HIDE DEF k, m
    <3>1. x \in InFlight
      BY <1>1, <2>2 DEF InFlight
    <3>2. WellFormed(x)
      BY <1>1, <1>3 DEF WellFormed, InFlight
    <3>3. Rooted(x)
      BY <1>1, <2>2 DEF Rooted, RootedIn, InFlight
    <3> QED BY <3>1, <3>2, <3>3
  <2> HIDE DEF x
  <2> QED BY <1>1, <2>1, <2>3, OneCall
<1>4. CASE contracts[m.topic] = None
  <2> DEFINE y == [k EXCEPT !.next = @ + 1, !.ops = Append(@, UpsertOf(m, None))]
             x == Upserting(k, None)
  <2>1. calls' = [calls EXCEPT ![c] = y]
    BY <1>4 DEF ReadPub
  <2>2. x = y
    <3>1. k.at = "pub" /\ k.row = None
      BY <1>1 DEF WellFormed
    <3> DEFINE s == Append(k.ops, UpsertOf(m, None))
    <3> HIDE DEF k, s
    <3>2. [k EXCEPT !.at = "pub", !.next = @ + 1, !.row = None, !.ops = s]
            = [k EXCEPT !.next = @ + 1, !.ops = s]
      BY <1>1, <3>1 DEF InFlight
    <3> QED BY <3>2 DEF s, Upserting
  <2>3. x \in InFlight /\ WellFormed(x) /\ Rooted(x)
    <3> HIDE DEF k
    <3>1. None \in Row \cup {None}
      OBVIOUS
    <3> QED BY <1>1, <3>1, UpsertPlanned
  <2> HIDE DEF x, y
  <2> QED BY <1>1, <2>1, <2>2, <2>3, OneCall
<1> QED BY <1>3, <1>4

LEMMA ReadPubOwnerInv ==
  ASSUME Inv, NEW c \in Calls, ReadPubOwner(c)
  PROVE  Inv'
<1> DEFINE k    == calls[c]
           m    == k.doc.pubs[k.next]
           done == [k EXCEPT !.at = "pub", !.next = @ + 1, !.row = None]
           up   == Upserting(k, k.row)
           x    == Planned(k, m)
<1>1. k \in InFlight /\ WellFormed(k) /\ Rooted(k) /\ k.at = "pub_owner"
  BY InFlightWhen DEF ReadPubOwner
<1>2. calls' = [calls EXCEPT ![c] = x] /\ Reads
  BY DEF ReadPubOwner, Inv, TypeOK
<1>3. /\ k.row \in Row /\ k.row.owner \in 1 .. lastId /\ k.next <= Len(k.doc.pubs)
      /\ k.doc \in Docs /\ k.next \in 1 .. Len(k.doc.pubs)
  BY <1>1 DEF WellFormed, InFlight, Rooted, RootedIn
<1>4. done \in InFlight /\ WellFormed(done) /\ Rooted(done)
  <2> HIDE DEF k
  <2>1. k.next + 1 \in Nat
    BY <1>1 DEF InFlight
  <2>2. done \in InFlight
    BY <1>1, <2>1 DEF InFlight
  <2>3. WellFormed(done)
    BY <1>1 DEF WellFormed, InFlight
  <2>4. Rooted(done)
    BY <1>1 DEF Rooted, RootedIn, InFlight
  <2> QED BY <2>2, <2>3, <2>4
<1>5. (\/ k.row.owner \notin Live
       \/ k.row.owner = k.id /\ CheckPayloadCompatible(k.row.payload, m.payload))
      => up \in InFlight /\ WellFormed(up) /\ Rooted(up)
  <2> HIDE DEF k
  <2> QED BY <1>1, <1>3, UpsertPlanned
<1>6. \/ x = Idle \/ x = done
      \/ /\ x = up
         /\ \/ k.row.owner \notin Live
            \/ k.row.owner = k.id /\ CheckPayloadCompatible(k.row.payload, m.payload)
  <2>1. [done EXCEPT !.ops = Append(@, UpsertOf(m, k.row))] = up
    <3> HIDE DEF k
    <3> QED BY <1>1 DEF InFlight, Upserting
  <2>2. CASE k.row.owner \notin Live
    BY <2>1, <2>2 DEF Planned
  <2>3. CASE k.row.owner \in Live /\ k.row.owner = k.id
    BY <2>1, <2>3 DEF Planned
  <2>4. CASE k.row.owner \in Live /\ k.row.owner # k.id
    BY <2>4 DEF Planned
  <2> QED BY <2>2, <2>3, <2>4
<1>7. x = Idle \/ (x \in InFlight /\ WellFormed(x) /\ Rooted(x))
  <2> HIDE DEF x, up, done, k
  <2> QED BY <1>4, <1>5, <1>6
<1> HIDE DEF x
<1> QED BY <1>2, <1>7, OneCall

DeletionsOf(S) == LET gone == SetToSeq(S) IN [i \in DOMAIN gone |-> DeleteOf(gone[i])]

\* A plan is put together from deletions of contracts the caller owns.
LEMMA Deletions ==
  ASSUME Inv, NEW S \in SUBSET Topics, NEW id, S \subseteq OwnedBy(id)
  PROVE  /\ DeletionsOf(S) \in Seq(Op)
         /\ \A i \in 1 .. Len(DeletionsOf(S)) :
              /\ DeletionsOf(S)[i].payload = None
              /\ DeletionsOf(S)[i].read.owner \in 1 .. lastId
              /\ DeletionsOf(S)[i].read.owner = id
<1> DEFINE gone == SetToSeq(S)
           dels == [i \in DOMAIN gone |-> DeleteOf(gone[i])]
<1>1. gone \in Seq(S)
  BY TopicsInOrder
<1> HIDE DEF gone
<1>2. \A t \in S : /\ DeleteOf(t) \in Op /\ DeleteOf(t).payload = None
                   /\ DeleteOf(t).read.owner = id /\ DeleteOf(t).read.owner \in 1 .. lastId
  <2> SUFFICES ASSUME NEW t \in S
               PROVE /\ DeleteOf(t) \in Op /\ DeleteOf(t).payload = None
                     /\ DeleteOf(t).read.owner = id /\ DeleteOf(t).read.owner \in 1 .. lastId
    OBVIOUS
  <2>1. /\ t \in Topics /\ contracts[t] \in Row /\ contracts[t].owner = id
        /\ contracts[t].owner \in 1 .. lastId
    BY DEF OwnedBy, Inv, TypeOK, Live
  <2> QED BY <2>1 DEF DeleteOf, Op
<1>3. Len(gone) \in Nat /\ DOMAIN gone = 1 .. Len(gone) /\ \A i \in 1 .. Len(gone) : gone[i] \in S
  BY <1>1
<1>4. dels \in Seq(Op) /\ Len(dels) = Len(gone)
  <2>1. dels \in [1 .. Len(gone) -> Op]
    BY <1>2, <1>3
  <2>2. DOMAIN dels = 1 .. Len(gone)
    BY <1>3
  <2> HIDE DEF dels
  <2> QED BY <1>3, <2>1, <2>2
<1>5. \A i \in 1 .. Len(dels) :
        /\ dels[i].payload = None
        /\ dels[i].read.owner = id /\ dels[i].read.owner \in 1 .. lastId
  BY <1>2, <1>3, <1>4
<1>6. dels = DeletionsOf(S)
  BY DEF DeletionsOf, gone
<1> HIDE DEF dels
<1> QED BY <1>4, <1>5, <1>6

LEMMA ListOwnedInv ==
  ASSUME Inv, NEW c \in Calls, ListOwned(c)
  PROVE  Inv'
<1> DEFINE k == calls[c]
           S == OwnedBy(k.id) \ {m.topic : m \in Range(k.doc.pubs)}
           dels == Dropped(k)
           s == k.ops \o dels
           x == [k EXCEPT !.at = "commit", !.ops = s]
<1>1. k \in InFlight /\ WellFormed(k) /\ Rooted(k) /\ k.at = "pub"
  BY InFlightWhen DEF ListOwned
<1>2. calls' = [calls EXCEPT ![c] = x] /\ Reads
  BY DEF ListOwned, Inv, TypeOK
<1>3. /\ dels \in Seq(Op)
      /\ \A i \in 1 .. Len(dels) :
           /\ dels[i].payload = None
           /\ dels[i].read.owner \in 1 .. lastId
           /\ dels[i].read.owner = k.id
  <2>1. S \in SUBSET Topics /\ S \subseteq OwnedBy(k.id)
    BY DEF OwnedBy
  <2>2. dels = DeletionsOf(S)
    BY DEF Dropped, DeletionsOf
  <2> HIDE DEF S, dels, k
  <2> QED BY <2>1, <2>2, Deletions
<1> HIDE DEF dels, k
<1>4. /\ s \in Seq(Op) /\ Len(s) = Len(k.ops) + Len(dels) /\ Len(k.ops) \in Nat /\ Len(dels) \in Nat
      /\ \A i \in 1 .. Len(s) : s[i] = IF i <= Len(k.ops) THEN k.ops[i] ELSE dels[i - Len(k.ops)]
  BY <1>1, <1>3 DEF InFlight
<1> HIDE DEF s
<1>5. \A i \in 1 .. Len(s) : \/ i \in 1 .. Len(k.ops) /\ s[i] = k.ops[i]
                             \/ \E j \in 1 .. Len(dels) : s[i] = dels[j]
  <2> SUFFICES ASSUME NEW i \in 1 .. Len(s)
               PROVE  \/ i \in 1 .. Len(k.ops) /\ s[i] = k.ops[i]
                      \/ \E j \in 1 .. Len(dels) : s[i] = dels[j]
    OBVIOUS
  <2>1. CASE i <= Len(k.ops)
    BY <1>4, <2>1
  <2>2. CASE i > Len(k.ops)
    <3>1. s[i] = dels[i - Len(k.ops)]
      BY <1>4, <2>2
    <3>2. i - Len(k.ops) \in 1 .. Len(dels)
      <4> DEFINE a == Len(k.ops)
                 b == Len(dels)
      <4>1. a \in Nat /\ b \in Nat /\ i \in 1 .. (a + b) /\ i > a
        BY <1>4, <2>2
      <4> HIDE DEF a, b
      <4>2. i - a \in 1 .. b
        BY <4>1
      <4> QED BY <4>2 DEF a, b
    <3> QED BY <3>1, <3>2
  <2> QED BY <1>4, <2>1, <2>2
<1>6. x \in InFlight
  BY <1>1, <1>4 DEF InFlight
<1>7. WellFormed(x)
  <2>1. /\ x.ops = s /\ x.at = "commit" /\ x.next = k.next /\ x.doc = k.doc /\ x.ga = k.ga
        /\ k.next >= 1 /\ k.doc \in Docs /\ k.ga
    BY <1>1 DEF WellFormed, InFlight
  <2>2. \A i \in 1 .. Len(s) : s[i].payload # None =>
          [topic |-> s[i].topic, payload |-> s[i].payload] \in Range(k.doc.pubs)
    BY <1>1, <1>3, <1>5 DEF WellFormed
  <2> HIDE DEF x
  <2> QED BY <2>1, <2>2 DEF WellFormed
<1>8. Rooted(x)
  BY <1>1, <1>3, <1>5 DEF Rooted, RootedIn, InFlight
<1> HIDE DEF x
<1> QED BY <1>2, <1>6, <1>7, <1>8, OneCall

LEMMA EndsInv ==
  ASSUME Inv, NEW c \in Calls, End(c) \/ ApplyRefused(c)
  PROVE  Inv'
  BY OneCall DEF End, ApplyRefused, Reads

LEMMA AppliedInv ==
  ASSUME Inv, NEW c \in Calls, Applied(c)
  PROVE  Inv'
<1> DEFINE k == calls[c]
           x == [k EXCEPT !.at = "harvest"]
<1>1. k \in InFlight /\ WellFormed(k) /\ Rooted(k) /\ Reads
  BY InFlightWhen DEF Applied
<1>2. CASE k.doc = None
  BY <1>1, <1>2, OneCall DEF Applied
<1>3. CASE k.doc # None
  <2>1. calls' = [calls EXCEPT ![c] = x]
    BY <1>3 DEF Applied, Goto, Inv, TypeOK
  <2>2. x \in InFlight /\ WellFormed(x) /\ Rooted(x)
    <3> HIDE DEF k
    <3>1. x \in InFlight
      BY <1>1 DEF InFlight
    <3>2. WellFormed(x)
      BY <1>1, <1>3 DEF WellFormed, InFlight
    <3>3. Rooted(x)
      BY <1>1 DEF Rooted, RootedIn, InFlight
    <3> QED BY <3>1, <3>2, <3>3
  <2> HIDE DEF x
  <2> QED BY <1>1, <2>1, <2>2, OneCall
<1> QED BY <1>2, <1>3

\* Ids and releases are only added, and an id that is gone stays gone.
Grows ==
  /\ lastId' >= lastId
  /\ \A i \in 1 .. lastId : i \in Live' => i \in Live
  /\ \A i \in 1 .. lastId : released[i] \subseteq released'[i]

LEMMA StaysRooted ==
  ASSUME lastId \in Nat, lastId' \in Nat, Grows, NEW k, Rooted(k)
  PROVE  RootedIn(k, lastId', released', Live')
<1>1. \A i \in 1 .. lastId : i \in 1 .. lastId'
  BY DEF Grows
<1>2. /\ k.id \in 1 .. lastId'
      /\ k.at = "apply" /\ k.ga => k.doc \in released'[k.id]
      /\ k.row # None => k.row.owner \in 1 .. lastId'
  BY <1>1 DEF Grows, Rooted, RootedIn
<1>3. ASSUME NEW i \in 1 .. Len(k.ops), k.ops[i].read # None
      PROVE  /\ k.ops[i].read.owner \in 1 .. lastId'
             /\ k.ops[i].read.owner = k.id \/ k.ops[i].read.owner \notin Live'
             /\ k.ops[i].payload # None /\ k.ops[i].read.owner \in Live' =>
                  CheckPayloadCompatible(k.ops[i].read.payload, k.ops[i].payload)
  BY <1>1, <1>3 DEF Grows, Rooted, RootedIn
<1> QED BY <1>2, <1>3 DEF RootedIn

LEMMA OthersOK ==
  ASSUME Inv, NEW c \in Calls, NEW x, calls' = [calls EXCEPT ![c] = x], lastId' \in Nat, Grows,
         x = Idle \/ (x \in InFlight /\ WellFormed(x) /\ RootedIn(x, lastId', released', Live'))
  PROVE  CallsOK' /\ calls' \in [Calls -> InFlight \cup {Idle}]
<1>1. calls' \in [Calls -> InFlight \cup {Idle}]
  BY DEF Inv, TypeOK
<1>2. ASSUME NEW d \in Calls, calls'[d] # Idle
      PROVE  WellFormed(calls'[d]) /\ RootedIn(calls'[d], lastId', released', Live')
  <2>1. CASE d = c
    BY <1>2, <2>1 DEF Inv, TypeOK
  <2>2. CASE d # c
    <3>1. calls'[d] = calls[d] /\ WellFormed(calls[d]) /\ Rooted(calls[d])
      BY <1>2, <2>2 DEF Inv, TypeOK, CallsOK
    <3>2. lastId \in Nat
      BY DEF Inv, TypeOK
    <3> QED BY <3>1, <3>2, StaysRooted
  <2> QED BY <2>1, <2>2
<1>3. CallsOK'
  BY <1>2 DEF CallsOK, Rooted
<1> QED BY <1>1, <1>3

LEMMA ProvideInv ==
  ASSUME Inv, NEW c \in Calls, NEW n \in Names, NEW d \in Docs, NEW ga \in BOOLEAN,
         Provide(c, n, d, ga)
  PROVE  Inv'
<1> DEFINE id == IF ids[n] = None THEN lastId + 1 ELSE ids[n]
           x  == [at |-> "sub", name |-> n, id |-> id, doc |-> d, ga |-> ga, next |-> 1,
                  row |-> None, seen |-> 0, same |-> ids[n] # None /\ d \in released[id],
                  harvest |-> <<>>, ops |-> <<>>, quiet |-> TRUE]
<1>1. /\ lastId \in Nat /\ lastId' \in Nat /\ lastId <= lastId'
      /\ id \in 1 .. lastId' /\ ids' = [ids EXCEPT ![n] = id]
      /\ ids \in [Names -> 1 .. lastId \cup {None}]
  BY DEF Inv, TypeOK, Provide
<1>2. ids' \in [Names -> 1 .. lastId' \cup {None}]
  BY <1>1
<1>3. \A k, l \in Names : ids'[k] = ids'[l] /\ ids'[k] # None => k = l
  BY <1>1 DEF Inv, TypeOK, Provide
<1>4. released' \in [0 .. lastId' -> SUBSET Docs] /\ \A i \in 0 .. lastId : released'[i] = released[i]
  <2>1. CASE ids[n] = None
    BY <2>1, <1>1 DEF Inv, TypeOK, Provide
  <2>2. CASE ids[n] # None
    BY <2>2 DEF Inv, TypeOK, Provide
  <2> QED BY <2>1, <2>2
<1>5. Live \subseteq Live'
  BY <1>1 DEF Live
<1>6. \A i \in 1 .. lastId : i \in Live' => i \in Live
  BY <1>1 DEF Live
<1>7. Grows
  BY <1>1, <1>4, <1>6 DEF Grows
<1>8. x \in InFlight
  BY <1>1 DEF InFlight
<1>9. WellFormed(x) /\ RootedIn(x, lastId', released', Live')
  BY <1>1 DEF WellFormed, RootedIn
<1>10. CallsOK' /\ calls' \in [Calls -> InFlight \cup {Idle}]
  <2>1. calls' = [calls EXCEPT ![c] = x]
    BY DEF Provide
  <2> HIDE DEF x
  <2> QED BY <1>1, <1>7, <1>8, <1>9, <2>1, OthersOK
<1>11. ContractsWereReleased'
  <2>1. contracts' = contracts /\ \A t \in Topics : contracts[t] # None => contracts[t].owner \in 1 .. lastId
    BY DEF Provide, Inv, TypeOK, Live
  <2> QED BY <1>1, <1>4, <2>1 DEF Inv, ContractsWereReleased
<1>12. TypeOK'
  <2>1. begun' \in 0 .. MaxCalls /\ UNCHANGED <<contracts, subs, deleted, era, notice, stale>>
    BY ChannelAssumption DEF Inv, TypeOK, Provide
  <2>2. /\ \A t \in Topics : contracts'[t] # None => contracts'[t].owner \in Live'
        /\ \A m \in Names, t \in Topics : subs'[m][t] # None => subs'[m][t].owner \in Live' \cup {None}
    BY <1>5, <2>1 DEF Inv, TypeOK
  <2> QED BY <1>1, <1>2, <1>3, <1>4, <1>10, <2>1, <2>2 DEF Inv, TypeOK
<1> QED BY <1>10, <1>11, <1>12 DEF Inv

LEMMA CommitInv ==
  ASSUME Inv, NEW c \in Calls, Commit(c)
  PROVE  Inv'
<1> DEFINE k == calls[c]
           x == [k EXCEPT !.at = "apply"]
<1>1. k \in InFlight /\ WellFormed(k) /\ Rooted(k) /\ k.at = "commit"
  BY InFlightWhen DEF Commit
<1>2. k.doc \in Docs /\ k.id \in 1 .. lastId /\ lastId \in Nat
  BY <1>1 DEF WellFormed, Rooted, RootedIn, Inv, TypeOK
<1>3. CASE k.id \in Live /\ k.doc \notin released[k.id]
  <2>1. calls' = [calls EXCEPT ![c] = x]
    BY <1>3 DEF Commit, Goto, Inv, TypeOK
  <2>2. released' = IF k.ga THEN [released EXCEPT ![k.id] = @ \cup {k.doc}] ELSE released
    BY <1>3 DEF Commit
  <2>3. UNCHANGED <<ids, lastId, contracts, subs, begun, deleted, era, notice, stale>> /\ Live' = Live
    BY DEF Commit, Live
  <2>4. /\ released' \in [0 .. lastId -> SUBSET Docs]
        /\ \A i \in 0 .. lastId : released[i] \subseteq released'[i]
        /\ k.ga => k.doc \in released'[k.id]
    BY <1>2, <2>2 DEF Inv, TypeOK
  <2>5. Grows
    BY <1>2, <2>3, <2>4 DEF Grows
  <2>6. x \in InFlight /\ WellFormed(x) /\ RootedIn(x, lastId', released', Live')
    <3> HIDE DEF k
    <3>1. x \in InFlight
      BY <1>1 DEF InFlight
    <3>2. WellFormed(x)
      BY <1>1 DEF WellFormed, InFlight
    <3>3. RootedIn(x, lastId', released', Live')
      BY <1>1, <2>3, <2>4 DEF Rooted, RootedIn, InFlight
    <3> QED BY <3>1, <3>2, <3>3
  <2>7. CallsOK' /\ calls' \in [Calls -> InFlight \cup {Idle}]
    <3> HIDE DEF x
    <3> QED BY <1>2, <2>1, <2>3, <2>5, <2>6, OthersOK
  <2>8. ContractsWereReleased'
    <3>1. \A t \in Topics : contracts[t] # None => contracts[t].owner \in 1 .. lastId
      BY DEF Inv, TypeOK, Live
    <3> QED BY <1>2, <2>3, <2>4, <3>1 DEF Inv, ContractsWereReleased
  <2>9. TypeOK'
    BY <2>3, <2>4, <2>7 DEF Inv, TypeOK
  <2> QED BY <2>7, <2>8, <2>9 DEF Inv
<1>4. CASE ~(k.id \in Live /\ k.doc \notin released[k.id])
  BY <1>4, OneCall DEF Commit, Reads
<1> QED BY <1>3, <1>4

\* The other calls are told that they have been disturbed, and no more.
LEMMA DisturbedOK ==
  ASSUME NEW k \in InFlight, WellFormed(k), NEW last, NEW stored, NEW live,
         RootedIn(k, last, stored, live)
  PROVE  LET x == [k EXCEPT !.quiet = FALSE]
         IN x \in InFlight /\ WellFormed(x) /\ RootedIn(x, last, stored, live)
<1> DEFINE x == [k EXCEPT !.quiet = FALSE]
<1>1. x \in InFlight
  BY DEF InFlight
<1>2. WellFormed(x)
  BY DEF WellFormed, InFlight
<1>3. RootedIn(x, last, stored, live)
  BY DEF RootedIn, InFlight
<1> QED BY <1>1, <1>2, <1>3

LEMMA Popping ==
  ASSUME NEW k \in InFlight, k.ops # <<>>
  PROVE  /\ Tail(k.ops) \in Seq(Op) /\ Head(k.ops) \in Op /\ Head(k.ops) = k.ops[1]
         /\ 1 \in 1 .. Len(k.ops)
         /\ \A i \in 1 .. Len(Tail(k.ops)) : i + 1 \in 1 .. Len(k.ops) /\ Tail(k.ops)[i] = k.ops[i + 1]
  BY DEF InFlight

LEMMA ApplyInv ==
  ASSUME Inv, NEW c \in Calls, Apply(c)
  PROVE  Inv'
<1> DEFINE k  == calls[c]
           op == Head(k.ops)
           t  == op.topic
           x  == [k EXCEPT !.ops = Tail(@)]
<1>1. k \in InFlight /\ WellFormed(k) /\ Rooted(k) /\ k.at = "apply" /\ k.ops # <<>>
  BY InFlightWhen DEF Apply
<1>2. /\ op \in Op /\ op = k.ops[1] /\ t \in Topics /\ k.id \in 1 .. lastId
      /\ op.payload # None => /\ k.ga /\ k.doc \in Docs
                              /\ [topic |-> t, payload |-> op.payload] \in Range(k.doc.pubs)
                              /\ k.doc \in released[k.id]
  <2> HIDE DEF k
  <2> QED BY <1>1, Popping DEF WellFormed, Rooted, RootedIn, Op
<1>3. /\ calls' = Disturbing(c, x)
      /\ UNCHANGED <<ids, lastId, released, subs, begun, deleted>> /\ Live' = Live
      /\ op.payload # None => k.id \in Live
      /\ contracts' = [contracts EXCEPT ![t] =
           IF op.payload = None THEN None ELSE [owner |-> k.id, payload |-> op.payload]]
  BY DEF Apply, Live
<1>4. x \in InFlight /\ WellFormed(x) /\ Rooted(x)
  <2> HIDE DEF k
  <2>1. x \in InFlight
    BY <1>1, Popping DEF InFlight
  <2>2. WellFormed(x)
    BY <1>1, Popping DEF WellFormed, InFlight
  <2>3. Rooted(x)
    <3>1. x.ops = Tail(k.ops) /\ x.id = k.id /\ x.at = k.at /\ x.ga = k.ga /\ x.doc = k.doc /\ x.row = k.row
      BY <1>1 DEF InFlight
    <3>2. \A i \in 1 .. Len(x.ops) : i + 1 \in 1 .. Len(k.ops) /\ x.ops[i] = k.ops[i + 1]
      BY <1>1, <3>1, Popping
    <3> HIDE DEF x
    <3> QED BY <1>1, <3>1, <3>2 DEF Rooted, RootedIn
  <2> QED BY <2>1, <2>2, <2>3
<1>5. \A d \in Calls : \/ calls'[d] = Idle
                       \/ calls'[d] \in InFlight /\ WellFormed(calls'[d]) /\ Rooted(calls'[d])
  <2> SUFFICES ASSUME NEW d \in Calls
               PROVE  \/ calls'[d] = Idle
                      \/ calls'[d] \in InFlight /\ WellFormed(calls'[d]) /\ Rooted(calls'[d])
    OBVIOUS
  <2>1. CASE d = c
    <3>1. calls'[d] = x
      BY <1>3, <2>1 DEF Disturbing
    <3> HIDE DEF x
    <3> QED BY <1>4, <3>1
  <2>2. CASE d # c /\ calls[d] = Idle
    BY <1>3, <2>2 DEF Disturbing
  <2>3. CASE d # c /\ calls[d] # Idle
    <3>1. calls'[d] = [calls[d] EXCEPT !.quiet = FALSE]
      BY <1>3, <2>3 DEF Disturbing
    <3>2. calls[d] \in InFlight /\ WellFormed(calls[d]) /\ Rooted(calls[d])
      BY <2>3 DEF Inv, TypeOK, CallsOK
    <3> QED BY <3>1, <3>2, DisturbedOK DEF Rooted
  <2> QED BY <2>1, <2>2, <2>3
<1>6. CallsOK' /\ calls' \in [Calls -> InFlight \cup {Idle}]
  <2>1. calls' = [d \in Calls |-> calls'[d]]
    BY <1>3 DEF Disturbing
  <2>2. CallsOK'
    BY <1>3, <1>5 DEF CallsOK, Rooted
  <2> QED BY <1>5, <2>1, <2>2
<1>7. ContractsWereReleased'
  <2> SUFFICES ASSUME NEW u \in Topics, contracts'[u] # None
               PROVE  \E d \in released[contracts'[u].owner] :
                        [topic |-> u, payload |-> contracts'[u].payload] \in Range(d.pubs)
    BY <1>3 DEF ContractsWereReleased
  <2>1. CASE u = t
    <3>1. op.payload # None /\ contracts'[u] = [owner |-> k.id, payload |-> op.payload]
      BY <1>2, <1>3, <2>1 DEF Inv, TypeOK
    <3> QED BY <1>2, <2>1, <3>1
  <2>2. CASE u # t
    BY <1>3, <2>2 DEF Inv, TypeOK, ContractsWereReleased
  <2> QED BY <2>1, <2>2
<1>8. TypeOK'
  <2> DEFINE new == IF op.payload = None THEN None ELSE [owner |-> k.id, payload |-> op.payload]
  <2>1. contracts' = [contracts EXCEPT ![t] = new]
    BY <1>3
  <2>2. new \in Row \cup {None} /\ (new # None => new.owner \in Live')
    BY <1>1, <1>2, <1>3 DEF InFlight, Row, Op
  <2>3. /\ contracts' \in [Topics -> Row \cup {None}]
        /\ \A u \in Topics : contracts'[u] # None => contracts'[u].owner \in Live'
    <3> HIDE DEF new, t
    <3>1. contracts' \in [Topics -> Row \cup {None}]
      BY <2>1, <2>2 DEF Inv, TypeOK
    <3>2. \A u \in Topics : contracts'[u] # None => contracts'[u].owner \in Live'
      BY <1>3, <2>1, <2>2 DEF Inv, TypeOK
    <3> QED BY <3>1, <3>2
  <2>4. /\ era' = era \/ era' = [era EXCEPT ![t] = @ + 1]
        /\ stale' = stale \ {t} \/ stale' = stale \cup {t}
    BY DEF Apply
  <2>5. era' \in [Topics -> Nat] /\ stale' \subseteq Topics
    <3> HIDE DEF t
    <3> QED BY <1>2, <2>4 DEF Inv, TypeOK
  <2>6. notice' \in [Topics -> SUBSET UNION {DOMAIN p : p \in Payloads}]
    <3>1. op.payload # None => Deprecated(op.payload) \subseteq UNION {DOMAIN p : p \in Payloads}
      BY <1>2 DEF Deprecated, Op
    <3> QED BY <1>2, <3>1 DEF Inv, TypeOK, Apply
  <2> QED BY <1>3, <1>6, <2>3, <2>5, <2>6 DEF Inv, TypeOK
<1> QED BY <1>6, <1>7, <1>8 DEF Inv

\* What is recorded of a topic is one of its entries.
LEMMA RecordedEntry ==
  ASSUME NEW s \in Seq(Harvested), NEW t, Recorded(s, t) # None
  PROVE  \E i \in 1 .. Len(s) :
           /\ s[i].topic = t /\ s[i] \in Harvested /\ s[i] \in Range(s)
           /\ Recorded(s, t) = [owner |-> s[i].owner, expects |-> s[i].expects, era |-> s[i].era]
<1> DEFINE D == Declaring(s, t)
           k == CHOOSE i \in D : \A j \in D : i <= j
<1>1. D \subseteq 1 .. Len(s) /\ DOMAIN s = 1 .. Len(s) /\ D # {}
  BY DEF Declaring, Recorded
<1>2. \E i \in D : \A j \in D : i <= j
  <2> HIDE DEF D
  <2>1. D \subseteq Nat
    BY <1>1
  <2>2. PICK i \in D : \A j \in D : <<j, i>> \notin OpToRel(<, Nat)
    BY <1>1, <2>1, NatLessThanWellFounded, WFMin
  <2>3. \A j \in D : <<j, i>> \in OpToRel(<, Nat) <=> j < i
    BY <2>1 DEF OpToRel
  <2>4. \A j \in D : ~(j < i)
    BY <2>2, <2>3
  <2>5. i \in Nat /\ \A j \in D : j \in Nat
    BY <2>1
  <2>6. \A j \in D : i <= j
    BY <2>4, <2>5
  <2> QED BY <2>6
<1>3. k \in D
  <2> HIDE DEF D
  <2> QED BY <1>2
<1>4. k \in 1 .. Len(s) /\ s[k].topic = t
  BY <1>1, <1>3 DEF Declaring
<1>5. Recorded(s, t) = [owner |-> s[k].owner, expects |-> s[k].expects, era |-> s[k].era]
  BY <1>1 DEF Recorded
<1> HIDE DEF k
<1>6. s[k] \in Harvested /\ s[k] \in Range(s)
  BY <1>1, <1>4 DEF Range
<1> QED BY <1>4, <1>5, <1>6

LEMMA ReconcileInv ==
  ASSUME Inv, NEW c \in Calls, Reconcile(c)
  PROVE  Inv'
<1> DEFINE k == calls[c]
           row(t) == Recorded(k.harvest, t)
<1>1. k \in InFlight /\ WellFormed(k) /\ Rooted(k)
  BY InFlightWhen DEF Reconcile
<1>2. /\ calls' = [calls EXCEPT ![c] = Idle]
      /\ UNCHANGED <<ids, lastId, released, contracts, begun, deleted, era, notice, stale>>
      /\ Live' = Live
  BY DEF Reconcile, Live
<1>3. Range(k.harvest) \subseteq Harvested
  BY <1>1 DEF InFlight, Range
<1>4. /\ subs' \in [Names -> [Topics -> Subscription \cup {None}]]
      /\ \A n \in Names, t \in Topics : subs'[n][t] # None => subs'[n][t].owner \in Live \cup {None}
  <2>1. CASE ~OwnersExist(k)
    BY <2>1 DEF Reconcile, Inv, TypeOK
  <2>2. CASE OwnersExist(k)
    <3>1. subs' = [subs EXCEPT ![k.name] = [t \in Topics |-> row(t)]]
      BY <2>2 DEF Reconcile
    <3>2. \A t \in Topics : \/ row(t) = None
                            \/ row(t) \in Subscription /\ row(t).owner \in Live \cup {None}
      <4> SUFFICES ASSUME NEW t \in Topics, row(t) # None
                   PROVE  row(t) \in Subscription /\ row(t).owner \in Live \cup {None}
        OBVIOUS
      <4>1. k.harvest \in Seq(Harvested)
        BY <1>1 DEF InFlight
      <4>2. PICK i \in 1 .. Len(k.harvest) :
              /\ k.harvest[i] \in Harvested /\ k.harvest[i] \in Range(k.harvest)
              /\ row(t) = [owner |-> k.harvest[i].owner, expects |-> k.harvest[i].expects,
                           era |-> k.harvest[i].era]
        BY <4>1, RecordedEntry
      <4>3. k.harvest[i].owner \in Live \cup {None}
        BY <2>2, <4>2 DEF OwnersExist
      <4> HIDE DEF k, row
      <4> QED BY <4>2, <4>3 DEF Harvested, Subscription
    <3> HIDE DEF row
    <3>3. [t \in Topics |-> row(t)] \in [Topics -> Subscription \cup {None}]
      BY <3>2
    <3>4. k.name \in Names
      BY <1>1 DEF InFlight
    <3>5. subs' \in [Names -> [Topics -> Subscription \cup {None}]]
      BY <3>1, <3>3 DEF Inv, TypeOK
    <3>6. ASSUME NEW n \in Names, NEW t \in Topics, subs'[n][t] # None
          PROVE  subs'[n][t].owner \in Live \cup {None}
      <4>1. CASE n = k.name
        <5>1. subs'[n][t] = row(t)
          BY <3>1, <3>4, <4>1 DEF Inv, TypeOK
        <5> QED BY <3>2, <3>6, <5>1
      <4>2. CASE n # k.name
        BY <3>1, <3>6, <4>2 DEF Inv, TypeOK
      <4> QED BY <4>1, <4>2
    <3> QED BY <3>5, <3>6
  <2> QED BY <2>1, <2>2
<1>5. Grows
  BY <1>2 DEF Grows, Inv, TypeOK
<1>6. CallsOK' /\ calls' \in [Calls -> InFlight \cup {Idle}]
  <2>1. lastId' \in Nat
    BY <1>2 DEF Inv, TypeOK
  <2> QED BY <1>2, <1>5, <2>1, OthersOK
<1>7. ContractsWereReleased'
  BY <1>2 DEF Inv, ContractsWereReleased
<1>8. TypeOK'
  BY <1>2, <1>4, <1>6 DEF Inv, TypeOK
<1> QED BY <1>6, <1>7, <1>8 DEF Inv

LEMMA RetireInv ==
  ASSUME Inv, NEW c \in Calls, NEW n \in Names, Retire(c, n)
  PROVE  Inv'
<1> DEFINE dels == DeletionsOf(OwnedBy(ids[n]))
           x == [at |-> "apply", name |-> n, id |-> ids[n], doc |-> None, ga |-> FALSE, next |-> 1,
                 row |-> None, seen |-> 0, same |-> FALSE, harvest |-> <<>>,
                 ops |-> dels, quiet |-> TRUE]
<1>1. /\ calls' = [calls EXCEPT ![c] = x]
      /\ UNCHANGED <<ids, lastId, released, contracts, subs, deleted, era, notice, stale>>
      /\ Live' = Live
  BY DEF Retire, DeletionsOf, Live
<1>2. ids[n] \in 1 .. lastId /\ lastId \in Nat /\ begun' \in 0 .. MaxCalls
  BY ChannelAssumption DEF Inv, TypeOK, Retire
<1>3. /\ dels \in Seq(Op)
      /\ \A i \in 1 .. Len(dels) : /\ dels[i].payload = None
                                   /\ dels[i].read.owner \in 1 .. lastId
                                   /\ dels[i].read.owner = ids[n]
  <2>1. OwnedBy(ids[n]) \in SUBSET Topics
    BY DEF OwnedBy
  <2> HIDE DEF dels
  <2> QED BY <2>1, Deletions DEF dels
<1>4. x \in InFlight /\ WellFormed(x) /\ RootedIn(x, lastId', released', Live')
  <2> HIDE DEF dels
  <2>1. x \in InFlight
    BY <1>2, <1>3 DEF InFlight
  <2>2. WellFormed(x)
    BY <1>3 DEF WellFormed
  <2>3. RootedIn(x, lastId', released', Live')
    BY <1>1, <1>2, <1>3 DEF RootedIn
  <2> QED BY <2>1, <2>2, <2>3
<1>5. Grows
  BY <1>1, <1>2 DEF Grows
<1>6. CallsOK' /\ calls' \in [Calls -> InFlight \cup {Idle}]
  <2> HIDE DEF x
  <2> QED BY <1>1, <1>2, <1>4, <1>5, OthersOK
<1>7. ContractsWereReleased'
  BY <1>1 DEF Inv, ContractsWereReleased
<1>8. TypeOK'
  BY <1>1, <1>2, <1>6 DEF Inv, TypeOK
<1> QED BY <1>6, <1>7, <1>8 DEF Inv

LEMMA DeleteProducerInv ==
  ASSUME Inv, NEW n \in Names, DeleteProducer(n)
  PROVE  Inv'
<1>1. /\ ids' = [ids EXCEPT ![n] = None]
      /\ UNCHANGED <<lastId, released, begun, notice, stale>>
      /\ deleted' \in 0 .. MaxDeletes
  BY ChannelAssumption DEF Inv, TypeOK, DeleteProducer
<1>2. ids[n] \in Live /\ Live' = Live \ {ids[n]}
  BY <1>1, ChannelAssumption DEF Inv, TypeOK, DeleteProducer, Live
<1>3. \A t \in Topics : contracts'[t] = IF t \in OwnedBy(ids[n]) THEN None ELSE contracts[t]
  BY DEF DeleteProducer
<1>4. /\ contracts' \in [Topics -> Row \cup {None}]
      /\ \A t \in Topics : contracts'[t] # None => contracts'[t].owner \in Live'
  BY <1>2 DEF Inv, TypeOK, DeleteProducer, OwnedBy
<1>5. /\ subs' \in [Names -> [Topics -> Subscription \cup {None}]]
      /\ \A m \in Names, t \in Topics : subs'[m][t] # None => subs'[m][t].owner \in Live' \cup {None}
  <2>1. \A m \in Names, t \in Topics :
          subs'[m][t] = IF subs[m][t] # None /\ subs[m][t].owner = ids[n]
                        THEN [subs[m][t] EXCEPT !.owner = None] ELSE subs[m][t]
    BY DEF DeleteProducer
  <2>2. ASSUME NEW m \in Names, NEW t \in Topics
        PROVE  /\ subs'[m][t] \in Subscription \cup {None}
               /\ subs'[m][t] # None => subs'[m][t].owner \in Live' \cup {None}
    <3>1. subs[m][t] \in Subscription \cup {None}
      BY DEF Inv, TypeOK
    <3>2. subs[m][t] # None => subs[m][t].owner \in Live \cup {None}
      BY DEF Inv, TypeOK
    <3>3. CASE subs[m][t] # None /\ subs[m][t].owner = ids[n]
      <4>1. subs'[m][t] = [subs[m][t] EXCEPT !.owner = None]
        BY <2>1, <3>3
      <4>2. subs[m][t] \in Subscription
        BY <3>1, <3>3
      <4>3. [subs[m][t] EXCEPT !.owner = None] \in [owner: {None}, expects: Payloads, era: Nat \cup {None}]
        BY <4>2 DEF Subscription
      <4>4. subs'[m][t] \in Subscription /\ subs'[m][t].owner = None
        BY <4>1, <4>3 DEF Subscription
      <4> QED BY <4>4
    <3>4. CASE ~(subs[m][t] # None /\ subs[m][t].owner = ids[n])
      <4>1. subs'[m][t] = subs[m][t]
        BY <2>1, <3>4
      <4> QED BY <1>2, <3>1, <3>2, <3>4, <4>1
    <3> QED BY <3>3, <3>4
  <2> QED BY <2>2 DEF DeleteProducer
<1>6. /\ ids' \in [Names -> 1 .. lastId' \cup {None}]
      /\ \A k, l \in Names : ids'[k] = ids'[l] /\ ids'[k] # None => k = l
      /\ era' \in [Topics -> Nat]
  BY <1>1 DEF Inv, TypeOK, DeleteProducer
<1>7. CallsOK' /\ calls' \in [Calls -> InFlight \cup {Idle}]
  <2>1. ASSUME NEW d \in Calls
        PROVE  \/ calls'[d] = Idle
               \/ /\ calls'[d] \in InFlight /\ WellFormed(calls'[d])
                  /\ RootedIn(calls'[d], lastId', released', Live')
    <3>1. CASE calls[d] = Idle
      BY <3>1 DEF DeleteProducer
    <3>2. CASE calls[d] # Idle
      <4>1. calls[d] \in InFlight /\ WellFormed(calls[d]) /\ Rooted(calls[d])
        BY <3>2 DEF Inv, TypeOK, CallsOK
      <4>2. RootedIn(calls[d], lastId', released', Live')
        BY <1>1, <1>2, <4>1 DEF Rooted, RootedIn
      <4>3. calls'[d] = [calls[d] EXCEPT !.quiet = FALSE]
        BY <3>2 DEF DeleteProducer
      <4>4. /\ [calls[d] EXCEPT !.quiet = FALSE] \in InFlight
            /\ WellFormed([calls[d] EXCEPT !.quiet = FALSE])
            /\ RootedIn([calls[d] EXCEPT !.quiet = FALSE], lastId', released', Live')
        BY <4>1, <4>2, DisturbedOK
      <4> QED BY <4>3, <4>4
    <3> QED BY <3>1, <3>2
  <2>2. calls' = [d \in Calls |-> calls'[d]]
    BY DEF DeleteProducer
  <2>3. CallsOK'
    BY <2>1 DEF CallsOK, Rooted
  <2> QED BY <2>1, <2>2, <2>3
<1>8. ContractsWereReleased'
  BY <1>1, <1>3 DEF Inv, ContractsWereReleased
<1>9. TypeOK'
  BY <1>1, <1>4, <1>5, <1>6, <1>7 DEF Inv, TypeOK
<1> QED BY <1>7, <1>8, <1>9 DEF Inv

LEMMA DeleteConsumerInv ==
  ASSUME Inv, NEW n \in Names, DeleteConsumer(n)
  PROVE  Inv'
<1>1. /\ UNCHANGED <<ids, lastId, released, contracts, calls, begun, era, notice, stale>>
      /\ Live' = Live /\ deleted' \in 0 .. MaxDeletes
      /\ subs' = [subs EXCEPT ![n] = [t \in Topics |-> None]]
  BY ChannelAssumption DEF Inv, TypeOK, DeleteConsumer, Live
<1>2. /\ subs' \in [Names -> [Topics -> Subscription \cup {None}]]
      /\ \A m \in Names, t \in Topics : subs'[m][t] # None => subs'[m][t].owner \in Live \cup {None}
  BY <1>1 DEF Inv, TypeOK
<1>3. TypeOK'
  BY <1>1, <1>2 DEF Inv, TypeOK
<1>4. CallsOK' /\ ContractsWereReleased'
  BY <1>1 DEF Inv, CallsOK, Rooted, ContractsWereReleased
<1> QED BY <1>3, <1>4 DEF Inv

LEMMA UnchangedInv ==
  ASSUME Inv, UNCHANGED vars
  PROVE  Inv'
<1>1. Live' = Live
  BY DEF vars, Live
<1> QED BY <1>1 DEF vars, Inv, TypeOK, CallsOK, Rooted, ContractsWereReleased

LEMMA NextInv ==
  ASSUME Inv, [Next]_vars
  PROVE  Inv'
<1>1. ASSUME NEW c \in Calls, Step(c) PROVE Inv'
  BY <1>1, ReadSubInv, ReadSubOwnerInv, DecideInv, ReadPubInv, ReadPubOwnerInv, ListOwnedInv,
     CommitInv, ApplyInv, AppliedInv, ReconcileInv, EndsInv DEF Step
<1> QED BY <1>1, ProvideInv, RetireInv, DeleteProducerInv, DeleteConsumerInv, UnchangedInv DEF Next

\* Inv holds of every reachable state.
THEOREM Invariance == Spec => []Inv
<1>1. Init => Inv
  BY InitInv
<1>2. Inv /\ [Next]_vars => Inv'
  BY NextInv
<1> QED BY <1>1, <1>2, PTL DEF Spec

\* Every variable keeps its type, and the foreign keys hold: the owner of a
\* contract is a service that is there, and so is that of a subscription.
THEOREM TypeCorrect == Spec => []TypeOK
<1>1. Inv => TypeOK
  BY DEF Inv
<1> QED BY <1>1, Invariance, PTL

\* Whatever calls overlap or end half way, a contract is what a GA version its
\* owner really stored publishes.
THEOREM ContractsAreReleased == Spec => []ContractsWereReleased
<1>1. Inv => ContractsWereReleased
  BY DEF Inv
<1> QED BY <1>1, Invariance, PTL

-----------------------------------------------------------------------------
(* The owner decides.                                                      *)

\* What a step does to a contract when it was planned on the row that is there.
Decided ==
  \A t \in Topics :
    contracts[t] # None /\ contracts'[t] # contracts[t] /\ t \notin stale' =>
      \/ contracts[t].owner \notin {ids'[n] : n \in Names}
      \/ \E c \in Calls : calls[c].at = "apply" /\ calls[c].id = contracts[t].owner
                          /\ calls'[c] # calls[c]

LEMMA ApplyDecides ==
  ASSUME Inv, NEW c \in Calls, Apply(c)
  PROVE  Decided
<1> DEFINE k  == calls[c]
           op == Head(k.ops)
<1> SUFFICES ASSUME NEW t \in Topics, contracts[t] # None, contracts'[t] # contracts[t],
                    t \notin stale'
             PROVE  k.at = "apply" /\ k.id = contracts[t].owner /\ calls'[c] # calls[c]
  BY DEF Decided
<1>1. k \in InFlight /\ Rooted(k) /\ k.at = "apply" /\ k.ops # <<>>
  BY InFlightWhen DEF Apply
<1>2. op = k.ops[1] /\ 1 \in 1 .. Len(k.ops) /\ op \in Op
  <2> HIDE DEF k
  <2> QED BY <1>1, Popping
<1>3. t = op.topic
  BY <1>2 DEF Apply, Inv, TypeOK, Op
<1>4. op.read = contracts[t]
  BY <1>3 DEF Apply
<1>5. contracts[t].owner \in Live
  BY DEF Inv, TypeOK
<1>6. k.id = contracts[t].owner
  BY <1>1, <1>2, <1>4, <1>5 DEF Rooted, RootedIn
<1>7. calls'[c] # calls[c]
  <2>1. calls'[c] = [k EXCEPT !.ops = Tail(@)]
    BY DEF Apply, Disturbing
  <2>2. Tail(k.ops) # k.ops
    <3>1. k.ops \in Seq(Op)
      BY <1>1 DEF InFlight
    <3> DEFINE s == k.ops
    <3>2. s \in Seq(Op) /\ s # <<>>
      BY <1>1, <3>1
    <3> HIDE DEF s
    <3>3. Len(Tail(s)) = Len(s) - 1 /\ Len(s) \in Nat
      BY <3>2
    <3>4. Tail(s) # s
      BY <3>3
    <3> QED BY <3>4 DEF s
  <2> HIDE DEF k
  <2>3. [k EXCEPT !.ops = Tail(@)].ops = Tail(k.ops)
    BY <1>1 DEF InFlight
  <2>4. [k EXCEPT !.ops = Tail(@)] # k
    BY <2>2, <2>3
  <2> QED BY <2>1, <2>4 DEF k
<1> QED BY <1>1, <1>6, <1>7

LEMMA DeletionDecides ==
  ASSUME Inv, NEW n \in Names, DeleteProducer(n)
  PROVE  Decided
<1> SUFFICES ASSUME NEW t \in Topics, contracts[t] # None, contracts'[t] # contracts[t]
             PROVE  contracts[t].owner \notin {ids'[m] : m \in Names}
  BY DEF Decided
<1>1. contracts[t].owner = ids[n] /\ ids[n] # None
  BY DEF DeleteProducer, OwnedBy
<1> QED BY <1>1 DEF DeleteProducer, Inv, TypeOK

LEMMA ContractsKept ==
  ASSUME [Next]_vars,
         ~ \E c \in Calls : Apply(c),
         ~ \E n \in Names : DeleteProducer(n)
  PROVE  UNCHANGED <<contracts, era, notice, stale>>
<1>1. ASSUME NEW c \in Calls, Step(c) PROVE UNCHANGED <<contracts, era, notice, stale>>
  <2>1. CASE ReadSub(c) \/ ReadSubOwner(c) \/ Decide(c) \/ ReadPub(c) \/ ReadPubOwner(c)
    BY <2>1, Zenon DEF ReadSub, ReadSubOwner, Decide, ReadPub, ReadPubOwner, Reads
  <2>2. CASE ListOwned(c) \/ ApplyRefused(c) \/ Applied(c) \/ End(c)
    BY <2>2, Zenon DEF ListOwned, ApplyRefused, Applied, End, Reads
  <2>3. CASE Commit(c) \/ Reconcile(c)
    BY <2>3, Zenon DEF Commit, Reconcile
  <2> QED BY <1>1, <2>1, <2>2, <2>3 DEF Step
<1> QED BY <1>1 DEF Next, Provide, Retire, DeleteConsumer, vars

\* A contract changes by a call of its owner, or goes with it, unless the plan
\* was made on a row that has changed since.
THEOREM OwnersDecide == Spec => OwnerDecides
<1>1. Inv /\ [Next]_vars => Decided
  <2> SUFFICES ASSUME Inv, [Next]_vars PROVE Decided
    OBVIOUS
  <2>1. CASE \E c \in Calls : Apply(c)
    BY <2>1, ApplyDecides
  <2>2. CASE \E n \in Names : DeleteProducer(n)
    BY <2>2, DeletionDecides
  <2>3. CASE /\ ~ \E c \in Calls : Apply(c)
             /\ ~ \E n \in Names : DeleteProducer(n)
    <3>1. contracts' = contracts
      BY <2>3, ContractsKept
    <3> QED BY <3>1 DEF Decided
  <2> QED BY <2>1, <2>2, <2>3
<1>2. Inv /\ [Next]_vars =>
        [\A t \in Topics :
           contracts[t] # None /\ contracts'[t] # contracts[t] /\ t \notin stale' =>
             \/ contracts[t].owner \notin {ids'[n] : n \in Names}
             \/ \E c \in Calls : calls[c].at = "apply" /\ calls[c].id = contracts[t].owner
                                 /\ calls'[c] # calls[c]]_vars
  BY <1>1 DEF Decided
<1> QED BY <1>2, Invariance, PTL DEF Spec, OwnerDecides

-----------------------------------------------------------------------------
(* Subscribers stay served.  What is checked at one time is used at        *)
(* another: the row a subscription was compared with may be replaced       *)
(* before it is recorded.  So a row read carries on being served by the    *)
(* contract, from one compatible change to the next, while the era lasts.  *)

\* A payload offers what is expected, the properties given notice aside.
Serves(payload, given, expects) ==
  \A p \in DOMAIN expects \ (Deprecated(expects) \cup given) :
    p \in DOMAIN payload /\ payload[p].type = expects[p].type

\* An expectation let in during era x of a topic now in era e.
HeldIn(expects, x, contract, e, given) ==
  x # None => /\ x <= e
              /\ x = e /\ contract # None => Serves(contract.payload, given, expects)

Held(expects, x, t) == HeldIn(expects, x, contracts[t], era[t], notice[t])

\* The row a call has read and not yet compared.
ReadIn(row, x, contract, e, given) ==
  /\ x <= e
  /\ row # None /\ x = e /\ contract # None =>
       Serves(contract.payload, given, row.payload) /\ Deprecated(row.payload) \subseteq given

NoticeOK ==
  \A t \in Topics : contracts[t] # None => Deprecated(contracts[t].payload) \subseteq notice[t]

HarvestHeld(k) ==
  \A i \in 1 .. Len(k.harvest) : Held(k.harvest[i].expects, k.harvest[i].era, k.harvest[i].topic)

RowHeld(k) ==
  LET t == k.doc.subs[k.next].topic
  IN k.at = "sub_owner" => ReadIn(k.row, k.seen, contracts[t], era[t], notice[t])

SubsHeld ==
  \A n \in Names, t \in Topics : subs[n][t] # None => Held(subs[n][t].expects, subs[n][t].era, t)

CallsHeld == \A c \in Calls : calls[c] # Idle => HarvestHeld(calls[c]) /\ RowHeld(calls[c])

ServedInv == Inv /\ NoticeOK /\ SubsHeld /\ CallsHeld

\* What may happen to a topic in one step: nothing, a new era, or a compatible
\* change that forgets no notice.
Turn(t) ==
  \/ contracts'[t] = contracts[t] /\ era'[t] = era[t] /\ notice'[t] = notice[t]
  \/ era'[t] > era[t]
  \/ /\ contracts[t] # None /\ contracts'[t] # None /\ era'[t] = era[t]
     /\ CheckPayloadCompatible(contracts[t].payload, contracts'[t].payload)
     /\ notice[t] \subseteq notice'[t]

\* A compatible change keeps on serving whom the contract served.
LEMMA ServingGoesOn ==
  ASSUME NEW old, NEW new, NEW given, NEW more, NEW expects,
         Serves(old, given, expects), CheckPayloadCompatible(old, new),
         Deprecated(old) \subseteq given, given \subseteq more
  PROVE  Serves(new, more, expects)
<1> SUFFICES ASSUME NEW p \in DOMAIN expects \ (Deprecated(expects) \cup more)
             PROVE  p \in DOMAIN new /\ new[p].type = expects[p].type
  BY DEF Serves
<1>1. p \in DOMAIN old /\ old[p].type = expects[p].type
  BY DEF Serves
<1>2. p \notin Deprecated(old)
  OBVIOUS
<1> QED BY <1>1, <1>2 DEF CheckPayloadCompatible, FindSchemaMismatch

LEMMA HeldStays ==
  ASSUME Inv, TypeOK', NoticeOK, NEW t \in Topics, Turn(t), NEW expects, NEW x \in Nat \cup {None},
         Held(expects, x, t)
  PROVE  HeldIn(expects, x, contracts'[t], era'[t], notice'[t])
<1>1. era[t] \in Nat /\ era'[t] \in Nat
  BY DEF Inv, TypeOK
<1>2. CASE x = None
  BY <1>2 DEF HeldIn
<1>3. CASE x # None /\ contracts'[t] = contracts[t] /\ era'[t] = era[t] /\ notice'[t] = notice[t]
  BY <1>3 DEF Held, HeldIn
<1>4. CASE x # None /\ era'[t] > era[t]
  BY <1>1, <1>4 DEF Held, HeldIn
<1>5. CASE /\ x # None /\ contracts[t] # None /\ era'[t] = era[t]
           /\ CheckPayloadCompatible(contracts[t].payload, contracts'[t].payload)
           /\ notice[t] \subseteq notice'[t]
  <2>1. x <= era[t] /\ (x = era[t] => Serves(contracts[t].payload, notice[t], expects))
    BY <1>5 DEF Held, HeldIn
  <2>2. Deprecated(contracts[t].payload) \subseteq notice[t]
    BY <1>5 DEF NoticeOK
  <2>3. x = era[t] => Serves(contracts'[t].payload, notice'[t], expects)
    BY <1>5, <2>1, <2>2, ServingGoesOn
  <2> QED BY <1>5, <2>1, <2>3 DEF HeldIn
<1> QED BY <1>2, <1>3, <1>4, <1>5 DEF Turn

LEMMA RowStays ==
  ASSUME Inv, TypeOK', NoticeOK, NEW t \in Topics, Turn(t), NEW row, NEW x \in Nat,
         ReadIn(row, x, contracts[t], era[t], notice[t])
  PROVE  ReadIn(row, x, contracts'[t], era'[t], notice'[t])
<1>1. era[t] \in Nat /\ era'[t] \in Nat
  BY DEF Inv, TypeOK
<1>2. CASE contracts'[t] = contracts[t] /\ era'[t] = era[t] /\ notice'[t] = notice[t]
  BY <1>2 DEF ReadIn
<1>3. CASE era'[t] > era[t]
  BY <1>1, <1>3 DEF ReadIn
<1>4. CASE /\ contracts[t] # None /\ era'[t] = era[t]
           /\ CheckPayloadCompatible(contracts[t].payload, contracts'[t].payload)
           /\ notice[t] \subseteq notice'[t]
  <2>1. /\ x <= era[t]
        /\ row # None /\ x = era[t] =>
             Serves(contracts[t].payload, notice[t], row.payload) /\ Deprecated(row.payload) \subseteq notice[t]
    BY <1>4 DEF ReadIn
  <2>2. Deprecated(contracts[t].payload) \subseteq notice[t]
    BY <1>4 DEF NoticeOK
  <2>3. row # None /\ x = era[t] => Serves(contracts'[t].payload, notice'[t], row.payload)
    BY <1>4, <2>1, <2>2, ServingGoesOn
  <2> QED BY <1>4, <2>1, <2>3 DEF ReadIn
<1> QED BY <1>2, <1>3, <1>4 DEF Turn

LEMMA ApplyTurns ==
  ASSUME Inv, NEW c \in Calls, Apply(c), NEW t \in Topics
  PROVE  /\ Turn(t)
         /\ \/ contracts'[t] = contracts[t] /\ notice'[t] = notice[t]
            \/ contracts'[t] # None => Deprecated(contracts'[t].payload) \subseteq notice'[t]
<1> DEFINE k    == calls[c]
           op   == Head(k.ops)
           same == op.read = contracts[op.topic]
           kept == /\ same /\ op.payload # None /\ contracts[op.topic] # None
                   /\ contracts[op.topic].owner = k.id
<1>1. k \in InFlight /\ Rooted(k) /\ k.ops # <<>>
  BY InFlightWhen DEF Apply
<1>2. op = k.ops[1] /\ 1 \in 1 .. Len(k.ops) /\ op \in Op
  <2> HIDE DEF k
  <2> QED BY <1>1, Popping
<1>3. era[t] \in Nat /\ contracts \in [Topics -> Row \cup {None}] /\ era \in [Topics -> Nat] /\ DOMAIN notice = Topics
  BY DEF Inv, TypeOK
<1>4. CASE t # op.topic
  <2>1. contracts'[t] = contracts[t] /\ era'[t] = era[t] /\ notice'[t] = notice[t]
    BY <1>3, <1>4 DEF Apply
  <2> QED BY <2>1 DEF Turn
<1>5. CASE t = op.topic
  <2>1. contracts'[t] = IF op.payload = None THEN None ELSE [owner |-> k.id, payload |-> op.payload]
    BY <1>3, <1>5 DEF Apply
  <2>2. notice'[t] = (IF kept THEN notice[t] ELSE {}) \cup (IF op.payload = None THEN {} ELSE Deprecated(op.payload))
    BY <1>3, <1>5 DEF Apply
  <2>3. era'[t] = IF kept THEN era[t] ELSE era[t] + 1
    BY <1>3, <1>5 DEF Apply
  <2>4. contracts'[t] # None => Deprecated(contracts'[t].payload) \subseteq notice'[t]
    <3> HIDE DEF op, k, kept
    <3> QED BY <2>1, <2>2
  <2>5. CASE ~kept
    <3> HIDE DEF kept
    <3>1. era'[t] > era[t]
      BY <1>3, <2>3, <2>5
    <3> QED BY <2>4, <3>1 DEF Turn
  <2>6. CASE kept
    <3>1. contracts[t].owner \in Live
      BY <1>5, <2>6 DEF Inv, TypeOK
    <3>2. CheckPayloadCompatible(contracts[t].payload, op.payload)
      BY <1>1, <1>2, <1>5, <2>6, <3>1 DEF Rooted, RootedIn
    <3>3. op.payload # None /\ contracts[t] # None
      BY <1>5, <2>6
    <3>4. contracts'[t].payload = op.payload /\ contracts'[t] # None /\ era'[t] = era[t] /\ notice[t] \subseteq notice'[t]
      <4>1. [owner |-> k.id, payload |-> op.payload] \in Row
        BY <1>1, <1>2, <3>3 DEF Row, InFlight, Op
      <4> HIDE DEF op, k, kept
      <4> QED BY <2>1, <2>2, <2>3, <2>6, <3>3, <4>1, ChannelAssumption
    <3> HIDE DEF op, k, kept
    <3> QED BY <2>4, <3>2, <3>3, <3>4 DEF Turn
  <2> QED BY <2>5, <2>6
<1> QED BY <1>4, <1>5

LEMMA TopicsTurn ==
  ASSUME Inv, NoticeOK, [Next]_vars
  PROVE  NoticeOK' /\ \A t \in Topics : Turn(t)
<1>1. ASSUME NEW c \in Calls, Apply(c) PROVE NoticeOK' /\ \A t \in Topics : Turn(t)
  BY <1>1, ApplyTurns DEF NoticeOK
<1>2. ASSUME NEW n \in Names, DeleteProducer(n) PROVE NoticeOK' /\ \A t \in Topics : Turn(t)
  <2>1. \A t \in Topics : \/ contracts'[t] = None /\ era'[t] = era[t] + 1
                          \/ contracts'[t] = contracts[t] /\ era'[t] = era[t]
    BY <1>2 DEF DeleteProducer
  <2>2. notice' = notice /\ era \in [Topics -> Nat]
    BY <1>2 DEF DeleteProducer, Inv, TypeOK
  <2>3. NoticeOK'
    BY <2>1, <2>2 DEF NoticeOK
  <2>4. \A t \in Topics : Turn(t)
    BY <2>1, <2>2 DEF Turn
  <2> QED BY <2>3, <2>4
<1>3. CASE /\ ~ \E c \in Calls : Apply(c)
           /\ ~ \E n \in Names : DeleteProducer(n)
  <2>1. UNCHANGED <<contracts, era, notice, stale>>
    BY <1>3, ContractsKept
  <2> QED BY <2>1 DEF NoticeOK, Turn
<1> QED BY <1>1, <1>2, <1>3

\* A call that goes on without touching what it carries of subscriptions.
Carries(k, x) ==
  /\ x.harvest = k.harvest
  /\ x.at = "sub_owner" => /\ k.at = "sub_owner" /\ x.doc = k.doc /\ x.next = k.next
                           /\ x.row = k.row /\ x.seen = k.seen

Fresh(x) == x.harvest = <<>> /\ x.at # "sub_owner"

Goes(d) ==
  \/ calls'[d] = Idle
  \/ calls[d] # Idle /\ Carries(calls[d], calls'[d])
  \/ Fresh(calls'[d])
  \/ ReadSub(d) \/ ReadSubOwner(d)

LEMMA OthersGo ==
  ASSUME Inv, NEW c \in Calls, NEW x, calls' = [calls EXCEPT ![c] = x], NEW d \in Calls, d # c
  PROVE  Goes(d)
  BY DEF Inv, TypeOK, Goes, Carries

LEMMA DisturbedGoes ==
  ASSUME Inv, NEW d \in Calls,
         calls'[d] = IF calls[d] = Idle THEN Idle ELSE [calls[d] EXCEPT !.quiet = FALSE]
  PROVE  Goes(d)
<1>1. CASE calls[d] = Idle
  BY <1>1 DEF Goes
<1>2. CASE calls[d] # Idle
  <2>1. calls[d] \in InFlight
    BY <1>2 DEF Inv, TypeOK
  <2>2. Carries(calls[d], [calls[d] EXCEPT !.quiet = FALSE])
    BY <2>1 DEF Carries, InFlight
  <2> QED BY <1>2, <2>2 DEF Goes
<1> QED BY <1>1, <1>2

LEMMA StepGoes ==
  ASSUME Inv, NEW c \in Calls, Step(c), NEW d \in Calls
  PROVE  Goes(d)
<1> DEFINE k == calls[c]
<1>1. CASE ReadSub(c) \/ ReadSubOwner(c)
  <2>1. CASE d = c
    BY <1>1, <2>1 DEF Goes
  <2>2. CASE d # c /\ ReadSub(c)
    <3> DEFINE t == k.doc.subs[k.next].topic
    <3>1. calls' = [calls EXCEPT ![c] =
            [k EXCEPT !.at = "sub_owner", !.row = contracts[t], !.seen = era[t]]]
      BY <2>2 DEF ReadSub, Inv, TypeOK
    <3> QED BY <2>2, <3>1, OthersGo
  <2>3. CASE d # c /\ ReadSubOwner(c)
    BY <2>3, OthersGo DEF ReadSubOwner
  <2> QED BY <1>1, <2>1, <2>2, <2>3
<1>2. CASE ApplyRefused(c) \/ Reconcile(c) \/ End(c)
  <2>1. calls' = [calls EXCEPT ![c] = Idle]
    BY <1>2 DEF ApplyRefused, Reconcile, End
  <2>2. CASE d = c
    BY <2>1, <2>2 DEF Goes, Inv, TypeOK
  <2> QED BY <2>1, <2>2, OthersGo
<1>3. CASE Apply(c)
  <2>1. calls' = Disturbing(c, [k EXCEPT !.ops = Tail(@)])
    BY <1>3 DEF Apply
  <2>2. CASE d = c
    <3>1. k \in InFlight /\ k # Idle /\ k.at = "apply"
      BY <1>3, InFlightWhen DEF Apply
    <3>2. calls'[d] = [k EXCEPT !.ops = Tail(@)]
      BY <2>1, <2>2 DEF Disturbing
    <3>3. Carries(k, [k EXCEPT !.ops = Tail(@)])
      <4> HIDE DEF k
      <4> QED BY <3>1 DEF Carries, InFlight
    <3> QED BY <2>2, <3>1, <3>2, <3>3 DEF Goes
  <2>3. CASE d # c
    BY <2>1, <2>3, DisturbedGoes DEF Disturbing
  <2> QED BY <2>2, <2>3
<1>4. ASSUME NEW x, calls' = [calls EXCEPT ![c] = x], k # Idle, Carries(k, x) \/ x = Idle
      PROVE  Goes(d)
  <2>1. CASE d = c
    BY <1>4, <2>1 DEF Goes, Inv, TypeOK
  <2> QED BY <1>4, <2>1, OthersGo
<1>5. CASE Decide(c)
  <2>1. k \in InFlight /\ k # Idle
    BY <1>5, InFlightWhen DEF Decide
  <2>2. calls' = [calls EXCEPT ![c] = [k EXCEPT !.next = 1, !.at = AfterHarvest(k)]]
    BY <1>5 DEF Decide, Inv, TypeOK
  <2>3. Carries(k, [k EXCEPT !.next = 1, !.at = AfterHarvest(k)])
    <3>1. AfterHarvest(k) # "sub_owner"
      BY DEF AfterHarvest
    <3> HIDE DEF k
    <3> QED BY <2>1, <3>1 DEF Carries, InFlight
  <2> QED BY <1>4, <2>1, <2>2, <2>3
<1>6. CASE ReadPub(c)
  <2> DEFINE m == k.doc.pubs[k.next]
             y == [k EXCEPT !.at = "pub_owner", !.row = contracts[m.topic]]
             z == [k EXCEPT !.next = @ + 1, !.ops = Append(@, UpsertOf(m, None))]
  <2>1. k \in InFlight /\ k # Idle /\ k.at = "pub"
    BY <1>6, InFlightWhen DEF ReadPub
  <2>2. calls' = [calls EXCEPT ![c] = y] \/ calls' = [calls EXCEPT ![c] = z]
    BY <1>6 DEF ReadPub
  <2>3. Carries(k, y) /\ Carries(k, z)
    <3> HIDE DEF k, m
    <3> QED BY <2>1 DEF Carries, InFlight
  <2> HIDE DEF y, z
  <2> QED BY <1>4, <2>1, <2>2, <2>3
<1>7. CASE ReadPubOwner(c)
  <2> DEFINE m    == k.doc.pubs[k.next]
             done == [k EXCEPT !.at = "pub", !.next = @ + 1, !.row = None]
             up   == [done EXCEPT !.ops = Append(@, UpsertOf(m, k.row))]
             x    == Planned(k, m)
  <2>1. k \in InFlight /\ k # Idle /\ k.at = "pub_owner"
    BY <1>7, InFlightWhen DEF ReadPubOwner
  <2>2. calls' = [calls EXCEPT ![c] = x]
    BY <1>7 DEF ReadPubOwner, Inv, TypeOK
  <2>3. x = Idle \/ x = done \/ x = up
    <3>1. CASE k.row.owner \notin Live
      BY <3>1 DEF Planned
    <3>2. CASE k.row.owner \in Live /\ k.row.owner = k.id
      BY <3>2 DEF Planned
    <3>3. CASE k.row.owner \in Live /\ k.row.owner # k.id
      BY <3>3 DEF Planned
    <3> QED BY <3>1, <3>2, <3>3
  <2>4. Carries(k, done) /\ Carries(k, up)
    <3> HIDE DEF k, m
    <3> QED BY <2>1 DEF Carries, InFlight
  <2> HIDE DEF x, up, done
  <2> QED BY <1>4, <2>1, <2>2, <2>3, <2>4
<1>8. CASE ListOwned(c)
  <2> DEFINE y == [k EXCEPT !.at = "commit", !.ops = @ \o Dropped(k)]
  <2>1. k \in InFlight /\ k # Idle
    BY <1>8, InFlightWhen DEF ListOwned
  <2>2. calls' = [calls EXCEPT ![c] = y]
    BY <1>8 DEF ListOwned
  <2>3. Carries(k, y)
    <3> HIDE DEF k
    <3> QED BY <2>1 DEF Carries, InFlight
  <2> HIDE DEF y
  <2> QED BY <1>4, <2>1, <2>2, <2>3
<1>9. CASE Commit(c) \/ Applied(c)
  <2>1. k \in InFlight /\ k # Idle
    BY <1>9, InFlightWhen DEF Commit, Applied
  <2>2. \/ calls' = [calls EXCEPT ![c] = Idle]
        \/ calls' = [calls EXCEPT ![c] = [k EXCEPT !.at = "apply"]]
        \/ calls' = [calls EXCEPT ![c] = [k EXCEPT !.at = "harvest"]]
    BY <1>9 DEF Commit, Applied, Goto, Inv, TypeOK
  <2>3. Carries(k, [k EXCEPT !.at = "apply"]) /\ Carries(k, [k EXCEPT !.at = "harvest"])
    <3> HIDE DEF k
    <3> QED BY <2>1 DEF Carries, InFlight
  <2> QED BY <1>4, <2>1, <2>2, <2>3
<1> QED BY <1>1, <1>2, <1>3, <1>5, <1>6, <1>7, <1>8, <1>9 DEF Step

LEMMA NextGoes ==
  ASSUME Inv, [Next]_vars, NEW d \in Calls
  PROVE  Goes(d)
<1>1. ASSUME NEW c \in Calls, NEW x, calls' = [calls EXCEPT ![c] = x], Fresh(x)
      PROVE  Goes(d)
  <2>1. CASE d = c
    BY <1>1, <2>1 DEF Goes, Inv, TypeOK
  <2> QED BY <1>1, <2>1, OthersGo
<1>2. ASSUME NEW c \in Calls, NEW n \in Names, NEW e \in Docs, NEW ga \in BOOLEAN,
             Provide(c, n, e, ga)
      PROVE  Goes(d)
  <2> DEFINE id == IF ids[n] = None THEN lastId + 1 ELSE ids[n]
             x  == [at |-> "sub", name |-> n, id |-> id, doc |-> e, ga |-> ga, next |-> 1,
                    row |-> None, seen |-> 0, same |-> ids[n] # None /\ e \in released[id],
                    harvest |-> <<>>, ops |-> <<>>, quiet |-> TRUE]
  <2>1. calls' = [calls EXCEPT ![c] = x]
    BY <1>2 DEF Provide
  <2>2. Fresh(x)
    BY DEF Fresh
  <2> HIDE DEF x
  <2> QED BY <1>1, <2>1, <2>2
<1>3. ASSUME NEW c \in Calls, NEW n \in Names, Retire(c, n)
      PROVE  Goes(d)
  <2> DEFINE x == [at |-> "apply", name |-> n, id |-> ids[n], doc |-> None, ga |-> FALSE, next |-> 1,
                   row |-> None, seen |-> 0, same |-> FALSE, harvest |-> <<>>,
                   ops |-> DeletionsOf(OwnedBy(ids[n])), quiet |-> TRUE]
  <2>1. calls' = [calls EXCEPT ![c] = x]
    BY <1>3 DEF Retire, DeletionsOf
  <2>2. Fresh(x)
    BY DEF Fresh
  <2> HIDE DEF x
  <2> QED BY <1>1, <2>1, <2>2
<1>4. ASSUME NEW n \in Names, DeleteProducer(n)
      PROVE  Goes(d)
  BY <1>4, DisturbedGoes DEF DeleteProducer
<1>5. ASSUME calls' = calls PROVE Goes(d)
  BY <1>5 DEF Goes, Carries
<1> QED BY <1>2, <1>3, <1>4, <1>5, StepGoes DEF Next, DeleteConsumer, vars

\* What a call carries on is held after the step too.
LEMMA CarriedIsHeld ==
  ASSUME Inv, TypeOK', NoticeOK, \A t \in Topics : Turn(t),
         NEW k \in InFlight, WellFormed(k), HarvestHeld(k), RowHeld(k), NEW x, Carries(k, x)
  PROVE  /\ \A i \in 1 .. Len(x.harvest) :
              LET h == x.harvest[i]
              IN HeldIn(h.expects, h.era, contracts'[h.topic], era'[h.topic], notice'[h.topic])
         /\ LET t == x.doc.subs[x.next].topic
            IN x.at = "sub_owner" => ReadIn(x.row, x.seen, contracts'[t], era'[t], notice'[t])
<1>1. ASSUME NEW i \in 1 .. Len(x.harvest)
      PROVE  LET h == x.harvest[i]
             IN HeldIn(h.expects, h.era, contracts'[h.topic], era'[h.topic], notice'[h.topic])
  <2> DEFINE h == k.harvest[i]
  <2>1. x.harvest = k.harvest
    BY DEF Carries
  <2>2. h \in Harvested /\ Held(h.expects, h.era, h.topic)
    BY <1>1, <2>1 DEF InFlight, HarvestHeld
  <2>3. h.topic \in Topics /\ h.era \in Nat \cup {None}
    BY <2>2 DEF Harvested
  <2>4. HeldIn(h.expects, h.era, contracts'[h.topic], era'[h.topic], notice'[h.topic])
    BY <2>2, <2>3, HeldStays
  <2> QED BY <2>1, <2>4
<1>2. ASSUME x.at = "sub_owner"
      PROVE  LET t == x.doc.subs[x.next].topic
             IN ReadIn(x.row, x.seen, contracts'[t], era'[t], notice'[t])
  <2> DEFINE t == k.doc.subs[k.next].topic
  <2>1. x.doc = k.doc /\ x.next = k.next /\ x.row = k.row /\ x.seen = k.seen /\ k.at = "sub_owner"
    BY <1>2 DEF Carries
  <2>2. ReadIn(k.row, k.seen, contracts[t], era[t], notice[t])
    BY <2>1 DEF RowHeld
  <2>3. k.doc \in Docs /\ k.next \in 1 .. Len(k.doc.subs)
    BY <2>1 DEF WellFormed, InFlight
  <2>4. t \in Topics
    BY <2>3, MessagesTyped DEF Message
  <2>5. k.seen \in Nat
    BY DEF InFlight
  <2>6. ReadIn(k.row, k.seen, contracts'[t], era'[t], notice'[t])
    <3> HIDE DEF t
    <3> QED BY <2>2, <2>4, <2>5, RowStays
  <2> QED BY <2>1, <2>6
<1> QED BY <1>1, <1>2

\* The row just read serves itself.
LEMMA RowReadIsHeld ==
  ASSUME Inv, NoticeOK, NEW c \in Calls, ReadSub(c), HarvestHeld(calls[c])
  PROVE  HarvestHeld(calls[c])' /\ RowHeld(calls[c])'
<1> DEFINE k == calls[c]
           t == k.doc.subs[k.next].topic
           x == [k EXCEPT !.at = "sub_owner", !.row = contracts[t], !.seen = era[t]]
<1>1. k \in InFlight /\ WellFormed(k) /\ k.at = "sub"
  BY InFlightWhen DEF ReadSub
<1>2. calls'[c] = x /\ UNCHANGED <<contracts, era, notice>>
  BY DEF ReadSub, Reads, Inv, TypeOK
<1>3. k.doc \in Docs /\ k.next \in 1 .. Len(k.doc.subs)
  <2>1. k.next <= Len(k.doc.subs)
    BY DEF ReadSub
  <2> HIDE DEF k
  <2>2. k.doc \in Docs /\ k.next \in Nat /\ k.next >= 1
    BY <1>1 DEF WellFormed, InFlight
  <2>3. Len(k.doc.subs) \in Nat
    BY <2>2, MessagesTyped
  <2> QED BY <2>1, <2>2, <2>3
<1>4. t \in Topics
  BY <1>3, MessagesTyped DEF Message
<1>5. /\ x.harvest = k.harvest /\ x.row = contracts[t] /\ x.seen = era[t]
      /\ x.doc = k.doc /\ x.next = k.next
  <2> HIDE DEF k, t
  <2> QED BY <1>1 DEF InFlight
<1>6. ReadIn(contracts[t], era[t], contracts[t], era[t], notice[t])
  <2>1. era[t] \in Nat
    BY <1>4 DEF Inv, TypeOK
  <2>2. contracts[t] # None => Deprecated(contracts[t].payload) \subseteq notice[t]
    BY <1>4 DEF NoticeOK
  <2>3. \A payload, given : Serves(payload, given, payload)
    BY DEF Serves
  <2> HIDE DEF t
  <2> QED BY <2>1, <2>2, <2>3 DEF ReadIn
<1>7. HarvestHeld(calls[c])'
  <2> HIDE DEF x, k
  <2>1. calls'[c].harvest = calls[c].harvest
    BY <1>2, <1>5 DEF k
  <2> QED BY <1>2, <2>1 DEF HarvestHeld, Held
<1>8. RowHeld(calls[c])'
  <2>1. /\ calls'[c].row = contracts[t] /\ calls'[c].seen = era[t]
        /\ calls'[c].doc = k.doc /\ calls'[c].next = k.next
    <3> HIDE DEF x, k, t
    <3> QED BY <1>2, <1>5
  <2>2. calls'[c].doc.subs[calls'[c].next].topic = t
    BY <2>1
  <2> HIDE DEF x, k, t
  <2> QED BY <1>2, <1>6, <2>1, <2>2 DEF RowHeld
<1> QED BY <1>7, <1>8

\* An expectation met by a row is met by what the row has become.
LEMMA MetIsServed ==
  ASSUME NEW payload, NEW given, NEW read, NEW expects,
         CheckExpectationSatisfied(read, expects),
         Serves(payload, given, read), Deprecated(read) \subseteq given
  PROVE  Serves(payload, given, expects)
<1> SUFFICES ASSUME NEW p \in DOMAIN expects \ (Deprecated(expects) \cup given)
             PROVE  p \in DOMAIN payload /\ payload[p].type = expects[p].type
  BY DEF Serves
<1>1. p \in DOMAIN read /\ read[p].type = expects[p].type
  BY DEF CheckExpectationSatisfied, FindSchemaMismatch
<1>2. p \notin Deprecated(read)
  OBVIOUS
<1> QED BY <1>1, <1>2 DEF Serves

LEMMA ComparedIsHeld ==
  ASSUME Inv, NEW c \in Calls, ReadSubOwner(c), HarvestHeld(calls[c]), RowHeld(calls[c]),
         calls'[c] # Idle
  PROVE  HarvestHeld(calls[c])' /\ RowHeld(calls[c])'
<1> DEFINE k     == calls[c]
           sub   == k.doc.subs[k.next]
           t     == sub.topic
           owner == IF k.row # None /\ k.row.owner \in Live THEN k.row.owner ELSE None
           met   == k.row # None => CheckExpectationSatisfied(k.row.payload, sub.payload)
           e     == IF met /\ k.row # None THEN k.seen ELSE None
           h     == [topic |-> sub.topic, owner |-> owner, expects |-> sub.payload, era |-> e]
           go    == [k EXCEPT !.at = "sub", !.next = @ + 1, !.row = None, !.seen = 0,
                              !.harvest = Append(@, h)]
<1>1. k \in InFlight /\ WellFormed(k) /\ k.at = "sub_owner"
  BY InFlightWhen DEF ReadSubOwner
<1>2. calls'[c] = go /\ UNCHANGED <<contracts, era, notice>>
  <2>1. calls' = [calls EXCEPT ![c] = IF k.ga /\ ~met THEN Idle ELSE go] /\ UNCHANGED <<contracts, era, notice>>
    BY DEF ReadSubOwner, Reads
  <2> HIDE DEF k, met, go
  <2> QED BY <2>1 DEF Inv, TypeOK
<1>3. ReadIn(k.row, k.seen, contracts[t], era[t], notice[t])
  <2>1. RowHeld(k)
    OBVIOUS
  <2> HIDE DEF k
  <2>2. k.at = "sub_owner"
    BY <1>1
  <2> QED BY <2>1, <2>2, Zenon DEF RowHeld, t, sub
<1>4. Held(sub.payload, e, t)
  <2>1. CASE ~(met /\ k.row # None)
    <3>1. e = None
      BY <2>1
    <3> QED BY <3>1 DEF Held, HeldIn
  <2>2. CASE met /\ k.row # None
    <3>1. e = k.seen /\ CheckExpectationSatisfied(k.row.payload, sub.payload)
      BY <2>2
    <3>2. k.seen <= era[t]
      <4> HIDE DEF k, t
      <4> QED BY <1>3 DEF ReadIn
    <3>3. k.seen = era[t] /\ contracts[t] # None => Serves(contracts[t].payload, notice[t], sub.payload)
      <4> HIDE DEF k, sub, t
      <4> QED BY <1>3, <2>2, <3>1, MetIsServed DEF ReadIn
    <3> HIDE DEF k, sub, t, e
    <3> QED BY <3>1, <3>2, <3>3 DEF Held, HeldIn
  <2> QED BY <2>1, <2>2
<1>5. h \in [topic: {t}, owner: {owner}, expects: {sub.payload}, era: {e}]
  <2> HIDE DEF t, sub, owner, e
  <2> QED BY DEF t
<1>6. k.harvest \in Seq(Harvested) /\ go.harvest = Append(k.harvest, h) /\ go.at = "sub"
  <2> HIDE DEF k, h
  <2> QED BY <1>1 DEF InFlight
<1>7. ASSUME NEW i \in 1 .. Len(go.harvest)
      PROVE  Held(go.harvest[i].expects, go.harvest[i].era, go.harvest[i].topic)
  <2>1. \/ i \in 1 .. Len(k.harvest) /\ go.harvest[i] = k.harvest[i]
        \/ go.harvest[i] = h
    <3> DEFINE s == k.harvest
    <3> HIDE DEF h, go, k
    <3>1. s \in Seq(Harvested) /\ go.harvest = Append(s, h)
      BY <1>6
    <3> HIDE DEF s, h, go
    <3>2. \/ i \in 1 .. Len(s) /\ go.harvest[i] = s[i]
          \/ go.harvest[i] = h
      BY <1>7, <3>1
    <3> QED BY <3>2 DEF s
  <2>2. h.expects = sub.payload /\ h.era = e /\ h.topic = t
    BY <1>5
  <2> HIDE DEF h, go, e, t, sub
  <2>3. CASE go.harvest[i] = h
    BY <1>4, <2>2, <2>3
  <2>4. CASE i \in 1 .. Len(k.harvest) /\ go.harvest[i] = k.harvest[i]
    BY <2>4 DEF HarvestHeld
  <2> QED BY <2>1, <2>3, <2>4
<1> HIDE DEF go
<1>8. HarvestHeld(calls[c])'
  BY <1>2, <1>7 DEF HarvestHeld, Held
<1>9. RowHeld(calls[c])'
  BY <1>2, <1>6 DEF RowHeld
<1> QED BY <1>8, <1>9

LEMMA CallsStayHeld ==
  ASSUME ServedInv, Inv', [Next]_vars
  PROVE  CallsHeld'
<1> SUFFICES ASSUME NEW d \in Calls, calls'[d] # Idle
             PROVE  HarvestHeld(calls[d])' /\ RowHeld(calls[d])'
  BY DEF CallsHeld
<1>1. TypeOK' /\ \A t \in Topics : Turn(t)
  BY TopicsTurn DEF ServedInv, Inv
<1>2. CASE calls[d] # Idle /\ Carries(calls[d], calls'[d])
  <2>1. /\ calls[d] \in InFlight /\ WellFormed(calls[d])
        /\ HarvestHeld(calls[d]) /\ RowHeld(calls[d])
    BY <1>2 DEF ServedInv, Inv, TypeOK, CallsOK, CallsHeld
  <2>2. /\ \A i \in 1 .. Len(calls'[d].harvest) :
             LET h == calls'[d].harvest[i]
             IN HeldIn(h.expects, h.era, contracts'[h.topic], era'[h.topic], notice'[h.topic])
        /\ LET t == calls'[d].doc.subs[calls'[d].next].topic
           IN calls'[d].at = "sub_owner" =>
                ReadIn(calls'[d].row, calls'[d].seen, contracts'[t], era'[t], notice'[t])
    BY <1>1, <1>2, <2>1, CarriedIsHeld DEF ServedInv
  <2> QED BY <2>2 DEF HarvestHeld, RowHeld, Held
<1>3. CASE Fresh(calls'[d])
  BY <1>3 DEF Fresh, HarvestHeld, RowHeld
<1>4. CASE ReadSub(d)
  <2>1. calls[d] # Idle
    BY <1>4, InFlightWhen DEF ReadSub, ServedInv
  <2> QED BY <1>4, <2>1, RowReadIsHeld DEF ServedInv, CallsHeld
<1>5. CASE ReadSubOwner(d)
  <2>1. calls[d] # Idle
    BY <1>5, InFlightWhen DEF ReadSubOwner, ServedInv
  <2> QED BY <1>5, <2>1, ComparedIsHeld DEF ServedInv, CallsHeld
<1> QED BY <1>2, <1>3, <1>4, <1>5, NextGoes DEF ServedInv, Goes

\* Subscriptions are kept, lose their owner, are deleted, or come from the
\* harvest of a call.
LEMMA SubsFrom ==
  ASSUME Inv, [Next]_vars, NEW n \in Names, NEW t \in Topics, subs'[n][t] # None
  PROVE  \/ /\ subs[n][t] # None
            /\ subs'[n][t].expects = subs[n][t].expects /\ subs'[n][t].era = subs[n][t].era
         \/ \E c \in Calls : /\ calls[c] # Idle
                             /\ UNCHANGED <<contracts, era, notice>>
                             /\ \E i \in 1 .. Len(calls[c].harvest) :
                                  LET h == calls[c].harvest[i]
                                  IN h.topic = t /\ subs'[n][t].expects = h.expects /\ subs'[n][t].era = h.era
<1>1. CASE subs' = subs
  BY <1>1
<1>2. ASSUME NEW c \in Calls, Reconcile(c), subs' # subs
      PROVE  \/ /\ subs[n][t] # None
                /\ subs'[n][t].expects = subs[n][t].expects /\ subs'[n][t].era = subs[n][t].era
             \/ /\ calls[c] # Idle /\ UNCHANGED <<contracts, era, notice>>
                /\ \E i \in 1 .. Len(calls[c].harvest) :
                     LET h == calls[c].harvest[i]
                     IN h.topic = t /\ subs'[n][t].expects = h.expects /\ subs'[n][t].era = h.era
  <2> DEFINE k == calls[c]
             row(u) == Recorded(k.harvest, u)
  <2>1. /\ k \in InFlight /\ k # Idle /\ UNCHANGED <<contracts, era, notice>>
    BY <1>2, InFlightWhen DEF Reconcile
  <2>2. subs' = [subs EXCEPT ![k.name] = [u \in Topics |-> row(u)]]
    BY <1>2 DEF Reconcile
  <2>3. CASE n # k.name
    <3>1. subs'[n] = subs[n]
      <4> HIDE DEF row
      <4> QED BY <2>2, <2>3 DEF Inv, TypeOK
    <3> QED BY <3>1
  <2>4. CASE n = k.name
    <3>1. subs'[n][t] = row(t)
      <4> HIDE DEF row
      <4> QED BY <2>2, <2>4 DEF Inv, TypeOK
    <3>2. row(t) # None /\ k.harvest \in Seq(Harvested)
      BY <2>1, <3>1 DEF InFlight
    <3>3. PICK i \in 1 .. Len(k.harvest) :
            /\ k.harvest[i].topic = t
            /\ row(t) = [owner |-> k.harvest[i].owner, expects |-> k.harvest[i].expects,
                         era |-> k.harvest[i].era]
      BY <3>2, RecordedEntry
    <3> HIDE DEF row
    <3>4. subs'[n][t].expects = k.harvest[i].expects /\ subs'[n][t].era = k.harvest[i].era
      BY <3>1, <3>3
    <3> QED BY <2>1, <3>3, <3>4
  <2> QED BY <2>3, <2>4
<1>3. ASSUME NEW m \in Names, DeleteProducer(m)
      PROVE  /\ subs[n][t] # None
             /\ subs'[n][t].expects = subs[n][t].expects /\ subs'[n][t].era = subs[n][t].era
  <2>1. subs'[n][t] = IF subs[n][t] # None /\ subs[n][t].owner = ids[m]
                      THEN [subs[n][t] EXCEPT !.owner = None] ELSE subs[n][t]
    BY <1>3 DEF DeleteProducer
  <2>2. subs[n][t] \in Subscription \cup {None}
    BY DEF Inv, TypeOK
  <2>3. subs[n][t] # None
    BY <2>1
  <2> DEFINE r == subs[n][t]
  <2>4. r \in Subscription
    BY <2>2, <2>3
  <2>5. subs'[n][t] = r \/ subs'[n][t] = [r EXCEPT !.owner = None]
    BY <2>1
  <2> HIDE DEF r
  <2>6. [r EXCEPT !.owner = None].expects = r.expects /\ [r EXCEPT !.owner = None].era = r.era
    BY <2>4 DEF Subscription
  <2> QED BY <2>3, <2>5, <2>6 DEF r
<1>4. ASSUME NEW m \in Names, DeleteConsumer(m)
      PROVE  subs'[n][t] = subs[n][t]
  BY <1>4 DEF DeleteConsumer, Inv, TypeOK
<1>5. \/ subs' = subs \/ \E c \in Calls : Reconcile(c)
      \/ \E m \in Names : DeleteProducer(m) \/ DeleteConsumer(m)
  <2>1. ASSUME NEW c \in Calls, Step(c) PROVE subs' = subs \/ Reconcile(c)
    <3>1. CASE ReadSub(c) \/ ReadSubOwner(c) \/ Decide(c) \/ ReadPub(c) \/ ReadPubOwner(c)
      BY <3>1, Zenon DEF ReadSub, ReadSubOwner, Decide, ReadPub, ReadPubOwner, Reads
    <3>2. CASE ListOwned(c) \/ ApplyRefused(c) \/ Applied(c) \/ End(c)
      BY <3>2, Zenon DEF ListOwned, ApplyRefused, Applied, End, Reads
    <3>3. CASE Commit(c) \/ Apply(c)
      BY <3>3, Zenon DEF Commit, Apply
    <3> QED BY <2>1, <3>1, <3>2, <3>3 DEF Step
  <2> QED BY <2>1 DEF Next, Provide, Retire, vars
<1> QED BY <1>1, <1>2, <1>3, <1>4, <1>5

LEMMA SubsStayHeld ==
  ASSUME ServedInv, Inv', [Next]_vars
  PROVE  SubsHeld'
<1> SUFFICES ASSUME NEW n \in Names, NEW t \in Topics, subs'[n][t] # None
             PROVE  HeldIn(subs'[n][t].expects, subs'[n][t].era, contracts'[t], era'[t], notice'[t])
  BY DEF SubsHeld, Held
<1>1. TypeOK' /\ Turn(t) /\ Inv /\ NoticeOK
  BY TopicsTurn DEF ServedInv, Inv
<1>2. CASE /\ subs[n][t] # None
           /\ subs'[n][t].expects = subs[n][t].expects /\ subs'[n][t].era = subs[n][t].era
  <2>1. Held(subs[n][t].expects, subs[n][t].era, t)
    BY <1>2 DEF ServedInv, SubsHeld
  <2>2. subs[n][t].era \in Nat \cup {None}
    BY <1>1, <1>2 DEF Inv, TypeOK, Subscription
  <2>3. HeldIn(subs[n][t].expects, subs[n][t].era, contracts'[t], era'[t], notice'[t])
    BY <1>1, <2>1, <2>2, HeldStays
  <2> QED BY <1>2, <2>3
<1>3. ASSUME NEW c \in Calls, calls[c] # Idle, UNCHANGED <<contracts, era, notice>>,
             NEW i \in 1 .. Len(calls[c].harvest), calls[c].harvest[i].topic = t,
             subs'[n][t].expects = calls[c].harvest[i].expects, subs'[n][t].era = calls[c].harvest[i].era
      PROVE  HeldIn(subs'[n][t].expects, subs'[n][t].era, contracts'[t], era'[t], notice'[t])
  BY <1>3 DEF ServedInv, CallsHeld, HarvestHeld, Held
<1> QED BY <1>1, <1>2, <1>3, SubsFrom

\* A subscription let in against a contract stays served by it, however the
\* reads, releases and records of the calls interleave: only what was carried
\* as deprecated before may be taken away.
THEOREM SubscribersAreServed == Spec => []SubscribersStayServed
<1>1. Init => ServedInv
  <2>1. Init => NoticeOK /\ SubsHeld /\ CallsHeld
    BY DEF Init, NoticeOK, SubsHeld, CallsHeld
  <2> QED BY <2>1, InitInv DEF ServedInv
<1>2. ServedInv /\ [Next]_vars => ServedInv'
  <2> SUFFICES ASSUME ServedInv, [Next]_vars PROVE ServedInv'
    OBVIOUS
  <2>1. Inv'
    BY NextInv DEF ServedInv
  <2>2. NoticeOK'
    BY TopicsTurn DEF ServedInv
  <2> QED BY <2>1, <2>2, CallsStayHeld, SubsStayHeld DEF ServedInv
<1>3. ServedInv => SubscribersStayServed
  <2> SUFFICES ASSUME ServedInv, NEW n \in Names, NEW t \in Topics, subs[n][t] # None,
                      contracts[t] # None, subs[n][t].era = era[t]
               PROVE  Serves(contracts[t].payload, notice[t], subs[n][t].expects)
    BY DEF SubscribersStayServed, Serves
  <2>1. era[t] # None
    BY ChannelAssumption DEF ServedInv, Inv, TypeOK
  <2> QED BY <2>1 DEF ServedInv, SubsHeld, Held, HeldIn
<1> QED BY <1>1, <1>2, <1>3, PTL DEF Spec

-----------------------------------------------------------------------------
(* A release nobody came between knows how its plan stands to the          *)
(* contracts: each message it has been through is under contract already   *)
(* or about to be, and what it owned besides is about to be deleted.       *)

Published(doc) == {m.topic : m \in Range(doc.pubs)}

Claiming(k) == k.quiet /\ k.ga /\ ~k.same

\* Message m of release k is planned for, or met by the contracts cts.
Met(k, m, cts) ==
  \/ \E i \in 1 .. Len(k.ops) : k.ops[i].payload # None /\ k.ops[i].topic = m.topic
  \/ /\ cts[m.topic] # None
     /\ cts[m.topic].owner = k.id \/ cts[m.topic].payload = m.payload

Planning == {"pub", "pub_owner"}

Complete == {"commit", "apply", "harvest"}

PlanFits(k) ==
  /\ k.at = "harvest" => k.ops = <<>>
  /\ \A i \in 1 .. Len(k.ops) : k.ops[i].payload = None => k.ops[i].topic \notin Published(k.doc)

RowStands(k, cts) == k.at = "pub_owner" => k.row = cts[k.doc.pubs[k.next].topic]

PubsMet(k, cts) ==
  \A j \in 1 .. Len(k.doc.pubs) :
    k.at \in Complete \/ (k.at \in Planning /\ j < k.next) => Met(k, k.doc.pubs[j], cts)

NoneLeft(k, cts) ==
  k.at \in Complete =>
    \A t \in Topics : cts[t] # None /\ cts[t].owner = k.id /\ t \notin Published(k.doc) =>
      \E i \in 1 .. Len(k.ops) : k.ops[i].topic = t

Claims(k, cts) ==
  Claiming(k) => PlanFits(k) /\ RowStands(k, cts) /\ PubsMet(k, cts) /\ NoneLeft(k, cts)

ClaimsOK == \A c \in Calls : calls[c] # Idle => Claims(calls[c], contracts)

\* A step of one call that leaves the contracts alone.
LEMMA OneClaims ==
  ASSUME Inv, ClaimsOK, NEW c \in Calls, NEW x, calls' = [calls EXCEPT ![c] = x],
         UNCHANGED contracts, x = Idle \/ Claims(x, contracts)
  PROVE  ClaimsOK'
<1> SUFFICES ASSUME NEW d \in Calls, calls'[d] # Idle
             PROVE  Claims(calls'[d], contracts)
  BY DEF ClaimsOK
<1>1. calls'[d] = IF d = c THEN x ELSE calls[d]
  BY DEF Inv, TypeOK
<1> QED BY <1>1 DEF ClaimsOK

\* Before the first message, and where there is nothing to claim.
LEMMA NothingPlanned ==
  ASSUME NEW x, NEW cts, x.ops = <<>>,
         x.at \in {"sub", "sub_owner"} \/ (x.at = "pub" /\ x.next = 1) \/ ~Claiming(x),
         Claiming(x) => Len(x.doc.pubs) \in Nat
  PROVE  Claims(x, cts)
<1> SUFFICES ASSUME Claiming(x)
             PROVE  PlanFits(x) /\ RowStands(x, cts) /\ PubsMet(x, cts) /\ NoneLeft(x, cts)
  BY DEF Claims
<1>1. Len(x.ops) = 0
  OBVIOUS
<1>2. PlanFits(x)
  BY <1>1 DEF PlanFits
<1>3. RowStands(x, cts) /\ NoneLeft(x, cts)
  BY DEF RowStands, NoneLeft, Complete
<1>4. PubsMet(x, cts)
  BY DEF PubsMet, Complete, Planning
<1> QED BY <1>2, <1>3, <1>4

LEMMA SubStepsClaim ==
  ASSUME Inv, ClaimsOK, NEW c \in Calls, ReadSub(c) \/ ReadSubOwner(c) \/ Decide(c)
  PROVE  ClaimsOK'
<1> DEFINE k == calls[c]
<1>1. /\ k \in InFlight /\ k.ops = <<>> /\ k.doc \in Docs /\ UNCHANGED contracts
      /\ k.at \in {"sub", "sub_owner"}
  BY InFlightWhen DEF ReadSub, ReadSubOwner, Decide, Reads, WellFormed
<1>2. Len(k.doc.pubs) \in Nat
  BY <1>1, MessagesTyped
<1>3. CASE ReadSub(c)
  <2> DEFINE t == k.doc.subs[k.next].topic
             x == [k EXCEPT !.at = "sub_owner", !.row = contracts[t], !.seen = era[t]]
  <2>1. calls' = [calls EXCEPT ![c] = x]
    BY <1>3 DEF ReadSub, Inv, TypeOK
  <2>2. x.ops = <<>> /\ x.at = "sub_owner" /\ x.doc = k.doc
    <3> HIDE DEF k, t
    <3> QED BY <1>1 DEF InFlight
  <2> HIDE DEF x
  <2>3. Claims(x, contracts)
    BY <1>2, <2>2, NothingPlanned
  <2> QED BY <1>1, <2>1, <2>3, OneClaims
<1>4. CASE ReadSubOwner(c)
  <2> DEFINE sub   == k.doc.subs[k.next]
             owner == IF k.row # None /\ k.row.owner \in Live THEN k.row.owner ELSE None
             met   == k.row # None => CheckExpectationSatisfied(k.row.payload, sub.payload)
             h     == [topic |-> sub.topic, owner |-> owner, expects |-> sub.payload,
                       era |-> IF met /\ k.row # None THEN k.seen ELSE None]
             x     == [k EXCEPT !.at = "sub", !.next = @ + 1, !.row = None, !.seen = 0,
                                !.harvest = Append(@, h)]
  <2>1. calls' = [calls EXCEPT ![c] = IF k.ga /\ ~met THEN Idle ELSE x]
    BY <1>4 DEF ReadSubOwner
  <2>2. x.ops = <<>> /\ x.at = "sub" /\ x.doc = k.doc
    <3> HIDE DEF k, h
    <3> QED BY <1>1 DEF InFlight
  <2> HIDE DEF x, met, k
  <2>3. Claims(x, contracts)
    BY <1>2, <2>2, NothingPlanned
  <2>4. calls' = [calls EXCEPT ![c] = Idle] \/ calls' = [calls EXCEPT ![c] = x]
    BY <2>1
  <2> QED BY <1>1, <2>3, <2>4, OneClaims
<1>5. CASE Decide(c)
  <2> DEFINE x == [k EXCEPT !.next = 1, !.at = AfterHarvest(k)]
  <2>1. calls' = [calls EXCEPT ![c] = x]
    BY <1>5 DEF Decide, Inv, TypeOK
  <2>2. /\ x.ops = <<>> /\ x.at = AfterHarvest(k) /\ x.next = 1 /\ x.doc = k.doc
        /\ x.same = k.same /\ x.ga = k.ga
    <3> HIDE DEF k
    <3> QED BY <1>1 DEF InFlight
  <2>3. x.at = "pub" \/ ~Claiming(x)
    BY <2>2 DEF AfterHarvest, Claiming
  <2> HIDE DEF x
  <2>4. Claims(x, contracts)
    BY <1>2, <2>2, <2>3, NothingPlanned
  <2> QED BY <1>1, <2>1, <2>4, OneClaims
<1> QED BY <1>3, <1>4, <1>5

\* The plan of x is that of k with one more upsert, of message m.
LEMMA ClaimedWithUpsert ==
  ASSUME NEW k \in InFlight, NEW x, NEW cts, NEW m \in Message, NEW r \in Row \cup {None},
         k.at \in Planning, k.doc \in Docs, Claims(k, cts),
         k.next \in 1 .. Len(k.doc.pubs), m = k.doc.pubs[k.next],
         x.ops = Append(k.ops, UpsertOf(m, r)), x.at = "pub", x.next = k.next + 1,
         x.doc = k.doc, x.id = k.id, Claiming(x) <=> Claiming(k)
  PROVE  Claims(x, cts)
<1> SUFFICES ASSUME Claiming(k)
             PROVE  PlanFits(x) /\ RowStands(x, cts) /\ PubsMet(x, cts) /\ NoneLeft(x, cts)
  BY DEF Claims
<1> DEFINE op == UpsertOf(m, r)
<1>1. op \in Op /\ op.payload # None /\ op.topic = m.topic
  BY ChannelAssumption DEF UpsertOf, Op, Message
<1> HIDE DEF op
<1>2. /\ Len(x.ops) = Len(k.ops) + 1 /\ Len(k.ops) \in Nat
      /\ \A i \in 1 .. Len(k.ops) : x.ops[i] = k.ops[i]
      /\ x.ops[Len(k.ops) + 1] = op
  BY <1>1, Appending DEF InFlight, op
<1>3. PlanFits(x)
  BY <1>1, <1>2 DEF Claims, PlanFits
<1>4. RowStands(x, cts) /\ NoneLeft(x, cts)
  BY DEF RowStands, NoneLeft, Complete
<1>5. ASSUME NEW j \in 1 .. Len(x.doc.pubs), j < x.next
      PROVE  Met(x, x.doc.pubs[j], cts)
  <2>1. CASE j = k.next
    <3>1. Len(k.ops) + 1 \in 1 .. Len(x.ops)
      BY <1>2
    <3> QED BY <1>1, <1>2, <2>1, <3>1 DEF Met
  <2>2. CASE j # k.next
    <3>1. j < k.next
      <4>1. Len(k.doc.pubs) \in Nat
        BY MessagesTyped
      <4> QED BY <1>5, <2>2, <4>1
    <3>2. Met(k, k.doc.pubs[j], cts)
      BY <3>1 DEF Claims, PubsMet
    <3>3. \A i \in 1 .. Len(k.ops) : i \in 1 .. Len(x.ops)
      BY <1>2
    <3> QED BY <1>2, <3>2, <3>3 DEF Met
  <2> QED BY <2>1, <2>2
<1>6. PubsMet(x, cts)
  BY <1>5 DEF PubsMet, Complete, Planning
<1> QED BY <1>3, <1>4, <1>6

LEMMA ReadPubClaims ==
  ASSUME Inv, ClaimsOK, NEW c \in Calls, ReadPub(c)
  PROVE  ClaimsOK'
<1> DEFINE k == calls[c]
           m == k.doc.pubs[k.next]
<1>1. /\ k \in InFlight /\ k # Idle /\ WellFormed(k) /\ k.at = "pub" /\ UNCHANGED contracts
      /\ k.doc \in Docs /\ Claims(k, contracts)
  BY InFlightWhen DEF ReadPub, Reads, WellFormed, ClaimsOK
<1>2. k.next \in 1 .. Len(k.doc.pubs) /\ m \in Message
  <2>1. k.next <= Len(k.doc.pubs)
    BY DEF ReadPub
  <2> HIDE DEF k
  <2>2. k.next \in Nat /\ k.next >= 1 /\ Len(k.doc.pubs) \in Nat
    BY <1>1, MessagesTyped DEF WellFormed, InFlight
  <2>3. k.next \in 1 .. Len(k.doc.pubs)
    BY <2>1, <2>2
  <2> QED BY <1>1, <2>3, MessagesTyped
<1>3. CASE contracts[m.topic] # None
  <2> DEFINE x == [k EXCEPT !.at = "pub_owner", !.row = contracts[m.topic]]
  <2>1. calls' = [calls EXCEPT ![c] = x]
    BY <1>3 DEF ReadPub
  <2>2. /\ x.at = "pub_owner" /\ x.row = contracts[k.doc.pubs[k.next].topic]
        /\ x.next = k.next /\ x.doc = k.doc /\ x.ops = k.ops /\ x.id = k.id
        /\ Claiming(x) <=> Claiming(k)
    <3> DEFINE row == contracts[m.topic]
    <3>1. row = contracts[k.doc.pubs[k.next].topic]
      OBVIOUS
    <3> HIDE DEF k, row
    <3> QED BY <1>1, <3>1 DEF InFlight, Claiming
  <2> HIDE DEF x, k, m
  <2>3. Claims(x, contracts)
    <3> SUFFICES ASSUME Claiming(k)
                 PROVE  /\ PlanFits(x) /\ RowStands(x, contracts)
                        /\ PubsMet(x, contracts) /\ NoneLeft(x, contracts)
      BY <2>2 DEF Claims
    <3>1. PlanFits(x) /\ RowStands(x, contracts)
      BY <1>1, <2>2 DEF Claims, PlanFits, RowStands
    <3>2. PubsMet(k, contracts)
      BY <1>1 DEF Claims
    <3>3. PubsMet(x, contracts)
      <4>1. \A j \in 1 .. Len(k.doc.pubs) : j < k.next => Met(k, k.doc.pubs[j], contracts)
        BY <1>1, <3>2 DEF PubsMet, Planning
      <4>2. ASSUME NEW msg, Met(k, msg, contracts)
            PROVE  Met(x, msg, contracts)
        BY <2>2, <4>2 DEF Met
      <4> QED BY <2>2, <4>1, <4>2 DEF PubsMet, Complete
    <3>4. NoneLeft(x, contracts)
      BY <2>2 DEF NoneLeft, Complete
    <3> QED BY <3>1, <3>3, <3>4
  <2> QED BY <1>1, <2>1, <2>3, OneClaims DEF k
<1>4. CASE contracts[m.topic] = None
  <2> DEFINE x == [k EXCEPT !.next = @ + 1, !.ops = Append(@, UpsertOf(m, None))]
  <2>1. calls' = [calls EXCEPT ![c] = x]
    BY <1>4 DEF ReadPub
  <2>2. /\ x.ops = Append(k.ops, UpsertOf(m, None)) /\ x.at = "pub" /\ x.next = k.next + 1
        /\ x.doc = k.doc /\ x.id = k.id
        /\ Claiming(x) <=> Claiming(k)
    <3> DEFINE s == Append(k.ops, UpsertOf(m, None))
    <3> HIDE DEF k, s
    <3>1. /\ [k EXCEPT !.next = @ + 1, !.ops = s].ops = s
          /\ [k EXCEPT !.next = @ + 1, !.ops = s].at = "pub"
          /\ [k EXCEPT !.next = @ + 1, !.ops = s].next = k.next + 1
          /\ [k EXCEPT !.next = @ + 1, !.ops = s].doc = k.doc
          /\ [k EXCEPT !.next = @ + 1, !.ops = s].id = k.id
          /\ Claiming([k EXCEPT !.next = @ + 1, !.ops = s]) <=> Claiming(k)
      BY <1>1 DEF InFlight, Claiming
    <3> QED BY <3>1 DEF s
  <2>3. Claims(x, contracts)
    <3>1. m = k.doc.pubs[k.next] /\ k.at \in Planning
      BY <1>1 DEF Planning
    <3> HIDE DEF x, k, m
    <3> QED BY <1>1, <1>2, <2>2, <3>1, ClaimedWithUpsert
  <2> HIDE DEF x
  <2> QED BY <1>1, <2>1, <2>3, OneClaims
<1> QED BY <1>3, <1>4

\* The row read is still the contract, and so, an orphan being none of the
\* contracts there are, one's own or a live owner's.
LEMMA ReadPubOwnerClaims ==
  ASSUME Inv, ClaimsOK, NEW c \in Calls, ReadPubOwner(c)
  PROVE  ClaimsOK'
<1> DEFINE k    == calls[c]
           m    == k.doc.pubs[k.next]
           done == [k EXCEPT !.at = "pub", !.next = @ + 1, !.row = None]
           up   == Upserting(k, k.row)
           x    == Planned(k, m)
<1>1. /\ k \in InFlight /\ k # Idle /\ WellFormed(k) /\ k.at = "pub_owner"
      /\ Claims(k, contracts)
  BY InFlightWhen DEF ReadPubOwner, ClaimsOK
<1>2. calls' = [calls EXCEPT ![c] = x] /\ UNCHANGED contracts
  BY DEF ReadPubOwner, Reads, Inv, TypeOK
<1>3. k.row \in Row /\ k.doc \in Docs /\ k.next \in 1 .. Len(k.doc.pubs) /\ m \in Message
  <2>1. k.row \in Row /\ k.doc \in Docs /\ k.next \in 1 .. Len(k.doc.pubs)
    BY <1>1 DEF WellFormed, InFlight
  <2> HIDE DEF k
  <2> QED BY <2>1, MessagesTyped
<1>4. Claims(up, contracts)
  <2>1. /\ up.ops = Append(k.ops, UpsertOf(m, k.row)) /\ up.at = "pub" /\ up.next = k.next + 1
        /\ up.doc = k.doc /\ up.id = k.id
        /\ Claiming(up) <=> Claiming(k)
    <3> DEFINE s == Append(k.ops, UpsertOf(m, k.row))
               y == [k EXCEPT !.at = "pub", !.next = @ + 1, !.row = None, !.ops = s]
    <3>1. up = y
      BY DEF Upserting
    <3> HIDE DEF k, s, up
    <3>2. /\ y.ops = s /\ y.at = "pub" /\ y.next = k.next + 1
          /\ y.doc = k.doc /\ y.id = k.id
          /\ Claiming(y) <=> Claiming(k)
      BY <1>1 DEF InFlight, Claiming
    <3> HIDE DEF y
    <3> QED BY <3>1, <3>2 DEF s
  <2>2. m = k.doc.pubs[k.next] /\ k.at \in Planning /\ k.row \in Row \cup {None}
    BY <1>1, <1>3 DEF Planning
  <2> HIDE DEF up, k, m
  <2> QED BY <1>1, <1>3, <2>1, <2>2, ClaimedWithUpsert
<1>5. /\ done.at = "pub" /\ done.next = k.next + 1 /\ done.doc = k.doc /\ done.ops = k.ops
      /\ done.id = k.id
      /\ Claiming(done) <=> Claiming(k)
  <2> HIDE DEF k
  <2> QED BY <1>1 DEF InFlight, Claiming
<1>6. k.row.payload = m.payload => Claims(done, contracts)
  <2> SUFFICES ASSUME k.row.payload = m.payload, Claiming(k)
               PROVE  /\ PlanFits(done) /\ RowStands(done, contracts)
                      /\ PubsMet(done, contracts) /\ NoneLeft(done, contracts)
    BY <1>5 DEF Claims
  <2>1. m = k.doc.pubs[k.next]
    OBVIOUS
  <2> HIDE DEF done, k, m
  <2>2. PlanFits(done) /\ RowStands(done, contracts) /\ NoneLeft(done, contracts)
    BY <1>1, <1>5 DEF Claims, PlanFits, RowStands, NoneLeft, Complete
  <2>3. ASSUME NEW j \in 1 .. Len(done.doc.pubs), j < done.next
        PROVE  Met(done, done.doc.pubs[j], contracts)
    <3>1. CASE j = k.next
      <4>1. contracts[m.topic] = k.row
        BY <1>1, <2>1 DEF Claims, RowStands
      <4>2. k.row # None
        BY <1>1 DEF WellFormed
      <4>3. done.doc.pubs[j] = m
        BY <1>5, <2>1, <3>1
      <4> QED BY <4>1, <4>2, <4>3 DEF Met
    <3>2. CASE j # k.next
      <4>1. j < k.next
        <5>1. Len(k.doc.pubs) \in Nat
          BY <1>3, MessagesTyped
        <5> QED BY <1>3, <1>5, <2>3, <3>2, <5>1
      <4>2. Met(k, k.doc.pubs[j], contracts)
        BY <1>1, <1>5, <4>1 DEF Claims, PubsMet, Planning
      <4> QED BY <1>5, <4>2 DEF Met
    <3> QED BY <3>1, <3>2
  <2>4. PubsMet(done, contracts)
    BY <1>5, <2>3 DEF PubsMet, Complete, Planning
  <2> QED BY <2>2, <2>4
<1>7. \/ x = Idle \/ x = up
      \/ x = done /\ k.row.payload = m.payload
  <2>1. [done EXCEPT !.ops = Append(@, UpsertOf(m, k.row))] = up
    <3> HIDE DEF k
    <3> QED BY <1>1 DEF InFlight, Upserting
  <2>2. CASE k.row.owner \notin Live
    BY <2>1, <2>2 DEF Planned
  <2>3. CASE k.row.owner \in Live /\ k.row.owner = k.id
    BY <2>1, <2>3 DEF Planned
  <2>4. CASE k.row.owner \in Live /\ k.row.owner # k.id
    BY <2>4 DEF Planned
  <2> QED BY <2>2, <2>3, <2>4
<1>8. x = Idle \/ Claims(x, contracts)
  <2> HIDE DEF x, up, done, k, m
  <2> QED BY <1>4, <1>6, <1>7
<1> HIDE DEF x
<1> QED BY <1>2, <1>8, OneClaims

\* Every topic of the set is in the list of it.
LEMMA TopicsListed ==
  ASSUME NEW S \in SUBSET Topics
  PROVE  \A t \in S : \E i \in DOMAIN SetToSeq(S) : SetToSeq(S)[i] = t
<1>1. IsFiniteSet(S)
  BY ChannelAssumption, FS_Subset
<1>2. PICK n \in Nat : ExistsBijection(1 .. n, S)
  BY <1>1, FS_NatBijection
<1>3. Cardinality(S) = n
  BY <1>2, FS_CountingElements
<1>4. \E f \in [1 .. n -> S] : IsInjective(f)
  BY <1>2, Zenon DEF ExistsBijection, Bijection, Injection
<1>5. SetToSeq(S) \in [1 .. n -> S] /\ IsInjective(SetToSeq(S))
  BY <1>3, <1>4, Zenon DEF SetToSeq
<1> DEFINE f == SetToSeq(S)
<1> HIDE DEF f
<1>6. f \in Injection(1 .. n, S)
  BY <1>5, Zenon DEF f, Injection
<1>7. Cardinality(1 .. n) = Cardinality(S)
  BY <1>2, <1>3, FS_Interval
<1>8. f \in Surjection(1 .. n, S)
  BY <1>1, <1>6, <1>7, FS_Injection
<1> QED BY <1>5, <1>8, Zenon DEF f, Surjection

\* The deletions planned are of the topics of the set, all of them.
LEMMA DeletionsCover ==
  ASSUME NEW S \in SUBSET Topics
  PROVE  /\ \A i \in DOMAIN DeletionsOf(S) : DeletionsOf(S)[i].topic \in S
         /\ \A t \in S : \E i \in DOMAIN DeletionsOf(S) : DeletionsOf(S)[i].topic = t
<1> DEFINE gone == SetToSeq(S)
<1>1. gone \in Seq(S) /\ \A t \in S : \E i \in DOMAIN gone : gone[i] = t
  BY TopicsInOrder, TopicsListed
<1> HIDE DEF gone
<1>2. DeletionsOf(S) = [i \in DOMAIN gone |-> DeleteOf(gone[i])]
  BY DEF DeletionsOf, gone
<1>3. \A t : DeleteOf(t).topic = t
  BY DEF DeleteOf
<1> QED BY <1>1, <1>2, <1>3

\* Two lists in a row hold what each holds.
LEMMA InARow ==
  ASSUME NEW a \in Seq(Op), NEW b \in Seq(Op)
  PROVE  /\ \A i \in 1 .. Len(a \o b) : \/ \E j \in 1 .. Len(a) : (a \o b)[i] = a[j]
                                        \/ \E j \in 1 .. Len(b) : (a \o b)[i] = b[j]
         /\ \A j \in 1 .. Len(a) : \E i \in 1 .. Len(a \o b) : (a \o b)[i] = a[j]
         /\ \A j \in 1 .. Len(b) : \E i \in 1 .. Len(a \o b) : (a \o b)[i] = b[j]
<1> DEFINE s == a \o b
           m == Len(a)
           n == Len(b)
<1>1. /\ m \in Nat /\ n \in Nat /\ Len(s) = m + n
      /\ \A i \in 1 .. Len(s) : s[i] = IF i <= m THEN a[i] ELSE b[i - m]
  OBVIOUS
<1> HIDE DEF s, m, n
<1>2. ASSUME NEW i \in 1 .. Len(s)
      PROVE  (i \in 1 .. m /\ s[i] = a[i]) \/ (i - m \in 1 .. n /\ s[i] = b[i - m])
  BY <1>1
<1>3. ASSUME NEW j \in 1 .. m
      PROVE  j \in 1 .. Len(s) /\ s[j] = a[j]
  BY <1>1
<1>4. ASSUME NEW j \in 1 .. n
      PROVE  m + j \in 1 .. Len(s) /\ s[m + j] = b[j]
  <2>1. m + j \in 1 .. Len(s) /\ ~(m + j <= m) /\ (m + j) - m = j
    BY <1>1
  <2> QED BY <1>1, <2>1
<1>5. \A i \in 1 .. Len(s) : \/ \E j \in 1 .. m : s[i] = a[j]
                             \/ \E j \in 1 .. n : s[i] = b[j]
  BY <1>2
<1>6. \A j \in 1 .. m : \E i \in 1 .. Len(s) : s[i] = a[j]
  BY <1>3
<1>7. \A j \in 1 .. n : \E i \in 1 .. Len(s) : s[i] = b[j]
  BY <1>4
<1> QED BY <1>5, <1>6, <1>7 DEF s, m, n

LEMMA ListOwnedClaims ==
  ASSUME Inv, ClaimsOK, NEW c \in Calls, ListOwned(c)
  PROVE  ClaimsOK'
<1> DEFINE k == calls[c]
           S == OwnedBy(k.id) \ Published(k.doc)
           dels == Dropped(k)
           s == k.ops \o dels
           x == [k EXCEPT !.at = "commit", !.ops = s]
<1>1. /\ k \in InFlight /\ k # Idle /\ WellFormed(k) /\ k.at = "pub" /\ k.doc \in Docs
      /\ Claims(k, contracts) /\ k.next > Len(k.doc.pubs) /\ k.ops \in Seq(Op)
  BY InFlightWhen DEF ListOwned, WellFormed, ClaimsOK, InFlight
<1>2. calls' = [calls EXCEPT ![c] = x] /\ UNCHANGED contracts
  BY DEF ListOwned, Reads, Inv, TypeOK
<1>3. /\ dels \in Seq(Op)
      /\ \A i \in 1 .. Len(dels) : dels[i].topic \in S
      /\ \A t \in S : \E i \in 1 .. Len(dels) : dels[i].topic = t
  <2>1. S \in SUBSET Topics /\ S \subseteq OwnedBy(k.id)
    BY DEF OwnedBy
  <2>2. dels = DeletionsOf(S)
    BY DEF Dropped, DeletionsOf, Published
  <2> HIDE DEF S, dels, k
  <2>3. dels \in Seq(Op)
    BY <2>1, <2>2, Deletions
  <2>4. DOMAIN dels = 1 .. Len(dels)
    BY <2>3
  <2> QED BY <2>1, <2>2, <2>3, <2>4, DeletionsCover
<1>4. /\ x.ops = s /\ x.at = "commit" /\ x.doc = k.doc /\ x.id = k.id
      /\ Claiming(x) <=> Claiming(k)
  <2> HIDE DEF k, s
  <2> QED BY <1>1 DEF InFlight, Claiming
<1>5. /\ \A i \in 1 .. Len(s) : \/ \E j \in 1 .. Len(k.ops) : s[i] = k.ops[j]
                                \/ \E j \in 1 .. Len(dels) : s[i] = dels[j]
      /\ \A j \in 1 .. Len(k.ops) : \E i \in 1 .. Len(s) : s[i] = k.ops[j]
      /\ \A j \in 1 .. Len(dels) : \E i \in 1 .. Len(s) : s[i] = dels[j]
  <2> HIDE DEF k, dels
  <2> QED BY <1>1, <1>3, InARow
<1>6. \A t \in Topics : contracts[t] # None /\ contracts[t].owner = k.id /\ t \notin Published(k.doc)
        => t \in S
  BY DEF OwnedBy
<1> HIDE DEF x, s, dels, k, S
<1>7. Claims(x, contracts)
  <2> SUFFICES ASSUME Claiming(k)
               PROVE  /\ PlanFits(x) /\ RowStands(x, contracts)
                      /\ PubsMet(x, contracts) /\ NoneLeft(x, contracts)
    BY <1>4 DEF Claims
  <2>1. PlanFits(x) /\ RowStands(x, contracts)
    <3>1. \A i \in 1 .. Len(k.ops) : k.ops[i].payload = None => k.ops[i].topic \notin Published(k.doc)
      BY <1>1 DEF Claims, PlanFits
    <3>2. \A i \in 1 .. Len(dels) : dels[i].topic \notin Published(k.doc)
      BY <1>3 DEF S
    <3>3. ASSUME NEW i \in 1 .. Len(s), s[i].payload = None
          PROVE  s[i].topic \notin Published(k.doc)
      <4>1. CASE \E j \in 1 .. Len(k.ops) : s[i] = k.ops[j]
        BY <3>1, <3>3, <4>1
      <4>2. CASE \E j \in 1 .. Len(dels) : s[i] = dels[j]
        BY <3>2, <4>2
      <4> QED BY <1>5, <4>1, <4>2
    <3> QED BY <1>4, <3>3 DEF PlanFits, RowStands
  <2>2. PubsMet(x, contracts)
    <3> SUFFICES ASSUME NEW j \in 1 .. Len(k.doc.pubs)
                 PROVE  Met(x, k.doc.pubs[j], contracts)
      BY <1>4 DEF PubsMet
    <3>1. j < k.next
      <4>1. Len(k.doc.pubs) \in Nat /\ k.next \in Nat
        BY <1>1, MessagesTyped DEF InFlight
      <4> QED BY <1>1, <4>1
    <3>2. Met(k, k.doc.pubs[j], contracts)
      BY <1>1, <3>1 DEF Claims, PubsMet, Planning
    <3>3. ASSUME NEW l \in 1 .. Len(k.ops), k.ops[l].payload # None,
                 k.ops[l].topic = k.doc.pubs[j].topic
          PROVE  \E i \in 1 .. Len(s) : s[i].payload # None /\ s[i].topic = k.doc.pubs[j].topic
      <4>1. PICK i \in 1 .. Len(s) : s[i] = k.ops[l]
        BY <1>5
      <4> QED BY <3>3, <4>1
    <3> QED BY <1>4, <3>2, <3>3 DEF Met
  <2>3. NoneLeft(x, contracts)
    <3> SUFFICES ASSUME NEW t \in Topics, contracts[t] # None, contracts[t].owner = k.id,
                        t \notin Published(k.doc)
                 PROVE  \E i \in 1 .. Len(x.ops) : x.ops[i].topic = t
      BY <1>4 DEF NoneLeft
    <3>1. PICK j \in 1 .. Len(dels) : dels[j].topic = t
      BY <1>3, <1>6
    <3>2. PICK i \in 1 .. Len(s) : s[i] = dels[j]
      BY <1>5
    <3> QED BY <1>4, <3>1, <3>2
  <2> QED BY <2>1, <2>2, <2>3
<1> QED BY <1>2, <1>7, OneClaims

\* The steps between the plan and its statements leave both as they are.
LEMMA CommitClaims ==
  ASSUME Inv, ClaimsOK, NEW c \in Calls, Commit(c) \/ Applied(c)
  PROVE  ClaimsOK'
<1> DEFINE k == calls[c]
<1>1. /\ k \in InFlight /\ k # Idle /\ Claims(k, contracts) /\ UNCHANGED contracts
      /\ k.at \in {"commit", "apply"}
  BY InFlightWhen DEF Commit, Applied, Reads, ClaimsOK
<1>2. PICK at \in {"apply", "harvest"} :
        /\ calls' = [calls EXCEPT ![c] = Idle] \/ calls' = [calls EXCEPT ![c].at = at]
        /\ at = "harvest" => k.ops = <<>>
  <2>1. CASE Commit(c)
    BY <2>1 DEF Commit, Goto
  <2>2. CASE Applied(c)
    BY <2>2 DEF Applied, Goto
  <2> QED BY <2>1, <2>2
<1> DEFINE x == [k EXCEPT !.at = at]
<1>3. calls' = [calls EXCEPT ![c] = Idle] \/ calls' = [calls EXCEPT ![c] = x]
  BY <1>2 DEF Inv, TypeOK
<1>4. /\ x.at = at /\ x.ops = k.ops /\ x.doc = k.doc /\ x.id = k.id
      /\ Claiming(x) <=> Claiming(k)
  <2> HIDE DEF k
  <2> QED BY <1>1 DEF InFlight, Claiming
<1> HIDE DEF x, k
<1>5. Claims(x, contracts)
  <2> SUFFICES ASSUME Claiming(k)
               PROVE  /\ PlanFits(x) /\ RowStands(x, contracts)
                      /\ PubsMet(x, contracts) /\ NoneLeft(x, contracts)
    BY <1>4 DEF Claims
  <2>1. PlanFits(x) /\ RowStands(x, contracts)
    BY <1>1, <1>2, <1>4 DEF Claims, PlanFits, RowStands
  <2>2. PubsMet(x, contracts) /\ NoneLeft(x, contracts)
    BY <1>1, <1>4 DEF Claims, PubsMet, NoneLeft, Met, Complete
  <2> QED BY <2>1, <2>2
<1> QED BY <1>1, <1>3, <1>5, OneClaims

\* A statement is done: the claim of the call that did it stands, and no other
\* call was undisturbed.
LEMMA ApplyClaims ==
  ASSUME Inv, ClaimsOK, NEW c \in Calls, Apply(c)
  PROVE  ClaimsOK'
<1> DEFINE k  == calls[c]
           op == Head(k.ops)
           t  == op.topic
           rest == Tail(k.ops)
           x  == [k EXCEPT !.ops = rest]
           row == IF op.payload = None THEN None ELSE [owner |-> k.id, payload |-> op.payload]
<1>1. /\ k \in InFlight /\ k # Idle /\ WellFormed(k) /\ Rooted(k) /\ k.at = "apply"
      /\ k.ops # <<>> /\ Claims(k, contracts)
  BY InFlightWhen DEF Apply, ClaimsOK
<1>2. /\ calls' = Disturbing(c, x)
      /\ contracts' = [contracts EXCEPT ![t] = row]
  BY DEF Apply
<1>3. op \in Op /\ op = k.ops[1] /\ 1 \in 1 .. Len(k.ops) /\ t \in Topics
  <2> HIDE DEF k
  <2>1. op \in Op /\ op = k.ops[1] /\ 1 \in 1 .. Len(k.ops)
    BY <1>1, Popping
  <2> QED BY <2>1 DEF Op
<1>4. \A i \in 1 .. Len(rest) : i + 1 \in 1 .. Len(k.ops) /\ rest[i] = k.ops[i + 1]
  BY <1>1, Popping
<1>5. \A i \in 1 .. Len(k.ops) : i # 1 => \E j \in 1 .. Len(rest) : rest[j] = k.ops[i]
  <2> HIDE DEF k
  <2>1. k.ops \in Seq(Op)
    BY <1>1 DEF InFlight
  <2>2. ASSUME NEW i \in 1 .. Len(k.ops), i # 1
        PROVE  i - 1 \in 1 .. Len(rest) /\ rest[i - 1] = k.ops[i]
    BY <1>1, <2>1, <2>2
  <2> QED BY <2>2
<1> HIDE DEF rest
<1>6. /\ x.ops = rest /\ x.at = "apply" /\ x.doc = k.doc /\ x.id = k.id
      /\ Claiming(x) <=> Claiming(k)
  <2> HIDE DEF k
  <2> QED BY <1>1 DEF InFlight, Claiming
<1>7. \A u \in Topics : contracts'[u] = IF u = t THEN row ELSE contracts[u]
  <2> HIDE DEF t, row
  <2> QED BY <1>2 DEF Inv, TypeOK
<1>8. row # None <=> op.payload # None
  <2>1. k.id \in Nat /\ op.payload \in Payloads \cup {None}
    <3> HIDE DEF k, op
    <3> QED BY <1>1, <1>3 DEF InFlight, Op
  <2>2. op.payload # None => [owner |-> k.id, payload |-> op.payload] \in Row
    <3> HIDE DEF k, op
    <3> QED BY <2>1 DEF Row
  <2> HIDE DEF k, op
  <2> QED BY <2>2, ChannelAssumption
<1>9. op.payload # None => t \in Published(k.doc) /\ row.owner = k.id
  <2> HIDE DEF k, op
  <2>1. op.payload # None => [topic |-> op.topic, payload |-> op.payload] \in Range(k.doc.pubs)
    BY <1>1, <1>3 DEF WellFormed
  <2>2. op.payload # None => op.topic \in Published(k.doc)
    BY <2>1 DEF Published
  <2> QED BY <2>2
<1>10. Claiming(k) => (op.payload = None => t \notin Published(k.doc))
  BY <1>1, <1>3 DEF Claims, PlanFits
<1> HIDE DEF x, k, op, t, row, rest
<1>11. Claims(x, contracts')
  <2> SUFFICES ASSUME Claiming(k)
               PROVE  /\ PlanFits(x) /\ RowStands(x, contracts')
                      /\ PubsMet(x, contracts') /\ NoneLeft(x, contracts')
    BY <1>6 DEF Claims
  <2>1. PlanFits(x) /\ RowStands(x, contracts')
    <3>1. ASSUME NEW i \in 1 .. Len(rest), rest[i].payload = None
          PROVE  rest[i].topic \notin Published(k.doc)
      BY <1>1, <1>4, <3>1 DEF Claims, PlanFits
    <3> QED BY <1>6, <3>1 DEF PlanFits, RowStands
  <2>2. PubsMet(x, contracts')
    <3> SUFFICES ASSUME NEW j \in 1 .. Len(k.doc.pubs)
                 PROVE  Met(x, k.doc.pubs[j], contracts')
      BY <1>6 DEF PubsMet
    <3> DEFINE m == k.doc.pubs[j]
    <3>1. Met(k, m, contracts)
      BY <1>1 DEF Claims, PubsMet, Complete
    <3>2. m.topic \in Topics /\ m.topic \in Published(k.doc)
      <4>1. k.doc \in Docs
        BY <1>1 DEF Claiming, Rooted, RootedIn, Inv, TypeOK
      <4> QED BY <4>1, MessagesTyped DEF Message, Published
    <3> HIDE DEF m
    <3>3. CASE m.topic = t
      <4>1. op.payload # None
        BY <1>10, <3>2, <3>3
      <4> QED BY <1>6, <1>7, <1>8, <1>9, <3>2, <3>3, <4>1 DEF Met, m
    <3>4. CASE m.topic # t
      <4>1. contracts'[m.topic] = contracts[m.topic]
        BY <1>7, <3>2, <3>4
      <4>2. ASSUME NEW i \in 1 .. Len(k.ops), k.ops[i].payload # None, k.ops[i].topic = m.topic
            PROVE  \E l \in 1 .. Len(x.ops) : x.ops[l].payload # None /\ x.ops[l].topic = m.topic
        <5>1. i # 1
          BY <1>3, <3>4, <4>2 DEF t
        <5>2. PICK l \in 1 .. Len(rest) : rest[l] = k.ops[i]
          BY <1>5, <5>1
        <5> QED BY <1>6, <4>2, <5>2
      <4> QED BY <1>6, <3>1, <4>1, <4>2 DEF Met, m
    <3> QED BY <3>3, <3>4
  <2>3. NoneLeft(x, contracts')
    <3> SUFFICES ASSUME NEW u \in Topics, contracts'[u] # None, contracts'[u].owner = k.id,
                        u \notin Published(k.doc)
                 PROVE  \E l \in 1 .. Len(x.ops) : x.ops[l].topic = u
      BY <1>6 DEF NoneLeft
    <3>1. u # t
      BY <1>7, <1>8, <1>9
    <3>2. contracts'[u] = contracts[u]
      BY <1>7, <3>1
    <3>3. PICK i \in 1 .. Len(k.ops) : k.ops[i].topic = u
      BY <1>1, <3>2 DEF Claims, NoneLeft, Complete
    <3>4. i # 1
      BY <1>3, <3>1, <3>3 DEF t
    <3>5. PICK l \in 1 .. Len(rest) : rest[l] = k.ops[i]
      BY <1>5, <3>4
    <3> QED BY <1>6, <3>3, <3>5
  <2> QED BY <2>1, <2>2, <2>3
<1>12. ASSUME NEW d \in Calls, calls'[d] # Idle
       PROVE  Claims(calls'[d], contracts')
  <2>1. CASE d = c
    <3>1. calls'[d] = x
      BY <1>2, <2>1 DEF Disturbing
    <3> QED BY <1>11, <3>1
  <2>2. CASE d # c
    <3>1. calls'[d] = [calls[d] EXCEPT !.quiet = FALSE] /\ calls[d] \in InFlight
      BY <1>2, <1>12, <2>2 DEF Disturbing, Inv, TypeOK
    <3>2. ~calls'[d].quiet
      BY <3>1 DEF InFlight
    <3> QED BY <3>2 DEF Claims, Claiming
  <2> QED BY <2>1, <2>2
<1> QED BY <1>12 DEF ClaimsOK

LEMMA BeginClaims ==
  ASSUME Inv, ClaimsOK, NEW c \in Calls, NEW n \in Names,
         (\E d \in Docs, ga \in BOOLEAN : Provide(c, n, d, ga)) \/ Retire(c, n)
  PROVE  ClaimsOK'
<1>1. ASSUME NEW d \in Docs, NEW ga \in BOOLEAN, Provide(c, n, d, ga)
      PROVE  ClaimsOK'
  <2> DEFINE x == calls'[c]
  <2>1. PICK id, same : calls' = [calls EXCEPT ![c] =
          [at |-> "sub", name |-> n, id |-> id, doc |-> d, ga |-> ga, next |-> 1, row |-> None,
           seen |-> 0, same |-> same, harvest |-> <<>>, ops |-> <<>>, quiet |-> TRUE]]
    BY <1>1 DEF Provide
  <2>2. UNCHANGED contracts /\ calls' = [calls EXCEPT ![c] = x]
    BY <1>1, <2>1 DEF Provide, Inv, TypeOK
  <2>3. x.ops = <<>> /\ x.at = "sub" /\ Len(x.doc.pubs) \in Nat
    BY <2>1, MessagesTyped DEF Inv, TypeOK
  <2> HIDE DEF x
  <2>4. Claims(x, contracts)
    BY <2>3, NothingPlanned
  <2> QED BY <2>2, <2>4, OneClaims
<1>2. CASE Retire(c, n)
  <2> DEFINE x == calls'[c]
  <2>1. PICK ops : calls' = [calls EXCEPT ![c] =
          [at |-> "apply", name |-> n, id |-> ids[n], doc |-> None, ga |-> FALSE, next |-> 1,
           row |-> None, seen |-> 0, same |-> FALSE, harvest |-> <<>>, ops |-> ops, quiet |-> TRUE]]
    BY <1>2 DEF Retire
  <2>2. UNCHANGED contracts /\ calls' = [calls EXCEPT ![c] = x] /\ ~x.ga
    BY <1>2, <2>1 DEF Retire, Inv, TypeOK
  <2> HIDE DEF x
  <2> QED BY <2>2, OneClaims DEF Claims, Claiming
<1> QED BY <1>1, <1>2

LEMMA NextClaims ==
  ASSUME Inv, ClaimsOK, [Next]_vars
  PROVE  ClaimsOK'
<1>1. CASE UNCHANGED vars
  BY <1>1 DEF vars, ClaimsOK
<1>2. ASSUME NEW c \in Calls, Step(c)
      PROVE  ClaimsOK'
  <2>1. CASE End(c) \/ ApplyRefused(c) \/ Reconcile(c)
    BY <2>1, OneClaims DEF End, ApplyRefused, Reconcile, Reads
  <2> QED
    BY <1>2, <2>1, SubStepsClaim, ReadPubClaims, ReadPubOwnerClaims, ListOwnedClaims,
       CommitClaims, ApplyClaims DEF Step
<1>3. ASSUME NEW n \in Names, DeleteProducer(n)
      PROVE  ClaimsOK'
  <2> SUFFICES ASSUME NEW d \in Calls, calls'[d] # Idle
               PROVE  Claims(calls'[d], contracts')
    BY DEF ClaimsOK
  <2>1. calls'[d] = [calls[d] EXCEPT !.quiet = FALSE] /\ calls[d] \in InFlight
    BY <1>3 DEF DeleteProducer, Inv, TypeOK
  <2>2. ~calls'[d].quiet
    BY <2>1 DEF InFlight
  <2> QED BY <2>2 DEF Claims, Claiming
<1>4. ASSUME NEW n \in Names, DeleteConsumer(n)
      PROVE  ClaimsOK'
  BY <1>4 DEF DeleteConsumer, ClaimsOK
<1> QED BY <1>1, <1>2, <1>3, <1>4, BeginClaims DEF Next

\* A release no other call came between has, once its plan is applied, every
\* message it publishes under contract, its own or a live owner's with the
\* same payload, and owns no other, though the plan was made on reads before
\* the version was stored and is applied one statement at a time.
THEOREM QuietReleasesClaim == Spec => []QuietReleaseClaims
<1>1. Init => ClaimsOK
  BY DEF Init, ClaimsOK
<1>2. Inv /\ ClaimsOK /\ [Next]_vars => ClaimsOK'
  BY NextClaims
<1>3. Inv /\ ClaimsOK => QuietReleaseClaims
  <2> SUFFICES ASSUME Inv, ClaimsOK, NEW c \in Calls, calls[c] # Idle, calls[c].at = "harvest",
                      calls[c].ga, ~calls[c].same, calls[c].quiet
               PROVE  /\ \A m \in Range(calls[c].doc.pubs) :
                           /\ contracts[m.topic] # None
                           /\ \/ contracts[m.topic].owner = calls[c].id
                              \/ contracts[m.topic].payload = m.payload
                      /\ OwnedBy(calls[c].id) \subseteq {m.topic : m \in Range(calls[c].doc.pubs)}
    BY DEF QuietReleaseClaims
  <2> DEFINE k == calls[c]
  <2>1. /\ k \in InFlight /\ WellFormed(k) /\ k.doc \in Docs
        /\ PlanFits(k) /\ PubsMet(k, contracts) /\ NoneLeft(k, contracts)
    BY InFlightWhen DEF WellFormed, ClaimsOK, Claims, Claiming
  <2> HIDE DEF k
  <2>2. k.at = "harvest" /\ k.ops = <<>> /\ Len(k.ops) = 0
    BY <2>1 DEF PlanFits, k
  <2>3. ASSUME NEW m \in Range(k.doc.pubs)
        PROVE  /\ contracts[m.topic] # None
               /\ contracts[m.topic].owner = k.id \/ contracts[m.topic].payload = m.payload
    <3>1. PICK j \in 1 .. Len(k.doc.pubs) : m = k.doc.pubs[j]
      BY <2>1, MessagesTyped DEF Range
    <3>2. Met(k, m, contracts)
      BY <2>1, <2>2, <3>1 DEF PubsMet, Complete
    <3> QED BY <2>2, <3>2 DEF Met
  <2>4. ASSUME NEW t \in OwnedBy(k.id)
        PROVE  t \in Published(k.doc)
    BY <2>1, <2>2, <2>4 DEF NoneLeft, Complete, OwnedBy
  <2> QED BY <2>3, <2>4 DEF k, Published
<1> QED BY <1>1, <1>2, <1>3, Invariance, PTL DEF Spec
=============================================================================
