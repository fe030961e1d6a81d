----------------------- MODULE WebhookDeliveryProofs -----------------------
(***************************************************************************)
(* Proofs about WebhookDelivery, for any number of workers, deliveries and *)
(* hooks, any clock and stalls of any length.                              *)
(***************************************************************************)
EXTENDS WebhookDelivery, FiniteSetTheorems, TLAPS

----------------------------------------------------------------------------
(* The inductive invariant. *)

ClockOK == \A w \in Workers : at[w] <= now

JobHeld == \A w \in Workers : step[w] \in {"send", "record"} =>
             job[w] \in Deliveries /\ Holding(w, job[w])

HeldWhileRunning ==
  \A w \in Workers, d \in Deliveries : Holding(w, d) => step[w] \in {"next", "send", "record"}

\* A redelivery lies before the end of any lease taken on the row after it; a
\* removed row carries no lease.
Redeliveries == \A d \in Deliveries :
  /\ row[d].status # "gone" => row[d].redelivered < row[d].next + Lease
  /\ row[d].status = "gone" => row[d].next = 0

\* What a pass may rely on for a row r it holds: its lease is never later than
\* the row's, it is over when the row is settled, and where the row still
\* carries it nobody claimed the row since, short of a redelivery.
LeaseOK(w, d, r) ==
  /\ r.status # "none"
  /\ claimed[w][d].redelivered < LeaseUntil(w)
  /\ r.status # "gone" =>
       /\ LeaseUntil(w) <= r.next
       /\ Settled(r) => LeaseUntil(w) <= now /\ LeaseUntil(w) < r.next
       /\ LeaseUntil(w) = r.next =>
            /\ r.redelivered <= r.next
            /\ claimed[w][d].redelivered = r.redelivered => holder[d] = {w}

Leases == \A w \in Workers, d \in Deliveries : Holding(w, d) => LeaseOK(w, d, row[d])

\* Of two passes that hold a row, one started after the other's lease ended.
Ordered == \A v \in Workers, w \in Workers, d \in Deliveries :
  v # w /\ Holding(v, d) /\ Holding(w, d) =>
    LeaseUntil(v) <= at[w] \/ LeaseUntil(w) <= at[v]

Inv == /\ TypeOK /\ ClockOK /\ JobHeld /\ HeldWhileRunning
       /\ Redeliveries /\ Leases /\ Ordered

----------------------------------------------------------------------------
(* Lemmas about the operators. *)

LEMMA LeaseLemma == Lease \in Nat \ {0}
  <1>1. BatchSize * Timeout \in Nat
    BY WebhookAssumptions
  <1>. QED BY <1>1, WebhookAssumptions DEF Lease

LEMMA BackoffLemma == ASSUME NEW n \in Nat PROVE Backoff(n) \in Nat \ {0}
  <1>1. Least(n, 30) \in 0..30
    BY DEF Least
  <1>2. FirstBackoff * 2 ^ Least(n, 30) \in Nat \ {0}
    BY <1>1, BackoffAssumption
  <1>. HIDE DEF Least
  <1>3. \A x \in Nat \ {0} : Least(x, MaxBackoff) \in Nat \ {0}
    BY WebhookAssumptions DEF Least
  <1>. QED BY <1>2, <1>3 DEF Backoff

LEMMA BlankLemma == \A s \in Statuses : Blank(s) \in Rows
  BY DEF Blank, Rows

LEMMA LeaseUntilLemma ==
  ASSUME TypeOK, NEW w \in Workers
  PROVE  LeaseUntil(w) \in Nat /\ LeaseUntil(w) > at[w]
  BY LeaseLemma DEF LeaseUntil, TypeOK

LEMMA InvInit == Init => Inv
  <1>. SUFFICES ASSUME Init PROVE Inv
    OBVIOUS
  <1>1. Blank("none") \in Rows /\ Blank("none").status = "none"
    BY BlankLemma DEF Statuses, Blank
  <1>2. TypeOK
    BY <1>1 DEF Init, TypeOK, Steps, Outcomes
  <1>3. \A w \in Workers, d \in Deliveries : ~Holding(w, d)
    BY <1>1 DEF Init, Holding
  <1>4. Redeliveries
    BY LeaseLemma DEF Init, Redeliveries, Blank
  <1>5. ClockOK /\ JobHeld
    BY DEF Init, ClockOK, JobHeld
  <1>. QED BY <1>2, <1>3, <1>4, <1>5 DEF Inv, HeldWhileRunning, Leases, Ordered

----------------------------------------------------------------------------
(* Steps that leave the rows and their leases alone. *)

LEMMA QuietStep ==
  ASSUME Inv, now' \in Nat, now <= now', UNCHANGED <<row, claimed, at, holder>>
  PROVE  ClockOK' /\ Redeliveries' /\ Leases' /\ Ordered'
  <1>1. ClockOK'
    BY DEF Inv, TypeOK, ClockOK
  <1>2. Redeliveries' /\ Ordered'
    BY DEF Inv, Redeliveries, Ordered, Holding, LeaseUntil
  <1>3. Leases'
    <2>. SUFFICES ASSUME NEW w \in Workers, NEW d \in Deliveries, Holding(w, d)
                  PROVE  LeaseOK(w, d, row[d])'
      BY DEF Leases, Holding
    <2>1. LeaseOK(w, d, row[d])
      BY DEF Inv, Leases
    <2>2. LeaseUntil(w)' = LeaseUntil(w) /\ LeaseUntil(w) \in Nat
      BY LeaseUntilLemma DEF LeaseUntil, Inv
    <2>. QED BY <2>1, <2>2 DEF LeaseOK, Inv, TypeOK
  <1>. QED BY <1>1, <1>2, <1>3

LEMMA TickStep == ASSUME Inv, Tick PROVE Inv'
  <1>1. TypeOK'
    <2>1. spent' \in [Workers -> Nat] /\ now' \in Nat
      BY DEF Inv, TypeOK, Tick
    <2>. QED BY <2>1 DEF Inv, TypeOK, Tick, ghost, faults
  <1>2. ClockOK' /\ Redeliveries' /\ Leases' /\ Ordered'
    BY QuietStep DEF Tick, Inv, TypeOK, ghost
  <1>3. JobHeld' /\ HeldWhileRunning'
    BY DEF Inv, JobHeld, HeldWhileRunning, Holding, Tick
  <1>. QED BY <1>1, <1>2, <1>3 DEF Inv

LEMMA PauseStep == ASSUME Inv, NEW h \in Hooks, SetPaused(h) PROVE Inv'
  <1>1. TypeOK'
    BY DEF Inv, TypeOK, SetPaused, ghost, pass, faults
  <1>2. ClockOK' /\ Redeliveries' /\ Leases' /\ Ordered'
    BY QuietStep DEF SetPaused, Inv, TypeOK, ghost, pass
  <1>3. JobHeld' /\ HeldWhileRunning'
    BY DEF Inv, JobHeld, HeldWhileRunning, Holding, SetPaused, pass
  <1>. QED BY <1>1, <1>2, <1>3 DEF Inv

LEMMA AttemptStep ==
  ASSUME Inv, NEW w \in Workers, NEW d \in Deliveries, Attempt(w, d) PROVE Inv'
  <1>1. TypeOK'
    <2>1. step' \in [Workers -> Steps] /\ outcome' \in [Workers -> Outcomes]
      BY DEF Inv, TypeOK, Attempt, Steps, Outcomes
    <2>2. sentAt' \in [Workers -> Nat] /\ job' \in [Workers -> Deliveries \cup {NoDelivery}]
      BY DEF Inv, TypeOK, Attempt
    <2>. QED BY <2>1, <2>2 DEF Inv, TypeOK, Attempt, ghost, faults
  <1>2. ClockOK' /\ Redeliveries' /\ Leases' /\ Ordered'
    BY QuietStep DEF Attempt, Inv, TypeOK, ghost
  <1>3. JobHeld' /\ HeldWhileRunning'
    BY DEF Inv, JobHeld, HeldWhileRunning, Holding, Attempt, TypeOK
  <1>. QED BY <1>1, <1>2, <1>3 DEF Inv

LEMMA AnsweredStep ==
  ASSUME Inv, NEW w \in Workers, NEW ok \in BOOLEAN, Answered(w, ok) PROVE Inv'
  <1>1. job[w] \in Deliveries
    BY DEF Inv, JobHeld, Answered
  <1>2. TypeOK'
    <2>1. step' \in [Workers -> Steps] /\ outcome' \in [Workers -> Outcomes]
      BY DEF Inv, TypeOK, Answered, Steps, Outcomes
    <2>2. sentAt' \in [Workers -> Nat] /\ accepted' \subseteq Deliveries
      BY <1>1 DEF Inv, TypeOK, Answered
    <2>. QED BY <2>1, <2>2 DEF Inv, TypeOK, Answered, faults
  <1>3. ClockOK' /\ Redeliveries' /\ Leases' /\ Ordered'
    BY QuietStep DEF Answered, Inv, TypeOK
  <1>4. JobHeld' /\ HeldWhileRunning'
    BY DEF Inv, JobHeld, HeldWhileRunning, Holding, Answered, TypeOK
  <1>. QED BY <1>2, <1>3, <1>4 DEF Inv

----------------------------------------------------------------------------
(* Steps that begin and end a pass. *)

LEMMA StartStep == ASSUME Inv, NEW w \in Workers, StartPass(w) PROVE Inv'
  <1>1. TypeOK'
    <2>1. step' \in [Workers -> Steps] /\ at' \in [Workers -> Nat]
      BY DEF Inv, TypeOK, StartPass, Steps
    <2>. QED BY <2>1 DEF Inv, TypeOK, StartPass, ghost, faults
  <1>2. \A v \in Workers : v # w => at'[v] = at[v] /\ LeaseUntil(v)' = LeaseUntil(v)
    BY DEF StartPass, LeaseUntil, Inv, TypeOK
  <1>3. \A d \in Deliveries : ~Holding(w, d)
    BY DEF StartPass, Inv, HeldWhileRunning
  <1>4. \A v \in Workers, d \in Deliveries : Holding(v, d)' <=> Holding(v, d)
    BY DEF StartPass, Holding
  <1>5. ClockOK'
    BY DEF StartPass, Inv, TypeOK, ClockOK
  <1>6. JobHeld' /\ HeldWhileRunning'
    BY <1>4 DEF Inv, JobHeld, HeldWhileRunning, StartPass, TypeOK
  <1>7. Redeliveries'
    BY DEF Inv, Redeliveries, StartPass
  <1>8. Leases'
    <2>. SUFFICES ASSUME NEW v \in Workers, NEW d \in Deliveries, Holding(v, d), v # w
                  PROVE  LeaseOK(v, d, row[d])'
      BY <1>3, <1>4 DEF Leases
    <2>1. LeaseOK(v, d, row[d])
      BY DEF Inv, Leases
    <2>. QED BY <1>2, <2>1 DEF LeaseOK, StartPass, ghost
  <1>9. Ordered'
    <2>. SUFFICES ASSUME NEW u \in Workers, NEW v \in Workers, NEW d \in Deliveries,
                         u # v, Holding(u, d), Holding(v, d)
                  PROVE  (LeaseUntil(u) <= at[v] \/ LeaseUntil(v) <= at[u])'
      BY <1>4 DEF Ordered
    <2>. QED BY <1>2, <1>3 DEF Inv, Ordered
  <1>. QED BY <1>1, <1>5, <1>6, <1>7, <1>8, <1>9 DEF Inv

LEMMA EndStep ==
  ASSUME Inv, NEW w \in Workers, EndPass(w), UNCHANGED <<now, row, paused, recorded, holder>>,
         accepted' \subseteq accepted, crashes' \in Nat, resets' \in Nat
  PROVE  Inv'
  <1>0. Blank("none") \in Rows /\ Blank("none").status = "none"
    BY BlankLemma DEF Statuses, Blank
  <1>1. TypeOK'
    <2>1. step' \in [Workers -> Steps] /\ outcome' \in [Workers -> Outcomes]
      BY DEF Inv, TypeOK, EndPass, Steps, Outcomes
    <2>2. at' \in [Workers -> Nat] /\ sentAt' \in [Workers -> Nat] /\ spent' \in [Workers -> Nat]
      BY DEF Inv, TypeOK, EndPass
    <2>3. claimed' \in [Workers -> [Deliveries -> Rows]]
      BY <1>0 DEF Inv, TypeOK, EndPass
    <2>4. job' \in [Workers -> Deliveries \cup {NoDelivery}]
      BY DEF Inv, TypeOK, EndPass
    <2>. QED BY <2>1, <2>2, <2>3, <2>4 DEF Inv, TypeOK
  <1>2. \A v \in Workers : v # w => at'[v] = at[v] /\ LeaseUntil(v)' = LeaseUntil(v)
                                    /\ claimed'[v] = claimed[v]
    BY DEF EndPass, LeaseUntil, Inv, TypeOK
  <1>3. \A v \in Workers, d \in Deliveries : Holding(v, d)' <=> Holding(v, d) /\ v # w
    BY <1>0 DEF EndPass, Holding, Inv, TypeOK
  <1>5. ClockOK'
    BY DEF EndPass, Inv, TypeOK, ClockOK
  <1>6. JobHeld' /\ HeldWhileRunning'
    BY <1>3 DEF Inv, JobHeld, HeldWhileRunning, EndPass, TypeOK
  <1>7. Redeliveries'
    BY DEF Inv, Redeliveries
  <1>8. Leases'
    <2>. SUFFICES ASSUME NEW v \in Workers, NEW d \in Deliveries, Holding(v, d), v # w
                  PROVE  LeaseOK(v, d, row[d])'
      BY <1>3 DEF Leases
    <2>1. LeaseOK(v, d, row[d])
      BY DEF Inv, Leases
    <2>. QED BY <1>2, <2>1 DEF LeaseOK
  <1>9. Ordered'
    <2>. SUFFICES ASSUME NEW u \in Workers, NEW v \in Workers, NEW d \in Deliveries,
                         u # v, Holding(u, d), Holding(v, d), u # w, v # w
                  PROVE  (LeaseUntil(u) <= at[v] \/ LeaseUntil(v) <= at[u])'
      BY <1>3 DEF Ordered
    <2>. QED BY <1>2 DEF Inv, Ordered
  <1>. QED BY <1>1, <1>5, <1>6, <1>7, <1>8, <1>9 DEF Inv

----------------------------------------------------------------------------
(* Steps that change rows. *)

\* Administrators and the cleanup: enough that every change of a held row
\* respects the leases on it.
LEMMA RowsStep ==
  ASSUME Inv, UNCHANGED <<now, at, claimed, holder, step, job>>, Redeliveries',
         \A w \in Workers, d \in Deliveries :
           Holding(w, d) /\ LeaseOK(w, d, row[d]) => LeaseOK(w, d, row'[d])
  PROVE  ClockOK' /\ JobHeld' /\ HeldWhileRunning' /\ Redeliveries' /\ Leases' /\ Ordered'
  <1>1. \A w \in Workers, d \in Deliveries :
          (Holding(w, d)' <=> Holding(w, d)) /\ LeaseUntil(w)' = LeaseUntil(w)
    BY DEF Holding, LeaseUntil
  <1>2. ClockOK' /\ JobHeld' /\ HeldWhileRunning'
    BY <1>1 DEF Inv, ClockOK, JobHeld, HeldWhileRunning
  <1>3. Ordered'
    BY <1>1 DEF Inv, Ordered
  <1>4. Leases'
    <2>. SUFFICES ASSUME NEW w \in Workers, NEW d \in Deliveries, Holding(w, d)
                  PROVE  LeaseOK(w, d, row[d])'
      BY <1>1 DEF Leases
    <2>1. LeaseOK(w, d, row'[d])
      BY DEF Inv, Leases
    <2>. QED BY <1>1, <2>1 DEF LeaseOK
  <1>. QED BY <1>2, <1>3, <1>4

LEMMA OutboxStep == ASSUME Inv, NEW e \in Deliveries, WriteOutbox(e) PROVE Inv'
  <1>. DEFINE new == [Blank("pending") EXCEPT !.next = now, !.occurred = now, !.updated = now]
  <1>b. new.status = "pending"
    BY DEF Blank
  <1>1. new \in Rows /\ new.redelivered = 0 /\ new.next = now
    BY DEF Inv, TypeOK, Blank, Rows, Statuses
  <1>2. row' = [row EXCEPT ![e] = new] /\ row[e].status = "none"
        /\ UNCHANGED <<now, paused, pass, faults, ghost>>
    BY DEF WriteOutbox
  <1>. HIDE DEF new
  <1>3. TypeOK'
    BY <1>1, <1>2 DEF Inv, TypeOK, pass, faults, ghost
  <1>4. \A d \in Deliveries : row'[d] = IF d = e THEN new ELSE row[d]
    BY <1>2 DEF Inv, TypeOK
  <1>5. Redeliveries'
    BY <1>1, <1>2, <1>4, <1>b, LeaseLemma DEF Inv, TypeOK, Redeliveries
  <1>6. \A w \in Workers, d \in Deliveries :
          Holding(w, d) /\ LeaseOK(w, d, row[d]) => LeaseOK(w, d, row'[d])
    BY <1>2, <1>4 DEF LeaseOK
  <1>. QED BY <1>2, <1>3, <1>5, <1>6, RowsStep DEF Inv, pass, ghost

\* A removed row puts nothing on the passes that hold it.
LEMMA GoneStep ==
  ASSUME Inv, UNCHANGED <<now, paused, pass, faults, ghost>>,
         NEW S \in SUBSET Deliveries,
         row' = [d \in Deliveries |-> IF d \in S THEN Blank("gone") ELSE row[d]]
  PROVE  Inv'
  <1>1. Blank("gone") \in Rows /\ Blank("gone").status = "gone" /\ Blank("gone").next = 0
    BY BlankLemma DEF Blank, Statuses
  <1>2. TypeOK'
    BY <1>1 DEF Inv, TypeOK, pass, faults, ghost
  <1>3. Redeliveries'
    BY <1>1 DEF Inv, Redeliveries
  <1>4. \A w \in Workers, d \in Deliveries :
          Holding(w, d) /\ LeaseOK(w, d, row[d]) => LeaseOK(w, d, row'[d])
    BY <1>1 DEF LeaseOK
  <1>. QED BY <1>2, <1>3, <1>4, RowsStep DEF Inv, pass, ghost

LEMMA RedeliverStep == ASSUME Inv, NEW e \in Deliveries, Redeliver(e) PROVE Inv'
  <1>. DEFINE new == [row[e] EXCEPT !.status = "pending", !.next = now,
                                    !.redelivered = now, !.updated = now]
  <1>1. new \in Rows /\ new.redelivered = now /\ new.next = now /\ new.status = "pending"
    <2>1. row[e] \in Rows /\ now \in Nat
      BY DEF Inv, TypeOK
    <2>. QED BY <2>1 DEF Rows, Statuses
  <1>2. row' = [row EXCEPT ![e] = new] /\ UNCHANGED <<now, paused, pass, crashes, holder>>
    BY DEF Redeliver
  <1>3. Settled(row[e]) \/ (Open(row[e]) /\ row[e].next <= now)
    BY DEF Redeliver
  <1>4. row[e] \in Rows /\ now \in Nat
    BY DEF Inv, TypeOK
  <1>. HIDE DEF new
  <1>5. TypeOK'
    BY <1>1, <1>2 DEF Inv, TypeOK, pass, Redeliver
  <1>6. \A d \in Deliveries : row'[d] = IF d = e THEN new ELSE row[d]
    BY <1>2 DEF Inv, TypeOK
  <1>7. Redeliveries'
    BY <1>1, <1>2, <1>4, <1>6, LeaseLemma DEF Inv, TypeOK, Redeliveries
  <1>8. ASSUME NEW w \in Workers, Holding(w, e), LeaseOK(w, e, row[e])
        PROVE  LeaseOK(w, e, new)
    <2>1. LeaseUntil(w) \in Nat /\ claimed[w][e].redelivered \in Nat
      BY LeaseUntilLemma DEF Inv, TypeOK, Rows
    <2>2. LeaseUntil(w) <= now
      BY <1>3, <1>4, <1>8, <2>1 DEF LeaseOK, Settled, Open, Rows
    <2>. QED BY <1>1, <1>4, <1>8, <2>1, <2>2 DEF LeaseOK, Settled
  <1>9. \A w \in Workers, d \in Deliveries :
          Holding(w, d) /\ LeaseOK(w, d, row[d]) => LeaseOK(w, d, row'[d])
    BY <1>6, <1>8
  <1>. QED BY <1>2, <1>5, <1>7, <1>9, RowsStep DEF Inv, pass

LEMMA ClaimStep == ASSUME Inv, NEW w \in Workers, Claim(w) PROVE Inv'
  <1>0. PICK S \in SUBSET Deliveries :
           /\ ClaimBatch(w, S)
           /\ \A d \in S : Open(row[d]) /\ row[d].next <= at[w]
    BY DEF Claim, Batches, Due
  <1>. DEFINE L == LeaseUntil(w)
  <1>1. L \in Nat /\ at[w] < L /\ L = at[w] + Lease /\ at[w] \in Nat /\ Lease \in Nat
    BY LeaseUntilLemma, LeaseLemma DEF Inv, LeaseUntil, TypeOK
  <1>2. \A d \in Deliveries : ~Holding(w, d)
    BY DEF Claim, Inv, HeldWhileRunning
  <1>3. \A r \in Rows : [r EXCEPT !.next = L] \in Rows
    BY <1>1 DEF Rows
  <1>4. Blank("none") \in Rows /\ Blank("none").status = "none"
    BY BlankLemma DEF Statuses, Blank
  <1>5. TypeOK'
    <2>1. row' \in [Deliveries -> Rows]
      BY <1>0, <1>3 DEF Inv, TypeOK, ClaimBatch
    <2>2. claimed' \in [Workers -> [Deliveries -> Rows]]
      BY <1>0, <1>4 DEF Inv, TypeOK, ClaimBatch
    <2>3. step' \in [Workers -> Steps] /\ holder' \in [Deliveries -> SUBSET Workers]
      BY <1>0 DEF Inv, TypeOK, ClaimBatch, Steps
    <2>. QED BY <1>0, <2>1, <2>2, <2>3 DEF Inv, TypeOK, ClaimBatch, faults
  <1>6. ClockOK' /\ \A v \in Workers : LeaseUntil(v)' = LeaseUntil(v)
    BY <1>0 DEF Inv, ClockOK, ClaimBatch, LeaseUntil
  <1>7. \A v \in Workers, d \in Deliveries :
          Holding(v, d)' <=> (v # w /\ Holding(v, d)) \/ (v = w /\ d \in S)
    <2>1. \A d \in S : row[d].status # "none"
      BY <1>0 DEF Open
    <2>. QED BY <1>0, <1>2, <1>4, <2>1 DEF Inv, TypeOK, ClaimBatch, Holding
  <1>8. JobHeld' /\ HeldWhileRunning'
    BY <1>0, <1>2, <1>7 DEF Inv, JobHeld, HeldWhileRunning, ClaimBatch, TypeOK, Claim
  <1>9. \A d \in Deliveries :
          /\ d \notin S => row'[d] = row[d] /\ holder'[d] = holder[d]
          /\ d \in S => row'[d] = [row[d] EXCEPT !.next = L] /\ holder'[d] = {w}
    BY <1>0 DEF ClaimBatch
  <1>10. \A d \in S : /\ row'[d].next = L /\ row'[d].status = row[d].status
                      /\ row'[d].redelivered = row[d].redelivered /\ row[d].next \in Nat
                      /\ row[d].redelivered \in Nat
    <2>1. \A r \in Rows : /\ [r EXCEPT !.next = L].next = L
                         /\ [r EXCEPT !.next = L].status = r.status
                         /\ [r EXCEPT !.next = L].redelivered = r.redelivered
                         /\ r.next \in Nat /\ r.redelivered \in Nat
      BY DEF Rows
    <2>2. \A d \in S : row[d] \in Rows
      BY DEF Inv, TypeOK
    <2>. HIDE DEF L
    <2>. SUFFICES ASSUME NEW d \in S
                  PROVE  /\ row'[d].next = L /\ row'[d].status = row[d].status
                         /\ row'[d].redelivered = row[d].redelivered /\ row[d].next \in Nat
                         /\ row[d].redelivered \in Nat
      OBVIOUS
    <2>3. row'[d] = [row[d] EXCEPT !.next = L]
      BY <1>9
    <2>. QED BY <2>1, <2>2, <2>3
  <1>. HIDE DEF L
  <1>11. \A d \in S : row[d].redelivered < L
    BY <1>0, <1>1, <1>10 DEF Inv, Redeliveries, Open
  <1>12. Redeliveries'
    <2>. SUFFICES ASSUME NEW d \in Deliveries
                  PROVE  /\ row'[d].status # "gone" => row'[d].redelivered < row'[d].next + Lease
                         /\ row'[d].status = "gone" => row'[d].next = 0
      BY DEF Redeliveries
    <2>1. CASE d \in S
      BY <1>0, <1>1, <1>10, <1>11, <2>1 DEF Open
    <2>2. CASE d \notin S
      BY <1>9, <2>2 DEF Inv, Redeliveries
    <2>. QED BY <2>1, <2>2
  <1>13. ASSUME NEW v \in Workers, NEW d \in S, v # w, Holding(v, d)
         PROVE  LeaseUntil(v) \in Nat /\ LeaseUntil(v) <= at[w] /\ LeaseOK(v, d, row[d])
    <2>1. LeaseUntil(v) \in Nat /\ LeaseOK(v, d, row[d])
      BY <1>13, LeaseUntilLemma DEF Inv, Leases
    <2>. QED BY <1>0, <1>1, <1>10, <2>1 DEF LeaseOK, Open
  <1>14. Leases'
    <2>. SUFFICES ASSUME NEW v \in Workers, NEW d \in Deliveries, Holding(v, d)'
                  PROVE  LeaseOK(v, d, row[d])'
      BY DEF Leases
    <2>1. CASE v = w
      <3>1. d \in S /\ claimed'[w][d] = row[d] /\ LeaseUntil(w)' = L
        BY <1>0, <1>6, <1>7, <2>1 DEF ClaimBatch, Inv, TypeOK, L
      <3>2. Open(row[d]) /\ holder'[d] = {w}
        BY <1>0, <1>9, <3>1
      <3>. QED BY <1>1, <1>10, <1>11, <2>1, <3>1, <3>2 DEF LeaseOK, Open, Settled
    <2>2. CASE v # w
      <3>1. Holding(v, d) /\ claimed'[v] = claimed[v] /\ now' = now
        BY <1>0, <1>7, <2>2 DEF ClaimBatch, Inv, TypeOK
      <3>2. CASE d \notin S
        <4>1. LeaseOK(v, d, row[d])
          BY <3>1 DEF Inv, Leases
        <4>. QED BY <1>6, <1>9, <3>1, <3>2, <4>1 DEF LeaseOK
      <3>3. CASE d \in S
        <4>1. LeaseUntil(v) < L /\ LeaseUntil(v) \in Nat /\ LeaseOK(v, d, row[d])
          BY <1>1, <1>13, <2>2, <3>1, <3>3
        <4>2. Open(row[d])
          BY <1>0, <3>3
        <4>. QED BY <1>1, <1>6, <1>10, <3>1, <3>3, <4>1, <4>2 DEF LeaseOK, Open, Settled
      <3>. QED BY <3>2, <3>3
    <2>. QED BY <2>1, <2>2
  <1>15. Ordered'
    <2>. SUFFICES ASSUME NEW u \in Workers, NEW v \in Workers, NEW d \in Deliveries,
                         u # v, Holding(u, d)', Holding(v, d)'
                  PROVE  (LeaseUntil(u) <= at[v] \/ LeaseUntil(v) <= at[u])'
      BY DEF Ordered
    <2>1. at' = at
      BY <1>0 DEF ClaimBatch
    <2>2. CASE u = w
      BY <1>6, <1>7, <1>13, <2>1, <2>2
    <2>3. CASE v = w
      BY <1>6, <1>7, <1>13, <2>1, <2>3
    <2>4. CASE u # w /\ v # w
      BY <1>6, <1>7, <2>1, <2>4 DEF Inv, Ordered
    <2>. QED BY <2>2, <2>3, <2>4
  <1>. QED BY <1>5, <1>6, <1>8, <1>12, <1>14, <1>15 DEF Inv

\* The row an outcome leaves is a row; its lease stays, or it is a retry after
\* the pass's clock reading.
LEMMA OutcomeLemma ==
  ASSUME Inv, NEW w \in Workers, step[w] = "record", NEW r \in Rows
  PROVE  /\ Outcome(w, r) \in Rows
         /\ Outcome(w, r).redelivered = r.redelivered
         /\ \/ Settled(Outcome(w, r)) /\ Outcome(w, r).next = r.next
            \/ /\ Outcome(w, r).status = "failed"
               /\ Outcome(w, r).next \in Nat /\ at[w] < Outcome(w, r).next
  <1>. DEFINE read == claimed[w][job[w]]
              next == at[w] + Backoff(read.attempts)
  <1>1. read \in Rows /\ at[w] \in Nat
    BY DEF Inv, TypeOK, JobHeld
  <1>2. next \in Nat /\ at[w] < next
    <2>1. read.attempts \in Nat
      BY <1>1 DEF Rows
    <2>. QED BY <1>1, <2>1, BackoffLemma
  <1>. HIDE DEF read, next
  <1>3. r.attempts \in Nat /\ r.next \in Nat /\ r.attempts + 1 \in Nat
    BY DEF Rows
  <1>4. CASE outcome[w] = "failed" /\ ~PastCutoff(read, next)
    <2>1. Outcome(w, r) = [r EXCEPT !.status = "failed", !.attempts = r.attempts + 1,
                                    !.next = next, !.updated = at[w]]
      BY <1>4 DEF Outcome, read, next
    <2>. QED BY <1>1, <1>2, <1>3, <2>1 DEF Rows, Statuses
  <1>5. CASE ~(outcome[w] = "failed" /\ ~PastCutoff(read, next))
    <2>. DEFINE a == IF outcome[w] = "expired" THEN r.attempts ELSE r.attempts + 1
                s == IF outcome[w] = "delivered" THEN "delivered" ELSE "dead"
    <2>1. Outcome(w, r) = [r EXCEPT !.status = s, !.attempts = a,
                                    !.next = r.next, !.updated = at[w]]
      BY <1>5 DEF Outcome, read, next
    <2>2. a \in Nat /\ s \in {"delivered", "dead"} /\ s \in Statuses
      BY <1>3 DEF Statuses
    <2>. HIDE DEF a, s
    <2>. QED BY <1>1, <1>3, <2>1, <2>2 DEF Rows, Settled
  <1>. QED BY <1>4, <1>5

LEMMA RecordStep == ASSUME Inv, NEW w \in Workers, Record(w) PROVE Inv'
  <1>. DEFINE e == job[w]
  <1>0. e \in Deliveries /\ Holding(w, e) /\ row[e] \in Rows /\ step[w] = "record"
    BY DEF Record, Inv, JobHeld, TypeOK
  <1>1. Blank("none") \in Rows /\ Blank("none").status = "none"
    BY BlankLemma DEF Statuses, Blank
  <1>2. row' = (IF StillLeased(w) THEN [row EXCEPT ![e] = Outcome(w, row[e])] ELSE row)
    BY <1>0 DEF Record, Inv, TypeOK
  <1>3. claimed' = [claimed EXCEPT ![w][e] = Blank("none")]
    BY DEF Record
  <1>4. /\ step' = [step EXCEPT ![w] = "next"] /\ job' = [job EXCEPT ![w] = NoDelivery]
        /\ UNCHANGED <<now, at, holder>>
    BY DEF Record
  <1>5. TypeOK'
    <2>1. row' \in [Deliveries -> Rows]
      BY <1>0, <1>2, OutcomeLemma DEF Inv, TypeOK
    <2>2. claimed' \in [Workers -> [Deliveries -> Rows]]
      BY <1>1, <1>3 DEF Inv, TypeOK
    <2>3. step' \in [Workers -> Steps] /\ job' \in [Workers -> Deliveries \cup {NoDelivery}]
      BY <1>4 DEF Inv, TypeOK, Steps
    <2>4. outcome' \in [Workers -> Outcomes] /\ recorded' \subseteq Deliveries
      BY <1>0 DEF Record, Inv, TypeOK, Outcomes
    <2>. QED BY <2>1, <2>2, <2>3, <2>4 DEF Record, Inv, TypeOK, faults
  <1>. HIDE DEF e
  <1>6. \A v \in Workers, d \in Deliveries :
          /\ Holding(v, d)' <=> Holding(v, d) /\ ~(v = w /\ d = e)
          /\ ~(v = w /\ d = e) => claimed'[v][d] = claimed[v][d]
    BY <1>0, <1>1, <1>3 DEF Holding, Inv, TypeOK
  <1>7. \A v \in Workers : LeaseUntil(v)' = LeaseUntil(v)
    BY <1>4 DEF LeaseUntil
  <1>8. ClockOK' /\ Ordered'
    BY <1>4, <1>6, <1>7 DEF Inv, ClockOK, Ordered
  <1>9. HeldWhileRunning'
    BY <1>4, <1>6 DEF Inv, HeldWhileRunning, TypeOK
  <1>10. JobHeld'
    <2>. SUFFICES ASSUME NEW v \in Workers, step'[v] \in {"send", "record"}
                  PROVE  job'[v] \in Deliveries /\ claimed'[v][job'[v]].status # "none"
      BY DEF JobHeld, Holding
    <2>1. v # w /\ step[v] \in {"send", "record"} /\ job'[v] = job[v]
      BY <1>4 DEF Inv, TypeOK
    <2>2. job[v] \in Deliveries /\ Holding(v, job[v])
      BY <2>1 DEF Inv, JobHeld
    <2>3. claimed'[v][job[v]] = claimed[v][job[v]]
      BY <1>6, <2>1, <2>2
    <2>. QED BY <2>1, <2>2, <2>3 DEF Holding
  <1>11. CASE ~StillLeased(w)
    <2>1. row' = row
      BY <1>2, <1>11
    <2>2. Redeliveries'
      BY <2>1 DEF Inv, Redeliveries
    <2>3. Leases'
      <3>. SUFFICES ASSUME NEW v \in Workers, NEW d \in Deliveries, Holding(v, d)'
                    PROVE  LeaseOK(v, d, row[d])'
        BY DEF Leases
      <3>1. LeaseOK(v, d, row[d])
        BY <1>6 DEF Inv, Leases
      <3>. QED BY <1>4, <1>6, <1>7, <2>1, <3>1 DEF LeaseOK
    <2>. QED BY <1>5, <1>8, <1>9, <1>10, <2>2, <2>3 DEF Inv
  <1>12. CASE StillLeased(w)
    <2>. DEFINE new == Outcome(w, row[e])
                L == LeaseUntil(w)
    <2>1. \A d \in Deliveries : row'[d] = IF d = e THEN new ELSE row[d]
      BY <1>2, <1>12 DEF Inv, TypeOK
    <2>2. /\ new \in Rows /\ new.redelivered = row[e].redelivered
          /\ \/ Settled(new) /\ new.next = row[e].next
             \/ new.status = "failed" /\ new.next \in Nat /\ at[w] < new.next
      BY <1>0, OutcomeLemma
    <2>3. /\ row[e].next = L /\ L \in Nat /\ L = at[w] + Lease /\ at[w] \in Nat
          /\ Lease \in Nat \ {0} /\ now \in Nat /\ at[w] <= now
          /\ row[e].redelivered \in Nat
      BY <1>0, <1>12, LeaseUntilLemma, LeaseLemma
         DEF StillLeased, e, LeaseUntil, Inv, TypeOK, ClockOK, Rows
    <2>. HIDE DEF new, L
    <2>4. row[e].status \notin {"none", "gone"} /\ row[e].redelivered <= L
      <3>1. LeaseOK(w, e, row[e])
        BY <1>0 DEF Inv, Leases
      <3>2. row[e].status # "gone"
        BY <1>0, <2>3 DEF Inv, Redeliveries
      <3>. QED BY <2>3, <3>1, <3>2 DEF LeaseOK, L
    <2>5. Redeliveries'
      <3>. SUFFICES ASSUME NEW d \in Deliveries
                    PROVE  /\ row'[d].status # "gone" => row'[d].redelivered < row'[d].next + Lease
                           /\ row'[d].status = "gone" => row'[d].next = 0
        BY DEF Redeliveries
      <3>1. CASE d = e
        BY <2>1, <2>2, <2>3, <2>4, <3>1 DEF Settled
      <3>2. CASE d # e
        BY <2>1, <3>2 DEF Inv, Redeliveries
      <3>. QED BY <3>1, <3>2
    <2>6. Leases'
      <3>. SUFFICES ASSUME NEW v \in Workers, NEW d \in Deliveries, Holding(v, d)'
                    PROVE  LeaseOK(v, d, row[d])'
        BY DEF Leases
      <3>1. LeaseOK(v, d, row[d]) /\ Holding(v, d) /\ ~(v = w /\ d = e)
        BY <1>6 DEF Inv, Leases
      <3>2. CASE d # e
        BY <1>4, <1>6, <1>7, <2>1, <3>1, <3>2 DEF LeaseOK
      <3>3. CASE d = e
        <4>1. v # w /\ Holding(v, e) /\ LeaseUntil(v) \in Nat /\ at[v] < LeaseUntil(v)
              /\ at[v] \in Nat
          BY <3>1, <3>3, LeaseUntilLemma DEF Inv, TypeOK
        <4>2. LeaseUntil(v) <= L
          BY <2>3, <2>4, <3>1, <3>3 DEF LeaseOK
        <4>3. LeaseUntil(v) <= at[w]
          BY <1>0, <2>3, <4>1, <4>2 DEF Inv, Ordered, L
        <4>4. new.status # "none"
          BY <2>2 DEF Settled
        <4>. QED BY <1>4, <1>6, <1>7, <2>1, <2>2, <2>3, <3>1, <3>3, <4>1, <4>3, <4>4
             DEF LeaseOK, Settled
      <3>. QED BY <3>2, <3>3
    <2>. QED BY <1>5, <1>8, <1>9, <1>10, <2>5, <2>6 DEF Inv
  <1>. QED BY <1>11, <1>12

LEMMA WorkStep == ASSUME Inv, NEW w \in Workers, Work(w) \/ Crash(w) PROVE Inv'
  <1>1. CASE FinishPass(w)
    BY <1>1, EndStep DEF FinishPass, Inv, TypeOK, faults, ghost
  <1>2. CASE Crash(w)
    BY <1>2, EndStep DEF Crash, Inv, TypeOK
  <1>. QED BY <1>1, <1>2, StartStep, ClaimStep, AttemptStep, AnsweredStep, RecordStep DEF Work

LEMMA InvNext == Inv /\ [Next]_vars => Inv'
  <1>. SUFFICES ASSUME Inv, [Next]_vars PROVE Inv'
    OBVIOUS
  <1>1. CASE UNCHANGED vars
    <2>1. TypeOK' /\ JobHeld' /\ HeldWhileRunning'
      BY <1>1 DEF vars, Inv, TypeOK, JobHeld, HeldWhileRunning, Holding
    <2>2. ClockOK' /\ Redeliveries' /\ Leases' /\ Ordered'
      BY <1>1, QuietStep DEF vars, Inv, TypeOK
    <2>. QED BY <2>1, <2>2 DEF Inv
  <1>2. ASSUME NEW h \in Hooks, DeleteHook(h) PROVE Inv'
    <2>1. PICK S \in SUBSET Deliveries : S = {d \in Deliveries : HookOf[d] = h}
      OBVIOUS
    <2>2. row' = [d \in Deliveries |-> IF d \in S THEN Blank("gone") ELSE row[d]]
      BY <1>2, <2>1 DEF DeleteHook
    <2>. QED BY <1>2, <2>2, GoneStep DEF DeleteHook
  <1>3. CASE Cleanup
    <2>1. PICK S \in SUBSET Deliveries : S = {d \in Deliveries : Old(row[d])}
      OBVIOUS
    <2>2. row' = [d \in Deliveries |-> IF d \in S THEN Blank("gone") ELSE row[d]]
      BY <1>3, <2>1 DEF Cleanup
    <2>. QED BY <1>3, <2>2, GoneStep DEF Cleanup
  <1>. QED BY <1>1, <1>2, <1>3, WorkStep, OutboxStep, RedeliverStep, PauseStep, TickStep DEF Next

----------------------------------------------------------------------------
(* The theorems. *)

\* Type correctness of the delivery rows and of every pass.
THEOREM TypeCorrect == Spec => []TypeOK
  <1>1. Inv => TypeOK
    BY DEF Inv
  <1>. QED BY <1>1, InvInit, InvNext, PTL DEF Spec

\* What a step does to one row.
LEMMA RowSteps ==
  ASSUME Inv, [Next]_vars, NEW d \in Deliveries, row'[d] # row[d]
  PROVE  \/ Open(row[d])
         \/ row[d].status = "none"
         \/ Redeliver(d)
         \/ row'[d].status = "gone"
         \/ \E w \in Workers : Record(w) /\ StillLeased(w) /\ job[w] = d
  <1>. USE DEF Inv, TypeOK
  <1>0. Blank("gone").status = "gone"
    BY DEF Blank
  <1>1. row' # row
    OBVIOUS
  <1>2. ASSUME NEW w \in Workers, Claim(w) PROVE Open(row[d])
    BY <1>2 DEF Claim, ClaimBatch, Batches, Due
  <1>3. ASSUME NEW w \in Workers, Record(w) PROVE StillLeased(w) /\ job[w] = d
    BY <1>3 DEF Record
  <1>4. ASSUME NEW w \in Workers, Work(w) \/ Crash(w), ~Claim(w), ~Record(w) PROVE FALSE
    BY <1>1, <1>4 DEF Work, StartPass, Attempt, Answered, FinishPass, Crash
  <1>5. ASSUME NEW e \in Deliveries, WriteOutbox(e) PROVE row[d].status = "none"
    BY <1>5 DEF WriteOutbox
  <1>6. ASSUME NEW e \in Deliveries, Redeliver(e) PROVE e = d
    BY <1>6 DEF Redeliver
  <1>7. ASSUME NEW h \in Hooks, SetPaused(h) \/ DeleteHook(h) PROVE row'[d].status = "gone"
    BY <1>0, <1>1, <1>7 DEF SetPaused, DeleteHook
  <1>8. CASE Cleanup
    BY <1>0, <1>8 DEF Cleanup
  <1>9. CASE Tick \/ UNCHANGED vars
    BY <1>1, <1>9 DEF Tick, vars
  <1>. QED BY <1>2, <1>3, <1>4, <1>5, <1>6, <1>7, <1>8, <1>9 DEF Next

\* A recorded delivery is final: for any number of workers, any stall and any
\* lease that was lost, only a redelivery by hand or the row's removal ends it.
THEOREM DeliveredIsFinal == Spec => DeliveredStays
  <1>1. ASSUME Inv, [Next]_vars, NEW d \in Deliveries, row[d].status = "delivered"
        PROVE  row'[d].status = "delivered" \/ Redeliver(d) \/ row'[d].status = "gone"
    <2>1. ASSUME NEW w \in Workers, Record(w), StillLeased(w), job[w] = d PROVE FALSE
      <3>1. LeaseOK(w, d, row[d])
        BY <1>1, <2>1 DEF Inv, JobHeld, Leases, Record
      <3>2. LeaseUntil(w) \in Nat
        BY <1>1, <2>1, LeaseUntilLemma DEF Inv
      <3>. QED BY <1>1, <2>1, <3>1, <3>2 DEF LeaseOK, Settled, StillLeased
    <2>2. ~Open(row[d]) /\ row[d].status # "none"
      BY <1>1 DEF Open
    <2>. QED BY <1>1, <2>1, <2>2, RowSteps
  <1>2. Inv /\ [Next]_vars =>
          [\A d \in Deliveries : row[d].status = "delivered" =>
             row'[d].status = "delivered" \/ Redeliver(d) \/ row'[d].status = "gone"]_vars
    BY <1>1
  <1>. QED BY <1>2, InvInit, InvNext, PTL DEF Spec, DeliveredStays

\* The lease guard works: a pass that lost a row to another one never records
\* its own outcome over that pass's, short of a redelivery in between.
THEOREM LostLeaseIsHarmless == Spec => LostLeaseNeverOverwrites
  <1>1. ASSUME Inv, [Next]_vars, NEW w \in Workers, NEW d \in Deliveries, Writes(w, d)
        PROVE  holder[d] = {w} \/ claimed[w][d].redelivered # row[d].redelivered
    <2>1. Record(w)
      <3>. USE DEF Inv, TypeOK, Writes
      <3>1. ASSUME NEW v \in Workers, v # w, Work(v) \/ Crash(v) PROVE step'[w] = step[w]
        <4>1. CASE StartPass(v) \/ Claim(v) \/ Record(v)
          BY <1>1, <3>1, <4>1 DEF StartPass, Claim, ClaimBatch, Record
        <4>2. CASE \E e \in Deliveries : Attempt(v, e)
          BY <1>1, <3>1, <4>2 DEF Attempt
        <4>3. CASE Answered(v, TRUE) \/ Answered(v, FALSE)
          BY <1>1, <3>1, <4>3 DEF Answered
        <4>4. CASE FinishPass(v) \/ Crash(v)
          BY <1>1, <3>1, <4>4 DEF FinishPass, Crash, EndPass
        <4>. QED BY <3>1, <4>1, <4>2, <4>3, <4>4 DEF Work
      <3>2. ASSUME Work(w) \/ Crash(w), ~Record(w) PROVE FALSE
        BY <1>1, <3>2 DEF Work, StartPass, Claim, Attempt, Answered, FinishPass, Crash, EndPass
      <3>3. CASE UNCHANGED vars
        BY <1>1, <3>3 DEF vars
      <3>4. ASSUME \/ \E e \in Deliveries : WriteOutbox(e) \/ Redeliver(e)
                   \/ \E h \in Hooks : SetPaused(h) \/ DeleteHook(h)
                   \/ Cleanup \/ Tick
            PROVE  step' = step
        <4>1. ASSUME NEW e \in Deliveries, WriteOutbox(e) \/ Redeliver(e) PROVE step' = step
          BY <4>1 DEF WriteOutbox, Redeliver, pass
        <4>2. ASSUME NEW h \in Hooks, SetPaused(h) \/ DeleteHook(h) PROVE step' = step
          BY <4>2 DEF SetPaused, DeleteHook, pass
        <4>3. CASE Cleanup \/ Tick
          BY <4>3 DEF Cleanup, Tick, pass
        <4>. QED BY <3>4, <4>1, <4>2, <4>3
      <3>5. step'[w] # step[w]
        BY <1>1
      <3>6. CASE \E v \in Workers : Work(v) \/ Crash(v)
        BY <3>1, <3>2, <3>5, <3>6
      <3>. QED BY <1>1, <3>3, <3>4, <3>5, <3>6 DEF Next
    <2>2. StillLeased(w) /\ job[w] = d
      BY <1>1, <2>1 DEF Record, Writes
    <2>3. LeaseOK(w, d, row[d]) /\ LeaseUntil(w) \in Nat /\ LeaseUntil(w) > 0
      BY <1>1, <2>1, <2>2, LeaseUntilLemma DEF Inv, TypeOK, JobHeld, Leases, Record
    <2>4. row[d].status # "gone"
      BY <1>1, <2>2, <2>3 DEF Inv, Redeliveries, StillLeased
    <2>. QED BY <2>2, <2>3, <2>4 DEF LeaseOK, StillLeased
  <1>2. Inv /\ [Next]_vars =>
          [\A w \in Workers, d \in Deliveries : Writes(w, d) =>
             holder[d] = {w} \/ claimed[w][d].redelivered # row[d].redelivered]_vars
    BY <1>1
  <1>. QED BY <1>2, InvInit, InvNext, PTL DEF Spec, LostLeaseNeverOverwrites

----------------------------------------------------------------------------
(* Timely passes: where no pass is suspended past its margin, the lease    *)
(* taken for a whole batch outlasts the pass.                              *)

HeldBy(w) == {d \in Deliveries : Holding(w, d)}
InHand(w) == Cardinality(HeldBy(w))

\* What the sends of a pass may have taken when n rows are still to be done.
Sends(n) == (BatchSize - n) * Timeout

\* The time a pass has used is what it lost elsewhere and the sends it ended,
\* and the running send is within its timeout.
Time(w) ==
  /\ spent[w] < Margin /\ InHand(w) <= BatchSize
  /\ step[w] = "claim" => now <= at[w] + spent[w]
  /\ step[w] = "next" => now <= at[w] + spent[w] + Sends(InHand(w))
  /\ step[w] = "send" => /\ sentAt[w] <= at[w] + spent[w] + Sends(InHand(w))
                         /\ now <= sentAt[w] + Timeout
  /\ step[w] = "record" => now <= at[w] + spent[w] + Sends(InHand(w)) + Timeout

OnTime == \A w \in Workers : Time(w)

\* A held row keeps the lease of its pass, unless its hook was deleted.
Undisturbed == \A w \in Workers, d \in Deliveries :
  Holding(w, d) /\ row[d].status # "gone" => row[d].next = LeaseUntil(w)

\* Recorded or about to be: a delivery was accepted since its redelivery.
Honoured ==
  /\ DeliveredWasAccepted
  /\ \A w \in Workers :
       step[w] = "record" /\ outcome[w] = "delivered" /\ row[job[w]].status # "gone" =>
         job[w] \in accepted

\* An accepted delivery is recorded, gone, or in the hands of the one pass that
\* is about to record it.
Recording(w, d) == step[w] = "record" /\ outcome[w] = "delivered" /\ job[w] = d

Once == \A d \in accepted :
  /\ row[d].status \in {"delivered", "gone"} \/ \E w \in Workers : Holding(w, d)
  /\ \A w \in Workers : Holding(w, d) => Recording(w, d)

LEMMA SendsLemma ==
  ASSUME NEW n \in Nat, n <= BatchSize
  PROVE  /\ Sends(n) \in Nat /\ Sends(n) <= Sends(0)
         /\ n > 0 => Sends(n - 1) = Sends(n) + Timeout /\ Sends(n) + Timeout <= Sends(0)
         /\ Lease = Sends(0) + Margin
  <1>. DEFINE k == BatchSize - n
  <1>1. k \in Nat /\ Timeout \in Nat /\ BatchSize \in Nat /\ Margin \in Nat
    BY WebhookAssumptions
  <1>2. k * Timeout \in Nat /\ n * Timeout \in Nat
    BY <1>1
  <1>3. BatchSize * Timeout = k * Timeout + n * Timeout
    BY <1>1
  <1>4. (k + 1) * Timeout = k * Timeout + Timeout
    BY <1>1
  <1>5. n > 0 => n * Timeout >= Timeout
    <2>1. ASSUME n > 0 PROVE n * Timeout = (n - 1) * Timeout + Timeout /\ (n - 1) * Timeout \in Nat
      BY <1>1, <2>1
    <2>. QED BY <1>1, <2>1
  <1>6. BatchSize - (n - 1) = k + 1 /\ BatchSize - 0 = BatchSize
    BY <1>1
  <1>. HIDE DEF k
  <1>7. Sends(n) = k * Timeout /\ Sends(0) = BatchSize * Timeout
        /\ Sends(n - 1) = (k + 1) * Timeout /\ Lease = BatchSize * Timeout + Margin
    BY <1>6 DEF Sends, Lease, k
  <1>. QED BY <1>1, <1>2, <1>3, <1>4, <1>5, <1>7

LEMMA InHandLemma ==
  ASSUME NEW w \in Workers
  PROVE  /\ IsFiniteSet(HeldBy(w)) /\ InHand(w) \in Nat
         /\ \A d \in Deliveries : Holding(w, d) => InHand(w) > 0
  <1>1. IsFiniteSet(HeldBy(w))
    BY FS_Subset, WebhookAssumptions DEF HeldBy
  <1>2. InHand(w) \in Nat /\ (InHand(w) = 0 <=> HeldBy(w) = {})
    BY <1>1, FS_CardinalityType, FS_EmptySet DEF InHand
  <1>. QED BY <1>1, <1>2 DEF HeldBy

\* A pass that is on time is within its lease.
LEMMA InTime ==
  ASSUME Inv, OnTime, NEW w \in Workers, step[w] # "idle"
  PROVE  now < LeaseUntil(w)
  <1>1. /\ InHand(w) \in Nat /\ InHand(w) <= BatchSize /\ spent[w] < Margin
        /\ step[w] \in {"send", "record"} => InHand(w) > 0
    BY InHandLemma DEF OnTime, Time, Inv, JobHeld
  <1>2. /\ now \in Nat /\ at[w] \in Nat /\ spent[w] \in Nat /\ sentAt[w] \in Nat
        /\ Margin \in Nat /\ Timeout \in Nat /\ step[w] \in Steps
    BY WebhookAssumptions DEF Inv, TypeOK
  <1>3. /\ Sends(InHand(w)) \in Nat /\ Sends(InHand(w)) <= Sends(0) /\ Sends(0) \in Nat
        /\ InHand(w) > 0 => Sends(InHand(w)) + Timeout <= Sends(0)
    <2>1. 0 \in Nat /\ 0 <= BatchSize
      BY WebhookAssumptions
    <2>2. Sends(0) \in Nat
      BY <2>1, SendsLemma
    <2>. QED BY <1>1, <2>2, SendsLemma
  <1>4. LeaseUntil(w) = at[w] + Sends(0) + Margin
    <2>1. 0 \in Nat /\ 0 <= BatchSize
      BY WebhookAssumptions
    <2>2. Lease = Sends(0) + Margin /\ Sends(0) \in Nat
      BY <2>1, SendsLemma
    <2>. QED BY <1>2, <2>2 DEF LeaseUntil
  <1>5. Time(w)
    BY DEF OnTime
  <1>. HIDE DEF InHand, Sends, LeaseUntil
  <1>6. CASE step[w] = "claim"
    BY <1>1, <1>2, <1>3, <1>4, <1>5, <1>6 DEF Time
  <1>7. CASE step[w] = "next"
    BY <1>1, <1>2, <1>3, <1>4, <1>5, <1>7 DEF Time
  <1>8. CASE step[w] = "send"
    BY <1>1, <1>2, <1>3, <1>4, <1>5, <1>8 DEF Time
  <1>9. CASE step[w] = "record"
    BY <1>1, <1>2, <1>3, <1>4, <1>5, <1>9 DEF Time
  <1>. QED BY <1>2, <1>6, <1>7, <1>8, <1>9 DEF Steps

\* So no row is in the hands of two passes.
LEMMA OnTimeNeverOvertaken == Inv /\ OnTime => NeverOvertaken
  <1>. SUFFICES ASSUME Inv, OnTime, NEW d \in Deliveries, NEW v \in Workers, NEW w \in Workers,
                       Holding(v, d), Holding(w, d), v # w
                PROVE  FALSE
    BY DEF NeverOvertaken
  <1>1. step[v] # "idle" /\ step[w] # "idle"
    BY DEF Inv, HeldWhileRunning
  <1>2. now < LeaseUntil(v) /\ now < LeaseUntil(w)
    BY <1>1, InTime
  <1>3. LeaseUntil(v) \in Nat /\ LeaseUntil(w) \in Nat
    BY LeaseUntilLemma DEF Inv
  <1>4. at[v] <= now /\ at[w] <= now /\ at[v] \in Nat /\ at[w] \in Nat /\ now \in Nat
    BY DEF Inv, TypeOK, ClockOK
  <1>. QED BY <1>2, <1>3, <1>4 DEF Inv, Ordered

----------------------------------------------------------------------------
(* What a step does to a pass. *)

PassKept(w) == /\ step'[w] = step[w] /\ at'[w] = at[w] /\ claimed'[w] = claimed[w]
               /\ job'[w] = job[w] /\ outcome'[w] = outcome[w] /\ sentAt'[w] = sentAt[w]

LEMMA OtherPass ==
  ASSUME Inv, NEW v \in Workers, Work(v) \/ Crash(v), NEW w \in Workers, w # v
  PROVE  PassKept(w) /\ spent'[w] = spent[w]
  <1>. USE DEF Inv, TypeOK, PassKept
  <1>1. CASE StartPass(v)
    BY <1>1 DEF StartPass
  <1>2. CASE Claim(v)
    BY <1>2 DEF Claim, ClaimBatch
  <1>3. ASSUME NEW d \in Deliveries, Attempt(v, d) PROVE PassKept(w) /\ spent'[w] = spent[w]
    BY <1>3 DEF Attempt
  <1>4. CASE Answered(v, TRUE) \/ Answered(v, FALSE)
    BY <1>4 DEF Answered
  <1>5. CASE Record(v)
    BY <1>5 DEF Record
  <1>6. CASE FinishPass(v) \/ Crash(v)
    BY <1>6 DEF FinishPass, Crash, EndPass
  <1>. QED BY <1>1, <1>2, <1>3, <1>4, <1>5, <1>6 DEF Work

\* Administrators, facts and the clock leave the passes alone.
LEMMA PassSteps ==
  ASSUME Inv, [Next]_vars, NEW w \in Workers
  PROVE  PassKept(w) \/ Work(w) \/ Crash(w)
  <1>1. CASE UNCHANGED vars
    BY <1>1 DEF vars, PassKept
  <1>2. ASSUME NEW d \in Deliveries, WriteOutbox(d) \/ Redeliver(d) PROVE PassKept(w)
    BY <1>2 DEF WriteOutbox, Redeliver, pass, PassKept
  <1>3. ASSUME NEW h \in Hooks, SetPaused(h) \/ DeleteHook(h) PROVE PassKept(w)
    BY <1>3 DEF SetPaused, DeleteHook, pass, PassKept
  <1>4. CASE Cleanup \/ Tick
    BY <1>4 DEF Cleanup, Tick, pass, PassKept
  <1>. QED BY <1>1, <1>2, <1>3, <1>4, OtherPass DEF Next

LEMMA OnTimeInit == Init => OnTime
  <1>. SUFFICES ASSUME Init, NEW w \in Workers PROVE Time(w)
    BY DEF OnTime
  <1>1. HeldBy(w) = {}
    BY DEF Init, HeldBy, Holding, Blank
  <1>2. InHand(w) = 0
    BY <1>1, FS_EmptySet DEF InHand
  <1>. QED BY <1>2, WebhookAssumptions DEF Init, Time

\* A pass nothing happened to stays on time while the clock stands.
LEMMA TimeKept ==
  ASSUME Inv, NEW w \in Workers, Time(w), PassKept(w), spent'[w] = spent[w], now' = now
  PROVE  Time(w)'
  BY DEF Time, PassKept, InHand, HeldBy, Holding

LEMMA OwnStepOnTime ==
  ASSUME Inv, NEW w \in Workers, Time(w), Work(w) \/ Crash(w)
  PROVE  Time(w)' /\ now' = now
  <1>0. /\ now \in Nat /\ at[w] \in Nat /\ spent[w] \in Nat /\ sentAt[w] \in Nat
        /\ Margin \in Nat \ {0} /\ Timeout \in Nat /\ BatchSize \in Nat
    BY WebhookAssumptions DEF Inv, TypeOK
  <1>a. InHand(w) \in Nat /\ InHand(w) <= BatchSize
    BY InHandLemma DEF Time
  <1>b. /\ Sends(InHand(w)) \in Nat
        /\ InHand(w) > 0 => Sends(InHand(w) - 1) = Sends(InHand(w)) + Timeout
    BY <1>a, SendsLemma
  <1>1. CASE StartPass(w)
    <2>1. step'[w] = "claim" /\ at'[w] = now /\ now' = now
      BY <1>1 DEF StartPass, Inv, TypeOK
    <2>2. spent' = spent /\ InHand(w)' = InHand(w)
      BY <1>1 DEF StartPass, InHand, HeldBy, Holding
    <2>. QED BY <1>0, <2>1, <2>2 DEF Time
  <1>2. CASE Claim(w)
    <2>1. PICK S \in Batches(w) : ClaimBatch(w, S)
      BY <1>2 DEF Claim
    <2>2. /\ S \subseteq Deliveries /\ Cardinality(S) = Least(BatchSize, Cardinality(Due(w)))
          /\ \A d \in S : row[d].status # "none"
      BY <2>1 DEF Batches, Due, Open
    <2>3. claimed'[w] = [d \in Deliveries |-> IF d \in S THEN row[d] ELSE Blank("none")]
      BY <2>1 DEF ClaimBatch, Inv, TypeOK
    <2>4. HeldBy(w)' = S
      BY <2>2, <2>3 DEF HeldBy, Holding, Blank
    <2>5. Cardinality(S) \in Nat /\ Cardinality(S) <= BatchSize
      <3>1. IsFiniteSet(S) /\ IsFiniteSet(Due(w))
        BY <2>2, FS_Subset, WebhookAssumptions DEF Due
      <3>2. Cardinality(S) \in Nat /\ Cardinality(Due(w)) \in Nat
        BY <3>1, FS_CardinalityType
      <3>. QED BY <1>0, <2>2, <3>2 DEF Least
    <2>6. InHand(w)' \in Nat /\ InHand(w)' <= BatchSize
      BY <2>4, <2>5 DEF InHand
    <2>7. Sends(InHand(w)') \in Nat
      BY <2>6, SendsLemma
    <2>8. /\ step[w] = "claim" /\ step'[w] = "next"
          /\ now' = now /\ at' = at /\ spent' = spent /\ sentAt' = sentAt
      BY <1>2, <2>1 DEF Claim, ClaimBatch, Inv, TypeOK
    <2>. HIDE DEF InHand, Sends
    <2>9. now <= at[w] + spent[w] /\ spent[w] < Margin
      BY <2>8 DEF Time
    <2>. QED BY <1>0, <2>6, <2>7, <2>8, <2>9 DEF Time
  <1>3. ASSUME NEW d \in Deliveries, Attempt(w, d)
        PROVE  Time(w)' /\ now' = now
    <2>1. /\ step[w] = "next" /\ UNCHANGED <<now, at, spent, claimed>>
          /\ \/ step'[w] = "record"
             \/ step'[w] = "send" /\ sentAt'[w] = now
      BY <1>3 DEF Attempt, Inv, TypeOK
    <2>2. InHand(w)' = InHand(w)
      BY <2>1 DEF InHand, HeldBy, Holding
    <2>. HIDE DEF InHand, Sends
    <2>. QED BY <1>0, <1>a, <1>b, <2>1, <2>2 DEF Time
  <1>4. CASE Answered(w, TRUE) \/ Answered(w, FALSE)
    <2>1. /\ step[w] = "send" /\ step'[w] = "record"
          /\ UNCHANGED <<now, at, spent, claimed>>
      BY <1>4 DEF Answered, Inv, TypeOK
    <2>2. InHand(w)' = InHand(w)
      BY <2>1 DEF InHand, HeldBy, Holding
    <2>. HIDE DEF InHand, Sends
    <2>. QED BY <1>0, <1>a, <1>b, <2>1, <2>2 DEF Time
  <1>5. CASE Record(w)
    <2>1. /\ step[w] = "record" /\ step'[w] = "next"
          /\ UNCHANGED <<now, at, spent>> /\ claimed' = [claimed EXCEPT ![w][job[w]] = Blank("none")]
      BY <1>5 DEF Record, Inv, TypeOK
    <2>2. job[w] \in HeldBy(w)
      BY <2>1 DEF Inv, JobHeld, HeldBy
    <2>3. HeldBy(w)' = HeldBy(w) \ {job[w]}
      BY <2>1, <2>2 DEF HeldBy, Holding, Blank, Inv, TypeOK
    <2>4. InHand(w) > 0 /\ InHand(w)' = InHand(w) - 1
      BY <2>2, <2>3, InHandLemma, FS_RemoveElement DEF InHand, HeldBy
    <2>. HIDE DEF InHand, Sends
    <2>. QED BY <1>0, <1>a, <1>b, <2>1, <2>4 DEF Time
  <1>6. CASE FinishPass(w) \/ Crash(w)
    <2>1. step'[w] = "idle" /\ spent'[w] = 0 /\ now' = now
      BY <1>6 DEF FinishPass, Crash, EndPass, Inv, TypeOK
    <2>2. HeldBy(w)' = {}
      BY <1>6 DEF FinishPass, Crash, EndPass, HeldBy, Holding, Blank, Inv, TypeOK
    <2>3. InHand(w)' = 0
      BY <2>2, FS_EmptySet DEF InHand
    <2>. QED BY <1>0, <2>1, <2>3 DEF Time
  <1>. QED BY <1>1, <1>2, <1>3, <1>4, <1>5, <1>6 DEF Work

LEMMA TickOnTime ==
  ASSUME Inv, ~Stalls, NEW w \in Workers, Time(w), Tick
  PROVE  Time(w)'
  <1>0. /\ now \in Nat /\ at[w] \in Nat /\ spent[w] \in Nat /\ sentAt[w] \in Nat
        /\ Margin \in Nat \ {0} /\ Timeout \in Nat
    BY WebhookAssumptions DEF Inv, TypeOK
  <1>1. InHand(w) \in Nat /\ InHand(w) <= BatchSize /\ InHand(w)' = InHand(w)
    BY InHandLemma DEF Time, Tick, InHand, HeldBy, Holding
  <1>2. Sends(InHand(w)) \in Nat
    BY <1>1, SendsLemma
  <1>3. /\ Timely(w) /\ now' = now + 1 /\ UNCHANGED <<step, at, sentAt>>
        /\ spent'[w] = IF step[w] \in {"claim", "next", "record"} THEN spent[w] + 1 ELSE spent[w]
    BY DEF Tick
  <1>. HIDE DEF InHand, Sends
  <1>4. CASE step[w] \in {"claim", "next", "record"}
    BY <1>0, <1>1, <1>2, <1>3, <1>4 DEF Time, Timely
  <1>5. CASE step[w] = "send"
    BY <1>0, <1>1, <1>2, <1>3, <1>5 DEF Time, Timely
  <1>6. CASE step[w] \notin {"claim", "next", "record", "send"}
    BY <1>0, <1>1, <1>3, <1>6 DEF Time
  <1>. QED BY <1>4, <1>5, <1>6

LEMMA OnTimeNext == ASSUME ~Stalls, Inv, OnTime, [Next]_vars PROVE OnTime'
  <1>. SUFFICES ASSUME NEW w \in Workers PROVE Time(w)'
    BY DEF OnTime
  <1>0. Time(w)
    BY DEF OnTime
  <1>1. CASE UNCHANGED vars
    BY <1>0, <1>1, TimeKept DEF vars, PassKept
  <1>2. ASSUME NEW v \in Workers, v # w, Work(v) \/ Crash(v) PROVE Time(w)'
    BY <1>0, <1>2, OtherPass, OwnStepOnTime, TimeKept DEF OnTime
  <1>3. CASE Work(w) \/ Crash(w)
    BY <1>0, <1>3, OwnStepOnTime
  <1>4. ASSUME NEW d \in Deliveries, WriteOutbox(d) \/ Redeliver(d) PROVE Time(w)'
    BY <1>0, <1>4, TimeKept DEF WriteOutbox, Redeliver, pass, PassKept
  <1>5. ASSUME NEW h \in Hooks, SetPaused(h) \/ DeleteHook(h) PROVE Time(w)'
    BY <1>0, <1>5, TimeKept DEF SetPaused, DeleteHook, pass, PassKept
  <1>6. CASE Cleanup
    BY <1>0, <1>6, TimeKept DEF Cleanup, pass, PassKept
  <1>7. CASE Tick
    BY <1>0, <1>7, TickOnTime
  <1>. QED BY <1>1, <1>2, <1>3, <1>4, <1>5, <1>6, <1>7 DEF Next

\* The lease sized for a whole batch, of sends that all time out, keeps every
\* other pass off a row until its pass is done with it: for any number of
\* workers and rows, any batch, and passes that die holding rows.
THEOREM LeaseOutlastsThePass == ~Stalls => (Spec => []NeverOvertaken)
  <1>. SUFFICES ASSUME ~Stalls PROVE Spec => []NeverOvertaken
    OBVIOUS
  <1>1. OnTime /\ Inv /\ [Next]_vars => OnTime'
    BY OnTimeNext
  <1>2. Inv /\ OnTime => NeverOvertaken
    BY OnTimeNeverOvertaken
  <1>. QED BY <1>1, <1>2, InvInit, InvNext, OnTimeInit, PTL DEF Spec

----------------------------------------------------------------------------
(* Timely passes: what is recorded as delivered was accepted. *)

\* A removed row stays removed.
LEMMA GoneStays ==
  ASSUME Inv, [Next]_vars, NEW d \in Deliveries, row[d].status = "gone"
  PROVE  row'[d].status = "gone"
  <1>1. ASSUME NEW w \in Workers, Record(w), StillLeased(w), job[w] = d PROVE FALSE
    <2>1. LeaseUntil(w) \in Nat /\ LeaseUntil(w) > at[w] /\ at[w] \in Nat
      BY LeaseUntilLemma DEF Inv, TypeOK
    <2>. QED BY <1>1, <2>1 DEF Inv, Redeliveries, StillLeased
  <1>. QED BY <1>1, RowSteps DEF Open, Redeliver, Settled

\* A claim takes open rows that are due.
LEMMA ClaimedRow ==
  ASSUME Inv, NEW w \in Workers, Claim(w), NEW d \in Deliveries, row'[d] # row[d] \/ Holding(w, d)'
  PROVE  /\ Open(row[d]) /\ row[d].next <= at[w] /\ row'[d].status = row[d].status
         /\ row'[d].next = LeaseUntil(w) /\ Holding(w, d)' /\ at' = at
  <1>1. PICK S \in Batches(w) : ClaimBatch(w, S)
    BY DEF Claim
  <1>2. S \subseteq Deliveries /\ \A e \in S : Open(row[e]) /\ row[e].next <= at[w]
    BY DEF Batches, Due
  <1>3. claimed'[w] = [e \in Deliveries |-> IF e \in S THEN row[e] ELSE Blank("none")]
    BY <1>1 DEF ClaimBatch, Inv, TypeOK
  <1>4. d \in S
    BY <1>1, <1>3 DEF ClaimBatch, Holding, Blank
  <1>5. row'[d] = [row[d] EXCEPT !.next = LeaseUntil(w)] /\ row[d] \in Rows /\ at' = at
    BY <1>1, <1>4 DEF ClaimBatch, Inv, TypeOK
  <1>6. row'[d].status = row[d].status /\ row'[d].next = LeaseUntil(w)
    BY <1>5 DEF Rows
  <1>7. Holding(w, d)'
    BY <1>2, <1>3, <1>4 DEF Holding, Open
  <1>. QED BY <1>2, <1>4, <1>5, <1>6, <1>7

\* What a step does to a row, in full.
LEMMA RowChanges ==
  ASSUME Inv, [Next]_vars, NEW d \in Deliveries, row'[d] # row[d]
  PROVE  \/ row[d].status = "none" /\ row'[d].status = "pending"
         \/ Redeliver(d) /\ row'[d].status = "pending"
         \/ row'[d].status = "gone"
         \/ \E w \in Workers : Claim(w)
         \/ \E w \in Workers : /\ Record(w) /\ StillLeased(w) /\ job[w] = d
                               /\ row'[d] = Outcome(w, row[d])
  <1>. USE DEF Inv, TypeOK
  <1>1. ASSUME NEW w \in Workers, Record(w)
        PROVE  StillLeased(w) /\ job[w] = d /\ row'[d] = Outcome(w, row[d])
    BY <1>1 DEF Record
  <1>2. ASSUME NEW w \in Workers, Work(w) \/ Crash(w), ~Claim(w), ~Record(w) PROVE FALSE
    BY <1>2 DEF Work, StartPass, Attempt, Answered, FinishPass, Crash
  <1>3. ASSUME NEW e \in Deliveries, WriteOutbox(e)
        PROVE  row[d].status = "none" /\ row'[d].status = "pending"
    BY <1>3 DEF WriteOutbox, Blank
  <1>4. ASSUME NEW e \in Deliveries, Redeliver(e)
        PROVE  Redeliver(d) /\ row'[d].status = "pending"
    <2>1. e = d
      BY <1>4 DEF Redeliver
    <2>2. row'[d] = [row[d] EXCEPT !.status = "pending", !.next = now,
                                   !.redelivered = now, !.updated = now]
      BY <1>4, <2>1 DEF Redeliver
    <2>3. row'[d].status = "pending"
      BY <2>2 DEF Rows
    <2>. QED BY <1>4, <2>1, <2>3
  <1>5. ASSUME NEW h \in Hooks, SetPaused(h) \/ DeleteHook(h) PROVE row'[d].status = "gone"
    BY <1>5 DEF SetPaused, DeleteHook, Blank
  <1>6. CASE Cleanup
    BY <1>6 DEF Cleanup, Blank
  <1>7. CASE Tick \/ UNCHANGED vars
    BY <1>7 DEF Tick, vars
  <1>. QED BY <1>1, <1>2, <1>3, <1>4, <1>5, <1>6, <1>7 DEF Next

\* What a step does to a pass's hold on a row.
LEMMA HoldingSteps ==
  ASSUME Inv, [Next]_vars, NEW w \in Workers, NEW d \in Deliveries, Holding(w, d)'
  PROVE  Claim(w) \/ (Holding(w, d) /\ at'[w] = at[w] /\ ~(Record(w) /\ job[w] = d))
  <1>. USE DEF Inv, TypeOK, Holding
  <1>1. CASE PassKept(w)
    <2>1. ~Record(w)
      BY <1>1 DEF PassKept, Record
    <2>. QED BY <1>1, <2>1 DEF PassKept
  <1>2. CASE StartPass(w)
    BY <1>2, BlankLemma DEF StartPass, HeldWhileRunning, Record
  <1>3. ASSUME NEW e \in Deliveries, Attempt(w, e)
        PROVE  Holding(w, d) /\ at'[w] = at[w] /\ ~Record(w)
    BY <1>3 DEF Attempt, Record
  <1>4. CASE Answered(w, TRUE) \/ Answered(w, FALSE)
    BY <1>4 DEF Answered, Record
  <1>5. CASE Record(w)
    BY <1>5 DEF Record, Blank, JobHeld
  <1>6. CASE FinishPass(w) \/ Crash(w)
    BY <1>6 DEF FinishPass, Crash, EndPass, Blank
  <1>. QED BY <1>1, <1>2, <1>3, <1>4, <1>5, <1>6, PassSteps DEF Work

\* A row in the hands of a timely pass is removed, or open under its lease.
LEMMA HeldRow ==
  ASSUME Inv, OnTime, Undisturbed, NEW w \in Workers, NEW d \in Deliveries, Holding(w, d)
  PROVE  /\ \/ row[d].status = "gone"
            \/ Open(row[d]) /\ row[d].next = LeaseUntil(w) /\ now < row[d].next
         /\ ~Redeliver(d)
         /\ \A v \in Workers : Claim(v) => row'[d] = row[d] /\ ~Holding(v, d)'
  <1>1. LeaseOK(w, d, row[d]) /\ row[d] \in Rows /\ row[d].next \in Nat /\ now \in Nat
    BY DEF Inv, Leases, TypeOK, Rows
  <1>2. now < LeaseUntil(w) /\ LeaseUntil(w) \in Nat
    BY InTime, LeaseUntilLemma DEF Inv, HeldWhileRunning
  <1>3. row[d].status # "gone" => Open(row[d]) /\ row[d].next = LeaseUntil(w)
    BY <1>1, <1>2 DEF LeaseOK, Open, Settled, Rows, Statuses, Undisturbed
  <1>4. ~Redeliver(d)
    BY <1>1, <1>2, <1>3 DEF Redeliver, Settled, Open
  <1>5. \A v \in Workers : Claim(v) => row'[d] = row[d] /\ ~Holding(v, d)'
    <2>1. \A v \in Workers : at[v] <= now /\ at[v] \in Nat
      BY DEF Inv, ClockOK, TypeOK
    <2>2. \A v \in Workers : ~(Open(row[d]) /\ row[d].next <= at[v])
      BY <1>1, <1>2, <1>3, <2>1 DEF Open
    <2>. QED BY <2>2, ClaimedRow
  <1>. QED BY <1>2, <1>3, <1>4, <1>5

LEMMA UndisturbedNext ==
  ASSUME Inv, OnTime, Undisturbed, [Next]_vars PROVE Undisturbed'
  <1>. SUFFICES ASSUME NEW w \in Workers, NEW d \in Deliveries, Holding(w, d)',
                       row'[d].status # "gone"
                PROVE  row'[d].next = at'[w] + Lease
    BY DEF Undisturbed, LeaseUntil
  <1>1. CASE Claim(w)
    BY <1>1, ClaimedRow DEF LeaseUntil
  <1>2. CASE Holding(w, d) /\ at'[w] = at[w] /\ ~(Record(w) /\ job[w] = d)
    <2>1. row[d].status # "gone"
      BY GoneStays
    <2>2. Open(row[d]) /\ row[d].next = LeaseUntil(w) /\ ~Redeliver(d)
      BY <1>2, <2>1, HeldRow
    <2>3. ASSUME NEW v \in Workers, Record(v), job[v] = d PROVE FALSE
      <3>1. Holding(v, d)
        BY <2>3 DEF Inv, JobHeld, Record
      <3>. QED BY <1>2, <2>3, <3>1, OnTimeNeverOvertaken DEF NeverOvertaken
    <2>4. row'[d] = row[d]
      BY <1>2, <2>2, <2>3, RowChanges, HeldRow DEF Open
    <2>. QED BY <1>2, <2>2, <2>4 DEF LeaseUntil
  <1>. QED BY <1>1, <1>2, HoldingSteps

\* A delivery becomes accepted by its answer and stops being it at its
\* redelivery, or when the pass about to record the answer dies.
LEMMA AcceptedSteps ==
  ASSUME Inv, [Next]_vars, NEW d \in Deliveries
  PROVE  /\ d \in accepted' => \/ d \in accepted
                               \/ \E w \in Workers : Answered(w, TRUE) /\ job[w] = d
         /\ \/ d \in accepted /\ ~Redeliver(d) => d \in accepted'
            \/ \E w \in Workers : Crash(w) /\ Recording(w, d)
         /\ d \in accepted' => /\ ~Redeliver(d)
                               /\ \A w \in Workers : ~(Crash(w) /\ Recording(w, d))
  <1>1. ASSUME NEW w \in Workers, Work(w), ~Answered(w, TRUE)
        PROVE  accepted' = accepted
    BY <1>1 DEF Work, StartPass, Claim, ClaimBatch, Attempt, Answered, Record, FinishPass,
                ghost
  <1>2. ASSUME NEW w \in Workers, Answered(w, TRUE)
        PROVE  accepted' = accepted \cup {job[w]}
    BY <1>2 DEF Answered
  <1>3. ASSUME NEW e \in Deliveries, Redeliver(e) PROVE accepted' = accepted \ {e}
    BY <1>3 DEF Redeliver
  <1>4. ASSUME NEW e \in Deliveries, WriteOutbox(e) PROVE accepted' = accepted
    BY <1>4 DEF WriteOutbox, ghost
  <1>5. ASSUME NEW h \in Hooks, SetPaused(h) \/ DeleteHook(h) PROVE accepted' = accepted
    BY <1>5 DEF SetPaused, DeleteHook, ghost
  <1>6. ASSUME Cleanup \/ Tick \/ UNCHANGED vars PROVE accepted' = accepted
    BY <1>6 DEF Cleanup, Tick, vars, ghost
  <1>7. Redeliver(d) => accepted' = accepted \ {d}
    BY DEF Redeliver
  <1>8. ASSUME NEW w \in Workers, Crash(w)
        PROVE  accepted' = IF \E e \in Deliveries : Recording(w, e) THEN accepted \ {job[w]}
                           ELSE accepted
    <2>1. step[w] = "record" => job[w] \in Deliveries
      BY DEF Inv, JobHeld
    <2>. QED BY <1>8, <2>1 DEF Crash, Recording
  <1>9. ASSUME NEW w \in Workers, Crash(w), Recording(w, d) PROVE d \notin accepted'
    BY <1>8, <1>9 DEF Recording
  <1>10. ASSUME NEW w \in Workers, Crash(w), ~Recording(w, d)
         PROVE  d \in accepted' <=> d \in accepted
    BY <1>8, <1>10 DEF Recording
  <1>. QED BY <1>1, <1>2, <1>3, <1>4, <1>5, <1>6, <1>7, <1>9, <1>10 DEF Next

\* A pass comes to record a delivery by the answer alone.
LEMMA RecordingSteps ==
  ASSUME Inv, [Next]_vars, NEW w \in Workers, step'[w] = "record", outcome'[w] = "delivered"
  PROVE  /\ job'[w] = job[w]
         /\ \/ Answered(w, TRUE) /\ job[w] \in accepted'
            \/ step[w] = "record" /\ outcome[w] = "delivered"
  <1>. USE DEF Inv, TypeOK
  <1>1. CASE PassKept(w)
    BY <1>1 DEF PassKept
  <1>2. CASE StartPass(w) \/ Claim(w) \/ Record(w)
    BY <1>2 DEF StartPass, Claim, ClaimBatch, Record
  <1>3. ASSUME NEW d \in Deliveries, Attempt(w, d) PROVE FALSE
    BY <1>3 DEF Attempt
  <1>4. CASE Answered(w, TRUE)
    BY <1>4 DEF Answered
  <1>5. CASE Answered(w, FALSE)
    BY <1>5 DEF Answered
  <1>6. CASE FinishPass(w) \/ Crash(w)
    BY <1>6 DEF FinishPass, Crash, EndPass
  <1>. QED BY <1>1, <1>2, <1>3, <1>4, <1>5, <1>6, PassSteps DEF Work

LEMMA HonouredNext ==
  ASSUME Inv, OnTime, Undisturbed, Honoured, [Next]_vars PROVE Honoured'
  <1>1. ASSUME NEW d \in Deliveries, row'[d].status = "delivered" PROVE d \in accepted'
    <2>1. ~Redeliver(d)
      <3>1. ASSUME Redeliver(d) PROVE row'[d].status = "pending"
        <4>1. row' = [row EXCEPT ![d] = [row[d] EXCEPT !.status = "pending", !.next = now,
                                           !.redelivered = now, !.updated = now]]
          BY <3>1 DEF Redeliver
        <4>. QED BY <4>1 DEF Inv, TypeOK, Rows
      <3>. QED BY <1>1, <3>1
    <2>0. ASSUME NEW w \in Workers, Crash(w), Recording(w, d) PROVE FALSE
      <3>1. Holding(w, d) /\ row' = row
        BY <2>0 DEF Recording, Inv, JobHeld, Crash
      <3>. QED BY <1>1, <3>1, HeldRow DEF Open
    <2>2. CASE row'[d] = row[d]
      BY <1>1, <2>0, <2>1, <2>2, AcceptedSteps DEF Honoured, DeliveredWasAccepted
    <2>3. ASSUME NEW w \in Workers, Record(w), StillLeased(w), job[w] = d,
                 row'[d] = Outcome(w, row[d])
          PROVE  d \in accepted
      <3>1. row[d].status # "gone"
        BY <1>1, GoneStays
      <3>2. row[d] \in Rows
        BY DEF Inv, TypeOK
      <3>3. outcome[w] = "delivered"
        BY <1>1, <2>3, <3>2 DEF Outcome, Rows
      <3>. QED BY <2>3, <3>1, <3>3 DEF Honoured, Record
    <2>4. ASSUME NEW w \in Workers, Claim(w), row'[d] # row[d] PROVE FALSE
      BY <1>1, <2>4, ClaimedRow DEF Open
    <2>. QED BY <1>1, <2>0, <2>1, <2>2, <2>3, <2>4, RowChanges, AcceptedSteps
  <1>2. ASSUME NEW w \in Workers, step'[w] = "record", outcome'[w] = "delivered",
               row'[job'[w]].status # "gone"
        PROVE  job'[w] \in accepted'
    <2>1. CASE Answered(w, TRUE) /\ job[w] \in accepted'
      BY <1>2, <2>1, RecordingSteps
    <2>2. CASE step[w] = "record" /\ outcome[w] = "delivered"
      <3>1. job[w] \in Deliveries /\ Holding(w, job[w]) /\ job'[w] = job[w]
        BY <1>2, <2>2, RecordingSteps DEF Inv, JobHeld
      <3>2. row[job[w]].status # "gone"
        BY <1>2, <3>1, GoneStays
      <3>3. job[w] \in accepted /\ ~Redeliver(job[w])
        BY <2>2, <3>1, <3>2, HeldRow DEF Honoured
      <3>4. ASSUME NEW v \in Workers, Crash(v), Recording(v, job[w]) PROVE FALSE
        <4>1. Holding(v, job[w])
          BY <3>4 DEF Recording, Inv, JobHeld
        <4>2. v = w
          BY <3>1, <4>1, OnTimeNeverOvertaken DEF NeverOvertaken
        <4>. QED BY <1>2, <3>4, <4>2 DEF Crash, EndPass, Inv, TypeOK
      <3>. QED BY <3>1, <3>3, <3>4, AcceptedSteps
    <2>. QED BY <1>2, <2>1, <2>2, RecordingSteps
  <1>. QED BY <1>1, <1>2 DEF Honoured, DeliveredWasAccepted

LEMMA TimelyInit == Init => OnTime /\ Undisturbed /\ Honoured
  <1>1. Init => Undisturbed /\ Honoured
    BY DEF Init, Undisturbed, Honoured, DeliveredWasAccepted, Holding, Blank
  <1>. QED BY <1>1, OnTimeInit

LEMMA TimelyNext ==
  ASSUME ~Stalls, Inv, OnTime, Undisturbed, Honoured, [Next]_vars
  PROVE  Inv' /\ OnTime' /\ Undisturbed' /\ Honoured'
  BY InvNext, OnTimeNext, UndisturbedNext, HonouredNext

\* What the log calls delivered was answered 2xx since the row was last
\* redelivered: no timely pass records an outcome that an older attempt got,
\* so every redelivery by hand is honoured by a send of its own.
THEOREM DeliveredMeansAccepted == ~Stalls => (Spec => []DeliveredWasAccepted)
  <1>. SUFFICES ASSUME ~Stalls PROVE Spec => []DeliveredWasAccepted
    OBVIOUS
  <1>1. Inv /\ OnTime /\ Undisturbed /\ Honoured /\ [Next]_vars
          => Inv' /\ OnTime' /\ Undisturbed' /\ Honoured'
    BY TimelyNext
  <1>2. Honoured => DeliveredWasAccepted
    BY DEF Honoured
  <1>. QED BY <1>1, <1>2, InvInit, TimelyInit, PTL DEF Spec

----------------------------------------------------------------------------
(* Timely passes: an accepted delivery is not sent again.                  *)

\* A pass lets go of a row by recording its outcome, or by dying.
LEMMA HoldingKept ==
  ASSUME Inv, [Next]_vars, NEW w \in Workers, NEW d \in Deliveries, Holding(w, d)
  PROVE  Holding(w, d)' \/ (Record(w) /\ job[w] = d) \/ Crash(w)
  <1>. USE DEF Inv, TypeOK, Holding
  <1>1. CASE PassKept(w) \/ StartPass(w)
    BY <1>1 DEF PassKept, StartPass
  <1>2. CASE Claim(w)
    BY <1>2 DEF Claim, HeldWhileRunning
  <1>3. ASSUME NEW e \in Deliveries, Attempt(w, e) PROVE Holding(w, d)'
    BY <1>3 DEF Attempt
  <1>4. CASE Answered(w, TRUE) \/ Answered(w, FALSE)
    BY <1>4 DEF Answered
  <1>5. CASE Record(w)
    BY <1>5 DEF Record
  <1>6. CASE FinishPass(w)
    BY <1>6 DEF FinishPass
  <1>. QED BY <1>1, <1>2, <1>3, <1>4, <1>5, <1>6, PassSteps DEF Work

\* A pass that is about to record does so, or goes on being about to.
LEMMA RecordingKept ==
  ASSUME Inv, [Next]_vars, NEW w \in Workers, NEW d \in Deliveries, Recording(w, d)
  PROVE  Recording(w, d)' \/ Record(w) \/ Crash(w)
  BY PassSteps DEF Recording, PassKept, Work, StartPass, Claim, Attempt, Answered, FinishPass

LEMMA OnceNext ==
  ASSUME Inv, OnTime, Undisturbed, Once, [Next]_vars PROVE Once'
  <1>. SUFFICES ASSUME NEW d \in accepted'
                PROVE  /\ \/ row'[d].status \in {"delivered", "gone"}
                          \/ \E w \in Workers : Holding(w, d)'
                       /\ \A w \in Workers : Holding(w, d)' => Recording(w, d)'
    BY DEF Once
  <1>0. /\ d \in Deliveries /\ ~Redeliver(d)
        /\ \A w \in Workers : ~(Crash(w) /\ Recording(w, d))
    <2>1. accepted' \subseteq Deliveries
      BY InvNext DEF Inv, TypeOK
    <2>. QED BY <2>1, AcceptedSteps
  <1>1. ASSUME NEW v \in Workers, Answered(v, TRUE), job[v] = d
        PROVE  /\ Holding(v, d)' /\ Recording(v, d)'
               /\ \A w \in Workers : Holding(w, d)' => w = v
    <2>1. Holding(v, d) /\ claimed' = claimed
      BY <1>1 DEF Inv, JobHeld, Answered
    <2>2. Recording(v, d)'
      BY <1>1 DEF Answered, Recording, Inv, TypeOK
    <2>. QED BY <1>0, <2>1, <2>2, OnTimeNeverOvertaken DEF NeverOvertaken, Holding
  <1>2. ASSUME d \in accepted, NEW w \in Workers, Holding(w, d)' PROVE Recording(w, d)'
    <2>1. ~Claim(w)
      <3>1. ASSUME Claim(w) PROVE Open(row[d])
        BY <1>0, <1>2, <3>1, ClaimedRow
      <3>2. ASSUME NEW v \in Workers, Holding(v, d), Claim(w) PROVE FALSE
        BY <1>0, <1>2, <3>2, HeldRow
      <3>. QED BY <1>2, <3>1, <3>2 DEF Once, Open
    <2>2. Holding(w, d) /\ ~(Record(w) /\ job[w] = d)
      BY <1>0, <1>2, <2>1, HoldingSteps
    <2>3. Recording(w, d)
      BY <1>2, <2>2 DEF Once
    <2>. QED BY <1>0, <2>2, <2>3, RecordingKept DEF Recording
  <1>3. CASE d \in accepted
    <2>1. ASSUME row[d].status \in {"delivered", "gone"}
          PROVE  row'[d].status \in {"delivered", "gone"}
      <3>1. CASE row[d].status = "gone"
        BY <1>0, <3>1, GoneStays
      <3>2. CASE row[d].status = "delivered"
        <4>1. ASSUME NEW w \in Workers, Record(w), job[w] = d PROVE FALSE
          <5>1. Holding(w, d)
            BY <1>0, <4>1 DEF Inv, JobHeld, Record
          <5>. QED BY <1>0, <3>2, <5>1, HeldRow DEF Open
        <4>2. ASSUME NEW w \in Workers, Claim(w), row'[d] # row[d] PROVE FALSE
          BY <1>0, <3>2, <4>2, ClaimedRow DEF Open
        <4>. QED BY <1>0, <3>2, <4>1, <4>2, RowChanges
      <3>. QED BY <2>1, <3>1, <3>2
    <2>2. ASSUME NEW w \in Workers, Holding(w, d), ~Holding(w, d)'
          PROVE  row'[d].status \in {"delivered", "gone"}
      <3>1. Record(w) /\ job[w] = d /\ outcome[w] = "delivered"
        BY <1>0, <1>3, <2>2, HoldingKept DEF Once, Recording
      <3>2. CASE row[d].status = "gone"
        BY <1>0, <3>2, GoneStays
      <3>3. CASE row[d].status # "gone"
        <4>1. StillLeased(w)
          BY <1>0, <2>2, <3>1, <3>3, HeldRow DEF StillLeased
        <4>2. row'[d] = Outcome(w, row[d]) /\ row[d] \in Rows
          BY <1>0, <3>1, <4>1 DEF Record, Inv, TypeOK
        <4>. QED BY <3>1, <4>2 DEF Outcome, Rows
      <3>. QED BY <3>2, <3>3
    <2>. QED BY <1>2, <1>3, <2>1, <2>2 DEF Once
  <1>4. CASE d \notin accepted
    BY <1>0, <1>1, <1>4, AcceptedSteps
  <1>. QED BY <1>3, <1>4

\* The step that begins a send turns to a row the pass holds.
LEMMA SendBegins ==
  ASSUME Inv, [Next]_vars, NEW w \in Workers, step[w] = "next", step'[w] = "send"
  PROVE  job'[w] \in Deliveries /\ Holding(w, job'[w])
  <1>. USE DEF Inv, TypeOK
  <1>1. ASSUME NEW d \in Deliveries, Attempt(w, d) PROVE job'[w] = d /\ Holding(w, d)
    BY <1>1 DEF Attempt
  <1>2. ~(PassKept(w) \/ StartPass(w) \/ Claim(w) \/ Answered(w, TRUE) \/ Answered(w, FALSE)
          \/ Record(w))
    BY DEF PassKept, StartPass, Claim, Answered, Record
  <1>3. ~(FinishPass(w) \/ Crash(w))
    BY DEF FinishPass, Crash, EndPass
  <1>. QED BY <1>1, <1>2, <1>3, PassSteps DEF Work

\* Exactly once, as far as it goes: where passes are timely, a delivery the
\* receiver accepted is not sent again until somebody redelivers it, whichever
\* worker looks at the row next, unless the pass died before it recorded the answer.
THEOREM AcceptedIsNotSentAgain == ~Stalls => (Spec => AcceptedOnce)
  <1>. SUFFICES ASSUME ~Stalls PROVE Spec => AcceptedOnce
    OBVIOUS
  <1>1. Inv /\ OnTime /\ Undisturbed /\ Honoured /\ Once /\ [Next]_vars
          => Inv' /\ OnTime' /\ Undisturbed' /\ Honoured' /\ Once'
    BY TimelyNext, OnceNext
  <1>2. ASSUME Inv, Once, [Next]_vars, NEW w \in Workers, step[w] = "next", step'[w] = "send"
        PROVE  job'[w] \notin accepted
    BY <1>2, SendBegins DEF Once, Recording
  <1>3. Inv /\ Once /\ [Next]_vars =>
          [\A w \in Workers : step[w] = "next" /\ step'[w] = "send" =>
             job'[w] \notin accepted]_vars
    BY <1>2
  <1>4. Init => Once
    BY DEF Init, Once
  <1>. QED BY <1>1, <1>3, <1>4, InvInit, TimelyInit, PTL DEF Spec, AcceptedOnce
=============================================================================
