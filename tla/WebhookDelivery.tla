-------------------------- MODULE WebhookDelivery --------------------------
(***************************************************************************)
(* The delivery half of the webhooks: the rows of webhook_deliveries, the  *)
(* workers of all replicas that claim due rows under a lease, POST them    *)
(* and record the outcome, and what administrators do to hooks and rows    *)
(* meanwhile.                                                              *)
(*                                                                         *)
(* A pass takes its clock reading once, claims a batch in one transaction, *)
(* works through it row by row and records every outcome on its own.  It   *)
(* may die at any point; with Stalls it may also be suspended past the end *)
(* of its lease.  The lease of a row is the value of next_attempt_at, and  *)
(* an outcome is recorded only where that value is still the pass's own.   *)
(*                                                                         *)
(* Abstractions.  Time is in ticks of the worker's second.  A row stands   *)
(* for one event and one hook; rendering, signing and response codes are   *)
(* left out.  The order inside a pass is open: SQLite sends by due time,   *)
(* Postgres by id.                                                         *)
(***************************************************************************)
EXTENDS Integers, FiniteSets

CONSTANTS
  Workers,        \* the replicas' delivery loops
  Deliveries, NoDelivery,  \* ids of webhook_deliveries rows
  Hooks, HookOf,  \* the hook a delivery belongs to
  BatchSize, Timeout, Margin,        \* size of a pass, per-send timeout, lease margin
  FirstBackoff, MaxBackoff, Cutoff, Retention,
  Stalls,         \* TRUE: a pass may be suspended for any time
  Horizon,        \* bound: events, hook changes, redeliveries and faults until then
  MaxTime,        \* bound: the clock stops there
  MaxCrashes,     \* bound: passes that die
  MaxResets       \* bound: redeliveries by hand

Statuses == {"none", "pending", "failed", "delivered", "dead", "gone"}

\* redelivered is redelivered_at, 0 for NULL; the clock starts at 1.
Rows == [status : Statuses, attempts : Nat, next : Nat, occurred : Nat,
         redelivered : Nat, updated : Nat]

Blank(s) == [status |-> s, attempts |-> 0, next |-> 0, occurred |-> 0,
             redelivered |-> 0, updated |-> 0]

Steps    == {"idle", "claim", "next", "send", "record"}
Outcomes == {"none", "delivered", "failed", "expired"}

ASSUME WebhookAssumptions ==
  /\ IsFiniteSet(Deliveries)
  /\ HookOf \in [Deliveries -> Hooks] /\ NoDelivery \notin Deliveries
  /\ BatchSize \in Nat \ {0} /\ Timeout \in Nat \ {0} /\ Margin \in Nat \ {0}
  /\ FirstBackoff \in Nat \ {0} /\ MaxBackoff \in Nat \ {0}
  /\ Cutoff \in Nat /\ Retention \in Nat
  /\ Stalls \in BOOLEAN
  /\ Horizon \in Nat /\ MaxTime \in Nat /\ MaxCrashes \in Nat /\ MaxResets \in Nat

\* A fact of arithmetic the provers do not have.
ASSUME BackoffAssumption == \A k \in 0..30 : FirstBackoff * 2 ^ k \in Nat \ {0}

VARIABLES
  now,
  row,       \* webhook_deliveries; "none" not written yet, "gone" removed
  paused,    \* the paused hooks
  step,      \* where each worker's pass stands
  at,        \* the clock reading the pass works with
  claimed,   \* the rows of the pass still to be done, as read by the claim
  job,       \* the delivery in hand
  outcome,   \* of the attempt in hand
  sentAt,    \* when the running send began
  spent,     \* ticks the pass has lost outside of sends
  crashes, resets,  \* counters of the bounds
  accepted,  \* history: deliveries answered 2xx since they were last redelivered,
             \* but for an answer that died unrecorded with its pass
  recorded,  \* history: deliveries with an outcome recorded since then
  holder     \* history: the worker that claimed each delivery last, as a set

vars == <<now, row, paused, step, at, claimed, job, outcome, sentAt, spent,
          crashes, resets, accepted, recorded, holder>>

pass  == <<step, at, claimed, job, outcome, sentAt, spent>>
ghost == <<accepted, recorded, holder>>
faults == <<crashes, resets>>

----------------------------------------------------------------------------
(* Timing rules. *)

\* Mutant: the lease covers one delivery instead of the batch.
LeaseOfOneSend == Timeout + Margin

\* lease_secs.
Lease == BatchSize * Timeout + Margin

LeaseUntil(w) == at[w] + Lease

Least(x, y) == IF x < y THEN x ELSE y

\* backoff_secs: doubling from the first delay, capped.
Backoff(attempts) == Least(FirstBackoff * 2 ^ Least(attempts, 30), MaxBackoff)

Open(r)     == r.status \in {"pending", "failed"}
Settled(r)  == r.status \in {"delivered", "dead"}
PastCutoff(r, t) == t >= r.occurred + Cutoff

Holding(w, d) == claimed[w][d].status # "none"

----------------------------------------------------------------------------
Init ==
  /\ now = 1
  /\ row = [d \in Deliveries |-> Blank("none")]
  /\ paused = {}
  /\ step = [w \in Workers |-> "idle"]
  /\ at = [w \in Workers |-> 0]
  /\ claimed = [w \in Workers |-> [d \in Deliveries |-> Blank("none")]]
  /\ job = [w \in Workers |-> NoDelivery]
  /\ outcome = [w \in Workers |-> "none"]
  /\ sentAt = [w \in Workers |-> 0]
  /\ spent = [w \in Workers |-> 0]
  /\ crashes = 0 /\ resets = 0
  /\ accepted = {} /\ recorded = {}
  /\ holder = [d \in Deliveries |-> {}]

----------------------------------------------------------------------------
(* A worker's pass. *)

\* The next interval tick of an idle worker: the pass reads the clock.
StartPass(w) ==
  /\ step[w] = "idle"
  /\ step' = [step EXCEPT ![w] = "claim"]
  /\ at' = [at EXCEPT ![w] = now]
  /\ UNCHANGED <<now, row, paused, claimed, job, outcome, sentAt, spent, faults, ghost>>

\* Mutants: leased rows are due as well, or failed rows never are again.
DueThoughLeased(w) == {d \in Deliveries : Open(row[d]) /\ HookOf[d] \notin paused}
DuePendingOnly(w) == {d \in Deliveries : /\ row[d].status = "pending" /\ row[d].next <= at[w]
                                         /\ HookOf[d] \notin paused}

\* Due at the pass's reading, and its hook is not paused.
Due(w) == {d \in Deliveries : /\ Open(row[d]) /\ row[d].next <= at[w]
                              /\ HookOf[d] \notin paused}

\* The first BatchSize due rows, by due time.
Batches(w) == {S \in SUBSET Due(w) :
                 /\ Cardinality(S) = Least(BatchSize, Cardinality(Due(w)))
                 /\ \A d \in S, e \in Due(w) \ S : row[d].next <= row[e].next}

EndPass(w) ==
  /\ step' = [step EXCEPT ![w] = "idle"]
  /\ at' = [at EXCEPT ![w] = 0]
  /\ claimed' = [claimed EXCEPT ![w] = [d \in Deliveries |-> Blank("none")]]
  /\ job' = [job EXCEPT ![w] = NoDelivery]
  /\ outcome' = [outcome EXCEPT ![w] = "none"]
  /\ sentAt' = [sentAt EXCEPT ![w] = 0]
  /\ spent' = [spent EXCEPT ![w] = 0]

\* claim_due_webhook_deliveries: select and lease in one transaction.
ClaimBatch(w, S) ==
  /\ row' = [d \in Deliveries |-> IF d \in S THEN [row[d] EXCEPT !.next = LeaseUntil(w)]
                                  ELSE row[d]]
  /\ claimed' = [claimed EXCEPT ![w] = [d \in Deliveries |-> IF d \in S THEN row[d]
                                                             ELSE Blank("none")]]
  /\ holder' = [d \in Deliveries |-> IF d \in S THEN {w} ELSE holder[d]]
  /\ step' = [step EXCEPT ![w] = "next"]
  /\ UNCHANGED <<now, paused, at, job, outcome, sentAt, spent, faults, accepted, recorded>>

Claim(w) ==
  /\ step[w] = "claim"
  /\ \E S \in Batches(w) : ClaimBatch(w, S)

\* Turn to a claimed row: given up when past the cutoff and not redelivered,
\* refused by the allow-list, or sent.
Attempt(w, d) ==
  /\ step[w] = "next" /\ Holding(w, d)
  /\ job' = [job EXCEPT ![w] = d]
  /\ IF PastCutoff(claimed[w][d], at[w]) /\ claimed[w][d].redelivered = 0
     THEN /\ step' = [step EXCEPT ![w] = "record"]
          /\ outcome' = [outcome EXCEPT ![w] = "expired"]
          /\ UNCHANGED sentAt
     ELSE \/ /\ step' = [step EXCEPT ![w] = "record"]
             /\ outcome' = [outcome EXCEPT ![w] = "failed"]
             /\ UNCHANGED sentAt
          \/ /\ step' = [step EXCEPT ![w] = "send"]
             /\ sentAt' = [sentAt EXCEPT ![w] = now]
             /\ UNCHANGED outcome
  /\ UNCHANGED <<now, row, paused, at, claimed, spent, faults, ghost>>

\* The receiver answered 2xx, or anything else, or not in time.
Answered(w, ok) ==
  /\ step[w] = "send"
  /\ step' = [step EXCEPT ![w] = "record"]
  /\ outcome' = [outcome EXCEPT ![w] = IF ok THEN "delivered" ELSE "failed"]
  /\ accepted' = IF ok THEN accepted \cup {job[w]} ELSE accepted
  /\ sentAt' = [sentAt EXCEPT ![w] = 0]
  /\ UNCHANGED <<now, row, paused, at, claimed, job, spent, faults, recorded, holder>>

\* The row one outcome leaves.  A retry due at or after the cutoff would only
\* be given up then, so the row is dead at once.
Outcome(w, r) ==
  LET read == claimed[w][job[w]]
      next == at[w] + Backoff(read.attempts)
  IN  [r EXCEPT !.status = CASE outcome[w] = "delivered" -> "delivered"
                             [] outcome[w] = "failed" /\ ~PastCutoff(read, next) -> "failed"
                             [] OTHER -> "dead",
                !.attempts = IF outcome[w] = "expired" THEN @ ELSE @ + 1,
                !.next = IF outcome[w] = "failed" /\ ~PastCutoff(read, next) THEN next ELSE @,
                !.updated = at[w]]

\* Mutant: whatever the row says now, the outcome is written.
AlwaysLeased(w) == row[job[w]].status \notin {"none", "gone"}

\* WHERE id = ? AND next_attempt_at = lease_until.
StillLeased(w) == row[job[w]].next = LeaseUntil(w)

\* record_webhook_attempt, then the next row of the pass.
Record(w) ==
  /\ step[w] = "record"
  /\ row' = IF StillLeased(w) THEN [row EXCEPT ![job[w]] = Outcome(w, @)] ELSE row
  /\ recorded' = IF StillLeased(w) THEN recorded \cup {job[w]} ELSE recorded
  /\ claimed' = [claimed EXCEPT ![w][job[w]] = Blank("none")]
  /\ step' = [step EXCEPT ![w] = "next"]
  /\ job' = [job EXCEPT ![w] = NoDelivery]
  /\ outcome' = [outcome EXCEPT ![w] = "none"]
  /\ UNCHANGED <<now, paused, at, sentAt, spent, faults, accepted, holder>>

\* Every claimed row is done.
FinishPass(w) ==
  /\ step[w] = "next" /\ \A d \in Deliveries : ~Holding(w, d)
  /\ EndPass(w)
  /\ UNCHANGED <<now, row, paused, faults, ghost>>

\* The process stops, or a repository call fails and the pass is abandoned:
\* what it claimed stays leased, and an answer it had is not known any more.
Crash(w) ==
  /\ step[w] # "idle" /\ crashes < MaxCrashes /\ now <= Horizon
  /\ EndPass(w)
  /\ crashes' = crashes + 1
  /\ accepted' = IF step[w] = "record" /\ outcome[w] = "delivered" THEN accepted \ {job[w]}
                 ELSE accepted
  /\ UNCHANGED <<now, row, paused, resets, recorded, holder>>

----------------------------------------------------------------------------
(* Facts, administrators, the clock and the cleanup. *)

\* write_outbox: a pending row, due at once, with the fact's transaction.
WriteOutbox(d) ==
  /\ row[d].status = "none" /\ now <= Horizon
  /\ row' = [row EXCEPT ![d] = [Blank("pending") EXCEPT !.next = now, !.occurred = now,
                                                        !.updated = now]]
  /\ UNCHANGED <<now, paused, pass, faults, ghost>>

SetPaused(h) ==
  /\ now <= Horizon
  /\ paused' = IF h \in paused THEN paused \ {h} ELSE paused \cup {h}
  /\ UNCHANGED <<now, row, pass, faults, ghost>>

\* delete_webhook: the hook's rows go; its events that were not written yet
\* will never be.
DeleteHook(h) ==
  /\ now <= Horizon
  /\ \E d \in Deliveries : HookOf[d] = h /\ row[d].status # "gone"
  /\ row' = [d \in Deliveries |-> IF HookOf[d] = h THEN Blank("gone") ELSE row[d]]
  /\ UNCHANGED <<now, paused, pass, faults, ghost>>

\* reset_webhook_delivery: refused while the row is leased.
Redeliver(d) ==
  /\ now <= Horizon /\ resets < MaxResets
  /\ Settled(row[d]) \/ (Open(row[d]) /\ row[d].next <= now)
  /\ row' = [row EXCEPT ![d] = [@ EXCEPT !.status = "pending", !.next = now,
                                         !.redelivered = now, !.updated = now]]
  /\ accepted' = accepted \ {d}
  /\ recorded' = recorded \ {d}
  /\ resets' = resets + 1
  /\ UNCHANGED <<now, paused, pass, crashes, holder>>

\* delete_old_webhook_data.
Old(r) == Settled(r) /\ r.updated + Retention < now

Cleanup ==
  /\ \E d \in Deliveries : Old(row[d])
  /\ row' = [d \in Deliveries |-> IF Old(row[d]) THEN Blank("gone") ELSE row[d]]
  /\ UNCHANGED <<now, paused, pass, faults, ghost>>

\* A timely worker ends a send within its timeout and loses less than the
\* margin on everything else.
Timely(w) ==
  /\ step[w] = "send" => now < sentAt[w] + Timeout
  /\ step[w] \in {"claim", "next", "record"} => spent[w] + 1 < Margin

Tick ==
  /\ now < MaxTime
  /\ Stalls \/ \A w \in Workers : Timely(w)
  /\ now' = now + 1
  /\ spent' = [w \in Workers |-> IF ~Stalls /\ step[w] \in {"claim", "next", "record"}
                                 THEN spent[w] + 1 ELSE spent[w]]
  /\ UNCHANGED <<row, paused, step, at, claimed, job, outcome, sentAt, faults, ghost>>

----------------------------------------------------------------------------
Work(w) == \/ StartPass(w) \/ Claim(w)
           \/ \E d \in Deliveries : Attempt(w, d)
           \/ Answered(w, TRUE) \/ Answered(w, FALSE)
           \/ Record(w) \/ FinishPass(w)

Next == \/ \E w \in Workers : Work(w) \/ Crash(w)
        \/ \E d \in Deliveries : WriteOutbox(d) \/ Redeliver(d)
        \/ \E h \in Hooks : SetPaused(h) \/ DeleteHook(h)
        \/ Cleanup \/ Tick

Spec == Init /\ [][Next]_vars

\* Every replica's loop keeps running its passes (tokio interval), a send ends
\* by answer or timeout, and time passes.  Nothing is assumed of receivers,
\* administrators, crashes or the cleanup.
FairSpec == Spec /\ WF_vars(Tick) /\ \A w \in Workers : WF_vars(Work(w))

----------------------------------------------------------------------------
(* Properties. *)

\* Every variable keeps its type.
TypeOK ==
  /\ now \in Nat /\ crashes \in Nat /\ resets \in Nat
  /\ row \in [Deliveries -> Rows]
  /\ paused \subseteq Hooks
  /\ step \in [Workers -> Steps]
  /\ at \in [Workers -> Nat]
  /\ claimed \in [Workers -> [Deliveries -> Rows]]
  /\ job \in [Workers -> Deliveries \cup {NoDelivery}]
  /\ outcome \in [Workers -> Outcomes]
  /\ sentAt \in [Workers -> Nat] /\ spent \in [Workers -> Nat]
  /\ accepted \subseteq Deliveries /\ recorded \subseteq Deliveries
  /\ holder \in [Deliveries -> SUBSET Workers]

\* A delivery recorded as delivered stays so: no late outcome of a pass that
\* was overtaken turns it back, only a redelivery by hand, its hook's deletion
\* or the retention does.
DeliveredStays ==
  [][\A d \in Deliveries : row[d].status = "delivered" =>
       row'[d].status = "delivered" \/ Redeliver(d) \/ row'[d].status = "gone"]_vars

\* A pass that lost a row to another pass never writes its outcome over that
\* pass's result; a redelivery by hand in between is the one exception, see
\* DeliveredWasAccepted.
Writes(w, d) == job[w] = d /\ step[w] = "record" /\ step'[w] = "next" /\ row'[d] # row[d]

LostLeaseNeverOverwrites ==
  [][\A w \in Workers, d \in Deliveries : Writes(w, d) =>
       holder[d] = {w} \/ claimed[w][d].redelivered # row[d].redelivered]_vars

\* The lease outlasts a timely pass: no other pass works on a row that a pass
\* still has in hand.
NeverOvertaken ==
  \A d \in Deliveries, v \in Workers, w \in Workers :
    Holding(v, d) /\ Holding(w, d) => v = w

\* What the log calls delivered was answered 2xx after the row was last
\* redelivered: a redelivery is always honoured by a send of its own.
DeliveredWasAccepted ==
  \A d \in Deliveries : row[d].status = "delivered" => d \in accepted

\* Without stalls a receiver that accepted a delivery is not sent it again until
\* somebody redelivers it, unless the pass died between its answer and the record:
\* whatever the workers do, no other step repeats a send.
AcceptedOnce ==
  [][\A w \in Workers : step[w] = "next" /\ step'[w] = "send" => job'[w] \notin accepted]_vars

\* What the comment at the cutoff says: the grant of a redelivery is one
\* attempt.  Retries inherit the grant and break it, see the README; no run
\* checks it.
GrantIsOneAttempt ==
  [][\A w \in Workers :
       step[w] = "next" /\ step'[w] = "send" /\ PastCutoff(claimed[w][job'[w]], at[w])
         => job'[w] \notin recorded]_vars

\* Every delivery of an active hook is settled in the end, whatever the
\* receivers answer and although passes die holding it.
EverySettles ==
  \A d \in Deliveries : Open(row[d]) ~> (~Open(row[d]) \/ HookOf[d] \in paused)
=============================================================================
