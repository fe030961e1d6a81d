----------------------------- MODULE AtomicLine -----------------------------
(***************************************************************************)
(* What a version line promises to the clients of overlapping calls: each  *)
(* call takes effect at one instant between its request and its answer,    *)
(* and what it answers is what the line was at that instant.               *)
(*                                                                         *)
(* The exceptions are named.  A call may be overtaken: its number changed  *)
(* after it looked and before it took effect.  Only such a call may take a *)
(* snapshot from its provider, announce a promotion that is none (or the   *)
(* reverse), or be judged on an entry that is not there any more; even it  *)
(* never writes over a release and never credits anybody with bytes they   *)
(* did not ask to store.                                                   *)
(***************************************************************************)
CONSTANTS Calls, Versions, VersionOf, Requests, NoRequest, Releasers, NoContent, NoUser

VARIABLES
  entry,      \* stability, bytes and provider of each number
  event,      \* the last announcement of each number
  request,    \* what each call was asked
  outcome,    \* what it answers, "none" until it has taken effect
  overtaken,  \* the calls whose number changed since they looked at it
  asked       \* the requests ever let in

vars == <<entry, event, request, outcome, overtaken, asked>>

Absent == [stability |-> "none", content |-> NoContent, by |-> NoUser]

Pending(c) == request[c] # NoRequest /\ outcome[c] = "none"
Number(c)  == VersionOf[request[c].content]
Target(c)  == entry[Number(c)]

Promotes(e, r) == e.stability = "snapshot" /\ r.stability = "ga"
Same(e, r)     == e.content = r.content /\ ~Promotes(e, r)
Owned(e, r)    == /\ e.stability = "snapshot" /\ r.stability = "snapshot"
                  /\ e.by # NoUser /\ r.user \notin {NoUser, e.by}
Open(e, r)     == e.stability # "ga" /\ ~Owned(e, r) /\ ~Same(e, r)

\* What no call may ignore, overtaken or not.
Takes(e, r) == /\ e.stability # "ga"
               /\ r.cas => e.stability = "snapshot" /\ e.content = r.content

Init ==
  /\ entry = [v \in Versions |-> Absent]
  /\ event = [v \in Versions |-> "none"]
  /\ request = [c \in Calls |-> NoRequest]
  /\ outcome = [c \in Calls |-> "none"]
  /\ overtaken = {} /\ asked = {}

MayRelease(r) == r.stability = "ga" => r.user \in Releasers

Ask(c) ==
  /\ ~Pending(c) /\ c \notin overtaken'
  /\ request'[c] \in Requests
  /\ LET r == request'[c]
     IN  /\ request' = [request EXCEPT ![c] = r]
         /\ outcome' = [outcome EXCEPT ![c] =
                          IF MayRelease(r) THEN "none" ELSE "ga_requires_releaser"]
         /\ asked' = IF MayRelease(r) THEN asked \cup {r} ELSE asked
  /\ UNCHANGED <<entry, event>>

\* The answers that leave the line alone, each with the state it stands for.
\* A plain Provide meets a conflict only if it was overtaken.
Justified(c, o) ==
  LET e == Target(c)
      r == request[c]
  IN  \/ o = "noop" /\ Same(e, r)
      \/ o = "immutable_ga" /\ e.stability = "ga" /\ ~Same(e, r) /\ r.stability = "ga"
      \/ o = "snapshot_on_ga" /\ e.stability = "ga" /\ ~Same(e, r) /\ r.stability = "snapshot"
      \/ o = "snapshot_owned" /\ Owned(e, r) /\ ~Same(e, r)
      \/ o = "conflict" /\ ~Takes(e, r) /\ (r.cas \/ c \in overtaken)
      \/ o = "breaking_without_major" /\ r.stability = "ga" /\ (Open(e, r) \/ c \in overtaken)
      \/ o = "preview" /\ r.dry /\ (Open(e, r) \/ c \in overtaken)

\* A pending call takes effect; its answer is settled.
Settle(c) == /\ Pending(c) /\ outcome'[c] # "none"
             /\ outcome' = [outcome EXCEPT ![c] = outcome'[c]]
             /\ UNCHANGED <<request, asked>>

Tell(c) == Settle(c) /\ Justified(c, outcome'[c]) /\ UNCHANGED <<entry, event>>

\* A Provide or a promotion is stored and announced, credited to u.
Store(c) ==
  LET e == Target(c)
      r == request[c]
  IN  /\ Settle(c) /\ outcome'[c] = "stored"
      /\ Takes(e, r) /\ ~r.dry
      /\ \E u \in {q.user : q \in {x \in asked : x.content = r.content}},
            what \in IF r.stability = "ga" THEN {"ga", "promoted"} ELSE {"snapshot"} :
           /\ c \notin overtaken =>
                /\ Open(e, r)
                /\ u = IF Promotes(e, r) /\ e.content = r.content THEN e.by ELSE r.user
                /\ what = IF Promotes(e, r) THEN "promoted" ELSE r.stability
           /\ entry' = [entry EXCEPT ![Number(c)] =
                          [stability |-> r.stability, content |-> r.content, by |-> u]]
           /\ event' = [event EXCEPT ![Number(c)] = what]

\* The client is gone; what the call did stays done.
Forget(c) == /\ request' = [request EXCEPT ![c] = NoRequest]
             /\ outcome' = [outcome EXCEPT ![c] = "none"]
             /\ UNCHANGED <<entry, event, asked>>

Withdraw(S) == /\ entry' = [v \in Versions |-> IF v \in S THEN Absent ELSE entry[v]]
               /\ UNCHANGED <<event, request, outcome, asked>>

\* The snapshot cleanup, and the admin's delete-version.
Expire    == /\ entry' # entry
             /\ \E S \in SUBSET {v \in Versions : entry[v].stability = "snapshot"} : Withdraw(S)
Delete(v) == entry[v] # Absent /\ Withdraw({v})

\* Being overtaken takes a change of the number while the call is pending.
Overtaking ==
  overtaken' \subseteq
    overtaken \cup {c \in Calls : Pending(c) /\ entry'[Number(c)] # Target(c)}

Call(c) == Ask(c) \/ Tell(c) \/ Store(c) \/ Forget(c)

Next == /\ (\E c \in Calls : Call(c)) \/ Expire \/ (\E v \in Versions : Delete(v))
        /\ Overtaking

Spec == Init /\ [][Next]_vars
=============================================================================
