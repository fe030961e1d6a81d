-------------------------- MODULE CachedRepository --------------------------
(***************************************************************************)
(* The read cache every replica keeps in front of the shared database: a   *)
(* read that misses asks the database and later inserts what it was told,  *)
(* a write commits in the database and later clears caches of its own      *)
(* replica only, and an administrator switches the cache off and on.       *)
(*                                                                         *)
(* One cache key is watched: a key of the cache `watched`, which Init      *)
(* chooses.  What the database would answer is not kept as a value.  Every *)
(* copy of an answer, in a cache or in the hands of a read, carries `old`: *)
(* 0 while it is what the database would answer, then one more than the    *)
(* ticks since a commit superseded it.  So no bound on writes or time is   *)
(* needed.                                                                 *)
(*                                                                         *)
(* Abstractions.  A write is the set of tables it changes; one that        *)
(* changes a table the watched key is read from supersedes every copy.     *)
(* Moka's operations are atomic and the hit counters are left out.  The    *)
(* two statements of get_report count as one at the time of the first.     *)
(* A deleted user's roles are never read again, so the deletion of users   *)
(* is left out, as are reads and writes that use no cache.                 *)
(***************************************************************************)
EXTENDS Integers

CONSTANTS
  Replicas,   \* processes sharing the database
  Readers,    \* reads in flight
  Writers,    \* writes in flight
  Home,       \* the replica each of them runs on
  Watchable,  \* the caches Init chooses from
  Ttl,        \* ticks an entry lives
  Lag         \* ticks a read may take from the database's answer to its insert

----------------------------------------------------------------------------
(* What the cached reads are answered from, by cache. *)

SpecReads == [spec_version |-> {"spec_versions", "stamps"},
              spec_content |-> {"contents"}]

EndpointReads == [endpoint          |-> {"endpoints"},
                  version_endpoints |-> {"endpoints"}]

\* Names of clients and services come along; they never change.
ReportReads == {"dependencies", "spec_versions", "endpoints"}

\* list_consumers joins the dependencies: a client is listed while it has one.
ListReads == [service_id    |-> {"services"},
              services_list |-> {"services"},
              services      |-> {"services", "service_metadata"},
              clients_list  |-> {"dependencies"}]

RoleReads == [effective_roles |-> {"user_roles", "user_group_members", "user_group_roles"},
              groups_list     |-> {"user_groups"},
              group_roles     |-> {"user_group_roles"}]

Reads(c) ==
  CASE c \in DOMAIN SpecReads     -> SpecReads[c]
    [] c \in DOMAIN EndpointReads -> EndpointReads[c]
    [] c \in DOMAIN ListReads     -> ListReads[c]
    [] c \in DOMAIN RoleReads     -> RoleReads[c]
    [] c = "report"               -> ReportReads
    [] c = "settings"             -> {"settings"}

Caches == DOMAIN SpecReads \cup DOMAIN EndpointReads \cup DOMAIN ListReads
          \cup DOMAIN RoleReads \cup {"report", "settings"}

----------------------------------------------------------------------------
(* What the writes change in the database. *)

UpsertSpecVersionChanges == {"spec_versions", "stamps", "contents", "endpoints"}
RewriteSpecTextChanges   == {"spec_versions", "contents", "endpoints"}
VersionsGone             == UpsertSpecVersionChanges \cup {"dependencies"}  \* with cascades
ServicesGone             == VersionsGone \cup {"services", "service_metadata"}
ClientsGone              == {"dependencies", "clients"}
NukeChanges              == ServicesGone \cup ClientsGone
MergeUserChanges         == {"user_roles", "user_group_members"}
DeleteGroupChanges       == {"user_group_members", "user_group_roles", "user_groups"}

----------------------------------------------------------------------------
(* The writes.  A write has the tables it changes, the caches it clears    *)
(* and when it clears them: "enabled" while the cache is on, "changed"     *)
(* when rows were affected as well, "refused" even when the write failed,  *)
(* "always" even while the cache is off.                                   *)

Op(changes, clears, when) ==
  [changes |-> changes, clears |-> clears, when |-> when, parts |-> FALSE]

\* Several statements without a transaction around them.
InParts(op) == [op EXCEPT !.parts = TRUE]

\* Mutant: the version metadata is forgotten.
SpecCachesButVersion == {"version_endpoints", "endpoint", "spec_content", "report"}

\* invalidate_spec_caches
SpecCaches == {"spec_version", "version_endpoints", "endpoint", "spec_content", "report"}

upsert_spec_version      == Op(UpsertSpecVersionChanges, SpecCaches, "refused")
rewrite_spec_text        == Op(RewriteSpecTextChanges, SpecCaches, "refused")
delete_spec_version      == Op(VersionsGone, SpecCaches, "changed")
touch_spec_version       == Op({"stamps"}, {"spec_version"}, "enabled")
delete_expired_snapshots == Op(VersionsGone, SpecCaches, "changed")

\* ensure_service inserts the id: what was cached of the name is replaced.
ensure_service            == Op({"services", "service_metadata"},
                                {"service_id", "services_list", "services"}, "enabled")
ensure_client             == Op({"clients"}, {"clients_list"}, "enabled")
record_dependencies_bulk  == Op({"dependencies"}, {"report"}, "enabled")
close_expired_trunk_data  == Op({"stamps"}, {"report", "spec_version", "services"}, "enabled")
delete_stale_dependencies == Op({"dependencies"}, {"report"}, "changed")

delete_all_services      == InParts(Op(ServicesGone, Caches, "enabled"))
delete_all_clients       == InParts(Op(ClientsGone, {"clients_list", "report"}, "enabled"))
nuke_database            == Op(NukeChanges, Caches, "enabled")
delete_producer          == Op(ServicesGone, SpecCaches \cup {"service_id", "services_list", "services"},
                               "enabled")
delete_consumer          == InParts(Op(ClientsGone, {"clients_list", "report"}, "enabled"))
update_producer_metadata == Op({"service_metadata"}, {"services"}, "enabled")

set_setting      == Op({"settings"}, {"settings"}, "always")
merge_user_into  == Op(MergeUserChanges, {"effective_roles"}, "enabled")
set_user_role    == Op({"user_roles"}, {"effective_roles"}, "always")
name_group       == Op({"user_groups"}, {"groups_list"}, "always")
delete_group     == InParts(Op(DeleteGroupChanges, {"effective_roles", "groups_list", "group_roles"},
                               "always"))
set_group_roles  == Op({"user_group_roles"}, {"effective_roles", "group_roles"}, "always")
set_group_member == Op({"user_group_members"}, {"effective_roles"}, "always")

Ops == {upsert_spec_version, rewrite_spec_text, delete_spec_version, touch_spec_version,
        delete_expired_snapshots, ensure_service, ensure_client, record_dependencies_bulk,
        close_expired_trunk_data, delete_stale_dependencies, delete_all_services,
        delete_all_clients, nuke_database, delete_producer, delete_consumer,
        update_producer_metadata, set_setting, merge_user_into, set_user_role, name_group,
        delete_group, set_group_roles, set_group_member}

\* Mutant: rebuild_caches misses another one.
RebuildClearsButVersions == Caches \ {"effective_roles", "spec_version"}

\* rebuild_caches names every cache but effective_roles.
RebuildClears == Caches \ {"effective_roles"}

ASSUME CacheAssumptions ==
  /\ Ttl \in Nat \ {0} /\ Lag \in Nat
  /\ Watchable \subseteq Caches
  /\ Home \in [Readers \cup Writers -> Replicas]

----------------------------------------------------------------------------
VARIABLES
  watched,   \* the cache whose key is followed
  on,        \* the replicas whose memory limit is not 0
  rebuild,   \* the replicas inside rebuild_caches: limit stored, caches not yet cleared
  held,      \* the replicas whose cache holds the key
  entry,     \* what it holds, Blank where it does not
  step,      \* where each read stands
  copy,      \* the answer it carries, Blank when idle
  write      \* each write: whether it has committed and not finished, and what it clears

vars == <<watched, on, rebuild, held, entry, step, copy, write>>

(* A copy of an answer.  `before` and `owed` are history: the committed    *)
(* writes that superseded it and have not finished, and the ways in which  *)
(* it outlived a finished write of its own replica:                        *)
(*   "late"    it was still carried by a read,                             *)
(*   "dark"    it lay in a cache that was off,                             *)
(*   "missed"  it lay in a cache that was on.                              *)
Owed   == {"late", "dark", "missed"}
Copies == [old : Nat, age : Nat, before : SUBSET Writers, owed : SUBSET Owed]
Blank  == [old |-> 0, age |-> 0, before |-> {}, owed |-> {}]

Steps  == {"idle", "answered", "checked"}
Writes == [running : BOOLEAN, clears : {"never", "enabled", "always"}, parts : BOOLEAN]

NoWrite == [running |-> FALSE, clears |-> "never", parts |-> FALSE]

Servable(r) == r \in on /\ r \in held

TypeOK ==
  /\ watched \in Watchable
  /\ on \subseteq Replicas /\ rebuild \subseteq Replicas /\ held \subseteq Replicas
  /\ entry \in [Replicas -> Copies]
  /\ step \in [Readers -> Steps]
  /\ copy \in [Readers -> Copies]
  /\ write \in [Writers -> Writes]
  /\ \A r \in Replicas \ held : entry[r] = Blank

\* The limit each replica starts with is configuration.
Init ==
  /\ watched \in Watchable
  /\ on \in SUBSET Replicas /\ rebuild = {}
  /\ held = {} /\ entry = [r \in Replicas |-> Blank]
  /\ step = [c \in Readers |-> "idle"]
  /\ copy = [c \in Readers |-> Blank]
  /\ write = [w \in Writers |-> NoWrite]

Busy(c) == step[c] # "idle"

----------------------------------------------------------------------------
(* Reads.  A hit changes nothing.  A miss asks the database; the answer is *)
(* inserted after a second look at the limit (but for the bulk read of     *)
(* endpoints), and in the time between the database's answer and the       *)
(* insert writes commit and finish.                                        *)

Stop(c) == /\ step' = [step EXCEPT ![c] = "idle"]
           /\ copy' = [copy EXCEPT ![c] = Blank]

\* ensure_service inserts the id it made or found without looking first.
Misses(r) == ~Servable(r) \/ watched = "service_id"

Answer(c) ==
  /\ ~Busy(c) /\ Misses(Home[c])
  /\ step' = [step EXCEPT ![c] = "answered"]
  /\ copy' = [copy EXCEPT ![c] = Blank]
  /\ UNCHANGED <<watched, on, rebuild, held, entry, write>>

\* find_endpoints_bulk looks at the limit before it asks, and not again.
AnswerBulk(c) ==
  /\ ~Busy(c) /\ watched = "endpoint" /\ Home[c] \in on \ held
  /\ step' = [step EXCEPT ![c] = "checked"]
  /\ copy' = [copy EXCEPT ![c] = Blank]
  /\ UNCHANGED <<watched, on, rebuild, held, entry, write>>

Check(c) ==
  /\ step[c] = "answered" /\ Home[c] \in on
  /\ step' = [step EXCEPT ![c] = "checked"]
  /\ UNCHANGED <<watched, on, rebuild, held, entry, copy, write>>

\* The cache is off, no row was found (some caches keep only found rows), the database
\* failed, or the request was dropped.
GiveUp(c) ==
  /\ Busy(c)
  /\ Stop(c)
  /\ UNCHANGED <<watched, on, rebuild, held, entry, write>>

\* An insert starts the entry's time to live.
Inserted(cp) == [cp EXCEPT !.age = 0]

Insert(c) ==
  /\ step[c] = "checked"
  /\ held' = held \cup {Home[c]}
  /\ entry' = [entry EXCEPT ![Home[c]] = Inserted(copy[c])]
  /\ Stop(c)
  /\ UNCHANGED <<watched, on, rebuild, write>>

----------------------------------------------------------------------------
(* Writes. *)

\* A commit of w that changed what the key is answered from.
Superseded(cp, w) == [cp EXCEPT !.old = IF @ = 0 THEN 1 ELSE @, !.before = @ \cup {w}]

\* A refusal of w: the database disagrees with what is already superseded.
Refused(cp, w) == IF cp.old = 0 THEN cp ELSE [cp EXCEPT !.before = @ \cup {w}]

\* Every copy in a cache and every copy a read carries.
EachCopy(F(_, _), w) ==
  /\ entry' = [r \in Replicas |-> IF r \in held THEN F(entry[r], w) ELSE Blank]
  /\ copy'  = [c \in Readers  |-> IF Busy(c) THEN F(copy[c], w) ELSE Blank]

Touches(op) == op.changes \cap Reads(watched) # {}

\* What a write will do to the watched cache once it is back from the database.
Clearing(op, changed) ==
  CASE watched \notin op.clears               -> "never"
    [] op.when = "always"                     -> "always"
    [] op.when = "changed" /\ ~changed        -> "never"
    [] OTHER                                  -> "enabled"

Begin(w, op, changed) ==
  /\ ~write[w].running
  /\ write' = [write EXCEPT ![w] = [running |-> TRUE, clears |-> Clearing(op, changed),
                                    parts |-> changed /\ op.parts /\ Touches(op)]]
  /\ UNCHANGED <<watched, on, rebuild, held, step>>

Commit(w, op) == /\ Begin(w, op, TRUE)
                 /\ IF Touches(op) THEN EachCopy(Superseded, w) ELSE UNCHANGED <<entry, copy>>

\* No row was affected, or the database refused: only upserts and rewrites clear then.
Refuse(w, op) == /\ Begin(w, op, FALSE)
                 /\ IF op.when = "refused" /\ Touches(op) THEN EachCopy(Refused, w)
                    ELSE UNCHANGED <<entry, copy>>

\* A later statement of a write in parts.
CommitMore(w) ==
  /\ write[w].running /\ write[w].parts
  /\ EachCopy(Superseded, w)
  /\ UNCHANGED <<watched, on, rebuild, held, step, write>>

Forgotten(cp, w) == [cp EXCEPT !.before = @ \ {w}]
Outlived(cp, w, how) == IF w \in cp.before
                        THEN [Forgotten(cp, w) EXCEPT !.owed = @ \cup {how}] ELSE cp

Idle(w) == write' = [write EXCEPT ![w] = NoWrite]

\* Back from the database, the write clears and returns.
Finish(w) ==
  LET r == Home[w]
      cleared == write[w].clears = "always" \/ (write[w].clears = "enabled" /\ r \in on)
  IN /\ write[w].running
     /\ held'  = IF cleared THEN held \ {r} ELSE held
     /\ entry' = [q \in Replicas |->
                    IF q # r THEN Forgotten(entry[q], w)
                    ELSE IF cleared THEN Blank
                    ELSE Outlived(entry[q], w, IF r \in on THEN "missed" ELSE "dark")]
     /\ copy'  = [c \in Readers |-> IF Home[c] = r THEN Outlived(copy[c], w, "late")
                                    ELSE Forgotten(copy[c], w)]
     /\ Idle(w)
     /\ UNCHANGED <<watched, on, rebuild, step>>

\* An error after a part was committed, or the request dropped: nothing is cleared.
Abort(w) ==
  /\ write[w].running
  /\ entry' = [q \in Replicas |-> Forgotten(entry[q], w)]
  /\ copy'  = [c \in Readers |-> Forgotten(copy[c], w)]
  /\ Idle(w)
  /\ UNCHANGED <<watched, on, rebuild, held, step>>

----------------------------------------------------------------------------
(* set_cache_config and clear_cache: the limit first, then the caches. *)

StoreLimit(r, limited) ==
  /\ r \notin rebuild
  /\ on' = IF limited THEN on \cup {r} ELSE on \ {r}
  /\ rebuild' = rebuild \cup {r}
  /\ UNCHANGED <<watched, held, entry, step, copy, write>>

ClearAll(r) ==
  /\ r \in rebuild
  /\ rebuild' = rebuild \ {r}
  /\ IF watched \in RebuildClears
     THEN held' = held \ {r} /\ entry' = [entry EXCEPT ![r] = Blank]
     ELSE UNCHANGED <<held, entry>>
  /\ UNCHANGED <<watched, on, step, copy, write>>

----------------------------------------------------------------------------
(* Time.  Reading an entry does not prolong it: time_to_live counts from   *)
(* the insert.                                                             *)

\* Beyond the window nothing tells the ticks apart.
Older(n) == IF n = 0 \/ n > Ttl + Lag THEN n ELSE n + 1

\* Mutant: every read prolongs the entry.
AgedWhenIdle(cp) == [cp EXCEPT !.old = Older(@)]

Aged(cp) == [old |-> Older(cp.old), age |-> cp.age + 1, before |-> cp.before, owed |-> cp.owed]

\* Mutant: an entry is served for one tick too long.
LivesLonger(r) == r \in held /\ entry[r].age < Ttl

Lives(r) == r \in held /\ entry[r].age + 1 < Ttl

\* The weighers' capacity: any entry may go at any time.
Evict(r) ==
  /\ r \in held
  /\ held' = held \ {r} /\ entry' = [entry EXCEPT ![r] = Blank]
  /\ UNCHANGED <<watched, on, rebuild, step, copy, write>>

Tick ==
  /\ \A c \in Readers : Busy(c) => copy[c].age < Lag
  /\ held'  = {r \in Replicas : Lives(r)}
  /\ entry' = [r \in Replicas |-> IF Lives(r) THEN Aged(entry[r]) ELSE Blank]
  /\ copy'  = [c \in Readers |-> IF Busy(c) THEN Aged(copy[c]) ELSE Blank]
  /\ UNCHANGED <<watched, on, rebuild, step, write>>

Next ==
  \/ \E c \in Readers : Answer(c) \/ AnswerBulk(c) \/ Check(c) \/ GiveUp(c) \/ Insert(c)
  \/ \E w \in Writers : \/ \E op \in Ops : Commit(w, op) \/ Refuse(w, op)
                        \/ CommitMore(w) \/ Finish(w) \/ Abort(w)
  \/ \E r \in Replicas : (\E limited \in BOOLEAN : StoreLimit(r, limited)) \/ ClearAll(r) \/ Evict(r)
  \/ Tick

Spec == Init /\ [][Next]_vars

(* The clock moves, and a read or a write that is back from the database   *)
(* returns.                                                                *)
FairSpec ==
  /\ Spec /\ WF_vars(Tick)
  /\ \A c \in Readers : WF_vars(Check(c)) /\ WF_vars(GiveUp(c) \/ Insert(c))
  /\ \A w \in Writers : WF_vars(Finish(w) \/ Abort(w))

----------------------------------------------------------------------------
(* Whatever is served was the database's answer at most Ttl + Lag ticks    *)
(* ago, whoever wrote and whatever was cleared: the window deployment      *)
(* documents for several replicas (DATA_TTL_SECS), plus the time a read    *)
(* takes to insert.                                                        *)
BoundedStaleness == \A r \in Replicas : Servable(r) => entry[r].old <= Ttl + Lag

(* A finished write, or a refused upsert, of a replica leaves no answer    *)
(* older than itself in that replica's cache while the cache is on: every  *)
(* write clears every cache it changes the answers of.  The one cache this *)
(* does not hold of is the Consumer list, which writes that change the     *)
(* dependencies do not clear.  (An answer a read still carries is put in   *)
(* the cache afterwards: see BitesAtOnce.)                                 *)
OwnWritesSeen == \A r \in Replicas :
  Servable(r) /\ "missed" \in entry[r].owed => watched = "clients_list"

(* Switching the cache off and on again serves nothing that a write of     *)
(* this replica superseded meanwhile, once rebuild_caches is done: it      *)
(* clears what writes leave alone while the cache is off.  Except the      *)
(* effective roles, which rebuild_caches does not name.                    *)
OffAndOnAgain == \A r \in Replicas :
  Servable(r) /\ r \notin rebuild /\ "dark" \in entry[r].owed => watched = "effective_roles"

(* If the writes cease, every cache is and stays current again, though     *)
(* nothing more is cleared.                                                *)
Converges == <>[](\A w \in Writers : ~write[w].running)
             => <>[](\A r \in held : entry[r].old = 0)

(* What the comments say, "writes through the repository invalidate        *)
(* immediately": no replica serves an answer that one of its own finished  *)
(* writes superseded.  A fill that read before the write breaks it, see    *)
(* the README; no run checks it.                                           *)
BitesAtOnce == \A r \in Replicas : Servable(r) => entry[r].owed = {}
=============================================================================
