---------------------------- MODULE VersionLine ----------------------------
(***************************************************************************)
(* One version line: the entries one Producer has stored for one API type, *)
(* the Provide and Promote calls that run against it concurrently, the     *)
(* admin's delete-version, and the background cleanups.                    *)
(*                                                                         *)
(* Every `await` of provide_spec_inner that reads or writes shared state   *)
(* is a step of its own: a call reads the line, decides on what it read,   *)
(* commits with one guarded upsert, and then stamps the origin and the     *)
(* trunk marker in further transactions.  Between any two of its steps     *)
(* other calls run, and the call itself may be dropped (client gone,       *)
(* process stopped).                                                       *)
(*                                                                         *)
(* Abstractions.  A document is an opaque element of Contents; the version *)
(* it declares is VersionOf[c], so equal hashes are equal contents.  The   *)
(* whole-document compatibility verdict is the relation Compatible.        *)
(* Instants are reduced to whether a row was used since the cleanup's      *)
(* cutoff.  AsyncAPI contracts, the harvest, tagged streams, the services  *)
(* row and the audit log are not part of this module.                      *)
(***************************************************************************)
EXTENDS Integers, FiniteSets

CONSTANTS
  Calls,            \* concurrent requests being served, over all replicas
  Users, NoUser,    \* authenticated actors; NoUser is dev mode
  Releasers,        \* the users holding Permission::ReleaseGa
  Versions,         \* <<major, minor, patch>>
  Contents, NoContent,
  VersionOf,        \* the version a document declares
  Compatible,       \* pairs <<old, new>> check_compatibility accepts
  Links, NoLink,    \* build links and change links of an origin
  ProvideRequests,  \* the Provides clients may send
  Promoters,        \* the users who may click Promote to GA
  MaxId,            \* bound: entries leave the line while nextId <= MaxId
  StaleReads        \* TRUE: cached reads may lag (replicas with own caches)

Stabilities == {"snapshot", "ga"}

Rows == [id : Nat, stability : Stabilities \cup {"none"},
         content : Contents \cup {NoContent}, by : Users \cup {NoUser},
         fresh : BOOLEAN, trunk : {"no", "old", "yes"}]

\* "no such entry in the line"
NoRow == [id |-> 0, stability |-> "none", content |-> NoContent,
          by |-> NoUser, fresh |-> FALSE, trunk |-> "no"]

Requests == [content : Contents, stability : Stabilities,
             user : Users \cup {NoUser}, build : Links \cup {NoLink},
             why : Links \cup {NoLink}, trunk : BOOLEAN, dry : BOOLEAN,
             cas : BOOLEAN]

Origins == [id : Nat, build : Links \cup {NoLink}, why : Links \cup {NoLink},
            trunkBuild : BOOLEAN]

NoRequest == [content |-> NoContent, stability |-> "snapshot", user |-> NoUser,
              build |-> NoLink, why |-> NoLink, trunk |-> FALSE, dry |-> FALSE,
              cas |-> FALSE]

NoOrigin == [id |-> 0, build |-> NoLink, why |-> NoLink, trunkBuild |-> FALSE]

\* Where a call stands; how it was answered.
Steps == {"idle", "line", "decide", "commit", "set_origin", "set_trunk", "touch",
          "noop_trunk", "get_origin", "fill_origin", "done"}
Answers == {"none", "stored", "noop", "preview", "conflict", "ga_requires_releaser",
            "immutable_ga", "snapshot_on_ga", "snapshot_owned", "breaking_without_major"}

ASSUME VersionLineAssumptions ==
  /\ Versions \subseteq Nat \X Nat \X Nat
  /\ VersionOf \in [Contents -> Versions]
  /\ Compatible \subseteq Contents \X Contents
  /\ NoContent \notin Contents
  /\ NoUser \notin Users
  /\ NoLink \notin Links
  /\ Releasers \subseteq Users
  /\ Promoters \subseteq Users \cup {NoUser}
  /\ ProvideRequests \subseteq [content : Contents, stability : Stabilities,
        user : Users \cup {NoUser}, build : Links \cup {NoLink},
        why : Links \cup {NoLink}, trunk : BOOLEAN, dry : BOOLEAN,
        cas : {FALSE}]
  /\ MaxId \in Nat
  /\ StaleReads \in BOOLEAN

VARIABLES
  rows,       \* spec_versions of the line, by version
  nextId,     \* the AUTOINCREMENT counter: ids are never reused
  origins,    \* spec_version_origin, no foreign key to spec_versions
  member,     \* versions with an open trunk_member_versions record
  memberOld,  \* that record was not refreshed since the trunk cutoff
  sweep,      \* where close_expired_trunk_data stands between statements
  pc,         \* the next step of each call
  req,        \* what each call was asked
  seen,       \* the line each call read with list_spec_versions
  got,        \* the origin an identical provide read before merging
  entry,      \* the row id each call's later steps address
  answer,     \* how each finished call was answered
  announced,  \* the last version.published event of each number
  held,       \* history for StaleReads: <<id, version, content>> stored
  submitted,  \* history: the requests begun, refused releases apart
  deleted     \* history: versions an admin deleted

vars == <<rows, nextId, origins, member, memberOld, sweep, pc, req, seen,
          got, entry, answer, announced, held, submitted, deleted>>

----------------------------------------------------------------------------
(* The version rules over a line as read. *)

\* SemVer's derived ordering.
Below(v, w) == \/ v[1] < w[1]
               \/ v[1] = w[1] /\ v[2] < w[2]
               \/ v[1] = w[1] /\ v[2] = w[2] /\ v[3] < w[3]

\* b is the highest GA of the line strictly below v.
IsGaBaseline(line, v, b) ==
  /\ line[b].stability = "ga" /\ Below(b, v)
  /\ \A w \in Versions : line[w].stability = "ga" /\ Below(w, v) => ~Below(b, w)

\* The contents get_spec_content may return for a row id; NoContent is None.
\* Read through the content cache: on a lagging replica any content that the
\* row held before.
ContentReads(id) ==
  LET stored == {v \in Versions : rows[v].id = id}
      fresh  == IF stored = {} THEN {NoContent} ELSE {rows[v].content : v \in stored}
  IN  fresh \cup (IF StaleReads
                  THEN {c \in Contents : \E v \in Versions : <<id, v, c>> \in held}
                  ELSE {})

\* Mutant: a minor bump over the same major escapes the check.
VerdictsAcrossMajorsOnly(c) ==
  LET v   == VersionOf[req[c].content]
      old == UNION {ContentReads(seen[c][b].id) :
                      b \in {x \in Versions : IsGaBaseline(seen[c], v, x) /\ v[1] < x[1]}}
  IN  IF req[c].stability = "snapshot" \/ old = {}
      THEN {"honest"}
      ELSE {IF o = NoContent \/ <<o, req[c].content>> \in Compatible
            THEN "honest" ELSE "breaking" : o \in old}

\* The semver-honesty verdicts the call may reach on what it reads.
HonestyVerdicts(c) ==
  LET v   == VersionOf[req[c].content]
      old == UNION {ContentReads(seen[c][b].id) :
                      b \in {x \in Versions : IsGaBaseline(seen[c], v, x) /\ v[1] <= x[1]}}
  IN  IF req[c].stability = "snapshot" \/ old = {}
      THEN {"honest"}
      ELSE {IF o = NoContent \/ <<o, req[c].content>> \in Compatible
            THEN "honest" ELSE "breaking" : o \in old}

Existing(c)  == seen[c][VersionOf[req[c].content]]
Promoting(c) == Existing(c).stability = "snapshot" /\ req[c].stability = "ga"

\* Identical content is an idempotent no-op, except a promotion.
Identical(c) == Existing(c).content = req[c].content /\ ~Promoting(c)

\* A snapshot belongs to whoever last provided it.
OwnedByOther(c) ==
  /\ Existing(c).stability = "snapshot" /\ req[c].stability = "snapshot"
  /\ Existing(c).by # NoUser
  /\ req[c].user # NoUser /\ req[c].user # Existing(c).by

\* Mutant: a promotion keeps the provider of other bytes.
CreditWithoutHashCheck(c) == IF Promoting(c) THEN Existing(c).by ELSE req[c].user

\* Promoting byte-identical content keeps the snapshot's provider.
Credited(c) == IF Promoting(c) /\ Existing(c).content = req[c].content
               THEN Existing(c).by ELSE req[c].user

EmptyOrigin(r) == r.build = NoLink /\ r.why = NoLink

\* The post-commit origin write, skipped by a promotion that says nothing.
SetsOrigin(c) == ~(Promoting(c) /\ EmptyOrigin(req[c]))

\* origin_for_identical_provide: the record to write, NoOrigin for none.
OriginForIdentical(c) ==
  LET r     == req[c]
      trunk == r.trunk /\ r.build # NoLink
  IN  IF got[c].id = 0
      THEN [id |-> entry[c], build |-> r.build, why |-> r.why, trunkBuild |-> trunk]
      ELSE IF trunk /\ ~got[c].trunkBuild
           THEN [id |-> entry[c], build |-> r.build,
                 why |-> IF got[c].why = NoLink THEN r.why ELSE got[c].why,
                 trunkBuild |-> TRUE]
           ELSE NoOrigin

\* set_version_origin: replace, or delete when the new origin is empty.
WithOrigin(o) ==
  {x \in origins : x.id # o.id}
    \cup (IF EmptyOrigin(o) THEN {} ELSE {o})

\* The call goes on; its last step has been taken and it answers.
Goto(c, step) == /\ pc' = [pc EXCEPT ![c] = step]
                 /\ UNCHANGED <<req, answer>>

Answer(c, a) == /\ pc' = [pc EXCEPT ![c] = "done"]
                /\ answer' = [answer EXCEPT ![c] = a]
                /\ seen' = [seen EXCEPT ![c] = [v \in Versions |-> NoRow]]
                /\ got' = [got EXCEPT ![c] = NoOrigin]
                /\ entry' = [entry EXCEPT ![c] = 0]
                /\ UNCHANGED req

line == <<rows, nextId, held>>                  \* written by upsert and deletes
trunkData == <<member, memberOld, sweep>>
history == <<submitted, deleted>>

----------------------------------------------------------------------------
Init ==
  /\ rows = [v \in Versions |-> NoRow]
  /\ nextId = 1
  /\ origins = {}
  /\ member = {} /\ memberOld = FALSE /\ sweep = "idle"
  /\ pc = [c \in Calls |-> "idle"]
  /\ req = [c \in Calls |-> NoRequest]
  /\ seen = [c \in Calls |-> [v \in Versions |-> NoRow]]
  /\ got = [c \in Calls |-> NoOrigin]
  /\ entry = [c \in Calls |-> 0]
  /\ answer = [c \in Calls |-> "none"]
  /\ announced = [v \in Versions |-> "none"]
  /\ held = {} /\ submitted = {} /\ deleted = {}

----------------------------------------------------------------------------
(* A call begins.  Releasing is a permission; a GA request without it is   *)
(* answered before anything is read or written.                            *)

MayRelease(r) == r.stability = "ga" => r.user \in Releasers

Begin(c, r) ==
  /\ pc[c] \in {"idle", "done"}
  /\ req' = [req EXCEPT ![c] = r]
  /\ IF MayRelease(r)
     THEN /\ pc' = [pc EXCEPT ![c] = "line"]
          /\ answer' = [answer EXCEPT ![c] = "none"]
          /\ submitted' = submitted \cup {r}
     ELSE /\ pc' = [pc EXCEPT ![c] = "done"]
          /\ answer' = [answer EXCEPT ![c] = "ga_requires_releaser"]
          /\ UNCHANGED submitted
  /\ UNCHANGED <<line, origins, trunkData, seen, got, entry, announced, deleted>>

BeginProvide(c) == \E r \in ProvideRequests : Begin(c, r)

PromoteRequest(content, u) == [NoRequest EXCEPT !.content = content, !.stability = "ga",
                                                !.user = u, !.cas = TRUE]

\* promote_version: the stored content, read through the caches, provided
\* again as GA with the compare-and-set on its own hash.
BeginPromote(c) ==
  \E v \in Versions, u \in Promoters :
    \E id \in {rows[v].id} \cup
              (IF StaleReads THEN {h[1] : h \in {x \in held : x[2] = v}} ELSE {}) :
      \E content \in ContentReads(id) \ {NoContent} :
        /\ id # 0
        /\ Begin(c, PromoteRequest(content, u))

\* list_spec_versions, which no cache serves.  The decision uses an entry's
\* id, stability, hash and provider.
Meta(r) == [r EXCEPT !.fresh = FALSE, !.trunk = "no"]

\* Mutant: the line is served by the caches, too.
ReadLineThroughCache(c) ==
  /\ pc[c] = "line"
  /\ \E v \in Versions, k \in Contents \cup {NoContent} :
       /\ k \in ContentReads(rows[v].id)
       /\ seen' = [seen EXCEPT ![c] = [w \in Versions |->
                     [Meta(rows[w]) EXCEPT !.content = IF w = v THEN k ELSE @]]]
  /\ Goto(c, "decide")
  /\ UNCHANGED <<line, origins, trunkData, got, entry, announced, history>>

ReadLine(c) ==
  /\ pc[c] = "line"
  /\ seen' = [seen EXCEPT ![c] = [v \in Versions |-> Meta(rows[v])]]
  /\ Goto(c, "decide")
  /\ UNCHANGED <<line, origins, trunkData, got, entry, announced, history>>

----------------------------------------------------------------------------
(* The decision, on the line as read. *)

NoopSteps(c) ==
  (IF Existing(c).stability = "snapshot" THEN {"touch"} ELSE {})
    \cup (IF req[c].trunk THEN {"noop_trunk"} ELSE {})
    \cup (IF ~EmptyOrigin(req[c]) THEN {"get_origin"} ELSE {})

\* The first step at or after a point of the identical-content path that the
\* request needs; "done" when none is left.
NoopFrom(c, todo) == IF "touch" \in todo THEN "touch"
                     ELSE IF "noop_trunk" \in todo THEN "noop_trunk"
                     ELSE IF "get_origin" \in todo THEN "get_origin"
                     ELSE "done"

GotoOrAnswer(c, step, a) ==
  IF step = "done" THEN Answer(c, a)
  ELSE Goto(c, step) /\ UNCHANGED <<seen, got, entry>>

DecideIdentical(c) ==
  /\ pc[c] = "decide" /\ Identical(c)
  /\ LET step == IF req[c].dry THEN "done" ELSE NoopFrom(c, NoopSteps(c))
     IN  IF step = "done" THEN Answer(c, "noop")
         ELSE /\ Goto(c, step)
              /\ entry' = [entry EXCEPT ![c] = Existing(c).id]
              /\ UNCHANGED <<seen, got>>
  /\ UNCHANGED <<line, origins, trunkData, announced, history>>

DecideRefused(c) ==
  /\ pc[c] = "decide" /\ ~Identical(c)
  /\ \/ /\ Existing(c).stability = "ga"
        /\ Answer(c, IF req[c].stability = "ga" THEN "immutable_ga" ELSE "snapshot_on_ga")
     \/ OwnedByOther(c) /\ Answer(c, "snapshot_owned")
     \/ /\ Existing(c).stability # "ga"
        /\ "breaking" \in HonestyVerdicts(c)
        /\ Answer(c, "breaking_without_major")
  /\ UNCHANGED <<line, origins, trunkData, announced, history>>

DecideAccepted(c) ==
  /\ pc[c] = "decide" /\ ~Identical(c)
  /\ Existing(c).stability # "ga" /\ ~OwnedByOther(c)
  /\ "honest" \in HonestyVerdicts(c)
  /\ GotoOrAnswer(c, IF req[c].dry THEN "done" ELSE "commit", "preview")
  /\ UNCHANGED <<line, origins, trunkData, announced, history>>

----------------------------------------------------------------------------
(* The guarded upsert: one transaction with the rows of the outbox. *)

\* Mutant: ids without AUTOINCREMENT, the highest stored id plus one.
UpsertedReusingIds(c, old) ==
  [id        |-> IF old.stability = "none"
                 THEN 1 + (CHOOSE m \in {0} \cup {rows[v].id : v \in Versions} :
                             \A v \in Versions : rows[v].id <= m)
                 ELSE old.id,
   stability |-> req[c].stability,
   content   |-> req[c].content,
   by        |-> Credited(c),
   fresh     |-> TRUE,
   trunk     |-> old.trunk]

\* The row an upsert leaves: identity, last_required_at and the trunk marker
\* survive an overwrite; an insert takes the next id.
Upserted(c, old) ==
  [id        |-> IF old.stability = "none" THEN nextId ELSE old.id,
   stability |-> req[c].stability,
   content   |-> req[c].content,
   by        |-> Credited(c),
   fresh     |-> TRUE,
   trunk     |-> old.trunk]

\* Mutants: the GA guard or the hash comparison is missing.
UpsertGuardWithoutGa(c, old) ==
  req[c].cas => old.stability # "none" /\ old.content = req[c].content
UpsertGuardWithoutHash(c, old) ==
  /\ old.stability # "ga"
  /\ req[c].cas => old.stability = "snapshot"

\* WHERE stability != 'ga', and for a compare-and-set caller also
\* content_hash = expected on a row that must still exist.
UpsertGuard(c, old) ==
  /\ old.stability # "ga"
  /\ req[c].cas => old.stability = "snapshot" /\ old.content = req[c].content

\* The version.published event, planned before the transaction.
PublishedEvent(c) == IF Promoting(c) THEN "promoted" ELSE req[c].stability

Commit(c) ==
  LET v   == VersionOf[req[c].content]
      old == rows[v]
      new == Upserted(c, old)
  IN  /\ pc[c] = "commit" /\ UpsertGuard(c, old)
      /\ rows' = [rows EXCEPT ![v] = new]
      /\ nextId' = IF old.stability = "none" THEN nextId + 1 ELSE nextId
      /\ held' = IF StaleReads THEN held \cup {<<new.id, v, new.content>>} ELSE held
      /\ announced' = [announced EXCEPT ![v] = PublishedEvent(c)]
      /\ IF SetsOrigin(c) \/ req[c].trunk
         THEN /\ Goto(c, IF SetsOrigin(c) THEN "set_origin" ELSE "set_trunk")
              /\ entry' = [entry EXCEPT ![c] = new.id]
              /\ UNCHANGED <<seen, got>>
         ELSE Answer(c, "stored")
      /\ UNCHANGED <<origins, trunkData, history>>

CommitConflict(c) ==
  /\ pc[c] = "commit" /\ ~UpsertGuard(c, rows[VersionOf[req[c].content]])
  /\ Answer(c, "conflict")
  /\ UNCHANGED <<line, origins, trunkData, announced, history>>

----------------------------------------------------------------------------
(* Writes that address the row by id after the decision. *)

\* UPDATE spec_versions ... WHERE id: no row, no effect.
ById(id, Op(_)) == [v \in Versions |-> IF rows[v].id = id THEN Op(rows[v]) ELSE rows[v]]

Mark(r) == [r EXCEPT !.trunk = "yes"]
Use(r)  == [r EXCEPT !.fresh = TRUE]

\* touch_spec_version_trunk: marker, and the line's one open member record.
TrunkTouch(id) ==
  LET v == {w \in Versions : rows[w].id = id}
  IN  /\ rows' = ById(id, Mark)
      /\ member' = IF v = {} THEN member ELSE v
      /\ memberOld' = IF v = {} THEN memberOld ELSE FALSE

SetOrigin(c) ==
  /\ pc[c] = "set_origin"
  /\ origins' = WithOrigin([id |-> entry[c], build |-> req[c].build, why |-> req[c].why,
                            trunkBuild |-> req[c].trunk /\ req[c].build # NoLink])
  /\ GotoOrAnswer(c, IF req[c].trunk THEN "set_trunk" ELSE "done", "stored")
  /\ UNCHANGED <<line, trunkData, announced, history>>

SetTrunk(c) ==
  /\ pc[c] = "set_trunk"
  /\ TrunkTouch(entry[c])
  /\ Answer(c, "stored")
  /\ UNCHANGED <<nextId, held, origins, sweep, announced, history>>

TouchProvided(c) ==
  /\ pc[c] = "touch"
  /\ rows' = ById(entry[c], Use)
  /\ GotoOrAnswer(c, NoopFrom(c, NoopSteps(c) \ {"touch"}), "noop")
  /\ UNCHANGED <<nextId, held, origins, trunkData, announced, history>>

NoopTrunk(c) ==
  /\ pc[c] = "noop_trunk"
  /\ TrunkTouch(entry[c])
  /\ GotoOrAnswer(c, NoopFrom(c, NoopSteps(c) \ {"touch", "noop_trunk"}), "noop")
  /\ UNCHANGED <<nextId, held, origins, sweep, announced, history>>

GetOrigin(c) ==
  /\ pc[c] = "get_origin"
  /\ got' = [got EXCEPT ![c] = IF \E o \in origins : o.id = entry[c]
                               THEN CHOOSE o \in origins : o.id = entry[c]
                               ELSE NoOrigin]
  /\ Goto(c, "fill_origin")
  /\ UNCHANGED <<line, origins, trunkData, seen, entry, announced, history>>

FillOrigin(c) ==
  /\ pc[c] = "fill_origin"
  /\ origins' = IF OriginForIdentical(c) = NoOrigin THEN origins
                ELSE WithOrigin(OriginForIdentical(c))
  /\ Answer(c, "noop")
  /\ UNCHANGED <<line, trunkData, announced, history>>

\* The client disconnected, the process stopped or a repository call failed:
\* the call takes no further step and what it wrote stays.
Drop(c) ==
  /\ pc[c] \notin {"idle", "done"}
  /\ pc' = [pc EXCEPT ![c] = "idle"]
  /\ req' = [req EXCEPT ![c] = NoRequest]
  /\ seen' = [seen EXCEPT ![c] = [v \in Versions |-> NoRow]]
  /\ got' = [got EXCEPT ![c] = NoOrigin]
  /\ entry' = [entry EXCEPT ![c] = 0]
  /\ UNCHANGED <<line, origins, trunkData, answer, announced, history>>

----------------------------------------------------------------------------
(* Requires, the admin, the passing of time and the cleanup loop. *)

calls == <<pc, req, seen, got, entry, answer>>

\* A successful require touches the row it resolved, by id; a row that went
\* in between is not found.
RequireVersion(v) ==
  /\ rows[v].stability # "none"
  /\ rows' = ById(rows[v].id, Use)
  /\ UNCHANGED <<nextId, held, origins, trunkData, calls, announced, history>>

\* delete_version, the only way a GA leaves the line: origin, open member
\* record and row in one transaction.
DeleteVersion(v) ==
  /\ rows[v].stability # "none" /\ nextId <= MaxId
  /\ origins' = {o \in origins : o.id # rows[v].id}
  /\ member' = member \ {v}
  /\ memberOld' = (memberOld /\ v \notin member)
  /\ rows' = [rows EXCEPT ![v] = NoRow]
  /\ deleted' = deleted \cup {v}
  /\ UNCHANGED <<nextId, held, sweep, calls, announced, submitted>>

\* The snapshot cutoff passes a row's last use (GA is never age-culled).
RowAges(v) ==
  /\ rows[v].stability = "snapshot" /\ rows[v].fresh
  /\ rows' = [rows EXCEPT ![v].fresh = FALSE]
  /\ UNCHANGED <<nextId, held, origins, trunkData, calls, announced, history>>

\* The trunk cutoff passes the marker of v, and the member record with it.
TrunkAges(v) ==
  /\ rows[v].trunk = "yes" \/ (v \in member /\ ~memberOld)
  /\ rows' = [rows EXCEPT ![v].trunk = IF @ = "yes" THEN "old" ELSE @]
  /\ memberOld' = (memberOld \/ v \in member)
  /\ UNCHANGED <<nextId, held, origins, member, sweep, calls, announced, history>>

\* delete_expired_snapshots: two statements, no transaction around them.  A
\* pass runs both whatever the first one found, so the second may come at any
\* time after a pass of any replica, and may fail to come.
Expired(r) == r.stability = "snapshot" /\ ~r.fresh

ExpireSnapshots ==
  /\ \E v \in Versions : Expired(rows[v])
  /\ nextId <= MaxId
  /\ rows' = [v \in Versions |-> IF Expired(rows[v]) THEN NoRow ELSE rows[v]]
  /\ UNCHANGED <<nextId, held, origins, trunkData, calls, announced, history>>

SweepOrigins ==
  /\ origins' = {o \in origins : \E v \in Versions : rows[v].id = o.id}
  /\ origins' # origins
  /\ UNCHANGED <<line, trunkData, calls, announced, history>>

\* close_expired_trunk_data: two statements, no transaction around them.
ClearTrunkMarkers ==
  /\ sweep = "idle"
  /\ \E v \in Versions : rows[v].trunk = "old"
  /\ rows' = [v \in Versions |-> IF rows[v].trunk = "old"
                                 THEN [rows[v] EXCEPT !.trunk = "no"] ELSE rows[v]]
  /\ sweep' = "members"
  /\ UNCHANGED <<nextId, held, origins, member, memberOld, calls, announced, history>>

CloseTrunkMembers ==
  /\ sweep = "members"
  /\ member' = IF memberOld THEN {} ELSE member
  /\ memberOld' = FALSE
  /\ sweep' = "idle"
  /\ UNCHANGED <<rows, nextId, held, origins, calls, announced, history>>

----------------------------------------------------------------------------
Call(c) == \/ BeginProvide(c) \/ BeginPromote(c) \/ ReadLine(c)
           \/ DecideIdentical(c) \/ DecideRefused(c) \/ DecideAccepted(c)
           \/ Commit(c) \/ CommitConflict(c)
           \/ SetOrigin(c) \/ SetTrunk(c) \/ TouchProvided(c) \/ NoopTrunk(c)
           \/ GetOrigin(c) \/ FillOrigin(c) \/ Drop(c)

Environment == \/ \E v \in Versions : RequireVersion(v) \/ DeleteVersion(v)
                                        \/ RowAges(v) \/ TrunkAges(v)
               \/ ExpireSnapshots \/ SweepOrigins
               \/ ClearTrunkMarkers \/ CloseTrunkMembers

Next == (\E c \in Calls : Call(c)) \/ Environment

Spec == Init /\ [][Next]_vars

----------------------------------------------------------------------------
(* Properties. *)

\* Every variable keeps its type.
TypeOK ==
  /\ rows \in [Versions -> Rows]
  /\ nextId \in Nat \ {0}
  /\ origins \subseteq Origins
  /\ member \subseteq Versions /\ memberOld \in BOOLEAN
  /\ sweep \in {"idle", "members"}
  /\ pc \in [Calls -> Steps]
  /\ req \in [Calls -> Requests \cup {NoRequest}]
  /\ seen \in [Calls -> [Versions -> Rows]]
  /\ got \in [Calls -> Origins]
  /\ entry \in [Calls -> Nat]
  /\ answer \in [Calls -> Answers]
  /\ announced \in [Versions -> Stabilities \cup {"none", "promoted"}]
  /\ held \subseteq Nat \X Versions \X Contents
  /\ submitted \subseteq Requests
  /\ deleted \subseteq Versions

\* A released entry's bytes, provider and identity never change again: no
\* interleaving of Provides, promotions and cleanups overwrites, demotes or
\* removes a GA; only delete_version takes it away.
SameRelease(r, s) == /\ s.stability = "ga" /\ s.content = r.content
                     /\ s.by = r.by /\ s.id = r.id

GaImmutable ==
  [][\A v \in Versions : rows[v].stability = "ga" =>
       SameRelease(rows[v], rows'[v]) \/ DeleteVersion(v)]_vars

\* The step of call c that writes the line.
Writes(c) == pc[c] = "commit" /\ pc'[c] # "commit" /\ rows' # rows

\* Promote to GA releases exactly what is stored: whatever the caches served
\* and whoever wrote meanwhile, its write finds the snapshot in place with the
\* promoted bytes and flips only its stability, never creating an entry.
PromotionReleasesStored ==
  [][\A c \in Calls : Writes(c) /\ req[c].cas =>
       LET v == VersionOf[req[c].content]
       IN  /\ rows[v].stability = "snapshot" /\ rows'[v].stability = "ga"
           /\ rows'[v].content = rows[v].content /\ rows'[v].id = rows[v].id]_vars

\* Nobody is credited with bytes they never asked to store: the provider on
\* an entry sent a request for exactly its content.
CreditedAskedForBytes ==
  \A v \in Versions : rows[v].stability # "none" =>
    \E r \in submitted : r.user = rows[v].by /\ r.content = rows[v].content

\* A positive answer to a GA request is permanent: the number is GA with the
\* bytes of that request until an admin deletes it, although the answer may
\* rest on a line read long before.
ReleaseAnswerHolds ==
  \A c \in Calls :
    pc[c] = "done" /\ req[c].stability = "ga" /\ answer[c] \in {"stored", "noop"} =>
      LET v == VersionOf[req[c].content]
      IN  v \in deleted \/ (rows[v].stability = "ga" /\ rows[v].content = req[c].content)

\* A GA is not breaking against the highest GA below it in its major that the
\* call had read, unless an admin deleted that entry meanwhile.
HonestAgainstLineRead ==
  [][\A c \in Calls : Writes(c) /\ req[c].stability = "ga" =>
       LET v == VersionOf[req[c].content]
       IN  \A b \in Versions :
             /\ IsGaBaseline(seen[c], v, b) /\ v[1] = b[1]
             /\ rows[b].id = seen[c][b].id
             => <<rows[b].content, req[c].content>> \in Compatible]_vars

\* What is left of it where caches lag: the GA is not breaking against some bytes
\* that entry has had, be it as a snapshot.  Proved; no run checks it.
HonestAgainstBytesRead ==
  [][\A c \in Calls : Writes(c) /\ req[c].stability = "ga" =>
       LET v == VersionOf[req[c].content]
       IN  \A b \in Versions :
             /\ IsGaBaseline(seen[c], v, b) /\ v[1] = b[1]
             /\ rows[b].id = seen[c][b].id
             => \E x \in ContentReads(rows[b].id) :
                  <<x, req[c].content>> \in Compatible]_vars

\* An origin is only ever attached to the number it was sent for: the late
\* origin write of a call whose row was deleted never lands on another entry.
OriginOfItsNumber ==
  \A v \in Versions, o \in origins :
    rows[v].stability # "none" /\ o.id = rows[v].id =>
      \E r \in submitted : VersionOf[r.content] = v /\ o.build \in {NoLink, r.build}

\* What the decision will make of a line as read, where reading it settles that.
LineOutcome(c) ==
  IF Identical(c) THEN "noop"
  ELSE IF Existing(c).stability = "ga"
       THEN IF req[c].stability = "ga" THEN "immutable_ga" ELSE "snapshot_on_ga"
       ELSE IF OwnedByOther(c) THEN "snapshot_owned" ELSE "none"

\* The steps of a call that has taken effect, with the answer they lead to.
Effective == [s \in Steps |-> CASE s \in {"touch", "noop_trunk", "get_origin", "fill_origin"} -> "noop"
                              [] s \in {"set_origin", "set_trunk"} -> "stored"
                              [] OTHER -> "none"]

\* How a call will be answered, "none" before that is settled.
Outcome(c) == IF pc[c] = "decide" THEN LineOutcome(c)
              ELSE IF pc[c] = "done" THEN answer[c] ELSE Effective[pc[c]]

\* What clients can tell of an entry.
Visible(r) == [stability |-> r.stability, content |-> r.content, by |-> r.by]

\* The call is about to act on a line it has read, and its number has changed.
Overtaken(c) ==
  /\ pc[c] \in {"decide", "commit"} /\ Outcome(c) = "none"
  /\ Visible(Existing(c)) # Visible(rows[VersionOf[req[c].content]])

\* The line implements AtomicLine: every call takes effect at one instant between
\* its request and its answer and answers what the line was at that instant, be
\* the read its decision rests on as old as it may.  Only a call overtaken between
\* its read and its upsert may take another's snapshot or announce "promoted"
\* wrongly; a dry run stores nothing, and a Provide that nobody overtook is never
\* told of a conflict.
Atomic == INSTANCE AtomicLine
            WITH entry     <- [v \in Versions |-> Visible(rows[v])],
                 event     <- announced,
                 request   <- [c \in Calls |-> IF pc[c] = "idle" THEN NoRequest ELSE req[c]],
                 outcome   <- [c \in Calls |-> Outcome(c)],
                 overtaken <- {c \in Calls : Overtaken(c)},
                 asked     <- submitted

ImplementsAtomicLine == Atomic!Spec

\* The two claims below are what the documentation says of every schedule.  The
\* code does not keep them when calls overlap, and no run checks them: the
\* README has the schedules.

\* Different snapshot bytes are accepted from the snapshot's provider alone.
SnapshotOwned ==
  [][\A c \in Calls : Writes(c) /\ req[c].stability = "snapshot" =>
       LET v == VersionOf[req[c].content]
       IN  rows[v].stability = "snapshot" /\ rows[v].content # req[c].content
           => req[c].user = rows[v].by \/ NoUser \in {req[c].user, rows[v].by}]_vars

\* A GA that is breaking against the highest GA below it bumps the major.
SemverHonest ==
  [][\A c \in Calls : Writes(c) /\ req[c].stability = "ga" =>
       LET v == VersionOf[req[c].content]
       IN  \A b \in Versions : IsGaBaseline(rows, v, b) /\ v[1] = b[1]
             => <<rows[b].content, req[c].content>> \in Compatible]_vars
=============================================================================
