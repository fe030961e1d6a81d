# Sanshain service: TLA+ models and proofs

Sanshain is a registry for API specifications. Producers *provide* versions of
their OpenAPI, AsyncAPI and proto documents, consumers *require* the versions
they build against, and the registry keeps the version lines, the dependency
graph and its history, and tells subscribers what happened through webhooks.
The service is stateless apart from its database (SQLite or PostgreSQL) and
per-process caches, and may run as several replicas. Its difficulties are
therefore those of concurrent transactions: what one request read is old by the
time it writes, and a request may end between any two of its writes.

## 1. Inventory

| Part | State | Operations | Interacts with |
|---|---|---|---|
| Version line (`provide_service`, `version_rules`, `admin_service`, `sqlite_repository`) | `spec_versions`, `spec_version_origin`, open `trunk_member_versions` | provide, promote, delete version, expire snapshots, close trunk data | cache (reads), outbox (event in the upsert's transaction), audit |
| Webhook delivery (`webhook_delivery`, worker loop in `main`) | `webhook_deliveries` with the lease in `next_attempt_at` | claim, attempt, record, redeliver, retention | outbox rows, hooks, receivers |
| Webhook administration (`webhook_service`) | `webhooks`, allow-list settings | create, update, pause, delete, rotate secret, fan out | delivery rows (foreign key with cascade) |
| Pins (`require_service`, `pin_rows`) | `trunk_dependencies`, `branch_dependencies` as validity intervals, `dependencies` | require endpoint, require bundle | version line (resolve), outbox |
| Branches (`branch_service`) | `sanshain_branches`, their pins and member versions | create (insert, then copy the source graph), rename, delete, diff | pins |
| AsyncAPI contracts and harvest (`provide_service`, `asyncapi`) | channel contracts, harvested subscriptions | plan before the commit, apply after it | version line |
| Cache (`cached_repository`) | moka caches of rows, contents, settings, roles, 10 s TTL | read through, invalidate on write, rebuild | every reader |
| Roles and groups (`authz`, `directory_roles`, `service_account_service`) | grants, groups, directory mappings | grant, revoke, synchronise at sign-in | middleware |
| Sign-in and sessions (`auth_service`, `sign_in_service`, providers) | users, sessions, tokens | sign in, refresh, sign out | roles |
| Documents (`openapi`, `asyncapi`, `proto`, `structure`, `text_diff`) | none | parse, split, compare | version line |
| Views (`spec_service`, `catalog_service`, `report_service`, `dashboard_service`, `mcp_service`) | none | read | all of the above |

### What is hard

* *Check, then act.* `provide_spec_inner` reads the line once and decides
  ownership, semver honesty, immutability and the credited provider on that
  reading; several awaits later one `INSERT … ON CONFLICT DO UPDATE … WHERE`
  writes. Only what that `WHERE` repeats is safe against other calls.
* *Several transactions per request.* Origin and trunk marker follow the upsert
  in transactions of their own; a request whose client goes away stops between
  them.
* *Stale caches.* Every replica invalidates only its own caches.
* *Leases by value.* A delivery's lease is the value of `next_attempt_at`, in
  seconds; passes may be suspended, die, or take as long as every receiver's
  timeout.
* *Identity by lookup.* A directory sign-in collects the accounts of a person by
  name, by address and by directory id, one query after another, then merges,
  renames and stamps them, one statement after another.
* *Time.* Cutoff, backoff, retention and lease all compare readings taken at
  different moments of a pass.

PROJECT.json lists each of these at its line under `hazards`, with the property
that would catch it.

### What makes the parts correct

* Version line: a release never changes; a positive answer to a release holds;
  a promotion releases the stored bytes and nothing else; nobody is credited
  with bytes they did not send; a release does not break the baseline it was
  checked against; events say what was stored.
* Webhook delivery: a delivery is worked on by one timely pass at a time; a
  pass that lost its lease changes nothing; *delivered* is final and means that
  the receiver accepted; every delivery is settled in the end.
* Pins and branches: one current pin per key, a history that is only appended
  to and can be read at any instant, every new edge announced, a branch that
  holds its whole cut, a tagged Require that never lands in another branch.
* Contracts: a message contract is what its owner really released; only its
  owner changes it; a subscriber that was let in stays served; a release that
  nothing disturbed has its contracts.
* Documents and proposals: a successor the check accepts still serves the old
  requests and is still read by the old clients, at every depth of reference; a
  bundle of fragments means what its document means; a producer that follows
  the proposals arrives.
* Cache: nothing served is older than the time to live; a replica's own writes
  clear what they change; off and on again brings nothing back.
* Accounts: no account ends with two people; folding loses nothing; a person who
  signs in undisturbed has one account afterwards; root accounts stay.

## 2. Modules

### VersionLine, AtomicLine

`VersionLine` is one producer's line of one API type. `rows` is
`spec_versions` by version number; ids come from the AUTOINCREMENT counter
`nextId` and are never used twice. `origins` is `spec_version_origin`, which
has no foreign key, so an origin may be written for a row that is gone. `member`
is the open trunk member record, `sweep` the place of the trunk cleanup between
its two statements. A request is a call with a program counter:

| Step of a call | Action | Code |
|---|---|---|
| request arrives; promotion reads the bytes through the cache | `BeginProvide`, `BeginPromote` | `provide_spec_with_origin`, `promote_version` |
| reads the line | `ReadLine` | `list_spec_versions` |
| decides: identical, refused, accepted | `DecideIdentical`, `DecideRefused`, `DecideAccepted` | `provide_spec_inner` |
| guarded upsert with the event, or conflict | `Commit`, `CommitConflict` | `upsert_spec_version`, `plan_provide_events` |
| origin, trunk marker | `SetOrigin`, `SetTrunk` | `set_version_origin`, `touch_spec_version_trunk` |
| identical no-op: touch, trunk, origin merge | `TouchProvided`, `NoopTrunk`, `GetOrigin`, `FillOrigin` | `touch_spec_version_provided`, … |

Beside the calls run `RequireVersion`, `DeleteVersion`, the two statements of the
snapshot cleanup (`ExpireSnapshots`, `SweepOrigins`) and of the trunk cleanup
(`ClearTrunkMarkers`, `CloseTrunkMembers`); a call may be dropped between any
two steps. Documents are opaque (`Contents`); the version a document declares
and the compatibility verdict are constants, so every verdict the comparison
could give is covered. `StaleReads` lets a content read return anything that
row held before.

`AtomicLine` is what the line promises to the clients of overlapping calls, the
way linearizability is stated: every call takes effect at one instant between its
request and its answer, and answers what the line was at that instant. A call is
told *no-op*, *immutable*, *owned by another* or *conflict* only at an instant at
which that is so, and stored only over what may be stored over, credited and
announced as that instant has it. A call reads the line, decides on the reading
some awaits later, and answers later still; `ImplementsAtomicLine` says that
nobody can tell. A refusal that the line as read settles takes effect with the
read (`LineOutcome`), everything else with the upsert or the answer (`Outcome`).

The exception is named: a call is *overtaken* when its number changes between its
read and its upsert, which takes another writer in that very window (`Overtaking`).
Of an overtaken call `AtomicLine` asks only what the upsert's `WHERE` keeps (no
write over a release, a promotion only of the promoted bytes) and that nobody is
credited with bytes they did not send; it may take the snapshot of another
provider, or announce a `promoted` that is none. This is what the code does, see
section 3. A Provide that nobody overtook is never told of a conflict.

### WebhookDelivery

`row` is `webhook_deliveries`; `claimed[w]` are the rows worker `w` took in its
running pass, as it read them. A pass reads the clock (`StartPass`), leases the
first `BatchSize` due rows in one transaction (`Claim`), and for each row
attempts (`Attempt`), is answered (`Answered`) and records (`Record`); it may die
anywhere (`Crash`), and then its answer, if
it had one, is unknown to the service. Administrators pause, delete and redeliver; facts add rows
(`WriteOutbox`); `Cleanup` is the retention. The clock is explicit. With
`Stalls` FALSE it never runs past the send timeout or a pass's margin, which is
what the lease of `lease_secs` is computed for; with `Stalls` TRUE a pass may be
suspended for any time. The order of rows in a pass is left open, since SQLite
and PostgreSQL differ there.

### DependencyTimeline

`pins` holds the records of trunk (graph 0) and of every branch (graph = its
id), each with key, version, `valid_from`, `valid_to` and `last_required_at`; a
key stands for client, producer, API type, path and method. `branches` and
`nextId` are `sanshain_branches` and its AUTOINCREMENT counter.

| Actor | Steps | Code |
|---|---|---|
| Require | `Resolve`, `Plan`, `RecordDeps`, `RecordPins` | `resolve_stream`, `plan_dependency_event`, `record_dependencies_bulk`, `record_trunk_pins` / `record_branch_pins` |
| creation of a branch | `BeginCut`, `InsertBranch`, `CopyGraph`, `CopyPeriphery`; `CopyFails`, `CleanUp` | `create_branch`, `insert_branch`, `copy_trunk_graph_to_branch` / `copy_branch_graph_to_branch`, `delete_branch` |
| administrators | `RenameBranch`, `DeleteBranch` | `rename_branch`, `delete_branch` |
| cleanup loop | `StartSweep`, `Sweep` | `cleanup_stale_trunk_data`, `close_expired_trunk_data` |

`RecordDeps` ends with the clock reading the pins are stamped with one
transaction later. Every statement checks what the schema checks: the foreign
key to the branch, the unique name, and the unique index of open records. With
`Faults` a request may end at any step and a copy statement may fail. `told`,
`copied`, `abandoned`, `named` and `late` are history variables. The module
takes one clock for all replicas and one sweep at a time, and SQLite's serial
write transactions; on PostgreSQL two overlapping `record_trunk_pins` may
additionally lose the second version to the first (the insert's `DO UPDATE`
refreshes the other version's row), which is not modelled. Events are planned
with emission enabled. Member versions, the rows of the periphery, the dev
graph's rows and the deletion of participants are left out.

### CachedRepository

Every replica's cache in front of the shared database. One key is watched, a key
of the cache `Init` chooses (`watched`); every answer copied from the database,
in a cache or in the hands of a read, carries `old`, the ticks since a commit
superseded it. So no value is modelled and nothing bounds the number of writes.

| Actor | Steps | Code |
|---|---|---|
| a read that misses | `Answer`, `Check`, `Insert`, `GiveUp` | the `get …`, database call, `enabled()`, `insert` of every cached read |
| a write | `Commit` or `Refuse`, `CommitMore`, `Finish` or `Abort` | the write of the inner repository, then its invalidations |
| an administrator | `StoreLimit`, `ClearAll` | `set_cache_config`, `clear_cache`, `rebuild_caches` |
| moka | `Evict`, `Tick` | capacity, `time_to_live` |

The operators `upsert_spec_version`, `delete_group` and so on say of each write which
tables it changes, which caches it clears and when (only while the cache is on,
only when rows changed, even when refused, always). `before` and `owed` are
history: which finished writes of its own replica a copy has outlived, and how.

### DirectoryAccounts

The accounts and the sign-ins through a directory or OIDC. `accounts` is `users`
with all that references a user; ids come from `nextId`. Each query of a sign-in
is a step, and a request may stop after any of them:

| Step | Action | Code |
|---|---|---|
| request, local password, bind | `Begin`, `LocalPassword`, `DirectoryAccepts` | `auth_login`, `verify_password_local_first`, `authenticate` |
| candidates | `FindById`, `FindByName`, `FindByMail` | `directory_account` |
| fold | `Merge` (once per account), `MergeRefused` | `merge_user_into` |
| name and id | `NameCheck`, `Rename`, `HolderCheck`, `SetDirectoryId` | `directory_account`, `rename_user`, `set_directory_id` |
| first sign-in | `Create`, `Created` | `create_user` |
| OIDC | `OidcBegin`, `OidcFind`, `Grant` | `oidc_complete`, `login_oidc` |
| session | `Session` | `start_session` |

Beside them `Register`, `DeleteUser`, `Acquire` (a role, token or membership is
given) and `DirectoryRenames`. `NamesAssumption` states what the code counts on
in its environment: a sign-in name of one person is never given to another.

### OpenApiDocument, ReleaseLine, ProducerReleases

`OpenApiDocument` has the pure algorithms of `openapi.rs` on small documents:
collecting references, splitting into fragments with the components an endpoint
reaches, merging fragments, the compatibility check of operations, parameters
and components by the direction they are reached in, and the classification of
a change. The components a set of names leads to (`Reachable`) are the least set
that has them and is closed under references, which is what both worklists of the
code end with.

Six functions of the code or of the reference call themselves: collecting
references, comparing two schemas, and what a client may send, a service takes, a
reader finds, a schema expands to. The module has an operator for the body of each
(`CollectRefs`, `CheckSchema`, `BuildValues`, `AcceptValue`, `ReadSchema`,
`ExpandSchema`) and a constant for what the calls inside it return (`Refs`,
`SchemaCompatible`, `Built`, `Accepts`, `Reads`, `Expanded`).
`RecursionAssumption` says that the constant is the body, for the documents there are
and the schemas in them, which `SchemasOf` gives with all that is nested in them.
`MCProducerReleases` writes out the recursion for TLC (`Refs <- MCRefs` in the cfg and
so on), and the run evaluates the assumption on all its documents, so the written-out
functions agree with the bodies the theorems are about. Schemas are finite trees and
the reference definitions stop at `Depth` or at the end of a value, so their equations
have one solution. `SchemaCompatible` has one wherever the comparison ends. It need not:
two documents can name a component where the other has it inline, in turns, around a
cycle of references, and then `check_subschema_compatible` resolves one side after the
other without end. No document of the run does that, and for one that does the theorems
speak of any answer that satisfies the equations, not of whether there is one.

`ReleaseLine` is one producer's line with one call at a time: a producer submits
documents under numbers (`Submit`), is let in or refused with a proposal, and may
follow it (`Follow`). `line` is `spec_versions` with the release each entry was
checked against (`base`, history), `asked` and `proposed` the last rejection.
Refusals and proposals are those of `provide_spec_inner` and `version_rules.rs`
(`ProposeFree`, `ProposeFreeMinor`); numbers saturate at `MaxPart` as `u32` does
with `saturating_add`, and a loop that arrives at a taken number for ever proposes
`Spins`. What the check lets through and what it takes for an addition are two
relations between contents, `Accepted` and `Additive`, so the line can be reasoned
about without documents.

`ProducerReleases` puts the two together: `Accepted` and `Additive` are what
`Compatible` and `HasAdditions` of `OpenApiDocument` say of the documents there are
(`ContentsAssumption`). Its reference definitions (`Serves`, `Answers`, `Meaning`)
expand references to the depth `Depth` and do not use the algorithm.

### ChannelContracts

`contracts` is `channel_message_contracts`, `subs` the open
`harvested_subscriptions`, `released` the documents stored as GA. A Provide reads the
contract of each message it subscribes to and publishes, with the owner's name,
one await at a time, commits, and applies its plan afterwards:

| Step | Action | Code |
|---|---|---|
| subscriptions | `ReadSub`, `ReadSubOwner` | `plan_subscription_harvest` |
| identical no-op or not | `Decide` | `provide_spec_inner` |
| publications | `ReadPub`, `ReadPubOwner`, `ListOwned` | `plan_channel_message_contracts` |
| commit | `Commit` | `upsert_spec_version` |
| plan | `Apply`, `ApplyRefused`, `Applied` | `apply_contract_ops` |
| harvest | `Reconcile` | `reconcile_harvested_subscriptions` |

`End` drops a call anywhere. `Retire` takes a family out of a producer,
`DeleteProducer` and `DeleteConsumer` take the rows with them. A payload is its
properties with type and deprecation. `era`, `notice` and `stale` are history:
`stale` marks a topic last written on a plan whose reading no longer held, which
is the one way another than the owner changes a contract; what such a plan leaves
is its new owner's to change. `ensure_service` and the reading of the line are one
step: a service deleted between the two leaves a call whose commit the foreign key
refuses, as does one deleted right after them.

### RoleGrants

Who holds which role. `accounts`, `userRoles`, `groups`, `groupRoles` and
`members` are the tables; a group is `"free"` (its id not yet given), `"native"`,
mapped to a directory group's DN, or `"gone"`. An administrative request resolves
its caller query by query and then checks and writes, each at an await of its own:

| Step | Action | Code |
|---|---|---|
| request; directory groups, stored roles, conferred roles | `Arrive`, `AskDirectory`, `ReadStored`, `ReadConferred` | `directory_groups_for`, `effective_stored_roles`, `roles_from_directory` |
| grants | `GrantUserRole`, `RevokeUserRole` | the handlers, `require_admin_for_guarded_roles` |
| deletion of accounts | `CheckUser`, `DeleteUser`; `DeleteAllNonAdminUsers` | `require_admin_to_delete_user`, `delete_user` |
| groups | `CreateNativeGroup`, `AddDirectoryGroup`; `CheckGroup`, then `SetGroupRoles`, `AddGroupMember`, `RemoveGroupMember` | `require_admin_for_guarded_group` |
| deletion of a group | `CheckGroup`, `DeleteGroupMembers`, `DeleteGroupRoles`, `DeleteGroup` | `delete_group`: three statements, no transaction |
| start | `MigrateLooks`, `MigrateCreates`, `MigrateSets`, `MigrateEnds` | `migrate_admin_group` |

`Abandon` ends a request anywhere. What a request asks for is chosen where it
first matters, at its handler. The directory may answer anything, so the cache of
its answers adds nothing; the repository's read cache is `CachedRepository` and is
off here. Renaming groups, maintainer scopes, service accounts, audit rows and
tokens are left out, and a deleted account does not come back. `booted`, `halfway`
and `shaped` are history.

## 3. Runs

| Run | Shows |
|---|---|
| `line_number` | two overlapping calls on one number with lagging caches: `GaImmutable`, `PromotionReleasesStored`, `ReleaseAnswerHolds`, `CreditedAskedForBytes`, and `ImplementsAtomicLine`, that the calls look atomic but where one was overtaken |
| `line_releases` | two numbers of one line, late origin writes while rows go: `HonestAgainstLineRead`, `OriginOfItsNumber` |
| `webhook_stalls` | two workers, arbitrary stalls: `DeliveredStays`, `LostLeaseNeverOverwrites` |
| `webhook_timely` | timely workers, batches of two, a pass that dies: `NeverOvertaken`, `DeliveredWasAccepted`, `AcceptedOnce` |
| `webhook_settles` | `EverySettles` under fairness, with a pass that dies |
| `timeline_trunk` | two overlapping Requires of two versions, dropped requests, the sweep: `OverlapNeedsLateWrite`, `NoSilentEdge`, `PastIsFixed` |
| `timeline_cut` | creation, failure, rename, deletion and re-creation of branches under a tagged Require: `OneCurrentPin`, `TagNeverStrays`, `BornComplete` |
| `cache_writes` | a read, writes of its own and of another replica, dropped and failed writes, the cache off and on: `BoundedStaleness`, `OwnWritesSeen`, `OffAndOnAgain`, and `Converges` under fairness |
| `accounts_fold` | two sign-ins of one person over up to two older accounts, with registration, deletion, grants and a renaming between: `NobodyElsesAccount`, `FoldedIntoOne`, `NothingLostInMerge`, `RootsStay` |
| `releases_documents` | documents that differ in one or two places, submitted and proposed: `RequestsStillServed`, `ResponsesStillRead`, `BundleSaysTheSame`, `ProposalsConverge` |
| `channels_overlap` | two producers' releases overlap and end anywhere: `TypeOK`, `ContractsWereReleased`, `SubscribersStayServed`, `QuietReleaseClaims`, `OwnerDecides` |
| `role_grants` | two requests of one person and a starting process, with grants, groups, deletions and the directory's answers between: `CarriedOver`, `GuardedNeedsAdmin` |

*Bounds.* Two calls are enough for a check-then-act race, and each may run
several requests one after another; `MaxId` bounds how many entries come and go.
`line_number` has one number and two documents for it, and a developer who
tries to release it; `line_releases` has two numbers that are a breaking pair,
a preview and a caller in dev mode. Two workers and one or two deliveries let a
lease be lost and taken; the clock runs past cutoff, lease and backoff in every
webhook run (`Horizon` stops new events and deaths, `MaxTime` the clock, which in
`webhook_timely` lets a row whose pass died be claimed again; in
`webhook_settles` `MaxTime` leaves room for every retry and a lost lease).
In `timeline_trunk` four Requires in two calls and four instants let a reading
be overtaken by another Require and by the sweep (`MaxRequires`, `MaxTime`); in
`timeline_cut` two branch ids and two names let a branch be deleted and its name
used again while a Require and a creation are under way (`MaxBranches`).
`cache_writes` needs no bound on writes or time: `old` stops counting beyond
`Ttl + Lag`, which no property tells apart; it watches one cache of each way of
being filled and cleared (`Watchable`), with a time to live of two ticks and a fill
of one. `accounts_fold` has one person with two sign-in names and an address, of
whom up to two accounts exist (`MaxEarlier`), a third can be made (`MaxId`) and one
other step happens (`MaxOthers`); that two people stay apart is the theorem
`PeopleStayApart`. In `releases_documents` a producer makes two choices
(`MaxChoices`), then follows proposals, in a line that is empty or has two majors;
`MaxPart` 4 lets a part saturate, and references are followed to depth 4, the depth
of the documents. `channels_overlap` has three calls (`MaxCalls`) in two slots, one
deletion (`MaxDeletes`), and five documents: a message grown, marked, shrunk,
retyped, and subscribed to from another topic. `role_grants` has one person in two
requests at once, who may have been resolved as an administrator and not be one
any more, one directory group and two group ids (`MaxGroups`), so that a group may
go while another is made. One starting process is enough to have operators between
its steps; two of them (3.5 million states) leave the result as it is, and the
theorem `AdminsAreCarriedOver` is for any number.
Symmetry is over calls, workers, keys, names and the deliveries of one hook,
never in a run with a liveness property.

*Fairness.* `FairSpec` assumes that every replica's loop goes on
(`tokio::time::interval` in an endless loop; a failed pass is logged and the next one
starts), that a send ends by its answer or the client's timeout, and that time
passes. Nothing is assumed of receivers, administrators or crashes. `FairSpec`
of `CachedRepository` assumes that the clock moves (moka expires by a clock of its
own) and that a read or write that is back from the database returns or is
dropped. Sign-ins, releases and contracts have no fairness: a request may
always be dropped, so nothing is promised of one that stops.

### Observations without a run

Schedules the models have and no run is spent on. Where the code's comments or
documents say otherwise, the claim is kept as a definition of the module, which
a configuration naming it refutes.

*Version line.*
* Two first Provides of one number overlap and the second overwrites the first
  user's snapshot, although `CONTEXT.md:98` gives it to its provider
  (`provide_service.rs:375`; the upsert's `WHERE` does not repeat the check).
  `SnapshotOwned` fails; that only a call overtaken in the window can do this is
  part of `ImplementsAtomicLine`.
* In the same window an event may be planned as `promoted` for a snapshot that is
  gone by the time of the upsert, or as a plain release for one that has come
  (`provide_service.rs:690`).
* 1.1.0 and 1.2.0 released together, the second breaking the first
  (`provide_service.rs:578`, `adr/0003:30`). `SemverHonest` fails;
  `HonestAgainstLineRead` holds.
* A call dropped between its upsert and `set_version_origin` leaves the previous
  bytes' origin on the new bytes (`provide_service.rs:756`).
* `delete_expired_snapshots` leaves the open trunk member record of the entry it
  removes, where `delete_spec_version` closes it.
* A promotion overlapping a deletion and a new Provide of the same bytes may
  credit the promoter instead of the new provider.

*Webhooks.*
* A redelivery's grant is never cleared, so the retries after it inherit it,
  where the comment at `webhook_delivery.rs:528` speaks of one attempt (`:532`).
  `GrantIsOneAttempt` fails.
* A pass that stalls to the very second its lease ends may record its outcome over
  a redelivery made in that second, which is then never sent
  (`sqlite_repository.rs:4064`; `DeliveredWasAccepted` fails with `Stalls` TRUE).

*Pins and branches.*
* An overtaken Require makes two versions of a key valid at one past instant
  (`require_service.rs:400`, `adr/0005:20,24`). `OneVersionAtEveryInstant` fails;
  `OverlapNeedsLateWrite` says when.
* A branch creation that ends between insert and copy leaves an empty branch
  (`branch_service.rs:125`), which `abandoned` in `BornComplete` excuses; a source
  branch deleted in between gives a copy of no rows, so an empty branch and a
  success.

*Cache.*
* A fill that read before a write inserts after the write's invalidation and is
  served for the time to live (`cached_repository.rs:442`; for roles after a
  revocation, `:1337`), where the comments at `:66` and `:1307` say that a write
  invalidates immediately. `BitesAtOnce` fails; `BoundedStaleness` holds.
* Writes of dependencies do not clear `clients_list`, whose query joins them;
  `rebuild_caches` does not name `effective_roles` (`:348`). `OwnWritesSeen`
  excepts the first, and what a late fill puts in afterwards; `OffAndOnAgain` the
  second.

*Accounts.* `merge_user_into` moves API tokens with a plain `UPDATE`
(`sqlite_repository.rs:2576`, likewise PostgreSQL) against `UNIQUE(user_id, name)`:
two accounts with a token of one name cannot be folded, and every directory
sign-in of that person fails. `MergeGoesThrough` fails.

*Roles.*
* `migrate_admin_group` creates the group and sets its role in two statements. A
  start that ends between them leaves the group mapped without admin, and later
  starts find it mapped and leave it so (`directory_roles.rs`). `CarriedOver` does
  not hold of it (`halfway` exempts it), nor of a group an operator has shaped.
* A check and the write that follows it are two awaits: a member may join a group
  that another request has just given a guarded role. `GuardedNeedsAdmin` names
  this case and no other.

*Documents.*
* `split_openapi` drops the parameters of the path item (`openapi.rs:174`), which
  `Meaning` leaves out for that reason; merging keeps schemas, responses, parameters,
  request bodies, headers and security schemes of every fragment, and drops the
  examples, links and callbacks of the later ones (`:456`).
* A narrowing inside a component that a parameter reaches through a nested
  reference is not noticed (`CheckedDeep` exempts it in `RequestsStillServed`).
* A type may change over two releases through an untyped schema: the properties
  compare each release with the one it was checked against.
* A GA inserted below a higher GA is checked against what is below it only.
* At `u32::MAX` `propose_free` proposes the taken number for ever
  (`version_rules.rs:30`): `ProposalsConverge` speaks of unsaturated numbers.
* References into `components.requestBodies` and the removal of a media type are
  not compared; an added optional parameter counts as a patch.

*Contracts.*
* Two overlapping releases may both claim a free topic, and the last statement
  wins; a stale delete may remove the contract of another owner. `stale` marks
  both, and `OwnerDecides` speaks of the rest.
* A call that ends between commit and plan leaves a release without its contract,
  and the identical retry is a no-op.
* When the owner drops a topic, another publisher of it is not promoted until it
  releases again. A document that names a message twice keeps the last payload.
* An owner deleted between plan and harvest fails the call after its commit
  (the foreign key). On PostgreSQL two overlapping
  `reconcile_harvested_subscriptions` may mix their sets; the module takes
  SQLite's serial transactions.

## 4. Proofs

All proofs are for any values of the constants that satisfy the named
assumptions (`VersionLineAssumptions`, `WebhookAssumptions`,
`BackoffAssumption`, `TimelineAssumptions`, `CacheAssumptions`,
`NamesAssumption`, `BoundsAssumption`, `NoOneAssumption`, `ChannelAssumption`,
`GrantsAssumption`, `LineAssumption`, `DocumentsAssumption`, `RecursionAssumption`,
`ContentsAssumption`), so for any number of calls, users, versions,
workers, deliveries, branches, keys, replicas, people, topics, groups and documents.
Every safety property of the runs is proved.

`VersionLineProofs`. The invariant behind `ReleaseAnswerIsDurable` and
`AttributionIsHonest` relates what a call has read to what the line holds now: a
call that is past its decision has an entry id below `nextId`; a GA it read is
still that GA or was deleted by an admin; every content a cache may serve was
asked for by somebody. `GaImmutable` and `PromotionReleasesStored` follow step by
step from type correctness and the guard of the upsert.
The properties about late writes need to know what an id read long ago still
names. `Identified` says it: ids are unique and below the counter (`IdsFit`), and an
id a call has read is stored, if at all, under the number it was read for, a GA with
the bytes it had (`SeenFits`). On it rest `OriginsKeepTheirNumber`, through what a
call knows of the entry its late writes address (`EntryFits`, `OriginsFit`), and
`ReleasesAreHonest`, through what the decision has
established for the upsert that follows it some awaits later (`Decided`).
`ReleasesAreHonest` has the hypothesis `~StaleReads`, that the content cache does
not lag (one replica, or the cache off): a lagging replica may compare with bytes
the release had while it was a snapshot. That is all it may do:
`ReleasesAreHonestToBytesRead`, without the hypothesis, says that a release is
compatible with bytes its baseline has had (`HeldGrows`: what was stored under an id
may be read for ever after), and `ReleasesAreHonest` is its case of one such content.

`LineIsAtomic` maps every action to a step of `AtomicLine` or a stutter. The instant
of a call is its read where the line as read settles the answer (`ReadStep`), else
the upsert, taken or refused (`StoreStep`, `ConflictStep`), or the verdict of the
check or the dry run; the later steps of a call are hidden (`LateStep`). What was read
is compared with what is visible: for a call that is not overtaken the two are the
same entry, so the decision on the one is the decision on the other (`ReadAsSeen`,
`AtCommit`). For one that is, what remains are the guard of the upsert and
`Attributed`, that the provider credited did send the bytes. It needs the decision
kept from the read to the upsert (`Decided`, `Accepted`), and that any other step
which changes the number of a call between the two makes it overtaken, so that
`Overtaking` holds of every step of everybody.

`WebhookDeliveryProofs`. `DeliveredIsFinal` and `LostLeaseIsHarmless` rest on
one invariant (`Inv`): for a row a pass still has in hand, either the row's
`next_attempt_at` is no later than that pass's reading plus a redelivery
(`Redeliveries`), or the row was claimed later and its lease ends strictly later
(`Leases`, `Ordered`), or the pass is its holder. Clock readings are not after
the clock (`ClockOK`). The invariant is needed because the guard compares only a
timestamp: that the timestamp identifies the claim is what has to be shown.
The three other properties are about time, and need `~Stalls`: no pass is suspended
longer than the margin of the lease. `OnTime` is the accounting: at every step of a
pass that has n rows in hand, the clock is at most the pass's reading plus the sends
done, at a full timeout each, plus the margin, so that what is left of the lease
covers the n sends still to come (`SendsLemma`). This uses that the deliveries are
finitely many (`WebhookAssumptions`), since rows in hand are counted.
`LeaseOutlastsThePass` follows. Then a held row keeps its lease unless its hook is
deleted (`Undisturbed`), so no outcome is recorded over a later redelivery
(`Honoured`, `DeliveredMeansAccepted`); and an
accepted delivery is recorded, gone or in the hands of the one pass about to record
it (`Once`, `AcceptedIsNotSentAgain`), for any number of passes that die. The one
send that is repeated follows a death between the receiver's answer and the record;
`Crash` forgets that answer in `accepted`, so the theorem says that at-least-once
delivery sends a second time in this case and in no other.

`DependencyTimelineProofs`. All properties of its two runs are proved, and
`AppendOnly`. `PinStep` reduces every step to five ways of changing the records;
`RecordedIs` and `SweptIs` write the two bulk updates as a map over single
records, so that each property is an argument about one or two records.
`OneCurrentPin` needs that a Require that writes has read a clock that is not
zero (`ReadOK`) and that a cut fits. `TagNeverStrays` needs `IdsOK`: ids are
handed out once, so no resolved stream is at or above the counter.
`NoSilentEdge` needs `ToldOK`: what was held when the event was planned had been
announced. `OverlapNeedsLateWrite` needs that a branch never loses a key
(`KeptOpen`), so that a copy that fits meets no record of its keys at all, and
its own form without the bound on the instant (`Disjoint`). `AppendOnly` and
`PastIsFixed` follow from `TypeInv`, the types with what a creation knows at
each of its steps (`CutOK`).

`CachedRepositoryProofs`. The invariant says how old a copy may be by where it is:
one a read carries is no older than that read, one in a cache no older than its
age and `Lag` (`Ages`); a read has only outlived a write by carrying its answer
(`Carried`); a write that will clear nothing has superseded nothing (`Pending`); and
what outlived a write in a cache is one of the exceptions (`Missed`, `Dark`). The
lemma `OpsCover` compares the tables of all writes: every one clears every cache it
changes the answers of, but for the consumer list. It is what a forgotten
invalidation would break.

`DirectoryAccountsProofs`. `PeopleStayApart` needs a fact about what sign-ins
hold between queries: an id in the hands of a call belongs to an account whose names are all
of that call's person, or to one that is gone for good (`CallOK`; ids are never
used again). `Grows` says what every step of everybody keeps of that, so each action
is checked against its own call and stability does the others.
`OnePersonOneAccount` is about the sign-in nobody disturbs: `FoldInv` says that at
each step it holds every account of its person that is left to fold, first among
the candidates the queries so far have shown (`Looking`), then as the target and the
rest, and that an account is never folded into itself (`Apart`). Only entries that
have an id stamp accounts (`Stamped`), which is what makes the query by id complete.
`FoldingLosesNothing` and `RootsAreLeftAlone` are for every sign-in, disturbed or
not: each step keeps what a person owns with the person and a root account as it is
(`Kept`), unless an administrator deletes it.

`ChannelContractsProofs`. `Rooted` ties a planned statement to the row it was
planned on; `ContractsAreReleased` and `OwnersDecide` follow from it with `Grows`,
since ids and released documents only accumulate. `SubscribersAreServed` is the
deepest: the expectation was compared with a row that may have been replaced
several times before the subscription is recorded. `ServedInv` carries through
every turn of the contract in one era that what a call has compared is either
still in the payload or has been marked as deprecated first (`NoticeOK`, `SubsHeld`,
`CallsHeld`, `ServingGoesOn`).
`QuietReleasesClaim` follows a release nobody came between from its first reading:
its plan deletes nothing it publishes (`PlanFits`), the row in its hands is still
the stored one (`RowStands`), each message it has been through is under contract or
planned for (`PubsMet`), and from the commit on what it owned besides is about to be
deleted (`NoneLeft`). Together (`Claims`) they turn into the property as the plan is
applied, statement by statement, in whatever order `SetToSeq` lists the topics.

`RoleGrantsProofs`. `GuardedRolesNeedAdmins` needs what a request knows between its
check and its write (`CallsKnow`): which group it will write to and that this
group is native or gone where members are concerned; and that it got past the
check as an administrator or with no guarded role in question as of then
(`ChecksHold`). `TablesFit` closes the way around through a group that changes its
kind: only native groups have stored members, only live ones roles.
`AdminsAreCarriedOver`, with the two exemptions of its property, needs that a start past its creation holds the id of the
admin group (`StartsKnow`) and that an operator's deletion of it is on record from
the first of its three statements (`DeletionIsShaping`).

`ProducerReleasesProofs`, the line. A proposal is one of the refusal of what was asked. Where the
line has room (no number on it has a part at the maximum, `Roomy`), the loops end at
a free number that is higher (`FreeProposed`, `FreeMinorProposed`, `Refused`; the
first free number exists because the least-number principle holds, `LeastNumber`).
To follow a proposal is to ask for a free number, and that is refused only for
breaking a release of the very major proposed, with the next major as the answer
(`FreeNumberRefused`). So each proposal followed leaves one more released major
below the number proposed: `follows <= Cardinality(Lower)` is the inductive part,
and `FollowedProposalsAreLetIn` the bound on how often a producer can be sent on.
`ReleasesKeepWhatTheCheckKeeps` reduces what releases guarantee to pairs of
documents: whatever holds of every pair the check accepts holds of every release and
the baseline it was checked against.

`ProducerReleasesProofs`, the documents. What is to be shown of a pair the check
accepts is about every depth, while the check compares references by name and each
component once. The invariant of a walk down two documents side by side is that the
two schemas it has come to were compared, as a request or not (`Agree`):
`PartsAgree` shows that it survives a step down, where the two parts are references
to one component (compared by `ComponentsCompatible`), inline, or one of each.
`ReleasesAnswerOldReaders` needs no more (`StillRead`). `ReleasesTakeOldRequests`
needs that the comparison was one of requests all the way down, so the walk also
carries that all the new schema names is in `RequestSchemas` (`AgreeDeep`): this
is where the closure of `Reachable` is needed (`ReachableClosed`, `RequestsClosed`),
and why the property speaks of a parameter only where the request bodies lead to
what its schema names (`CheckedDeep`, a limit of the code: section 3).
`BundlesMeanTheDocument` writes a bundle in closed form, the operations picked and
the components they reach (`BundleIsCut`: it solves the recursive definition, and by
induction on the fragments merged nothing else does); below an endpoint the bundle
and the document then resolve every reference alike (`SameExpansion`). The
inductions are on the depth left, by its least counterexample (`DepthInduction`).
They rest on `RecursionAssumption`; `DocumentsAssumption` says that `SchemasOf` has
all the schemas of a document, that endpoints are finitely many, and that a
component is not itself a reference.

*Only model-checked.* `EverySettles` and `Converges`, because liveness under
fairness is beyond the proof system. That the constants of `OpenApiDocument` are what
its recursive functions compute is assumed of them; TLC evaluates it on the documents
of the run. `HonestAgainstLineRead` with lagging caches is not a theorem because it
does not hold: a snapshot is read by a replica, replaced and released by another, and
the first compares the next release with what it read.

## 5. Not modelled

* Views: catalogue, spec rendering, streams, reports, dashboard, structure, graph
  diff, text diff, the MCP tools. They read rows and keep no state; what could be
  wrong in them is the text they render.
* HTTP presentation and storage plumbing: routing, parsing, pools, migrations, TLS.
  The models take a transaction as one step.
* Passwords, tokens, session expiry and the directory and OIDC protocols: mostly
  cryptography and I/O. Maintainer scopes and service accounts.
* Which hooks an event matches, secrets and the allow-list of receivers.
* Extraction of messages from AsyncAPI, proto documents, YAML reading: conversions
  whose result the models take as given.
* PostgreSQL where its isolation differs from SQLite's serial writes (named at the
  modules above), and the in-memory repository the tests use.

## 6. Plan

1. Synchronisation of directory roles on top of `DirectoryAccounts`, maintainer
   scopes and service accounts in `RoleGrants`.
2. `DependencyTimeline`: member versions and the periphery, PostgreSQL's interleaving
   of `record_trunk_pins`; composition with `VersionLine`, so that a deleted version
   leaves a dangling pin that heals.
3. Composition of webhook administration with the facts that fan out to it.
