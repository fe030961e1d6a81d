----------------------- MODULE CachedRepositoryProofs -----------------------
(***************************************************************************)
(* Proofs about CachedRepository, for any number of replicas, reads and    *)
(* writes, any time to live and any lag.                                   *)
(***************************************************************************)
EXTENDS CachedRepository, TLAPS

----------------------------------------------------------------------------
(* The table of operations: what every operation changes it clears, except *)
(* the Consumer list.                                                      *)

Whens == {"enabled", "changed", "refused", "always"}

\* What the invariants need of an operation.
Covers(op) ==
  /\ op.when \in Whens /\ op.parts \in BOOLEAN
  /\ \A c \in Caches : op.changes \cap Reads(c) # {} => c \in op.clears \/ c = "clients_list"

LEMMA ReadsOf ==
  /\ Reads("spec_version") = {"spec_versions", "stamps"}
  /\ Reads("spec_content") = {"contents"}
  /\ Reads("endpoint") = {"endpoints"}
  /\ Reads("version_endpoints") = {"endpoints"}
  /\ Reads("report") = {"dependencies", "spec_versions", "endpoints"}
  /\ Reads("service_id") = {"services"}
  /\ Reads("services_list") = {"services"}
  /\ Reads("services") = {"services", "service_metadata"}
  /\ Reads("clients_list") = {"dependencies"}
  /\ Reads("effective_roles") = {"user_roles", "user_group_members", "user_group_roles"}
  /\ Reads("groups_list") = {"user_groups"}
  /\ Reads("group_roles") = {"user_group_roles"}
  /\ Reads("settings") = {"settings"}
BY DEF Reads, SpecReads, EndpointReads, ReportReads, ListReads, RoleReads

LEMMA CachesAre ==
  Caches = {"spec_version", "spec_content", "endpoint", "version_endpoints", "report",
            "service_id", "services_list", "services", "clients_list", "effective_roles",
            "groups_list", "group_roles", "settings"}
BY DEF Caches, SpecReads, EndpointReads, ListReads, RoleReads

\* The caches each table is read through.
LEMMA ReadersOf ==
  ASSUME NEW c \in Caches
  PROVE  /\ "spec_versions" \in Reads(c) => c \in {"spec_version", "report"}
         /\ "stamps" \in Reads(c) => c \in {"spec_version"}
         /\ "contents" \in Reads(c) => c \in {"spec_content"}
         /\ "endpoints" \in Reads(c) => c \in {"endpoint", "version_endpoints", "report"}
         /\ "dependencies" \in Reads(c) => c \in {"report", "clients_list"}
         /\ "services" \in Reads(c) => c \in {"service_id", "services_list", "services"}
         /\ "service_metadata" \in Reads(c) => c \in {"services"}
         /\ "clients" \in Reads(c) => FALSE
         /\ "settings" \in Reads(c) => c \in {"settings"}
         /\ "user_roles" \in Reads(c) => c \in {"effective_roles"}
         /\ "user_group_members" \in Reads(c) => c \in {"effective_roles"}
         /\ "user_group_roles" \in Reads(c) => c \in {"effective_roles", "group_roles"}
         /\ "user_groups" \in Reads(c) => c \in {"groups_list"}
<1>1. CASE c = "spec_version" BY <1>1, ReadsOf
<1>2. CASE c = "spec_content" BY <1>2, ReadsOf
<1>3. CASE c = "endpoint" BY <1>3, ReadsOf
<1>4. CASE c = "version_endpoints" BY <1>4, ReadsOf
<1>5. CASE c = "report" BY <1>5, ReadsOf
<1>6. CASE c = "service_id" BY <1>6, ReadsOf
<1>7. CASE c = "services_list" BY <1>7, ReadsOf
<1>8. CASE c = "services" BY <1>8, ReadsOf
<1>9. CASE c = "clients_list" BY <1>9, ReadsOf
<1>10. CASE c = "effective_roles" BY <1>10, ReadsOf
<1>11. CASE c = "groups_list" BY <1>11, ReadsOf
<1>12. CASE c = "group_roles" BY <1>12, ReadsOf
<1>13. CASE c = "settings" BY <1>13, ReadsOf
<1> QED BY <1>1, <1>2, <1>3, <1>4, <1>5, <1>6, <1>7, <1>8, <1>9, <1>10, <1>11, <1>12, <1>13, CachesAre

LEMMA OpFields ==
  ASSUME NEW ch, NEW cl, NEW wh
  PROVE  /\ Op(ch, cl, wh).changes = ch /\ Op(ch, cl, wh).clears = cl
         /\ Op(ch, cl, wh).when = wh /\ Op(ch, cl, wh).parts = FALSE
         /\ InParts(Op(ch, cl, wh)).changes = ch /\ InParts(Op(ch, cl, wh)).clears = cl
         /\ InParts(Op(ch, cl, wh)).when = wh /\ InParts(Op(ch, cl, wh)).parts = TRUE
BY DEF Op, InParts

\* It is enough to look at the tables one by one.
Clear(ch, cl) == \A c \in Caches : \A t \in ch :
                   t \in Reads(c) => c \in cl \/ c = "clients_list"

LEMMA CoversByTable ==
  ASSUME NEW ch, NEW cl, NEW wh \in Whens, Clear(ch, cl)
  PROVE  Covers(Op(ch, cl, wh)) /\ Covers(InParts(Op(ch, cl, wh)))
<1>1. \A c \in Caches : ch \cap Reads(c) # {} => c \in cl \/ c = "clients_list"
  BY DEF Clear
<1>2. ASSUME NEW op, op.changes = ch, op.clears = cl, op.when = wh, op.parts \in BOOLEAN
      PROVE  Covers(op)
  BY <1>1, <1>2 DEF Covers
<1>3. Op(ch, cl, wh).parts \in BOOLEAN /\ InParts(Op(ch, cl, wh)).parts \in BOOLEAN
  BY DEF Op, InParts
<1> QED BY <1>2, <1>3, OpFields

LEMMA SpecOpsCover ==
  /\ Covers(upsert_spec_version)
  /\ Covers(rewrite_spec_text)
  /\ Covers(delete_spec_version)
  /\ Covers(touch_spec_version)
  /\ Covers(delete_expired_snapshots)
<1>1. Covers(upsert_spec_version)
  <2>1. Clear(UpsertSpecVersionChanges, SpecCaches)
    BY ReadersOf DEF Clear, SpecCaches, UpsertSpecVersionChanges
  <2> QED BY <2>1, CoversByTable DEF upsert_spec_version, Whens
<1>2. Covers(rewrite_spec_text)
  <2>1. Clear(RewriteSpecTextChanges, SpecCaches)
    BY ReadersOf DEF Clear, SpecCaches, RewriteSpecTextChanges
  <2> QED BY <2>1, CoversByTable DEF rewrite_spec_text, Whens
<1>3. Covers(delete_spec_version)
  <2>1. Clear(VersionsGone, SpecCaches)
    BY ReadersOf DEF Clear, SpecCaches, VersionsGone, UpsertSpecVersionChanges
  <2> QED BY <2>1, CoversByTable DEF delete_spec_version, Whens
<1>4. Covers(touch_spec_version)
  <2>1. Clear({"stamps"}, {"spec_version"})
    BY ReadersOf DEF Clear
  <2> QED BY <2>1, CoversByTable DEF touch_spec_version, Whens
<1>5. Covers(delete_expired_snapshots)
  <2>1. Clear(VersionsGone, SpecCaches)
    BY ReadersOf DEF Clear, SpecCaches, VersionsGone, UpsertSpecVersionChanges
  <2> QED BY <2>1, CoversByTable DEF delete_expired_snapshots, Whens
<1> QED BY <1>1, <1>2, <1>3, <1>4, <1>5

LEMMA ParticipantOpsCover ==
  /\ Covers(ensure_service)
  /\ Covers(ensure_client)
  /\ Covers(record_dependencies_bulk)
  /\ Covers(close_expired_trunk_data)
  /\ Covers(delete_stale_dependencies)
  /\ Covers(delete_all_clients)
  /\ Covers(delete_consumer)
  /\ Covers(update_producer_metadata)
<1>1. Covers(ensure_service)
  <2>1. Clear({"services", "service_metadata"}, {"service_id", "services_list", "services"})
    BY ReadersOf DEF Clear
  <2> QED BY <2>1, CoversByTable DEF ensure_service, Whens
<1>2. Covers(ensure_client)
  <2>1. Clear({"clients"}, {"clients_list"})
    BY ReadersOf DEF Clear
  <2> QED BY <2>1, CoversByTable DEF ensure_client, Whens
<1>3. Covers(record_dependencies_bulk)
  <2>1. Clear({"dependencies"}, {"report"})
    BY ReadersOf DEF Clear
  <2> QED BY <2>1, CoversByTable DEF record_dependencies_bulk, Whens
<1>4. Covers(close_expired_trunk_data)
  <2>1. Clear({"stamps"}, {"report", "spec_version", "services"})
    BY ReadersOf DEF Clear
  <2> QED BY <2>1, CoversByTable DEF close_expired_trunk_data, Whens
<1>5. Covers(delete_stale_dependencies)
  <2>1. Clear({"dependencies"}, {"report"})
    BY ReadersOf DEF Clear
  <2> QED BY <2>1, CoversByTable DEF delete_stale_dependencies, Whens
<1>6. Covers(delete_all_clients)
  <2>1. Clear(ClientsGone, {"clients_list", "report"})
    BY ReadersOf DEF Clear, ClientsGone
  <2> QED BY <2>1, CoversByTable DEF delete_all_clients, Whens
<1>7. Covers(delete_consumer)
  <2>1. Clear(ClientsGone, {"clients_list", "report"})
    BY ReadersOf DEF Clear, ClientsGone
  <2> QED BY <2>1, CoversByTable DEF delete_consumer, Whens
<1>8. Covers(update_producer_metadata)
  <2>1. Clear({"service_metadata"}, {"services"})
    BY ReadersOf DEF Clear
  <2> QED BY <2>1, CoversByTable DEF update_producer_metadata, Whens
<1> QED BY <1>1, <1>2, <1>3, <1>4, <1>5, <1>6, <1>7, <1>8

LEMMA WipesCover ==
  /\ Covers(delete_all_services)
  /\ Covers(nuke_database)
  /\ Covers(delete_producer)
<1>1. Covers(delete_all_services)
  <2>1. Clear(ServicesGone, Caches)
    BY ReadersOf DEF Clear, ServicesGone, VersionsGone, UpsertSpecVersionChanges
  <2> QED BY <2>1, CoversByTable DEF delete_all_services, Whens
<1>2. Covers(nuke_database)
  <2>1. Clear(NukeChanges, Caches)
    BY ReadersOf DEF Clear, NukeChanges, ServicesGone, ClientsGone, VersionsGone, UpsertSpecVersionChanges
  <2> QED BY <2>1, CoversByTable DEF nuke_database, Whens
<1>3. Covers(delete_producer)
  <2>1. Clear(ServicesGone, SpecCaches \cup {"service_id", "services_list", "services"})
    BY ReadersOf DEF Clear, SpecCaches, ServicesGone, VersionsGone, UpsertSpecVersionChanges
  <2> QED BY <2>1, CoversByTable DEF delete_producer, Whens
<1> QED BY <1>1, <1>2, <1>3

LEMMA AccessOpsCover ==
  /\ Covers(set_setting)
  /\ Covers(merge_user_into)
  /\ Covers(set_user_role)
  /\ Covers(name_group)
  /\ Covers(delete_group)
  /\ Covers(set_group_roles)
  /\ Covers(set_group_member)
<1>1. Covers(set_setting)
  <2>1. Clear({"settings"}, {"settings"})
    BY ReadersOf DEF Clear
  <2> QED BY <2>1, CoversByTable DEF set_setting, Whens
<1>2. Covers(merge_user_into)
  <2>1. Clear(MergeUserChanges, {"effective_roles"})
    BY ReadersOf DEF Clear, MergeUserChanges
  <2> QED BY <2>1, CoversByTable DEF merge_user_into, Whens
<1>3. Covers(set_user_role)
  <2>1. Clear({"user_roles"}, {"effective_roles"})
    BY ReadersOf DEF Clear
  <2> QED BY <2>1, CoversByTable DEF set_user_role, Whens
<1>4. Covers(name_group)
  <2>1. Clear({"user_groups"}, {"groups_list"})
    BY ReadersOf DEF Clear
  <2> QED BY <2>1, CoversByTable DEF name_group, Whens
<1>5. Covers(delete_group)
  <2>1. Clear(DeleteGroupChanges, {"effective_roles", "groups_list", "group_roles"})
    BY ReadersOf DEF Clear, DeleteGroupChanges
  <2> QED BY <2>1, CoversByTable DEF delete_group, Whens
<1>6. Covers(set_group_roles)
  <2>1. Clear({"user_group_roles"}, {"effective_roles", "group_roles"})
    BY ReadersOf DEF Clear
  <2> QED BY <2>1, CoversByTable DEF set_group_roles, Whens
<1>7. Covers(set_group_member)
  <2>1. Clear({"user_group_members"}, {"effective_roles"})
    BY ReadersOf DEF Clear
  <2> QED BY <2>1, CoversByTable DEF set_group_member, Whens
<1> QED BY <1>1, <1>2, <1>3, <1>4, <1>5, <1>6, <1>7

LEMMA OpsCover == \A op \in Ops : Covers(op)
BY SpecOpsCover, ParticipantOpsCover, WipesCover, AccessOpsCover DEF Ops

----------------------------------------------------------------------------
(* Copies. *)

LEMMA BlankFacts ==
  Blank \in Copies /\ Blank.old = 0 /\ Blank.age = 0 /\ Blank.before = {} /\ Blank.owed = {}
BY DEF Blank, Copies

LEMMA CommitFacts ==
  ASSUME NEW cp \in Copies, NEW w \in Writers
  PROVE  /\ Superseded(cp, w) \in Copies
         /\ Superseded(cp, w).age = cp.age /\ Superseded(cp, w).owed = cp.owed
         /\ Superseded(cp, w).before = cp.before \cup {w}
         /\ Superseded(cp, w).old = IF cp.old = 0 THEN 1 ELSE cp.old
         /\ Refused(cp, w) \in Copies
         /\ Refused(cp, w).age = cp.age /\ Refused(cp, w).owed = cp.owed
         /\ Refused(cp, w).before \subseteq cp.before \cup {w}
         /\ Refused(cp, w).old = cp.old
BY DEF Superseded, Refused, Copies

LEMMA ForgottenFacts ==
  ASSUME NEW cp \in Copies, NEW w \in Writers
  PROVE  /\ Forgotten(cp, w) \in Copies
         /\ Forgotten(cp, w).age = cp.age /\ Forgotten(cp, w).owed = cp.owed
         /\ Forgotten(cp, w).before = cp.before \ {w} /\ Forgotten(cp, w).old = cp.old
BY DEF Forgotten, Copies

LEMMA OutlivedFacts ==
  ASSUME NEW cp \in Copies, NEW w \in Writers, NEW how \in Owed
  PROVE  /\ Outlived(cp, w, how) \in Copies
         /\ Outlived(cp, w, how).age = cp.age /\ Outlived(cp, w, how).old = cp.old
         /\ Outlived(cp, w, how).before = cp.before \ {w}
         /\ Outlived(cp, w, how).owed \subseteq cp.owed \cup {how}
         /\ w \notin cp.before => Outlived(cp, w, how).owed = cp.owed
BY DEF Forgotten, Outlived, Copies

LEMMA TimeFacts ==
  ASSUME NEW cp \in Copies
  PROVE  /\ Aged(cp) \in Copies /\ Aged(cp).age = cp.age + 1
         /\ Aged(cp).old \in {cp.old, cp.old + 1}
         /\ Aged(cp).owed = cp.owed /\ Aged(cp).before = cp.before
         /\ Inserted(cp) \in Copies /\ Inserted(cp).age = 0 /\ Inserted(cp).old = cp.old
         /\ Inserted(cp).owed = cp.owed /\ Inserted(cp).before = cp.before
<1>1. cp.old \in Nat /\ cp.age \in Nat /\ Older(cp.old) \in Nat
  BY CacheAssumptions DEF Older, Copies
<1>2. Aged(cp) \in Copies
  BY <1>1 DEF Aged, Copies
<1>3. /\ Inserted(cp).age = 0 /\ Inserted(cp).old = cp.old
      /\ Inserted(cp).owed = cp.owed /\ Inserted(cp).before = cp.before
  BY DEF Inserted, Copies
<1>4. Inserted(cp) \in Copies
  BY DEF Inserted, Copies
<1> QED BY <1>2, <1>3, <1>4 DEF Aged, Older

LEMMA BlankStays ==
  ASSUME NEW w \in Writers, NEW how \in Owed
  PROVE  Forgotten(Blank, w) = Blank /\ Outlived(Blank, w, how) = Blank
BY DEF Forgotten, Outlived, Blank

----------------------------------------------------------------------------
(* The inductive invariant.  A copy is at most one tick older than the     *)
(* ticks it was carried and kept (Ages); what a read carries can only be   *)
(* late (Carried); a write that will not clear the watched cache has       *)
(* superseded nothing (Pending), which is where the table is used; and     *)
(* what a switched-off cache kept is out of service until rebuild_caches   *)
(* has cleared it (Dark).                                                  *)

Ages ==
  /\ \A r \in held : entry[r].age < Ttl /\ entry[r].old <= Lag + entry[r].age + 1
  /\ \A c \in Readers : Busy(c) => copy[c].age <= Lag /\ copy[c].old <= copy[c].age + 1

Carried == \A c \in Readers : /\ copy[c].owed \subseteq {"late"}
                              /\ ~Busy(c) => copy[c] = Blank

Pending == watched # "clients_list" =>
  \A w \in Writers : write[w].clears = "never" =>
    /\ ~write[w].parts
    /\ \A r \in Replicas : w \notin entry[r].before
    /\ \A c \in Readers : w \notin copy[c].before

Missed == \A r \in Replicas : "missed" \in entry[r].owed => watched = "clients_list"

Dark == \A r \in Replicas : "dark" \in entry[r].owed /\ watched # "effective_roles"
                              => r \notin on \/ r \in rebuild

Resting == \A w \in Writers : ~write[w].running => write[w] = NoWrite

Inv == TypeOK /\ Ages /\ Carried /\ Pending /\ Resting /\ Missed /\ Dark

LEMMA InitInv == Init => Inv
<1> SUFFICES ASSUME Init PROVE Inv OBVIOUS
<1> USE BlankFacts, CacheAssumptions
<1>1. TypeOK BY DEF Init, TypeOK, Steps, Writes, NoWrite
<1>2. Ages BY DEF Init, Ages, Busy
<1>3. Carried /\ Missed /\ Dark BY DEF Init, Carried, Missed, Dark, Busy
<1>4. Pending /\ Resting BY DEF Init, Pending, Resting, NoWrite, TypeOK
<1> QED BY <1>1, <1>2, <1>3, <1>4 DEF Inv

\* The parts of TypeOK the steps use.
LEMMA Types ==
  ASSUME TypeOK
  PROVE  /\ held \subseteq Replicas /\ watched \in Caches
         /\ \A r \in Replicas : entry[r] \in Copies
         /\ \A c \in Readers : copy[c] \in Copies /\ Home[c] \in Replicas
         /\ \A w \in Writers : write[w] \in Writes /\ Home[w] \in Replicas
BY CacheAssumptions DEF TypeOK

LEMMA AnswerInv == ASSUME Inv, NEW c \in Readers, Answer(c) PROVE Inv'
<1> USE BlankFacts, Types DEF Inv, Answer
<1>1. TypeOK' BY DEF TypeOK, Steps
<1>2. Ages' BY CacheAssumptions DEF Ages, Busy, TypeOK
<1>3. Carried' /\ Missed' /\ Dark' BY DEF Carried, Missed, Dark, Busy, TypeOK
<1>4. Pending' /\ Resting' BY DEF Pending, Resting, TypeOK
<1> QED BY <1>1, <1>2, <1>3, <1>4

LEMMA AnswerBulkInv == ASSUME Inv, NEW c \in Readers, AnswerBulk(c) PROVE Inv'
<1> USE BlankFacts, Types DEF Inv, AnswerBulk
<1>1. TypeOK' BY DEF TypeOK, Steps
<1>2. Ages' BY CacheAssumptions DEF Ages, Busy, TypeOK
<1>3. Carried' /\ Missed' /\ Dark' BY DEF Carried, Missed, Dark, Busy, TypeOK
<1>4. Pending' /\ Resting' BY DEF Pending, Resting, TypeOK
<1> QED BY <1>1, <1>2, <1>3, <1>4

LEMMA CheckInv == ASSUME Inv, NEW c \in Readers, Check(c) PROVE Inv'
<1> USE Types DEF Inv, Check
<1>1. TypeOK' BY DEF TypeOK, Steps
<1>2. Ages' BY DEF Ages, Busy, TypeOK
<1>3. Carried' /\ Missed' /\ Dark' BY DEF Carried, Missed, Dark, Busy, TypeOK
<1>4. Pending' /\ Resting' BY DEF Pending, Resting
<1> QED BY <1>1, <1>2, <1>3, <1>4

LEMMA GiveUpInv == ASSUME Inv, NEW c \in Readers, GiveUp(c) PROVE Inv'
<1> USE BlankFacts, Types DEF Inv, GiveUp, Stop
<1>1. TypeOK' BY DEF TypeOK, Steps
<1>2. Ages' BY DEF Ages, Busy, TypeOK
<1>3. Carried' /\ Missed' /\ Dark' BY DEF Carried, Missed, Dark, Busy, TypeOK
<1>4. Pending' /\ Resting' BY DEF Pending, Resting, TypeOK
<1> QED BY <1>1, <1>2, <1>3, <1>4

LEMMA InsertInv == ASSUME Inv, NEW c \in Readers, Insert(c) PROVE Inv'
<1> USE BlankFacts, Types, TimeFacts DEF Inv, Insert, Stop
<1>1. TypeOK' BY DEF TypeOK, Steps
<1>2. Ages'
  <2>1. copy[c].age <= Lag /\ copy[c].old <= copy[c].age + 1 BY DEF Ages, Busy
  <2>2. copy[c].old <= Lag + 1 BY <2>1, CacheAssumptions DEF Copies
  <2> QED BY <2>2, CacheAssumptions DEF Ages, Busy, TypeOK
<1>3. Carried' BY DEF Carried, Busy, TypeOK
<1>4. Missed' /\ Dark' BY DEF Carried, Missed, Dark, TypeOK
<1>5. Pending' /\ Resting' BY DEF Pending, Resting, TypeOK
<1> QED BY <1>1, <1>2, <1>3, <1>4, <1>5

LEMMA TickInv == ASSUME Inv, Tick PROVE Inv'
<1> USE BlankFacts, Types, TimeFacts DEF Inv, Tick
<1>1. TypeOK' BY DEF TypeOK
<1>2. Ages'
  <2>1. ASSUME NEW r \in held'
        PROVE  entry'[r].age < Ttl /\ entry'[r].old <= Lag + entry'[r].age + 1
    <3>1. r \in held /\ r \in Replicas /\ entry[r].age + 1 < Ttl /\ entry'[r] = Aged(entry[r])
      BY <2>1 DEF Lives
    <3>2. entry[r] \in Copies /\ entry[r].old <= Lag + entry[r].age + 1 BY <3>1 DEF Ages
    <3>3. entry[r].old \in Nat /\ entry[r].age \in Nat BY <3>2 DEF Copies
    <3>4. /\ entry'[r].age = entry[r].age + 1
          /\ entry'[r].old = entry[r].old \/ entry'[r].old = entry[r].old + 1
      BY <3>1, <3>2
    <3> HIDE DEF Inv, Tick
    <3> QED BY <3>1, <3>2, <3>3, <3>4, CacheAssumptions
  <2>2. ASSUME NEW c \in Readers, Busy(c)'
        PROVE  copy'[c].age <= Lag /\ copy'[c].old <= copy'[c].age + 1
    BY <2>2, CacheAssumptions DEF Ages, Busy, Copies
  <2> QED BY <2>1, <2>2 DEF Ages
<1>3. Carried' BY DEF Carried, Busy, TypeOK
<1>4. Missed' /\ Dark' BY DEF Missed, Dark
<1>5. Pending' /\ Resting' BY DEF Pending, Resting
<1> QED BY <1>1, <1>2, <1>3, <1>4, <1>5

LEMMA StoreLimitInv ==
  ASSUME Inv, NEW r \in Replicas, NEW limited \in BOOLEAN, StoreLimit(r, limited) PROVE Inv'
<1> USE Types DEF Inv, StoreLimit
<1>1. TypeOK' BY DEF TypeOK
<1>2. Ages' /\ Carried' /\ Missed' BY DEF Ages, Carried, Missed, Busy
<1>3. Dark' /\ Pending' /\ Resting' BY DEF Dark, Pending, Resting
<1> QED BY <1>1, <1>2, <1>3

LEMMA ClearAllInv == ASSUME Inv, NEW r \in Replicas, ClearAll(r) PROVE Inv'
<1> USE BlankFacts, Types DEF Inv, ClearAll
<1>1. CASE watched \in RebuildClears
  <2> USE <1>1
  <2>1. TypeOK' BY DEF TypeOK
  <2>2. Ages' BY DEF Ages, Busy, TypeOK
  <2>3. Carried' /\ Missed' /\ Dark' BY DEF Carried, Missed, Dark, Busy, TypeOK
  <2>4. Pending' /\ Resting' BY DEF Pending, Resting, TypeOK
  <2> QED BY <2>1, <2>2, <2>3, <2>4
<1>2. CASE watched \notin RebuildClears
  <2>0. watched = "effective_roles" BY <1>2 DEF RebuildClears
  <2> USE <1>2
  <2>1. TypeOK' BY DEF TypeOK
  <2>2. Ages' /\ Carried' /\ Missed' BY DEF Ages, Carried, Missed, Busy
  <2>3. Dark' /\ Pending' /\ Resting' BY <2>0 DEF Dark, Pending, Resting
  <2> QED BY <2>1, <2>2, <2>3
<1> QED BY <1>1, <1>2

LEMMA EvictInv == ASSUME Inv, NEW r \in Replicas, Evict(r) PROVE Inv'
<1> USE BlankFacts, Types DEF Inv, Evict
<1>1. TypeOK' BY DEF TypeOK
<1>2. Ages' BY DEF Ages, Busy, TypeOK
<1>3. Carried' /\ Missed' /\ Dark' BY DEF Carried, Missed, Dark, Busy, TypeOK
<1>4. Pending' /\ Resting' BY DEF Pending, Resting, TypeOK
<1> QED BY <1>1, <1>2, <1>3, <1>4

\* A write begins: whatever it does to the copies, only ages and histories of the
\* superseded change, and a write that clears nothing has superseded nothing.
LEMMA EachCopyTypes ==
  ASSUME Inv, NEW w \in Writers,
         EachCopy(Superseded, w) \/ EachCopy(Refused, w) \/ UNCHANGED <<entry, copy>>
  PROVE  /\ entry' \in [Replicas -> Copies] /\ copy' \in [Readers -> Copies]
         /\ \A r \in Replicas \ held : entry'[r] = Blank
         /\ \A r \in Replicas : /\ entry'[r].age = entry[r].age /\ entry'[r].owed = entry[r].owed
                                /\ entry'[r].before \subseteq entry[r].before \cup {w}
                                /\ entry'[r].old = entry[r].old \/ entry'[r].old = 1
         /\ \A c \in Readers : /\ copy'[c].age = copy[c].age /\ copy'[c].owed = copy[c].owed
                               /\ copy'[c].before \subseteq copy[c].before \cup {w}
                               /\ copy'[c].old = copy[c].old \/ copy'[c].old = 1
                               /\ ~Busy(c) => copy'[c] = Blank
<1> USE Types, BlankFacts, CommitFacts DEF Inv
<1>1. CASE UNCHANGED <<entry, copy>> BY <1>1 DEF TypeOK, Carried
<1>2. CASE EachCopy(Superseded, w)
  <2> USE <1>2 DEF EachCopy
  <2>1. entry' \in [Replicas -> Copies] /\ copy' \in [Readers -> Copies] OBVIOUS
  <2>2. \A r \in Replicas \ held : entry[r] = Blank /\ entry'[r] = Blank BY DEF TypeOK
  <2>3. \A r \in held : entry'[r] = Superseded(entry[r], w) OBVIOUS
  <2>4. \A c \in Readers : ~Busy(c) => copy[c] = Blank /\ copy'[c] = Blank BY DEF Carried
  <2>5. \A c \in Readers : Busy(c) => copy'[c] = Superseded(copy[c], w) OBVIOUS
  <2> QED BY <2>1, <2>2, <2>3, <2>4, <2>5
<1>3. CASE EachCopy(Refused, w)
  <2> USE <1>3 DEF EachCopy
  <2>1. entry' \in [Replicas -> Copies] /\ copy' \in [Readers -> Copies] OBVIOUS
  <2>2. \A r \in Replicas \ held : entry[r] = Blank /\ entry'[r] = Blank BY DEF TypeOK
  <2>3. \A r \in held : entry'[r] = Refused(entry[r], w) OBVIOUS
  <2>4. \A c \in Readers : ~Busy(c) => copy[c] = Blank /\ copy'[c] = Blank BY DEF Carried
  <2>5. \A c \in Readers : Busy(c) => copy'[c] = Refused(copy[c], w) OBVIOUS
  <2> QED BY <2>1, <2>2, <2>3, <2>4, <2>5
<1> QED BY <1>1, <1>2, <1>3

\* What a step of a write before its return keeps.
LEMMA CommittedInv ==
  ASSUME Inv, NEW w \in Writers,
         EachCopy(Superseded, w) \/ EachCopy(Refused, w) \/ UNCHANGED <<entry, copy>>,
         UNCHANGED <<watched, on, rebuild, held, step>>,
         write' \in [Writers -> Writes],
         \A v \in Writers \ {w} : write'[v] = write[v],
         write'[w].running,
         watched # "clients_list" /\ write'[w].clears = "never"
           => /\ ~write'[w].parts /\ write[w].clears = "never"
              /\ UNCHANGED <<entry, copy>>
  PROVE  Inv'
<1> USE Types, EachCopyTypes DEF Inv
<1>1. TypeOK' BY DEF TypeOK
<1>2. Ages'
  <2>1. ASSUME NEW r \in held
        PROVE  entry'[r].age < Ttl /\ entry'[r].old <= Lag + entry'[r].age + 1
    BY CacheAssumptions DEF Ages, Copies
  <2>2. ASSUME NEW c \in Readers, Busy(c)
        PROVE  copy'[c].age <= Lag /\ copy'[c].old <= copy'[c].age + 1
    BY <2>2, CacheAssumptions DEF Ages, Copies
  <2> QED BY <2>1, <2>2 DEF Ages, Busy
<1>3. Carried' BY DEF Carried, Busy
<1>4. Missed' /\ Dark' BY DEF Missed, Dark
<1>5. Resting' BY DEF Resting
<1>6. Pending'
  <2> SUFFICES ASSUME watched # "clients_list", NEW v \in Writers, write'[v].clears = "never"
               PROVE  /\ ~write'[v].parts
                      /\ \A r \in Replicas : v \notin entry'[r].before
                      /\ \A c \in Readers : v \notin copy'[c].before
    BY DEF Pending
  <2>1. CASE v = w BY <2>1 DEF Pending
  <2>2. CASE v # w BY <2>2 DEF Pending
  <2> QED BY <2>1, <2>2
<1> QED BY <1>1, <1>2, <1>3, <1>4, <1>5, <1>6

\* What Begin sets.
LEMMA BeginFacts ==
  ASSUME Inv, NEW w \in Writers, NEW op \in Ops, NEW changed \in BOOLEAN, Begin(w, op, changed)
  PROVE  /\ write' \in [Writers -> Writes]
         /\ \A v \in Writers \ {w} : write'[v] = write[v]
         /\ write'[w].running /\ write[w].clears = "never"
         /\ write'[w].clears = Clearing(op, changed)
         /\ write'[w].parts = (changed /\ op.parts /\ Touches(op))
<1>1. op.parts \in BOOLEAN BY OpsCover DEF Covers
<1>2. Clearing(op, changed) \in {"never", "enabled", "always"} BY DEF Clearing
<1>3. [running |-> TRUE, clears |-> Clearing(op, changed),
       parts |-> changed /\ op.parts /\ Touches(op)] \in Writes
  BY <1>1, <1>2 DEF Writes
<1> QED BY <1>3 DEF Inv, TypeOK, Resting, NoWrite, Begin

\* The table, as the writes use it.
LEMMA TouchingClears ==
  ASSUME Inv, NEW op \in Ops, Touches(op), watched # "clients_list"
  PROVE  Clearing(op, TRUE) # "never" /\ (op.when = "refused" => Clearing(op, FALSE) # "never")
<1>1. watched \in op.clears BY OpsCover, Types DEF Inv, Covers, Touches
<1> QED BY <1>1 DEF Clearing

LEMMA CommitInv == ASSUME Inv, NEW w \in Writers, NEW op \in Ops, Commit(w, op) PROVE Inv'
<1>1. Begin(w, op, TRUE) BY DEF Commit
<1>2. CASE Touches(op)
  BY <1>1, <1>2, BeginFacts, TouchingClears, CommittedInv DEF Commit, Begin
<1>3. CASE ~Touches(op)
  BY <1>1, <1>3, BeginFacts, CommittedInv DEF Commit, Begin
<1> QED BY <1>2, <1>3

LEMMA RefuseInv == ASSUME Inv, NEW w \in Writers, NEW op \in Ops, Refuse(w, op) PROVE Inv'
<1>1. Begin(w, op, FALSE) BY DEF Refuse
<1>2. CASE op.when = "refused" /\ Touches(op)
  <2>1. EachCopy(Refused, w) BY <1>2 DEF Refuse
  <2>2. watched # "clients_list" => write'[w].clears # "never"
    BY <1>1, <1>2, BeginFacts, TouchingClears
  <2> QED BY <1>1, <2>1, <2>2, BeginFacts, CommittedInv DEF Begin
<1>3. CASE ~(op.when = "refused" /\ Touches(op))
  BY <1>1, <1>3, BeginFacts, CommittedInv DEF Refuse, Begin
<1> QED BY <1>2, <1>3

LEMMA CommitMoreInv == ASSUME Inv, NEW w \in Writers, CommitMore(w) PROVE Inv'
<1>1. write' \in [Writers -> Writes] /\ write'[w] = write[w] BY DEF CommitMore, Inv, TypeOK
<1>2. watched # "clients_list" => write[w].clears # "never" BY DEF CommitMore, Inv, Pending
<1> QED BY <1>1, <1>2, CommittedInv DEF CommitMore

LEMMA FinishInv == ASSUME Inv, NEW w \in Writers, Finish(w) PROVE Inv'
<1> DEFINE r == Home[w]
           cleared == write[w].clears = "always" \/ (write[w].clears = "enabled" /\ r \in on)
           how == IF r \in on THEN "missed" ELSE "dark"
<1>0. r \in Replicas /\ how \in Owed /\ "late" \in Owed /\ NoWrite \in Writes
  BY Types DEF Inv, Owed, NoWrite, Writes
<1>1. /\ held' = IF cleared THEN held \ {r} ELSE held
      /\ \A q \in Replicas : /\ q # r => entry'[q] = Forgotten(entry[q], w)
                             /\ q = r /\ cleared => entry'[q] = Blank
                             /\ q = r /\ ~cleared => entry'[q] = Outlived(entry[q], w, how)
      /\ \A c \in Readers : \/ copy'[c] = Outlived(copy[c], w, "late")
                            \/ copy'[c] = Forgotten(copy[c], w)
      /\ UNCHANGED <<watched, on, rebuild, step>>
  BY DEF Finish
<1>2. /\ entry' = [q \in Replicas |-> entry'[q]] /\ copy' = [c \in Readers |-> copy'[c]]
      /\ write' = [write EXCEPT ![w] = NoWrite]
  BY DEF Finish, Idle
<1> HIDE DEF r, cleared, how
<1>3. ASSUME NEW q \in Replicas
      PROVE  /\ entry'[q] \in Copies
             /\ entry'[q].before = entry[q].before \ {w} \/ entry'[q] = Blank
             /\ q \notin held => entry'[q] = Blank
             /\ q # r => entry'[q].owed = entry[q].owed
             /\ q = r /\ cleared => entry'[q] = Blank
             /\ q = r /\ ~cleared => /\ entry'[q].owed \subseteq entry[q].owed \cup {how}
                                     /\ w \notin entry[q].before => entry'[q].owed = entry[q].owed
             /\ q \in held' => entry'[q].age = entry[q].age /\ entry'[q].old = entry[q].old
  <2>0. entry[q] \in Copies /\ (q \notin held => entry[q] = Blank) BY Types DEF Inv, TypeOK
  <2>1. CASE q # r
    <3>1. entry'[q] = Forgotten(entry[q], w) BY <1>1, <2>1
    <3> QED BY <2>0, <2>1, <3>1, <1>0, ForgottenFacts, BlankStays
  <2>2. CASE q = r /\ cleared
    <3>1. entry'[q] = Blank /\ q \notin held' BY <1>1, <2>2
    <3> QED BY <2>2, <3>1, BlankFacts
  <2>3. CASE q = r /\ ~cleared
    <3>1. entry'[q] = Outlived(entry[q], w, how) /\ held' = held BY <1>1, <2>3
    <3>2. q \notin held => entry'[q] = Blank BY <2>0, <3>1, <1>0, BlankStays
    <3> QED BY <2>0, <2>3, <3>1, <3>2, <1>0, OutlivedFacts
  <2> QED BY <2>1, <2>2, <2>3
<1>4. ASSUME NEW c \in Readers
      PROVE  /\ copy'[c] \in Copies
             /\ copy'[c].before = copy[c].before \ {w}
             /\ copy'[c].owed \subseteq copy[c].owed \cup {"late"}
             /\ copy'[c].age = copy[c].age /\ copy'[c].old = copy[c].old
             /\ copy[c] = Blank => copy'[c] = Blank
  <2>0. copy[c] \in Copies BY Types DEF Inv
  <2>1. CASE copy'[c] = Outlived(copy[c], w, "late")
    BY <2>0, <2>1, <1>0, OutlivedFacts, BlankStays
  <2>2. CASE copy'[c] = Forgotten(copy[c], w)
    BY <2>0, <2>2, <1>0, ForgottenFacts, BlankStays
  <2> QED BY <2>1, <2>2, <1>1
<1>5. TypeOK'
  <2>1. entry' \in [Replicas -> Copies] /\ copy' \in [Readers -> Copies] BY <1>2, <1>3, <1>4
  <2>2. \A q \in Replicas \ held' : entry'[q] = Blank BY <1>1, <1>3
  <2>3. held' \subseteq Replicas /\ write' \in [Writers -> Writes] BY <1>0, <1>1, <1>2 DEF Inv, TypeOK
  <2> QED BY <1>1, <2>1, <2>2, <2>3 DEF Inv, TypeOK
<1>6. Ages'
  <2>1. held' \subseteq held /\ held \subseteq Replicas BY <1>1 DEF Inv, TypeOK
  <2> QED BY <1>1, <1>3, <1>4, <2>1 DEF Inv, Ages, Busy
<1>7. Carried' BY <1>1, <1>4 DEF Inv, Carried, Busy
<1>8. Pending' /\ Resting'
  <2>1. write'[w] = NoWrite /\ \A v \in Writers \ {w} : write'[v] = write[v]
    BY <1>2 DEF Inv, TypeOK
  <2> QED BY <1>1, <1>3, <1>4, <2>1, BlankFacts DEF Inv, Pending, Resting, NoWrite
<1>9. Missed' /\ Dark'
  <2> SUFFICES ASSUME NEW q \in Replicas
               PROVE  /\ "missed" \in entry'[q].owed => watched = "clients_list"
                      /\ "dark" \in entry'[q].owed /\ watched # "effective_roles"
                           => q \notin on \/ q \in rebuild
    BY <1>1 DEF Missed, Dark
  <2>1. CASE q # r BY <2>1, <1>3 DEF Inv, Missed, Dark
  <2>2. CASE q = r /\ cleared BY <2>2, <1>3, BlankFacts
  <2>3. CASE q = r /\ r \in on /\ ~cleared
    <3>1. how = "missed" /\ write[w].clears = "never" BY <2>3, Types DEF Inv, Writes, cleared, how
    <3>2. watched # "clients_list" => w \notin entry[q].before BY <3>1 DEF Inv, Pending
    <3> QED BY <2>3, <3>1, <3>2, <1>3 DEF Inv, Missed, Dark
  <2>4. CASE q = r /\ r \notin on /\ ~cleared
    <3>1. how = "dark" BY <2>4 DEF how
    <3> QED BY <2>4, <3>1, <1>3 DEF Inv, Missed, Dark
  <2> QED BY <2>1, <2>2, <2>3, <2>4
<1> QED BY <1>5, <1>6, <1>7, <1>8, <1>9 DEF Inv

LEMMA AbortInv == ASSUME Inv, NEW w \in Writers, Abort(w) PROVE Inv'
<1>0. "late" \in Owed /\ NoWrite \in Writes BY DEF Owed, NoWrite, Writes
<1>1. /\ \A q \in Replicas : entry'[q] = Forgotten(entry[q], w) /\ entry[q] \in Copies
      /\ \A c \in Readers : copy'[c] = Forgotten(copy[c], w) /\ copy[c] \in Copies
      /\ entry' = [q \in Replicas |-> entry'[q]] /\ copy' = [c \in Readers |-> copy'[c]]
      /\ write' = [write EXCEPT ![w] = NoWrite]
      /\ UNCHANGED <<watched, on, rebuild, held, step>>
  BY Types DEF Abort, Idle, Inv
<1>2. ASSUME NEW q \in Replicas
      PROVE  /\ entry'[q] \in Copies /\ entry'[q].before = entry[q].before \ {w}
             /\ entry'[q].owed = entry[q].owed
             /\ entry'[q].age = entry[q].age /\ entry'[q].old = entry[q].old
             /\ entry[q] = Blank => entry'[q] = Blank
  BY <1>0, <1>1, ForgottenFacts, BlankStays
<1>3. ASSUME NEW c \in Readers
      PROVE  /\ copy'[c] \in Copies /\ copy'[c].before = copy[c].before \ {w}
             /\ copy'[c].owed = copy[c].owed
             /\ copy'[c].age = copy[c].age /\ copy'[c].old = copy[c].old
             /\ copy[c] = Blank => copy'[c] = Blank
  BY <1>0, <1>1, ForgottenFacts, BlankStays
<1>4. TypeOK'
  <2>1. entry' \in [Replicas -> Copies] /\ copy' \in [Readers -> Copies] BY <1>1, <1>2, <1>3
  <2> QED BY <1>0, <1>1, <1>2, <2>1 DEF Inv, TypeOK
<1>5. Ages' BY <1>1, <1>2, <1>3 DEF Inv, TypeOK, Ages, Busy
<1>6. Carried' BY <1>1, <1>3 DEF Inv, Carried, Busy
<1>7. Missed' /\ Dark' BY <1>1, <1>2 DEF Inv, Missed, Dark
<1>8. Pending' /\ Resting'
  <2>1. write'[w] = NoWrite /\ \A v \in Writers \ {w} : write'[v] = write[v]
    BY <1>1 DEF Inv, TypeOK
  <2> QED BY <1>1, <1>2, <1>3, <2>1 DEF Inv, Pending, Resting, NoWrite
<1> QED BY <1>4, <1>5, <1>6, <1>7, <1>8 DEF Inv

LEMMA StepInv == Inv /\ [Next]_vars => Inv'
<1> SUFFICES ASSUME Inv, [Next]_vars PROVE Inv' OBVIOUS
<1>1. CASE UNCHANGED vars
  BY <1>1 DEF vars, Inv, TypeOK, Ages, Carried, Pending, Resting, Missed, Dark, Busy
<1>2. ASSUME NEW c \in Readers,
           Answer(c) \/ AnswerBulk(c) \/ Check(c) \/ GiveUp(c) \/ Insert(c)
      PROVE  Inv'
  BY <1>2, AnswerInv, AnswerBulkInv, CheckInv, GiveUpInv, InsertInv
<1>3. ASSUME NEW w \in Writers, NEW op \in Ops, Commit(w, op) \/ Refuse(w, op) PROVE Inv'
  BY <1>3, CommitInv, RefuseInv
<1>4. ASSUME NEW w \in Writers, CommitMore(w) \/ Finish(w) \/ Abort(w) PROVE Inv'
  BY <1>4, CommitMoreInv, FinishInv, AbortInv
<1>5. ASSUME NEW r \in Replicas, NEW limited \in BOOLEAN, StoreLimit(r, limited) PROVE Inv'
  BY <1>5, StoreLimitInv
<1>6. ASSUME NEW r \in Replicas, ClearAll(r) \/ Evict(r) PROVE Inv'
  BY <1>6, ClearAllInv, EvictInv
<1>7. CASE Tick BY <1>7, TickInv
<1> QED BY <1>1, <1>2, <1>3, <1>4, <1>5, <1>6, <1>7 DEF Next

----------------------------------------------------------------------------
LEMMA InvHolds == Spec => []Inv
BY InitInv, StepInv, PTL DEF Spec

(* Every replica's cache, every read and every write is always what the    *)
(* code's types allow, and a cache that does not hold the key holds        *)
(* nothing.                                                                *)
THEOREM TypeCorrect == Spec => []TypeOK
<1>1. Inv => TypeOK BY DEF Inv
<1> QED BY <1>1, InvHolds, PTL

(* The staleness window, for every cache, any number of replicas and any   *)
(* interleaving of fills, writes, dropped requests and limit changes.      *)
THEOREM StalenessIsBounded == Spec => []BoundedStaleness
<1>1. Inv => BoundedStaleness
  BY Types, CacheAssumptions DEF Inv, Ages, BoundedStaleness, Servable, Copies
<1> QED BY <1>1, InvHolds, PTL

(* No answer that lay in a cache while the cache was on outlives the end   *)
(* of a write of the same replica that superseded it, the Consumer list    *)
(* aside: every operation of the table clears every cache it changes the   *)
(* answers of.  An answer that a read still carried when the write ended   *)
(* is not covered: it is put in the cache afterwards and served.           *)
THEOREM WritesAreSeen == Spec => []OwnWritesSeen
<1>1. Inv => OwnWritesSeen BY DEF Inv, Missed, OwnWritesSeen
<1> QED BY <1>1, InvHolds, PTL

(* Nothing an off cache kept is served once it is on again, the effective  *)
(* roles aside.                                                            *)
THEOREM OffAndOnIsClean == Spec => []OffAndOnAgain
<1>1. Inv => OffAndOnAgain BY DEF Inv, Dark, OffAndOnAgain, Servable
<1> QED BY <1>1, InvHolds, PTL
=============================================================================
