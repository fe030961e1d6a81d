---------------------------- MODULE RoleGrants ----------------------------
(***************************************************************************)
(* Who holds which role: grants to users and to groups in the database,    *)
(* checked and written by administrative requests, and the group that a    *)
(* starting process maps for the administrators of the directory           *)
(* (authz.rs, directory_roles.rs, middleware.rs).                          *)
(*                                                                         *)
(* A request first becomes an Actor: the caller's directory groups, then   *)
(* the stored roles, then the roles the directory groups confer.  The      *)
(* handler then checks and writes, each at an await of its own, while      *)
(* other requests and starting processes move in between.  A request whose *)
(* caller goes away ends at any of these steps.  What it asks for is       *)
(* chosen where it first matters.                                          *)
(*                                                                         *)
(* Abstractions.  The directory may answer anything, so the cache of its   *)
(* answers is not kept.  The repository's own read cache is                *)
(* CachedRepository; it is off here.  Native groups have no names: nothing *)
(* is decided on them, and renaming one is left out.  A deleted account    *)
(* does not come back.  Maintainer scopes, audit rows and API tokens are   *)
(* left out.                                                               *)
(***************************************************************************)
EXTENDS Naturals

CONSTANTS
  Users,     \* accounts, by name
  Roots,     \* SANSHAIN_ROOT_USERS
  First,     \* INITIAL_ADMIN_USERNAME
  Dns,       \* groups of the directory, by DN
  AdminDn,   \* admin_group of the LDAP configuration
  Calls,     \* administrative requests in flight
  Requests,  \* what they ask: [by, op, who, roles]
  Boots,     \* processes that start
  MaxGroups  \* bound on the groups ever created

Roles == {"admin", "user_manager", "viewer", "releaser"}  \* GLOBALLY_GRANTABLE

\* ADMIN_GUARDED
Guarded == {"admin", "releaser"}

UserOps   == {"grant_user_role", "revoke_user_role", "delete_user"}
MemberOps == {"add_group_member", "remove_group_member"}
GroupOps  == MemberOps \cup {"set_group_roles", "delete_group"}
OtherOps  == {"create_native_group", "add_directory_group", "delete_all_non_admin_users"}

RequestType == [by : Users, op : UserOps \cup GroupOps \cup OtherOps,
                who : Users, roles : SUBSET Roles]

ASSUME GrantsAssumption ==
  /\ First \in Users
  /\ AdminDn \in Dns
  /\ Dns \cap {"free", "native", "gone"} = {}
  /\ Requests \subseteq RequestType
  /\ MaxGroups \in Nat

Groups == 1 .. MaxGroups

VARIABLES
  accounts,    \* the rows of users
  userRoles,   \* userRoles[u]: user_roles
  groups,      \* groups[g]: "free", "native", the DN of a directory group, or "gone"
  groupRoles,  \* groupRoles[g]: user_group_roles
  members,     \* members[g]: user_group_members
  call,        \* call[c]: the local variables of request c
  boot,        \* boot[b]: the local variables of migrate_admin_group in process b
  booted,      \* history: some migrate_admin_group came to its end
  halfway,     \* history: one ended between its two writes
  shaped       \* history: an operator has mapped, changed or deleted the admin group

rows == <<accounts, userRoles, groups, groupRoles, members>>
starts == <<boot, booted, halfway>>
vars == <<rows, call, starts, shaped>>

Idle == [step |-> "idle"]
Nothing == [op |-> "nothing"]
CallType == {Idle} \cup
  [step : {"asking", "stored", "conferred", "resolved", "checked",
           "members_gone", "roles_gone"},
   by : Users, dns : SUBSET Dns, roles : SUBSET Roles,
   req : {Nothing} \cup Requests, group : {0} \cup Groups, seen : SUBSET Guarded]

Off == [step |-> "off", group |-> 0]
BootType == [step : {"off", "listed", "created"}, group : {0} \cup Groups]

TypeOK ==
  /\ accounts \subseteq Users
  /\ userRoles \in [Users -> SUBSET Roles]
  /\ groups \in [Groups -> {"free", "native", "gone"} \cup Dns]
  /\ groupRoles \in [Groups -> SUBSET Roles]
  /\ members \in [Groups -> SUBSET Users]
  /\ call \in [Calls -> CallType]
  /\ boot \in [Boots -> BootType]
  /\ {booted, halfway, shaped} \subseteq BOOLEAN

\* A fresh installation: ensure_initial_admin has granted admin to the first account.
Init ==
  /\ accounts = Users
  /\ userRoles = [u \in Users |-> IF u = First THEN {"admin"} ELSE {}]
  /\ groups = [g \in Groups |-> "free"]
  /\ groupRoles = [g \in Groups |-> {}]
  /\ members = [g \in Groups |-> {}]
  /\ call = [c \in Calls |-> Idle]
  /\ boot = [b \in Boots |-> Off]
  /\ booted = FALSE /\ halfway = FALSE /\ shaped = FALSE

----------------------------------------------------------------------------
(* The tables. *)

Live(g) == groups[g] \notin {"free", "gone"}

\* A directory group of this name is in list_groups.  Spellings that differ in
\* case alone are left out: add_directory_group takes them for one name,
\* migrate_admin_group and the unique index do not.
Mapped(dn) == \E g \in Groups : groups[g] = dn

\* AUTOINCREMENT: an id is never used again.
Fresh(g) == groups[g] = "free" /\ \A h \in 1 .. g - 1 : groups[h] # "free"

\* effective_stored_roles
Stored(u) == userRoles[u] \cup UNION {groupRoles[g] : g \in {h \in Groups : u \in members[h]}}

\* roles_from_directory
Conferred(dns) == UNION {groupRoles[g] : g \in {h \in Groups : groups[h] \in dns}}

\* Deleting accounts, with the cascades to their grants and memberships.
DeleteAccounts(us) ==
  /\ accounts' = accounts \ us
  /\ userRoles' = [u \in Users |-> IF u \in us THEN {} ELSE userRoles[u]]
  /\ members' = [g \in Groups |-> members[g] \ us]
  /\ UNCHANGED <<groups, groupRoles>>

----------------------------------------------------------------------------
(* From a request to an Actor. *)

Go(c, step) == call' = [call EXCEPT ![c].step = step]
End(c) == call' = [call EXCEPT ![c] = Idle]
By(c) == call[c].by

Arrive(c, u) ==
  /\ call[c] = Idle
  /\ u \in accounts
  /\ call' = [call EXCEPT ![c] = [step |-> "asking", by |-> u, dns |-> {}, roles |-> {},
                                  req |-> Nothing, group |-> 0, seen |-> {}]]
  /\ UNCHANGED <<rows, starts, shaped>>

\* directory_groups_for: what the directory says, or said when it was last
\* asked; nothing while it does not answer.
AskDirectory(c) ==
  /\ call[c].step = "asking"
  /\ \E dns \in SUBSET Dns : call' = [call EXCEPT ![c].dns = dns, ![c].step = "stored"]
  /\ UNCHANGED <<rows, starts, shaped>>

ReadStored(c) ==
  /\ call[c].step = "stored"
  /\ call' = [call EXCEPT ![c].roles = Stored(By(c)), ![c].step = "conferred"]
  /\ UNCHANGED <<rows, starts, shaped>>

ReadConferred(c) ==
  /\ call[c].step = "conferred"
  /\ call' = [call EXCEPT ![c].roles = @ \cup Conferred(call[c].dns),
                          ![c].dns = {}, ![c].step = "resolved"]
  /\ UNCHANGED <<rows, starts, shaped>>

----------------------------------------------------------------------------
(* The handlers. *)

IsAdmin(c) == By(c) \in Roots \/ "admin" \in call[c].roles

\* The permission of the route: run_destructive_operations is admin's alone,
\* manage_users and manage_roles are user_manager's too.
Permitted(c, op) ==
  \/ IsAdmin(c)
  \/ "user_manager" \in call[c].roles /\ op # "delete_all_non_admin_users"

\* Request r of c reaches its handler, which is one of ops.
Handling(c, r, ops) ==
  /\ call[c].step = "resolved"
  /\ r.by = By(c) /\ r.op \in ops
  /\ Permitted(c, r.op)

Writing(c, op) == call[c].step = "checked" /\ call[c].req.op = op

\* require_admin_for_guarded_roles
MayTouch(c, roles) == roles \cap Guarded = {} \/ IsAdmin(c)

\* A grant to an account that is gone fails its foreign key.
GrantUserRole(c, r) ==
  /\ Handling(c, r, {"grant_user_role"})
  /\ userRoles' = IF MayTouch(c, r.roles) /\ r.who \in accounts
                  THEN [userRoles EXCEPT ![r.who] = @ \cup r.roles] ELSE userRoles
  /\ End(c)
  /\ UNCHANGED <<accounts, groups, groupRoles, members, starts, shaped>>

RevokeUserRole(c, r) ==
  /\ Handling(c, r, {"revoke_user_role"})
  /\ userRoles' = IF MayTouch(c, r.roles)
                  THEN [userRoles EXCEPT ![r.who] = @ \ r.roles] ELSE userRoles
  /\ End(c)
  /\ UNCHANGED <<accounts, groups, groupRoles, members, starts, shaped>>

Check(c, r, g, roles, seen) ==
  IF MayTouch(c, roles)
  THEN call' = [call EXCEPT ![c] = [@ EXCEPT !.step = "checked", !.req = r, !.group = g,
                                             !.seen = seen \cap Guarded]]
  ELSE End(c)

\* require_admin_to_delete_user
CheckUser(c, r) ==
  /\ Handling(c, r, {"delete_user"})
  /\ Check(c, r, 0, IF r.who \in Roots \cap accounts THEN {"admin"} ELSE Stored(r.who),
           Stored(r.who))
  /\ UNCHANGED <<rows, starts, shaped>>

DeleteUser(c) ==
  /\ Writing(c, "delete_user")
  /\ DeleteAccounts({call[c].req.who})
  /\ End(c)
  /\ UNCHANGED <<starts, shaped>>

DeleteAllNonAdminUsers(c, r) ==
  /\ Handling(c, r, {"delete_all_non_admin_users"})
  /\ DeleteAccounts({u \in accounts \ Roots : "admin" \notin Stored(u)})
  /\ End(c)
  /\ UNCHANGED <<starts, shaped>>

CreateNativeGroup(c, r) ==
  /\ Handling(c, r, {"create_native_group"})
  /\ \E g \in Groups : Fresh(g) /\ groups' = [groups EXCEPT ![g] = "native"]
  /\ End(c)
  /\ UNCHANGED <<accounts, userRoles, groupRoles, members, starts, shaped>>

\* One that is mapped already is answered as it is.
AddDirectoryGroup(c, r, dn) ==
  /\ Handling(c, r, {"add_directory_group"})
  /\ \/ Mapped(dn) /\ UNCHANGED <<groups, shaped>>
     \/ /\ ~Mapped(dn)
        /\ \E g \in Groups : Fresh(g) /\ groups' = [groups EXCEPT ![g] = dn]
        /\ shaped' = (shaped \/ dn = AdminDn)
  /\ End(c)
  /\ UNCHANGED <<accounts, userRoles, groupRoles, members, starts>>

\* Mutant: joining or leaving a group is not a role change.
TouchedUnlessMember(r, g) ==
  IF r.op = "set_group_roles" THEN (groupRoles[g] \ r.roles) \cup (r.roles \ groupRoles[g])
  ELSE IF r.op \in MemberOps THEN {} ELSE groupRoles[g]

\* What a request would change of a group: the difference for set_group_roles,
\* otherwise all it confers (require_admin_for_guarded_group).
Touched(r, g) ==
  IF r.op = "set_group_roles" THEN (groupRoles[g] \ r.roles) \cup (r.roles \ groupRoles[g])
  ELSE groupRoles[g]

\* require_group, require_native_group; delete_group takes any id.
Acceptable(op, g) ==
  \/ op \in MemberOps /\ groups[g] = "native"
  \/ op = "set_group_roles" /\ Live(g)
  \/ op = "delete_group" /\ groups[g] # "free"

CheckGroup(c, r, g) ==
  /\ Handling(c, r, GroupOps)
  /\ Acceptable(r.op, g)
  /\ Check(c, r, g, Touched(r, g), groupRoles[g])
  /\ UNCHANGED <<rows, starts, shaped>>

Shapes(c) == shaped' = (shaped \/ groups[call[c].group] = AdminDn)

\* The rows of a group that is gone fail their foreign key.
SetGroupRoles(c) ==
  /\ Writing(c, "set_group_roles")
  /\ LET g == call[c].group
     IN  groupRoles' = IF Live(g) THEN [groupRoles EXCEPT ![g] = call[c].req.roles]
                       ELSE groupRoles
  /\ Shapes(c)
  /\ End(c)
  /\ UNCHANGED <<accounts, userRoles, groups, members, starts>>

AddGroupMember(c) ==
  /\ Writing(c, "add_group_member")
  /\ LET g == call[c].group
         who == call[c].req.who
     IN  members' = IF Live(g) /\ who \in accounts
                    THEN [members EXCEPT ![g] = @ \cup {who}] ELSE members
  /\ End(c)
  /\ UNCHANGED <<accounts, userRoles, groups, groupRoles, starts, shaped>>

RemoveGroupMember(c) ==
  /\ Writing(c, "remove_group_member")
  /\ members' = [members EXCEPT ![call[c].group] = @ \ {call[c].req.who}]
  /\ End(c)
  /\ UNCHANGED <<accounts, userRoles, groups, groupRoles, starts, shaped>>

\* delete_group is three statements without a transaction.
DeleteGroupMembers(c) ==
  /\ Writing(c, "delete_group")
  /\ members' = [members EXCEPT ![call[c].group] = {}]
  /\ Shapes(c)
  /\ Go(c, "members_gone")
  /\ UNCHANGED <<accounts, userRoles, groups, groupRoles, starts>>

DeleteGroupRoles(c) ==
  /\ call[c].step = "members_gone"
  /\ groupRoles' = [groupRoles EXCEPT ![call[c].group] = {}]
  /\ Go(c, "roles_gone")
  /\ UNCHANGED <<accounts, userRoles, groups, members, starts, shaped>>

\* The cascade takes what was added since.
DeleteGroup(c) ==
  /\ call[c].step = "roles_gone"
  /\ groups' = [groups EXCEPT ![call[c].group] = "gone"]
  /\ groupRoles' = [groupRoles EXCEPT ![call[c].group] = {}]
  /\ members' = [members EXCEPT ![call[c].group] = {}]
  /\ End(c)
  /\ UNCHANGED <<accounts, userRoles, starts, shaped>>

\* The caller goes away, or a query fails.
Abandon(c) ==
  /\ call[c] # Idle
  /\ End(c)
  /\ UNCHANGED <<rows, starts, shaped>>

----------------------------------------------------------------------------
(* migrate_admin_group, at a start and after each change of the LDAP       *)
(* configuration.                                                          *)

\* Mutant: the source of a group is not looked at.
AlreadyMappedBySomeName == \E g \in Groups : Live(g)

AlreadyMapped == Mapped(AdminDn)

MigrateLooks(b) ==
  /\ boot[b] = Off
  /\ \/ AlreadyMapped /\ booted' = TRUE /\ UNCHANGED boot
     \/ /\ ~AlreadyMapped
        /\ boot' = [boot EXCEPT ![b].step = "listed"]
        /\ UNCHANGED booted
  /\ UNCHANGED <<rows, call, halfway, shaped>>

\* create_group answers the group that is there by now, if any.
MigrateCreates(b) ==
  /\ boot[b].step = "listed"
  /\ \E g \in Groups :
       /\ groups[g] = AdminDn \/ (~Mapped(AdminDn) /\ Fresh(g))
       /\ groups' = [groups EXCEPT ![g] = AdminDn]
       /\ boot' = [boot EXCEPT ![b] = [step |-> "created", group |-> g]]
  /\ UNCHANGED <<accounts, userRoles, groupRoles, members, call, booted,
                 halfway, shaped>>

MigrateSets(b) ==
  /\ boot[b].step = "created"
  /\ groupRoles' = IF Live(boot[b].group)
                   THEN [groupRoles EXCEPT ![boot[b].group] = {"admin"}] ELSE groupRoles
  /\ boot' = [boot EXCEPT ![b] = Off]
  /\ booted' = TRUE
  /\ UNCHANGED <<accounts, userRoles, groups, members, call, halfway, shaped>>

\* The process stops, or a query fails: a start goes on without it.
MigrateEnds(b) ==
  /\ boot[b] # Off
  /\ boot' = [boot EXCEPT ![b] = Off]
  /\ halfway' = (halfway \/ boot[b].step = "created")
  /\ UNCHANGED <<rows, call, booted, shaped>>

----------------------------------------------------------------------------
Resolution(c) ==
  \/ \E u \in Users : Arrive(c, u)
  \/ AskDirectory(c) \/ ReadStored(c) \/ ReadConferred(c)

Handler(c) ==
  \/ \E r \in Requests :
       \/ GrantUserRole(c, r) \/ RevokeUserRole(c, r) \/ CheckUser(c, r)
       \/ DeleteAllNonAdminUsers(c, r) \/ CreateNativeGroup(c, r)
       \/ \E dn \in Dns : AddDirectoryGroup(c, r, dn)
       \/ \E g \in Groups : CheckGroup(c, r, g)
  \/ DeleteUser(c) \/ SetGroupRoles(c) \/ AddGroupMember(c) \/ RemoveGroupMember(c)
  \/ DeleteGroupMembers(c) \/ DeleteGroupRoles(c) \/ DeleteGroup(c)

Migration(b) == MigrateLooks(b) \/ MigrateCreates(b) \/ MigrateSets(b) \/ MigrateEnds(b)

Next ==
  \/ \E c \in Calls : Resolution(c) \/ Handler(c) \/ Abandon(c)
  \/ \E b \in Boots : Migration(b)

Spec == Init /\ [][Next]_vars

----------------------------------------------------------------------------
(* Properties. *)

\* The value a check of c rests on, as it is now.
Checked(c) == IF call[c].req.op = "delete_user" THEN Stored(call[c].req.who)
              ELSE groupRoles[call[c].group]

\* c has resolved its caller as an administrator, or what it checked has been
\* changed by another request since.
Entitled(c) ==
  /\ call[c].step \in {"resolved", "checked", "members_gone", "roles_gone"}
  /\ \/ IsAdmin(c)
     \/ call[c].step # "resolved" /\ call[c].seen # Checked(c) \cap Guarded

\* A guarded role reaches or leaves a user, or a directory group, only by a
\* request of an administrator, by a member's joining or leaving a group whose
\* guarded roles another request has changed since the check, or, for the
\* admin group, by the carry-over: there is no way around the check through
\* groups, bulk deletion or the replacement of a group's roles.
GuardedNeedsAdmin ==
  [][/\ \A u \in Users : Stored(u) \cap Guarded # Stored(u)' \cap Guarded =>
          \E c \in Calls : call'[c] # call[c] /\ Entitled(c)
     /\ \A dn \in Dns : Conferred({dn}) \cap Guarded # Conferred({dn})' \cap Guarded =>
          \/ \E c \in Calls : call'[c] # call[c] /\ Entitled(c)
          \/ dn = AdminDn /\ \E b \in Boots : boot'[b] # boot[b]]_vars

\* After a start the configured admin group confers admin, however starts and
\* operators interleave, unless an operator has had a hand in it or a start
\* ended between the group and its role.
CarriedOver ==
  (\A b \in Boots : boot[b] = Off) /\ booted /\ ~halfway /\ ~shaped =>
    \E g \in Groups : groups[g] = AdminDn /\ "admin" \in groupRoles[g]
=============================================================================
