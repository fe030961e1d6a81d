------------------------- MODULE RoleGrantsProofs -------------------------
(***************************************************************************)
(* Proofs about RoleGrants, for any accounts, directory groups, requests   *)
(* and starting processes.                                                 *)
(***************************************************************************)
EXTENDS RoleGrants, TLAPS

Deciding == {"checked", "members_gone", "roles_gone"}

\* A request past its check knows what it will write, and to which group.
Knows(c) ==
  call[c].step \in Deciding =>
    /\ call[c].req \in Requests
    /\ call[c].req.op \in {"delete_user"} \cup GroupOps
    /\ call[c].req.op # "delete_user" =>
         call[c].group \in Groups /\ groups[call[c].group] # "free"
    /\ call[c].req.op \in MemberOps => groups[call[c].group] \in {"native", "gone"}
    /\ call[c].step # "checked" => call[c].req.op = "delete_group"

CallsKnow == \A c \in Calls : Knows(c)

\* Only an administrator gets past the check with guarded roles in question.
Holds(c) ==
  call[c].step \in Deciding =>
    \/ IsAdmin(c)
    \/ call[c].req.op = "set_group_roles" /\ call[c].req.roles \cap Guarded = call[c].seen
    \/ call[c].req.op # "set_group_roles" /\ call[c].seen = {}

ChecksHold == \A c \in Calls : Holds(c)

\* Only native groups have stored members, only live ones roles.
TablesFit ==
  \A g \in Groups :
    /\ members[g] # {} => groups[g] = "native"
    /\ groups[g] \in {"free", "gone"} => groupRoles[g] = {}

StartsKnow ==
  \A b \in Boots : boot[b].step = "created" =>
    boot[b].group \in Groups /\ groups[boot[b].group] \in {AdminDn, "gone"}

\* An operator's deletion of the admin group is known from its first statement.
Shaping(c) ==
  call[c].step \in {"members_gone", "roles_gone"} /\ groups[call[c].group] = AdminDn => shaped

DeletionIsShaping == \A c \in Calls : Shaping(c)

Created(b, g) == boot[b].step = "created" /\ boot[b].group = g

\* While no operator touches it, the admin group has its role or a start that
\* is about to give it.
CarriedOn ==
  ~halfway /\ ~shaped =>
    /\ booted => Mapped(AdminDn)
    /\ \A g \in Groups : groups[g] = AdminDn =>
         "admin" \in groupRoles[g] \/ \E b \in Boots : Created(b, g)
    /\ \A b \in Boots : boot[b].step = "created" => groups[boot[b].group] = AdminDn

Inv ==
  /\ TypeOK /\ CallsKnow /\ ChecksHold /\ TablesFit
  /\ StartsKnow /\ DeletionIsShaping /\ CarriedOn

----------------------------------------------------------------------------
(* Types. *)

\* Idle, Off and the grants of a fresh installation have their types.
LEMMA InitType ==
  ASSUME Init
  PROVE  TypeOK
<1>1. call \in [Calls -> CallType] /\ boot \in [Boots -> BootType]
  BY DEF Init, CallType, BootType, Idle, Off
<1>2. /\ accounts \subseteq Users
      /\ userRoles \in [Users -> SUBSET Roles]
      /\ groups \in [Groups -> {"free", "native", "gone"} \cup Dns]
  BY DEF Init, Roles
<1>3. /\ groupRoles \in [Groups -> SUBSET Roles]
      /\ members \in [Groups -> SUBSET Users]
  BY DEF Init
<1>4. booted \in BOOLEAN /\ halfway \in BOOLEAN /\ shaped \in BOOLEAN
  BY DEF Init
<1>5. QED
  BY <1>1, <1>2, <1>3, <1>4 DEF TypeOK

\* Moving a request on, or ending it, keeps the type of its local variables.
LEMMA CallTyped ==
  ASSUME TypeOK, NEW c \in Calls
  PROVE  /\ End(c) => call' \in [Calls -> CallType]
         /\ \A step \in {"members_gone", "roles_gone"} :
              call[c] # Idle /\ Go(c, step) => call' \in [Calls -> CallType]
         /\ \A r \in Requests, g \in {0} \cup Groups : \A roles, seen :
              call[c].step = "resolved" /\ Check(c, r, g, roles, seen) => call' \in [Calls -> CallType]
<1>1. call[c] \in CallType
  BY DEF TypeOK
<1>2. End(c) => call' \in [Calls -> CallType]
  BY DEF End, TypeOK, CallType
<1>3. ASSUME NEW step \in {"members_gone", "roles_gone"}, call[c] # Idle, Go(c, step)
      PROVE  call' \in [Calls -> CallType]
  BY <1>1, <1>3 DEF Go, TypeOK, CallType
<1>4. ASSUME NEW r \in Requests, NEW g \in {0} \cup Groups, NEW roles, NEW seen,
             call[c].step = "resolved", Check(c, r, g, roles, seen)
      PROVE  call' \in [Calls -> CallType]
  <2>1. call[c] # Idle
    BY <1>4 DEF Idle
  <2> DEFINE new == [call[c] EXCEPT !.step = "checked", !.req = r, !.group = g,
                                    !.seen = seen \cap Guarded]
  <2>2. new \in CallType
    BY <1>1, <1>4, <2>1 DEF CallType
  <2>3. call' = [call EXCEPT ![c] = new] \/ End(c)
    BY <1>4 DEF Check
  <2> HIDE DEF new
  <2>4. QED
    BY <1>2, <2>2, <2>3 DEF TypeOK
<1>5. QED
  BY <1>2, <1>3, <1>4

\* Deleting accounts keeps the types of the rows.
LEMMA DeletedTyped ==
  ASSUME TypeOK, NEW us, DeleteAccounts(us)
  PROVE  /\ accounts' \subseteq Users
         /\ userRoles' \in [Users -> SUBSET Roles]
         /\ members' \in [Groups -> SUBSET Users]
         /\ groups' = groups /\ groupRoles' = groupRoles
  BY DEF TypeOK, DeleteAccounts

LEMMA ResolutionType ==
  ASSUME TypeOK, NEW c \in Calls, Resolution(c)
  PROVE  TypeOK'
<1>1. call[c] \in CallType
  BY DEF TypeOK
<1>2. UNCHANGED <<rows, starts, shaped>>
  BY DEF Resolution, Arrive, AskDirectory, ReadStored, ReadConferred
<1>3. call' \in [Calls -> CallType]
  <2>1. ASSUME NEW u \in Users, Arrive(c, u)
        PROVE  call' \in [Calls -> CallType]
    BY <2>1 DEF Arrive, TypeOK, CallType
  <2>2. ASSUME AskDirectory(c)
        PROVE  call' \in [Calls -> CallType]
    <3>1. PICK dns \in SUBSET Dns : call' = [call EXCEPT ![c].dns = dns, ![c].step = "stored"]
      BY <2>2 DEF AskDirectory
    <3>2. call[c] # Idle
      BY <2>2 DEF AskDirectory, Idle
    <3>3. QED
      BY <1>1, <3>1, <3>2 DEF TypeOK, CallType
  <2>3. ASSUME ReadStored(c)
        PROVE  call' \in [Calls -> CallType]
    <3>1. call[c] # Idle /\ By(c) \in Users
      BY <1>1, <2>3 DEF ReadStored, Idle, CallType, By
    <3>2. Stored(By(c)) \in SUBSET Roles
      BY <3>1 DEF Stored, TypeOK
    <3> HIDE DEF Stored
    <3>3. QED
      BY <1>1, <2>3, <3>1, <3>2 DEF ReadStored, TypeOK, CallType
  <2>4. ASSUME ReadConferred(c)
        PROVE  call' \in [Calls -> CallType]
    <3>1. call[c] # Idle
      BY <2>4 DEF ReadConferred, Idle
    <3>2. Conferred(call[c].dns) \in SUBSET Roles
      BY DEF Conferred, TypeOK
    <3> HIDE DEF Conferred
    <3>3. QED
      BY <1>1, <2>4, <3>1, <3>2 DEF ReadConferred, TypeOK, CallType
  <2>5. QED
    BY <2>1, <2>2, <2>3, <2>4 DEF Resolution
<1>4. QED
  BY <1>2, <1>3 DEF TypeOK, rows, starts

LEMMA HandlerType ==
  ASSUME TypeOK, CallsKnow, NEW c \in Calls, Handler(c)
  PROVE  TypeOK'
<1> USE GrantsAssumption
<1>1. CASE \E r \in Requests : GrantUserRole(c, r) \/ RevokeUserRole(c, r)
  <2>1. PICK r \in Requests : GrantUserRole(c, r) \/ RevokeUserRole(c, r)
    BY <1>1
  <2>2. r.who \in Users /\ r.roles \subseteq Roles
    BY DEF RequestType
  <2>3. userRoles' \in [Users -> SUBSET Roles]
    BY <2>1, <2>2 DEF GrantUserRole, RevokeUserRole, TypeOK
  <2>4. QED
    BY <2>1, <2>3, CallTyped DEF GrantUserRole, RevokeUserRole, TypeOK, starts
<1>2. CASE \E r \in Requests : CheckUser(c, r) \/ \E g \in Groups : CheckGroup(c, r, g)
  BY <1>2, CallTyped DEF CheckUser, CheckGroup, Handling, TypeOK, rows, starts
<1>3. CASE DeleteUser(c) \/ \E r \in Requests : DeleteAllNonAdminUsers(c, r)
  <2>1. \E us : DeleteAccounts(us)
    BY <1>3 DEF DeleteUser, DeleteAllNonAdminUsers
  <2>2. End(c) /\ UNCHANGED <<starts, shaped>>
    BY <1>3 DEF DeleteUser, DeleteAllNonAdminUsers
  <2>3. QED
    BY <2>1, <2>2, CallTyped, DeletedTyped DEF TypeOK, starts
<1>4. CASE \E r \in Requests : CreateNativeGroup(c, r) \/ \E dn \in Dns : AddDirectoryGroup(c, r, dn)
  <2>1. groups' \in [Groups -> {"free", "native", "gone"} \cup Dns]
    BY <1>4 DEF CreateNativeGroup, AddDirectoryGroup, TypeOK
  <2>2. shaped' \in BOOLEAN
    BY <1>4 DEF CreateNativeGroup, AddDirectoryGroup, TypeOK
  <2>3. QED
    BY <1>4, <2>1, <2>2, CallTyped DEF CreateNativeGroup, AddDirectoryGroup, TypeOK, starts
<1>5. CASE SetGroupRoles(c)
  <2>1. call[c].req \in Requests
    BY <1>5 DEF SetGroupRoles, Writing, CallsKnow, Knows, Deciding
  <2>2. call[c].req.roles \subseteq Roles
    BY <2>1 DEF RequestType
  <2>3. groupRoles' \in [Groups -> SUBSET Roles]
    BY <1>5, <2>2 DEF SetGroupRoles, TypeOK
  <2>4. QED
    BY <1>5, <2>3, CallTyped DEF SetGroupRoles, Shapes, TypeOK, starts
<1>6. CASE AddGroupMember(c) \/ RemoveGroupMember(c)
  <2>1. call[c].req \in Requests
    BY <1>6 DEF AddGroupMember, RemoveGroupMember, Writing, CallsKnow, Knows, Deciding
  <2>2. call[c].req.who \in Users
    BY <2>1 DEF RequestType
  <2>3. members' \in [Groups -> SUBSET Users]
    BY <1>6, <2>2 DEF AddGroupMember, RemoveGroupMember, TypeOK
  <2>4. QED
    BY <1>6, <2>3, CallTyped DEF AddGroupMember, RemoveGroupMember, TypeOK, starts
<1>7. CASE DeleteGroupMembers(c) \/ DeleteGroupRoles(c) \/ DeleteGroup(c)
  <2>1. call[c] # Idle
    BY <1>7 DEF DeleteGroupMembers, DeleteGroupRoles, DeleteGroup, Writing, Idle
  <2>2. call' \in [Calls -> CallType]
    BY <1>7, <2>1, CallTyped DEF DeleteGroupMembers, DeleteGroupRoles, DeleteGroup
  <2>3. /\ groups' \in [Groups -> {"free", "native", "gone"} \cup Dns]
        /\ groupRoles' \in [Groups -> SUBSET Roles]
        /\ members' \in [Groups -> SUBSET Users]
        /\ shaped' \in BOOLEAN
    BY <1>7 DEF DeleteGroupMembers, DeleteGroupRoles, DeleteGroup, Shapes, TypeOK
  <2>4. QED
    BY <1>7, <2>2, <2>3 DEF DeleteGroupMembers, DeleteGroupRoles, DeleteGroup, TypeOK, starts
<1>8. QED
  BY <1>1, <1>2, <1>3, <1>4, <1>5, <1>6, <1>7 DEF Handler

LEMMA MigrationType ==
  ASSUME TypeOK, NEW b \in Boots, Migration(b)
  PROVE  TypeOK'
<1> USE GrantsAssumption
<1>1. boot' \in [Boots -> BootType]
  BY DEF Migration, MigrateLooks, MigrateCreates, MigrateSets, MigrateEnds, TypeOK, BootType, Off
<1>2. groups' \in [Groups -> {"free", "native", "gone"} \cup Dns]
  BY DEF Migration, MigrateLooks, MigrateCreates, MigrateSets, MigrateEnds, TypeOK, rows
<1>3. groupRoles' \in [Groups -> SUBSET Roles]
  BY DEF Migration, MigrateLooks, MigrateCreates, MigrateSets, MigrateEnds, TypeOK, rows, Roles
<1>4. booted' \in BOOLEAN /\ halfway' \in BOOLEAN
  BY DEF Migration, MigrateLooks, MigrateCreates, MigrateSets, MigrateEnds, TypeOK
<1>5. UNCHANGED <<accounts, userRoles, members, call, shaped>>
  BY DEF Migration, MigrateLooks, MigrateCreates, MigrateSets, MigrateEnds, rows
<1>6. QED
  BY <1>1, <1>2, <1>3, <1>4, <1>5 DEF TypeOK

----------------------------------------------------------------------------
(* The invariant. *)

\* A request that is not at a handler's step, or is ended, satisfies whatever
\* is said of requests past their check.
LEMMA InitInv == Init => Inv
<1> SUFFICES ASSUME Init PROVE Inv
  OBVIOUS
<1>1. /\ \A c \in Calls : call[c].step = "idle"
      /\ \A b \in Boots : boot[b].step = "off"
      /\ \A g \in Groups : groups[g] = "free" /\ groupRoles[g] = {} /\ members[g] = {}
  BY DEF Init, Idle, Off
<1>2. booted = FALSE
  BY DEF Init
<1>3. AdminDn # "free"
  BY GrantsAssumption
<1>4. QED
  BY <1>1, <1>2, <1>3, InitType
     DEF Inv, CallsKnow, Knows, ChecksHold, Holds, TablesFit, StartsKnow, DeletionIsShaping,
         Shaping, CarriedOn, Deciding

\* Resolving a caller changes no row, a handler no start, a start no request.
LEMMA Frames ==
  /\ \A c \in Calls : Resolution(c) \/ Abandon(c) => UNCHANGED <<rows, starts, shaped>>
  /\ \A c \in Calls : Handler(c) => UNCHANGED starts
  /\ \A b \in Boots : Migration(b) => UNCHANGED <<accounts, userRoles, members, call, shaped>>
<1>1. ASSUME NEW c \in Calls, Resolution(c) \/ Abandon(c)
      PROVE  UNCHANGED <<rows, starts, shaped>>
  BY <1>1 DEF Resolution, Abandon, Arrive, AskDirectory, ReadStored, ReadConferred
<1>2. ASSUME NEW c \in Calls, Handler(c)
      PROVE  UNCHANGED starts
  BY <1>2 DEF Handler, GrantUserRole, RevokeUserRole, CheckUser, CheckGroup, DeleteUser,
       DeleteAllNonAdminUsers, CreateNativeGroup, AddDirectoryGroup, SetGroupRoles, starts,
       AddGroupMember, RemoveGroupMember, DeleteGroupMembers, DeleteGroupRoles, DeleteGroup
<1>3. ASSUME NEW b \in Boots, Migration(b)
      PROVE  UNCHANGED <<accounts, userRoles, members, call, shaped>>
  BY <1>3 DEF Migration, MigrateLooks, MigrateCreates, MigrateSets, MigrateEnds, rows
<1>4. QED
  BY <1>1, <1>2, <1>3

\* Groups come into being once, keep what they are, and go.
Steady == \A g \in Groups : groups[g] # "free" => groups'[g] \in {groups[g], "gone"}

LEMMA GroupsAreSteady ==
  ASSUME Inv, [Next]_vars
  PROVE  Steady /\ (shaped => shaped')
<1> USE GrantsAssumption
<1>1. groups \in [Groups -> {"free", "native", "gone"} \cup Dns]
  BY DEF Inv, TypeOK
<1> DEFINE Moved == \/ groups' = groups
                    \/ \E g \in Groups : groups[g] = "free" /\ \E x : groups' = [groups EXCEPT ![g] = x]
                    \/ \E g \in Groups : groups[g] = AdminDn /\ groups' = [groups EXCEPT ![g] = AdminDn]
                    \/ \E g : groups' = [groups EXCEPT ![g] = "gone"]
<1>2. Moved /\ (shaped => shaped')
  <2>1. ASSUME NEW c \in Calls, Resolution(c) \/ Abandon(c)
        PROVE  groups' = groups /\ shaped' = shaped
    BY <2>1, Frames DEF rows
  <2>2. ASSUME NEW c \in Calls, Handler(c)
        PROVE  Moved /\ (shaped => shaped')
    <3>1. CASE \E r \in Requests : CreateNativeGroup(c, r) \/ \E dn \in Dns : AddDirectoryGroup(c, r, dn)
      <4>1. groups' = groups \/ \E g \in Groups : \E x : Fresh(g) /\ groups' = [groups EXCEPT ![g] = x]
        BY <3>1 DEF CreateNativeGroup, AddDirectoryGroup
      <4>2. Moved
        BY <4>1 DEF Fresh
      <4>3. shaped => shaped'
        BY <3>1 DEF CreateNativeGroup, AddDirectoryGroup
      <4>4. QED
        BY <4>2, <4>3
    <3>2. CASE DeleteGroup(c)
      BY <3>2 DEF DeleteGroup
    <3>3. CASE \/ \E r \in Requests : \/ GrantUserRole(c, r) \/ RevokeUserRole(c, r) \/ CheckUser(c, r)
                                      \/ DeleteAllNonAdminUsers(c, r)
                                      \/ \E g \in Groups : CheckGroup(c, r, g)
               \/ DeleteUser(c) \/ SetGroupRoles(c) \/ AddGroupMember(c) \/ RemoveGroupMember(c)
               \/ DeleteGroupMembers(c) \/ DeleteGroupRoles(c)
      <4>1. groups' = groups
        BY <3>3 DEF GrantUserRole, RevokeUserRole, CheckUser, CheckGroup, DeleteUser,
             DeleteAllNonAdminUsers, DeleteAccounts, SetGroupRoles, AddGroupMember,
             RemoveGroupMember, DeleteGroupMembers, DeleteGroupRoles, rows
      <4>2. shaped => shaped'
        BY <3>3 DEF GrantUserRole, RevokeUserRole, CheckUser, CheckGroup, DeleteUser,
             DeleteAllNonAdminUsers, SetGroupRoles, AddGroupMember, Shapes,
             RemoveGroupMember, DeleteGroupMembers, DeleteGroupRoles
      <4>3. QED
        BY <4>1, <4>2
    <3>4. QED
      BY <2>2, <3>1, <3>2, <3>3 DEF Handler
  <2>3. ASSUME NEW b \in Boots, Migration(b)
        PROVE  Moved /\ (shaped => shaped')
    BY <2>3 DEF Migration, MigrateLooks, MigrateCreates, MigrateSets, MigrateEnds, Fresh, rows
  <2>4. CASE UNCHANGED vars
    BY <2>4 DEF vars, rows
  <2>5. QED
    BY <2>1, <2>2, <2>3, <2>4 DEF Next
<1>3. QED
  BY <1>1, <1>2 DEF Steady

\* What is said of a request stays true while it does not move itself.
LEMMA OthersKeep ==
  ASSUME Steady, shaped => shaped', NEW c \in Calls, call'[c] = call[c], Knows(c), Holds(c),
         Shaping(c)
  PROVE  Knows(c)' /\ Holds(c)' /\ Shaping(c)'
<1>1. Knows(c)'
  BY DEF Knows, Steady, MemberOps
<1>2. Holds(c)'
  BY DEF Holds, IsAdmin, By
<1>3. Shaping(c)'
  <2> SUFFICES ASSUME call[c].step \in {"members_gone", "roles_gone"},
                      groups'[call[c].group] = AdminDn
               PROVE  shaped'
    BY DEF Shaping
  <2>1. call[c].group \in Groups /\ groups[call[c].group] # "free"
    BY DEF Knows, Deciding
  <2>2. groups[call[c].group] = AdminDn
    BY <2>1, GrantsAssumption DEF Steady
  <2>3. QED
    BY <2>2 DEF Shaping
<1>4. QED
  BY <1>1, <1>2, <1>3

\* A request that has ended, or has not decided, satisfies it.
LEMMA IdleKeeps ==
  ASSUME NEW c \in Calls, call'[c].step \notin Deciding
  PROVE  Knows(c)' /\ Holds(c)' /\ Shaping(c)'
  BY DEF Knows, Holds, Shaping, Deciding

\* The check lets only administrators through with guarded roles in question.
LEMMA ChecksAreRight ==
  ASSUME Inv, NEW c \in Calls, NEW r \in Requests,
         CheckUser(c, r) \/ \E g \in Groups : CheckGroup(c, r, g)
  PROVE  Knows(c)' /\ Holds(c)' /\ Shaping(c)'
<1>1. call \in [Calls -> CallType] /\ call[c].step = "resolved" /\ call[c] \in CallType
  BY DEF Inv, TypeOK, CheckUser, CheckGroup, Handling
<1>2. call[c] # Idle
  BY <1>1 DEF Idle
<1>3. groups' = groups
  BY DEF CheckUser, CheckGroup, rows
<1>4. ASSUME NEW g, NEW roles, NEW seen, Check(c, r, g, roles, seen)
      PROVE  \/ call'[c].step = "idle"
             \/ /\ MayTouch(c, roles)
                /\ call'[c].step = "checked" /\ call'[c].req = r /\ call'[c].group = g
                /\ call'[c].seen = seen \cap Guarded /\ IsAdmin(c)' = IsAdmin(c)
  <2> DEFINE new == [call[c] EXCEPT !.step = "checked", !.req = r, !.group = g,
                                    !.seen = seen \cap Guarded]
  <2>1. /\ new.step = "checked" /\ new.req = r /\ new.group = g /\ new.seen = seen \cap Guarded
        /\ new.by = call[c].by /\ new.roles = call[c].roles
    BY <1>1, <1>2 DEF CallType
  <2>2. \/ call' = [call EXCEPT ![c] = Idle]
        \/ MayTouch(c, roles) /\ call' = [call EXCEPT ![c] = new]
    BY <1>4 DEF Check, End
  <2> HIDE DEF new
  <2>3. QED
    BY <1>1, <2>1, <2>2 DEF Idle, IsAdmin, By
<1>5. CASE call'[c].step = "idle"
  BY <1>5, IdleKeeps DEF Deciding
<1>6. CASE CheckUser(c, r)
  <2> DEFINE roles == IF r.who \in Roots \cap accounts THEN {"admin"} ELSE Stored(r.who)
  <2>1. Check(c, r, 0, roles, Stored(r.who)) /\ r.op = "delete_user"
    BY <1>6 DEF CheckUser, Handling
  <2>2. SUFFICES ASSUME MayTouch(c, roles), call'[c].step = "checked", call'[c].req = r,
                        call'[c].seen = Stored(r.who) \cap Guarded, IsAdmin(c)' = IsAdmin(c)
                 PROVE  Knows(c)' /\ Holds(c)' /\ Shaping(c)'
    BY <1>4, <1>5, <2>1
  <2>3. Knows(c)'
    BY <2>1, <2>2 DEF Knows, GroupOps, MemberOps
  <2>4. ~IsAdmin(c) => roles \cap Guarded = {} /\ roles = Stored(r.who)
    BY <2>2 DEF MayTouch, Guarded
  <2>5. Holds(c)'
    BY <2>1, <2>2, <2>4 DEF Holds
  <2>6. QED
    BY <2>2, <2>3, <2>5 DEF Shaping
<1>7. CASE \E g \in Groups : CheckGroup(c, r, g)
  <2>1. PICK g \in Groups : CheckGroup(c, r, g)
    BY <1>7
  <2>2. Check(c, r, g, Touched(r, g), groupRoles[g]) /\ r.op \in GroupOps /\ Acceptable(r.op, g)
    BY <2>1 DEF CheckGroup, Handling
  <2>3. SUFFICES ASSUME MayTouch(c, Touched(r, g)), call'[c].step = "checked", call'[c].req = r,
                        call'[c].group = g, call'[c].seen = groupRoles[g] \cap Guarded,
                        IsAdmin(c)' = IsAdmin(c)
                 PROVE  Knows(c)' /\ Holds(c)' /\ Shaping(c)'
    BY <1>4, <1>5, <2>2
  <2>4. Knows(c)'
    BY <1>3, <2>2, <2>3 DEF Knows, GroupOps, MemberOps, Acceptable, Live
  <2>5. ~IsAdmin(c) => Touched(r, g) \cap Guarded = {}
    BY <2>3 DEF MayTouch
  <2>6. Holds(c)'
    BY <2>2, <2>3, <2>5 DEF Holds, Touched
  <2>7. QED
    BY <2>3, <2>4, <2>6 DEF Shaping
<1>8. QED
  BY <1>6, <1>7

\* A request that goes on from its check to a deletion keeps what it knows.
LEMMA DeletionsGoOn ==
  ASSUME Inv, NEW c \in Calls, NEW step \in {"members_gone", "roles_gone"},
         call[c].step \in Deciding, call[c].req.op = "delete_group", Go(c, step), groups' = groups,
         groups[call[c].group] = AdminDn => shaped'
  PROVE  Knows(c)' /\ Holds(c)' /\ Shaping(c)'
<1>1. call[c] \in CallType /\ call[c] # Idle /\ call \in [Calls -> CallType]
  BY DEF Inv, TypeOK, Deciding, Idle
<1> DEFINE new == [call[c] EXCEPT !.step = step]
<1>2. /\ new.step = step /\ new.req = call[c].req /\ new.group = call[c].group
      /\ new.seen = call[c].seen /\ new.by = call[c].by /\ new.roles = call[c].roles
  BY <1>1 DEF CallType
<1>3. call'[c] = new
  BY <1>1 DEF Go
<1> HIDE DEF new
<1>4. Knows(c) /\ Holds(c)
  BY DEF Inv, CallsKnow, ChecksHold
<1>5. Knows(c)'
  BY <1>2, <1>3, <1>4 DEF Knows, MemberOps
<1>6. Holds(c)'
  BY <1>2, <1>3, <1>4 DEF Holds, IsAdmin, By
<1>7. QED
  BY <1>2, <1>3, <1>5, <1>6 DEF Shaping

\* Whatever a request does, it knows what it checked.
LEMMA MoverKeeps ==
  ASSUME Inv, NEW c \in Calls, Resolution(c) \/ Handler(c) \/ Abandon(c)
  PROVE  /\ Knows(c)' /\ Holds(c)' /\ Shaping(c)'
         /\ \A d \in Calls \ {c} : call'[d] = call[d]
<1>1. call \in [Calls -> CallType]
  BY DEF Inv, TypeOK
<1>2. ASSUME End(c)
      PROVE  call'[c].step = "idle" /\ \A d \in Calls \ {c} : call'[d] = call[d]
  BY <1>1, <1>2 DEF End, Idle
<1>3. CASE End(c)
  BY <1>2, <1>3, IdleKeeps DEF Deciding
<1>4. CASE Resolution(c)
  <2>1. \E new \in CallType : new.step \in {"asking", "stored", "conferred", "resolved"}
                           /\ call' = [call EXCEPT ![c] = new]
    <3>1. call' \in [Calls -> CallType]
      BY <1>4, ResolutionType DEF Inv, TypeOK
    <3>2. call' = [call EXCEPT ![c] = call'[c]]
      <4>1. CASE \E u \in Users : Arrive(c, u)
        BY <1>1, <3>1, <4>1 DEF Arrive
      <4>2. CASE AskDirectory(c)
        BY <1>1, <3>1, <4>2 DEF AskDirectory
      <4>3. CASE ReadStored(c)
        BY <1>1, <3>1, <4>3 DEF ReadStored
      <4>4. CASE ReadConferred(c)
        BY <1>1, <3>1, <4>4 DEF ReadConferred
      <4>5. QED
        BY <1>4, <4>1, <4>2, <4>3, <4>4 DEF Resolution
    <3>3. call'[c].step \in {"asking", "stored", "conferred", "resolved"}
      <4>1. CASE \E u \in Users : Arrive(c, u)
        BY <1>1, <4>1 DEF Arrive
      <4>3. CASE AskDirectory(c)
        <5>1. PICK dns \in SUBSET Dns : call' = [call EXCEPT ![c].dns = dns, ![c].step = "stored"]
          BY <4>3 DEF AskDirectory
        <5>2. call[c] # Idle /\ call[c] \in CallType
          BY <1>1, <4>3 DEF AskDirectory, Idle
        <5>3. QED
          BY <1>1, <5>1, <5>2 DEF CallType
      <4>4. CASE ReadStored(c)
        <5>1. call[c] # Idle /\ call[c] \in CallType
          BY <1>1, <4>4 DEF ReadStored, Idle
        <5>2. QED
          BY <1>1, <4>4, <5>1 DEF ReadStored, CallType
      <4>5. CASE ReadConferred(c)
        <5>1. call[c] # Idle /\ call[c] \in CallType
          BY <1>1, <4>5 DEF ReadConferred, Idle
        <5>2. QED
          BY <1>1, <4>5, <5>1 DEF ReadConferred, CallType
      <4>6. QED
        BY <1>4, <4>1, <4>3, <4>4, <4>5 DEF Resolution
    <3>4. QED
      BY <3>1, <3>2, <3>3
  <2>2. /\ \A d \in Calls \ {c} : call'[d] = call[d]
        /\ call'[c].step \in {"asking", "stored", "conferred", "resolved"}
    BY <1>1, <2>1
  <2>3. QED
    BY <2>2, IdleKeeps DEF Deciding
<1>5. CASE \E r \in Requests : CheckUser(c, r) \/ \E g \in Groups : CheckGroup(c, r, g)
  <2>1. \A d \in Calls \ {c} : call'[d] = call[d]
    <3>1. \E x : call' = [call EXCEPT ![c] = x]
      <4>1. \E r, g, roles, seen : Check(c, r, g, roles, seen)
        BY <1>5 DEF CheckUser, CheckGroup
      <4>2. QED
        BY <4>1 DEF Check, End
    <3>2. QED
      BY <1>1, <3>1
  <2>2. QED
    BY <1>5, <2>1, ChecksAreRight
<1>6. CASE DeleteGroupMembers(c)
  <2>1. \A d \in Calls \ {c} : call'[d] = call[d]
    BY <1>1, <1>6 DEF DeleteGroupMembers, Go
  <2>2. QED
    BY <1>6, <2>1, DeletionsGoOn DEF DeleteGroupMembers, Writing, Deciding, Shapes
<1>7. CASE DeleteGroupRoles(c)
  <2>1. \A d \in Calls \ {c} : call'[d] = call[d]
    BY <1>1, <1>7 DEF DeleteGroupRoles, Go
  <2>2. call[c].req.op = "delete_group" /\ (groups[call[c].group] = AdminDn => shaped)
    BY <1>7 DEF DeleteGroupRoles, Inv, CallsKnow, Knows, DeletionIsShaping, Shaping, Deciding
  <2>3. QED
    BY <1>7, <2>1, <2>2, DeletionsGoOn DEF DeleteGroupRoles, Deciding
<1>8. QED
  BY <1>3, <1>4, <1>5, <1>6, <1>7
     DEF Handler, Abandon, GrantUserRole, RevokeUserRole, DeleteUser, DeleteAllNonAdminUsers,
         CreateNativeGroup, AddDirectoryGroup, SetGroupRoles, AddGroupMember, RemoveGroupMember,
         DeleteGroup

LEMMA CallsStep ==
  ASSUME Inv, [Next]_vars
  PROVE  CallsKnow' /\ ChecksHold' /\ DeletionIsShaping'
<1>1. Steady /\ (shaped => shaped')
  BY GroupsAreSteady
<1>2. \A c \in Calls : Knows(c) /\ Holds(c) /\ Shaping(c)
  BY DEF Inv, CallsKnow, ChecksHold, DeletionIsShaping
<1>3. \A c \in Calls : Knows(c)' /\ Holds(c)' /\ Shaping(c)'
  <2>1. CASE \E c \in Calls : Resolution(c) \/ Handler(c) \/ Abandon(c)
    <3>1. PICK c \in Calls : Resolution(c) \/ Handler(c) \/ Abandon(c)
      BY <2>1
    <3>2. Knows(c)' /\ Holds(c)' /\ Shaping(c)' /\ \A d \in Calls \ {c} : call'[d] = call[d]
      BY <3>1, MoverKeeps
    <3>3. TAKE d \in Calls
    <3>4. CASE d = c
      BY <3>2, <3>4
    <3>5. CASE d # c
      BY <1>1, <1>2, <3>2, <3>5, OthersKeep
    <3>6. QED
      BY <3>4, <3>5
  <2>2. CASE call' = call
    BY <1>1, <1>2, <2>2, OthersKeep
  <2>3. QED
    BY <2>1, <2>2, Frames DEF Next, vars
<1>4. QED
  BY <1>3 DEF CallsKnow, ChecksHold, DeletionIsShaping

----------------------------------------------------------------------------
(* The tables. *)

\* Joining a group needs a native one, a role a live one, and a group that goes
\* takes both with it.
LEMMA TablesStep ==
  ASSUME Inv, [Next]_vars
  PROVE  TablesFit'
<1> USE GrantsAssumption
<1>1. TypeOK /\ TablesFit /\ CallsKnow
  BY DEF Inv
<1>2. ASSUME UNCHANGED <<groups, groupRoles, members>>
      PROVE  TablesFit'
  BY <1>1, <1>2 DEF TablesFit
<1>3. ASSUME groups' = groups, groupRoles' = groupRoles,
             \A g \in Groups : members'[g] \subseteq members[g]
      PROVE  TablesFit'
  BY <1>1, <1>3 DEF TablesFit
<1>4. ASSUME members' = members, groupRoles' = groupRoles, NEW g \in Groups, Fresh(g),
             NEW x, groups' = [groups EXCEPT ![g] = x]
      PROVE  TablesFit'
  BY <1>1, <1>4 DEF TablesFit, Fresh, TypeOK
<1>5. ASSUME NEW c \in Calls, Handler(c)
      PROVE  TablesFit'
  <2>1. CASE DeleteUser(c) \/ \E r \in Requests : DeleteAllNonAdminUsers(c, r)
    <3>1. \E us : DeleteAccounts(us)
      BY <2>1 DEF DeleteUser, DeleteAllNonAdminUsers
    <3>2. QED
      BY <1>1, <1>3, <3>1 DEF DeleteAccounts, TypeOK
  <2>2. CASE \E r \in Requests : CreateNativeGroup(c, r) \/ \E dn \in Dns : AddDirectoryGroup(c, r, dn)
    <3>1. /\ members' = members /\ groupRoles' = groupRoles
          /\ \/ groups' = groups
             \/ \E g \in Groups : \E x : Fresh(g) /\ groups' = [groups EXCEPT ![g] = x]
      BY <2>2 DEF CreateNativeGroup, AddDirectoryGroup
    <3>2. QED
      BY <1>2, <1>4, <3>1
  <2>3. CASE SetGroupRoles(c)
    BY <1>1, <2>3 DEF SetGroupRoles, TablesFit, Live, TypeOK
  <2>4. CASE AddGroupMember(c)
    <3>1. /\ call[c].group \in Groups
          /\ Live(call[c].group) => groups[call[c].group] = "native"
      BY <1>1, <2>4
         DEF AddGroupMember, Writing, CallsKnow, Knows, Deciding, MemberOps, Live
    <3>2. QED
      BY <1>1, <2>4, <3>1 DEF AddGroupMember, TablesFit, TypeOK
  <2>5. CASE RemoveGroupMember(c) \/ DeleteGroupMembers(c)
    BY <1>1, <1>3, <2>5 DEF RemoveGroupMember, DeleteGroupMembers, TypeOK
  <2>6. CASE DeleteGroupRoles(c)
    BY <1>1, <2>6 DEF DeleteGroupRoles, TablesFit, TypeOK
  <2>7. CASE DeleteGroup(c)
    BY <1>1, <2>7 DEF DeleteGroup, TablesFit, TypeOK
  <2>8. CASE \E r \in Requests : \/ GrantUserRole(c, r) \/ RevokeUserRole(c, r) \/ CheckUser(c, r)
                                 \/ \E g \in Groups : CheckGroup(c, r, g)
    BY <1>2, <2>8 DEF GrantUserRole, RevokeUserRole, CheckUser, CheckGroup, rows
  <2>9. QED
    BY <1>5, <2>1, <2>2, <2>3, <2>4, <2>5, <2>6, <2>7, <2>8 DEF Handler
<1>6. ASSUME NEW b \in Boots, Migration(b)
      PROVE  TablesFit'
  <2>1. CASE MigrateLooks(b) \/ MigrateEnds(b)
    BY <1>2, <2>1 DEF MigrateLooks, MigrateEnds, rows
  <2>2. CASE MigrateCreates(b)
    <3>1. PICK g \in Groups : /\ groups[g] = AdminDn \/ Fresh(g)
                              /\ groups' = [groups EXCEPT ![g] = AdminDn]
      BY <2>2 DEF MigrateCreates
    <3>2. members' = members /\ groupRoles' = groupRoles
      BY <2>2 DEF MigrateCreates
    <3>3. CASE groups[g] = AdminDn
      BY <1>1, <1>2, <3>1, <3>2, <3>3 DEF TypeOK
    <3>4. QED
      BY <1>4, <3>1, <3>2, <3>3
  <2>3. CASE MigrateSets(b)
    BY <1>1, <2>3 DEF MigrateSets, TablesFit, Live, TypeOK
  <2>4. QED
    BY <1>6, <2>1, <2>2, <2>3 DEF Migration
<1>7. QED
  <2>1. CASE UNCHANGED vars
    BY <1>2, <2>1 DEF vars, rows
  <2>2. CASE \E c \in Calls : Resolution(c) \/ Abandon(c)
    <3>1. UNCHANGED rows
      BY <2>2, Frames
    <3>2. QED
      BY <1>2, <3>1 DEF rows
  <2>3. QED
    BY <1>5, <1>6, <2>1, <2>2 DEF Next

LEMMA StartsStep ==
  ASSUME Inv, [Next]_vars
  PROVE  StartsKnow'
<1> USE GrantsAssumption
<1>1. Steady
  BY GroupsAreSteady
<1>2. StartsKnow /\ TypeOK
  BY DEF Inv
<1>3. CASE boot' = boot
  BY <1>1, <1>2, <1>3 DEF StartsKnow, Steady
<1>4. ASSUME NEW b \in Boots, MigrateCreates(b)
      PROVE  StartsKnow'
  <2>1. PICK g \in Groups : /\ groups' = [groups EXCEPT ![g] = AdminDn]
                            /\ boot' = [boot EXCEPT ![b] = [step |-> "created", group |-> g]]
    BY <1>4 DEF MigrateCreates
  <2>2. groups'[g] = AdminDn
    BY <1>2, <2>1 DEF TypeOK
  <2>3. QED
    BY <1>1, <1>2, <2>1, <2>2 DEF StartsKnow, Steady, TypeOK
<1>5. ASSUME NEW b \in Boots, MigrateLooks(b) \/ MigrateSets(b) \/ MigrateEnds(b)
      PROVE  StartsKnow'
  <2>1. /\ boot'[b].step = "created" => boot'[b] = boot[b]
        /\ \A a \in Boots \ {b} : boot'[a] = boot[a]
    BY <1>2, <1>5 DEF MigrateLooks, MigrateSets, MigrateEnds, Off, TypeOK, BootType
  <2>2. QED
    BY <1>1, <1>2, <2>1 DEF StartsKnow, Steady
<1>6. QED
  <2>1. CASE \E c \in Calls : Resolution(c) \/ Handler(c) \/ Abandon(c)
    <3>1. UNCHANGED starts
      BY <2>1, Frames
    <3>2. QED
      BY <1>3, <3>1 DEF starts
  <2>2. CASE \E b \in Boots : Migration(b)
    BY <1>4, <1>5, <2>2 DEF Migration
  <2>3. CASE UNCHANGED vars
    BY <1>3, <2>3 DEF vars, starts
  <2>4. QED
    BY <2>1, <2>2, <2>3 DEF Next

\* The carry-over: nothing but an operator, or a start that ends half way, comes
\* between the admin group and its role.
LEMMA CarryStep ==
  ASSUME Inv, [Next]_vars
  PROVE  CarriedOn'
<1> USE GrantsAssumption
<1>1. TypeOK /\ CarriedOn /\ CallsKnow /\ DeletionIsShaping /\ StartsKnow
  BY DEF Inv
<1>2. AdminDn \notin {"free", "native", "gone"}
  OBVIOUS
<1> DEFINE Steps == /\ shaped' = shaped /\ UNCHANGED starts
                    /\ \A g \in Groups : groups[g] = AdminDn \/ groups'[g] = AdminDn =>
                         groups'[g] = groups[g] /\ groupRoles'[g] = groupRoles[g]
\* A step that leaves the admin group alone.
<1>3. ASSUME shaped' \/ Steps
      PROVE  CarriedOn'
  <2>1. CASE shaped'
    BY <2>1 DEF CarriedOn
  <2>2. CASE Steps
    <3>1. Mapped(AdminDn) => Mapped(AdminDn)'
      BY <2>2 DEF Mapped
    <3>2. \A b \in Boots : boot[b].step = "created" => boot[b].group \in Groups
      BY <1>1 DEF StartsKnow
    <3>3. QED
      BY <1>1, <2>2, <3>1, <3>2 DEF CarriedOn, Created, starts
  <2>3. QED
    BY <1>3, <2>1, <2>2
<1>4. ASSUME UNCHANGED <<groups, groupRoles, starts, shaped>>
      PROVE  CarriedOn'
  BY <1>3, <1>4
<1>5. ASSUME NEW c \in Calls, Handler(c)
      PROVE  CarriedOn'
  <2>0. UNCHANGED starts
    BY <1>5, Frames
  <2>1. CASE \/ \E r \in Requests : \/ GrantUserRole(c, r) \/ RevokeUserRole(c, r) \/ CheckUser(c, r)
                                    \/ DeleteAllNonAdminUsers(c, r)
                                    \/ \E g \in Groups : CheckGroup(c, r, g)
             \/ DeleteUser(c) \/ AddGroupMember(c) \/ RemoveGroupMember(c)
    <3>1. UNCHANGED <<groups, groupRoles, shaped>>
      BY <2>1 DEF GrantUserRole, RevokeUserRole, CheckUser, CheckGroup, DeleteUser, DeleteAccounts,
           DeleteAllNonAdminUsers, AddGroupMember, RemoveGroupMember, rows
    <3>2. QED
      BY <1>4, <2>0, <3>1
  <2>2. CASE \E r \in Requests : CreateNativeGroup(c, r)
    <3>1. PICK g \in Groups : Fresh(g) /\ groups' = [groups EXCEPT ![g] = "native"]
      BY <2>2 DEF CreateNativeGroup
    <3>2. groupRoles' = groupRoles /\ shaped' = shaped
      BY <2>2 DEF CreateNativeGroup
    <3>3. Steps
      BY <1>1, <1>2, <2>0, <3>1, <3>2 DEF Fresh, TypeOK
    <3>4. QED
      BY <1>3, <3>3
  <2>3. CASE \E r \in Requests, dn \in Dns : AddDirectoryGroup(c, r, dn)
    <3>1. PICK dn \in Dns : \/ UNCHANGED <<groups, shaped>>
                            \/ /\ \E g \in Groups : Fresh(g) /\ groups' = [groups EXCEPT ![g] = dn]
                               /\ shaped' = (shaped \/ dn = AdminDn)
      BY <2>3 DEF AddDirectoryGroup
    <3>2. groupRoles' = groupRoles
      BY <2>3 DEF AddDirectoryGroup
    <3>3. CASE UNCHANGED <<groups, shaped>>
      BY <1>4, <2>0, <3>2, <3>3
    <3>4. CASE dn # AdminDn /\ shaped' = (shaped \/ dn = AdminDn)
               /\ \E g \in Groups : Fresh(g) /\ groups' = [groups EXCEPT ![g] = dn]
      <4>1. shaped' = shaped
        BY <1>1, <3>4 DEF TypeOK
      <4>2. Steps
        BY <1>1, <1>2, <2>0, <3>2, <3>4, <4>1 DEF Fresh, TypeOK
      <4>3. QED
        BY <1>3, <4>2
    <3>5. QED
      BY <1>3, <3>1, <3>3, <3>4
  <2>4. CASE SetGroupRoles(c) \/ DeleteGroupMembers(c)
    <3>1. CASE groups[call[c].group] = AdminDn
      BY <1>3, <2>4, <3>1 DEF SetGroupRoles, DeleteGroupMembers, Shapes
    <3>2. CASE groups[call[c].group] # AdminDn
      <4>1. shaped' = shaped
        BY <1>1, <2>4, <3>2 DEF SetGroupRoles, DeleteGroupMembers, Shapes, TypeOK
      <4>2. Steps
        BY <1>1, <2>0, <2>4, <3>2, <4>1 DEF SetGroupRoles, DeleteGroupMembers, TypeOK
      <4>3. QED
        BY <1>3, <4>2
    <3>3. QED
      BY <3>1, <3>2
  <2>5. CASE DeleteGroupRoles(c) \/ DeleteGroup(c)
    <3>1. shaped' = shaped /\ (groups[call[c].group] = AdminDn => shaped)
      BY <1>1, <2>5 DEF DeleteGroupRoles, DeleteGroup, DeletionIsShaping, Shaping
    <3>2. CASE groups[call[c].group] # AdminDn
      <4>1. Steps
        BY <1>1, <1>2, <2>0, <2>5, <3>1, <3>2 DEF DeleteGroupRoles, DeleteGroup, TypeOK
      <4>2. QED
        BY <1>3, <4>1
    <3>3. QED
      BY <1>3, <3>1, <3>2
  <2>6. QED
    BY <1>5, <2>1, <2>2, <2>3, <2>4, <2>5 DEF Handler
<1>6. ASSUME NEW b \in Boots, Migration(b)
      PROVE  CarriedOn'
  <2>0. shaped' = shaped
    BY <1>6, Frames
  <2>1. CASE MigrateLooks(b)
    <3>1. /\ UNCHANGED <<groups, groupRoles, halfway>>
          /\ booted' => booted \/ Mapped(AdminDn)
      BY <2>1 DEF MigrateLooks, AlreadyMapped, rows
    <3>2. /\ boot'[b].step # "created" /\ boot[b].step # "created"
          /\ \A a \in Boots \ {b} : boot'[a] = boot[a]
      BY <1>1, <2>1 DEF MigrateLooks, Off, TypeOK, BootType
    <3>3. QED
      BY <1>1, <2>0, <3>1, <3>2 DEF CarriedOn, Created, Mapped
  <2>2. CASE MigrateCreates(b)
    <3>1. PICK g \in Groups : /\ groups[g] = AdminDn \/ Fresh(g)
                              /\ groups' = [groups EXCEPT ![g] = AdminDn]
                              /\ boot' = [boot EXCEPT ![b] = [step |-> "created", group |-> g]]
      BY <2>2 DEF MigrateCreates
    <3>2. UNCHANGED <<groupRoles, halfway, booted>> /\ boot[b].step = "listed"
      BY <2>2 DEF MigrateCreates
    <3>3. /\ groups'[g] = AdminDn /\ \A h \in Groups \ {g} : groups'[h] = groups[h]
          /\ boot'[b] = [step |-> "created", group |-> g]
          /\ \A a \in Boots \ {b} : boot'[a] = boot[a]
      BY <1>1, <3>1 DEF TypeOK
    <3>4. Mapped(AdminDn)' /\ Created(b, g)'
      BY <3>3 DEF Mapped, Created
    <3>5. \A a \in Boots, h \in Groups : Created(a, h) => Created(a, h)'
      BY <3>2, <3>3 DEF Created
    <3>6. \A a \in Boots : boot[a].step = "created" => boot[a].group \in Groups
      BY <1>1 DEF StartsKnow
    <3>7. QED
      BY <1>1, <2>0, <3>2, <3>3, <3>4, <3>5, <3>6 DEF CarriedOn
  <2>3. CASE MigrateSets(b)
    <3> DEFINE g == boot[b].group
    <3>1. /\ groupRoles' = IF Live(g) THEN [groupRoles EXCEPT ![g] = {"admin"}] ELSE groupRoles
          /\ boot[b].step = "created" /\ UNCHANGED <<groups, halfway>>
      BY <2>3 DEF MigrateSets
    <3>2. boot'[b].step = "off" /\ \A a \in Boots \ {b} : boot'[a] = boot[a]
      BY <1>1, <2>3 DEF MigrateSets, Off, TypeOK
    <3>3. g \in Groups
      BY <1>1, <3>1 DEF StartsKnow
    <3> SUFFICES ASSUME ~halfway, ~shaped
                 PROVE  CarriedOn'
      BY <2>0, <3>1 DEF CarriedOn
    <3>4. groups[g] = AdminDn
      BY <1>1, <3>1 DEF CarriedOn
    <3> HIDE DEF g
    <3>5. /\ groupRoles'[g] = {"admin"}
          /\ \A h \in Groups \ {g} : groupRoles'[h] = groupRoles[h]
      BY <1>1, <1>2, <3>1, <3>3, <3>4 DEF Live, TypeOK
    <3>6. Mapped(AdminDn)'
      BY <3>1, <3>3, <3>4 DEF Mapped
    <3>7. \A h \in Groups : groups'[h] = AdminDn =>
            "admin" \in groupRoles'[h] \/ \E a \in Boots : Created(a, h)'
      <4>1. TAKE h \in Groups
      <4>2. SUFFICES ASSUME groups'[h] = AdminDn, h # g
                     PROVE  "admin" \in groupRoles'[h] \/ \E a \in Boots : Created(a, h)'
        BY <3>5
      <4>3. "admin" \in groupRoles[h] \/ \E a \in Boots : Created(a, h)
        BY <1>1, <3>1, <4>2 DEF CarriedOn
      <4>4. ~Created(b, h)
        BY <4>2 DEF Created, g
      <4>5. QED
        BY <3>2, <3>5, <4>2, <4>3, <4>4 DEF Created
    <3>8. \A a \in Boots : boot'[a].step = "created" => groups'[boot'[a].group] = AdminDn
      BY <1>1, <3>1, <3>2 DEF CarriedOn
    <3>9. QED
      BY <3>6, <3>7, <3>8 DEF CarriedOn
  <2>4. CASE MigrateEnds(b)
    <3>1. /\ UNCHANGED <<groups, groupRoles, booted>>
          /\ halfway' = (halfway \/ boot[b].step = "created")
      BY <2>4 DEF MigrateEnds, rows
    <3>2. boot'[b].step = "off" /\ \A a \in Boots \ {b} : boot'[a] = boot[a]
      BY <1>1, <2>4 DEF MigrateEnds, Off, TypeOK
    <3>3. CASE boot[b].step = "created"
      BY <3>1, <3>3 DEF CarriedOn
    <3>4. CASE boot[b].step # "created"
      <4>1. \A a \in Boots, h \in Groups : Created(a, h) => Created(a, h)'
        BY <3>2, <3>4 DEF Created
      <4>2. \A a \in Boots : boot'[a].step = "created" => boot'[a] = boot[a]
        BY <3>2
      <4>3. Mapped(AdminDn) = Mapped(AdminDn)'
        BY <3>1 DEF Mapped
      <4>4. halfway => halfway'
        BY <3>1
      <4>5. QED
        BY <1>1, <2>0, <3>1, <4>1, <4>2, <4>3, <4>4 DEF CarriedOn
    <3>5. QED
      BY <3>3, <3>4
  <2>5. QED
    BY <1>6, <2>1, <2>2, <2>3, <2>4 DEF Migration
<1>7. CASE UNCHANGED vars
  BY <1>4, <1>7 DEF vars, rows
<1>8. CASE \E c \in Calls : Resolution(c) \/ Abandon(c)
  <2>1. UNCHANGED <<rows, starts, shaped>>
    BY <1>8, Frames
  <2>2. QED
    BY <1>4, <2>1 DEF rows
<1>9. QED
  BY <1>5, <1>6, <1>7, <1>8 DEF Next

LEMMA TypeStep ==
  ASSUME Inv, [Next]_vars
  PROVE  TypeOK'
<1>1. TypeOK /\ CallsKnow
  BY DEF Inv
<1>2. CASE \E c \in Calls : Abandon(c)
  BY <1>1, <1>2, CallTyped DEF Abandon, TypeOK, rows, starts
<1>3. CASE UNCHANGED vars
  BY <1>1, <1>3 DEF TypeOK, vars, rows, starts
<1>4. QED
  BY <1>1, <1>2, <1>3, ResolutionType, HandlerType, MigrationType DEF Next

LEMMA InvStep == Inv /\ [Next]_vars => Inv'
<1> SUFFICES ASSUME Inv, [Next]_vars PROVE Inv'
  OBVIOUS
<1>1. QED
  BY TypeStep, CallsStep, TablesStep, StartsStep, CarryStep DEF Inv

THEOREM Invariance == Spec => []Inv
<1>1. QED
  BY InitInv, InvStep, PTL DEF Spec

\* Every variable keeps its type, for any accounts, groups, requests and starts.
THEOREM TypeCorrect == Spec => []TypeOK
<1>1. Inv => TypeOK
  BY DEF Inv
<1>2. QED
  BY <1>1, Invariance, PTL

\* However any number of starts interleave with each other and with requests, the
\* configured admin group confers admin once one of them has come to its end
\* (migrate_admin_group), provided that no start ended between the group and its
\* role and that no operator has had a hand in the group.  Without the first
\* proviso it is false: every later start takes the group for carried over.
THEOREM AdminsAreCarriedOver == Spec => []CarriedOver
<1>1. Inv => CarriedOver
  <2> SUFFICES ASSUME Inv, \A b \in Boots : boot[b] = Off, booted, ~halfway, ~shaped
               PROVE  \E g \in Groups : groups[g] = AdminDn /\ "admin" \in groupRoles[g]
    BY DEF CarriedOver
  <2>1. \A b \in Boots, g \in Groups : ~Created(b, g)
    BY DEF Created, Off
  <2>2. QED
    BY <2>1 DEF Inv, CarriedOn, Mapped
<1>2. QED
  BY <1>1, Invariance, PTL

----------------------------------------------------------------------------
(* Guarded roles. *)

LEMMA StoredIs ==
  \A u, role :
    /\ role \in Stored(u) <=>
         role \in userRoles[u] \/ \E g \in Groups : u \in members[g] /\ role \in groupRoles[g]
    /\ role \in Stored(u)' <=>
         role \in userRoles'[u] \/ \E g \in Groups : u \in members'[g] /\ role \in groupRoles'[g]
  BY DEF Stored

LEMMA ConferredIs ==
  \A dn, role :
    /\ role \in Conferred({dn}) <=>
         \E g \in Groups : groups[g] = dn /\ role \in groupRoles[g]
    /\ role \in Conferred({dn})' <=>
         \E g \in Groups : groups'[g] = dn /\ role \in groupRoles'[g]
  BY DEF Conferred

StoredStays == \A u \in Users : Stored(u) \cap Guarded = Stored(u)' \cap Guarded
ConferredStays(dn) == Conferred({dn}) \cap Guarded = Conferred({dn})' \cap Guarded

\* Grants through the tables stay when each row, or what a row stands for, does.
LEMMA RowsStay ==
  ASSUME \A u \in Users : userRoles'[u] \cap Guarded = userRoles[u] \cap Guarded,
         \A g \in Groups : \/ members'[g] = members[g]
                           \/ groupRoles[g] \cap Guarded = {},
         \A g \in Groups : \/ groupRoles'[g] \cap Guarded = groupRoles[g] \cap Guarded
                           \/ members[g] = {} /\ members'[g] = {}
  PROVE  StoredStays
<1> SUFFICES ASSUME NEW u \in Users, NEW role \in Guarded
             PROVE  role \in Stored(u) <=> role \in Stored(u)'
  BY DEF StoredStays
<1>1. \A g \in Groups : u \in members[g] /\ role \in groupRoles[g] <=>
                        u \in members'[g] /\ role \in groupRoles'[g]
  OBVIOUS
<1>2. QED
  BY <1>1, StoredIs

LEMMA MappingsStay ==
  ASSUME NEW dn, \A g \in Groups :
           /\ groupRoles[g] \cap Guarded = groupRoles'[g] \cap Guarded
           /\ \/ groups'[g] = dn <=> groups[g] = dn
              \/ groupRoles[g] \cap Guarded = {}
  PROVE  ConferredStays(dn)
<1> SUFFICES ASSUME NEW role \in Guarded
             PROVE  role \in Conferred({dn}) <=> role \in Conferred({dn})'
  BY DEF ConferredStays
<1>1. \A g \in Groups : groups[g] = dn /\ role \in groupRoles[g] <=>
                        groups'[g] = dn /\ role \in groupRoles'[g]
  OBVIOUS
<1>2. QED
  BY <1>1, ConferredIs

\* The accounts that go hold no guarded role, and nobody else loses one.
LEMMA DeletedStays ==
  ASSUME TypeOK, NEW us, DeleteAccounts(us), \A u \in us : Stored(u) \cap Guarded = {}
  PROVE  StoredStays /\ \A dn \in Dns : ConferredStays(dn)
<1>1. groups' = groups /\ groupRoles' = groupRoles
  BY DEF DeleteAccounts
<1>2. ASSUME NEW u \in Users, NEW role \in Guarded
      PROVE  role \in Stored(u) <=> role \in Stored(u)'
  <2>1. CASE u \in us
    <3>1. userRoles'[u] = {} /\ \A g \in Groups : u \notin members'[g]
      BY <2>1 DEF DeleteAccounts
    <3>2. role \notin Stored(u)
      BY <2>1
    <3>3. QED
      BY <3>1, <3>2, StoredIs
  <2>2. CASE u \notin us
    <3>1. userRoles'[u] = userRoles[u] /\ \A g \in Groups : u \in members'[g] <=> u \in members[g]
      BY <2>2 DEF DeleteAccounts
    <3>2. QED
      BY <1>1, <3>1, StoredIs
  <2>3. QED
    BY <2>1, <2>2
<1>3. \A dn \in Dns : ConferredStays(dn)
  BY <1>1, MappingsStay
<1>4. QED
  BY <1>2, <1>3 DEF StoredStays

\* A request that writes either is entitled to guarded roles or leaves them alone.
LEMMA WritesAreEntitled ==
  ASSUME Inv, NEW c \in Calls, Handler(c)
  PROVE  \/ call'[c] # call[c] /\ Entitled(c)
         \/ StoredStays /\ \A dn \in Dns : ConferredStays(dn)
<1> USE GrantsAssumption
<1> DEFINE Leaves == StoredStays /\ \A dn \in Dns : ConferredStays(dn)
<1>1. TypeOK /\ TablesFit /\ Knows(c) /\ Holds(c)
  BY DEF Inv, CallsKnow, ChecksHold
<1>2. ASSUME End(c), call[c] # Idle
      PROVE  call'[c] # call[c]
  BY <1>1, <1>2 DEF End, TypeOK
<1>3. ASSUME NEW step, Go(c, step), call[c].step # step, call[c] # Idle
      PROVE  call'[c] # call[c]
  <2>1. call[c] \in CallType
    BY <1>1 DEF TypeOK
  <2>2. call'[c].step = step
    BY <1>1, <1>3, <2>1 DEF Go, TypeOK, CallType
  <2>3. QED
    BY <1>3, <2>2
\* What is known of a request past its check that is not entitled.
<1>4. ASSUME call[c].step \in Deciding, ~Entitled(c)
      PROVE  /\ call[c].req.op = "delete_user" => Stored(call[c].req.who) \cap Guarded = {}
             /\ call[c].req.op = "set_group_roles" =>
                  call[c].req.roles \cap Guarded = groupRoles[call[c].group] \cap Guarded
             /\ call[c].req.op \notin {"delete_user", "set_group_roles"} =>
                  groupRoles[call[c].group] \cap Guarded = {}
  <2>1. ~IsAdmin(c) /\ call[c].seen = Checked(c) \cap Guarded
    BY <1>4 DEF Entitled, Deciding
  <2>2. QED
    BY <1>1, <1>4, <2>1 DEF Holds, Checked
<1>5. ASSUME UNCHANGED rows
      PROVE  Leaves
  BY <1>5, RowsStay, MappingsStay DEF rows
<1>6. CASE \E r \in Requests : GrantUserRole(c, r) \/ RevokeUserRole(c, r)
  <2>1. PICK r \in Requests : GrantUserRole(c, r) \/ RevokeUserRole(c, r)
    BY <1>6
  <2>2. call[c].step = "resolved" /\ End(c) /\ UNCHANGED <<groups, groupRoles, members>>
    BY <2>1 DEF GrantUserRole, RevokeUserRole, Handling
  <2>3. CASE IsAdmin(c)
    BY <1>2, <2>2, <2>3 DEF Entitled, Idle
  <2>4. CASE ~IsAdmin(c)
    <3>1. r.roles \cap Guarded = {} \/ userRoles' = userRoles
      BY <2>1, <2>4 DEF GrantUserRole, RevokeUserRole, MayTouch
    <3>2. \A u \in Users : userRoles'[u] \cap Guarded = userRoles[u] \cap Guarded
      BY <1>1, <2>1, <3>1 DEF GrantUserRole, RevokeUserRole, TypeOK
    <3>3. QED
      BY <2>2, <3>2, RowsStay, MappingsStay
  <2>5. QED
    BY <2>3, <2>4
<1>7. CASE \E r \in Requests : CheckUser(c, r) \/ \E g \in Groups : CheckGroup(c, r, g)
  <2>1. UNCHANGED rows
    BY <1>7 DEF CheckUser, CheckGroup
  <2>2. QED
    BY <1>5, <2>1
<1>8. CASE DeleteUser(c)
  <2>1. /\ call[c].step = "checked" /\ call[c].req.op = "delete_user" /\ End(c)
        /\ DeleteAccounts({call[c].req.who})
    BY <1>8 DEF DeleteUser, Writing
  <2>2. CASE Entitled(c)
    BY <1>2, <2>1, <2>2 DEF Idle
  <2>3. CASE ~Entitled(c)
    BY <1>1, <1>4, <2>1, <2>3, DeletedStays DEF Deciding
  <2>4. QED
    BY <2>2, <2>3
<1>9. CASE \E r \in Requests : DeleteAllNonAdminUsers(c, r)
  <2>1. call[c].step = "resolved" /\ End(c) /\ IsAdmin(c)
    BY <1>9 DEF DeleteAllNonAdminUsers, Handling, Permitted
  <2>2. QED
    BY <1>2, <2>1 DEF Entitled, Idle
<1>10. CASE \E r \in Requests : CreateNativeGroup(c, r) \/ \E dn \in Dns : AddDirectoryGroup(c, r, dn)
  <2>1. /\ UNCHANGED <<userRoles, groupRoles, members>>
        /\ \/ groups' = groups
           \/ \E g \in Groups : \E x : Fresh(g) /\ groups' = [groups EXCEPT ![g] = x]
    BY <1>10 DEF CreateNativeGroup, AddDirectoryGroup
  <2>2. \A g \in Groups : groups'[g] = groups[g] \/ groupRoles[g] = {}
    BY <1>1, <2>1 DEF TablesFit, Fresh, TypeOK
  <2>3. QED
    BY <2>1, <2>2, RowsStay, MappingsStay
<1>11. CASE \/ SetGroupRoles(c) \/ AddGroupMember(c) \/ RemoveGroupMember(c)
            \/ DeleteGroupMembers(c) \/ DeleteGroupRoles(c) \/ DeleteGroup(c)
  <2> DEFINE h == call[c].group
  <2>1. /\ call[c].step \in Deciding /\ call[c].req.op \in GroupOps /\ call[c].req.op # "delete_user"
        /\ \/ SetGroupRoles(c) /\ call[c].req.op = "set_group_roles"
           \/ ~SetGroupRoles(c) /\ call[c].req.op # "set_group_roles"
    BY <1>1, <1>11
       DEF SetGroupRoles, AddGroupMember, RemoveGroupMember, DeleteGroupMembers, DeleteGroupRoles,
           DeleteGroup, Writing, Deciding, Knows, GroupOps, MemberOps
  <2>2. h \in Groups
    BY <1>1, <2>1 DEF Knows
  <2>3. call'[c] # call[c]
    BY <1>2, <1>3, <1>11
       DEF SetGroupRoles, AddGroupMember, RemoveGroupMember, DeleteGroupMembers, DeleteGroupRoles,
           DeleteGroup, Writing, Idle
  <2> SUFFICES ASSUME ~Entitled(c)
               PROVE  Leaves
    BY <2>3
  <2>4. CASE SetGroupRoles(c)
    <3>1. call[c].req.roles \cap Guarded = groupRoles[h] \cap Guarded
      BY <1>4, <2>1, <2>4
    <3>2. \A g \in Groups : groupRoles'[g] \cap Guarded = groupRoles[g] \cap Guarded
      BY <1>1, <2>2, <2>4, <3>1 DEF SetGroupRoles, TypeOK
    <3>3. UNCHANGED <<userRoles, groups, members>>
      BY <2>4 DEF SetGroupRoles
    <3>4. QED
      BY <3>2, <3>3, RowsStay, MappingsStay
  <2>5. CASE ~SetGroupRoles(c)
    <3>1. groupRoles[h] \cap Guarded = {}
      BY <1>4, <2>1, <2>5
    <3>2. /\ userRoles' = userRoles
          /\ \A g \in Groups : g # h =>
               groups'[g] = groups[g] /\ groupRoles'[g] = groupRoles[g] /\ members'[g] = members[g]
          /\ groupRoles'[h] = groupRoles[h] \/ groupRoles'[h] = {}
      BY <1>1, <1>11, <2>2, <2>5
         DEF AddGroupMember, RemoveGroupMember, DeleteGroupMembers, DeleteGroupRoles, DeleteGroup, TypeOK
    <3>3. groupRoles'[h] \cap Guarded = {}
      BY <3>1, <3>2
    <3> HIDE DEF h
    <3>4. \A g \in Groups : groupRoles'[g] \cap Guarded = groupRoles[g] \cap Guarded
      BY <3>1, <3>2, <3>3
    <3>5. StoredStays
      BY <3>1, <3>2, <3>4, RowsStay
    <3>6. \A dn \in Dns : ConferredStays(dn)
      BY <3>1, <3>2, <3>4, MappingsStay
    <3>7. QED
      BY <3>5, <3>6
  <2>6. QED
    BY <2>4, <2>5
<1>12. QED
  BY <1>6, <1>7, <1>8, <1>9, <1>10, <1>11 DEF Handler

\* A start gives a guarded role to the admin group, and to nothing else.
LEMMA StartsGiveToTheAdminGroup ==
  ASSUME Inv, NEW b \in Boots, Migration(b)
  PROVE  /\ StoredStays
         /\ \A dn \in Dns : ConferredStays(dn) \/ (dn = AdminDn /\ boot'[b] # boot[b])
<1> USE GrantsAssumption
<1>1. TypeOK /\ TablesFit /\ StartsKnow
  BY DEF Inv
<1>2. UNCHANGED <<userRoles, members>>
  BY Frames
<1>3. CASE MigrateLooks(b) \/ MigrateEnds(b)
  <2>1. UNCHANGED rows
    BY <1>3 DEF MigrateLooks, MigrateEnds
  <2>2. QED
    BY <2>1, RowsStay, MappingsStay DEF rows
<1>4. CASE MigrateCreates(b)
  <2>1. groupRoles' = groupRoles
    BY <1>4 DEF MigrateCreates
  <2>2. \A g \in Groups : groups'[g] = groups[g] \/ groupRoles[g] = {}
    BY <1>1, <1>4 DEF MigrateCreates, TablesFit, Fresh, TypeOK
  <2>3. QED
    BY <1>2, <2>1, <2>2, RowsStay, MappingsStay
<1>5. CASE MigrateSets(b)
  <2> DEFINE h == boot[b].group
  <2>1. /\ groups' = groups /\ boot[b].step = "created" /\ boot'[b] # boot[b]
        /\ groupRoles' = IF Live(h) THEN [groupRoles EXCEPT ![h] = {"admin"}] ELSE groupRoles
    BY <1>1, <1>5 DEF MigrateSets, Off, TypeOK
  <2>2. h \in Groups /\ groups[h] \in {AdminDn, "gone"}
    BY <1>1, <2>1 DEF StartsKnow
  <2> HIDE DEF h
  <2>3. \A g \in Groups : groupRoles'[g] = groupRoles[g] \/ groups[g] = AdminDn
    BY <1>1, <2>1, <2>2 DEF Live, TypeOK
  <2>4. \A g \in Groups : groups[g] = AdminDn => members[g] = {}
    BY <1>1 DEF TablesFit
  <2>5. StoredStays
    BY <1>2, <2>3, <2>4, RowsStay
  <2>6. ASSUME NEW dn \in Dns, dn # AdminDn
        PROVE  ConferredStays(dn)
    <3>1. \A g \in Groups : groups[g] = dn => groupRoles'[g] = groupRoles[g]
      BY <2>3, <2>6
    <3>2. \A g \in Groups : groups'[g] = groups[g]
      BY <2>1
    <3>3. ASSUME NEW role
          PROVE  role \in Conferred({dn}) <=> role \in Conferred({dn})'
      <4>1. \A g \in Groups : groups[g] = dn /\ role \in groupRoles[g] <=>
                              groups'[g] = dn /\ role \in groupRoles'[g]
        BY <3>1, <3>2
      <4>2. QED
        BY <4>1, ConferredIs
    <3>4. QED
      BY <3>3 DEF ConferredStays
  <2>7. QED
    BY <2>1, <2>5, <2>6
<1>6. QED
  BY <1>3, <1>4, <1>5 DEF Migration

\* No interleaving of requests, resolved whenever, moves a guarded role but by
\* an administrator's, or by one that another overtook between its check and
\* its write (authz.rs, require_admin_for_guarded_roles and its callers).
THEOREM GuardedRolesNeedAdmins == Spec => GuardedNeedsAdmin
<1> DEFINE Moves(u) == Stored(u) \cap Guarded # Stored(u)' \cap Guarded
           Turns(dn) == Conferred({dn}) \cap Guarded # Conferred({dn})' \cap Guarded
           Step == /\ \A u \in Users : Moves(u) => \E c \in Calls : call'[c] # call[c] /\ Entitled(c)
                   /\ \A dn \in Dns : Turns(dn) =>
                        \/ \E c \in Calls : call'[c] # call[c] /\ Entitled(c)
                        \/ dn = AdminDn /\ \E b \in Boots : boot'[b] # boot[b]
<1>1. ASSUME Inv, Next
      PROVE  Step
  <2>1. CASE \E c \in Calls : Resolution(c) \/ Abandon(c)
    <3>1. UNCHANGED rows
      BY <2>1, Frames
    <3>2. StoredStays /\ \A dn \in Dns : ConferredStays(dn)
      BY <3>1, RowsStay, MappingsStay DEF rows
    <3>3. QED
      BY <3>2 DEF StoredStays, ConferredStays
  <2>2. CASE \E c \in Calls : Handler(c)
    <3>1. \/ \E c \in Calls : call'[c] # call[c] /\ Entitled(c)
          \/ StoredStays /\ \A dn \in Dns : ConferredStays(dn)
      BY <1>1, <2>2, WritesAreEntitled
    <3>2. QED
      BY <3>1 DEF StoredStays, ConferredStays
  <2>3. CASE \E b \in Boots : Migration(b)
    <3>1. /\ StoredStays
          /\ \A dn \in Dns : ConferredStays(dn) \/ (dn = AdminDn /\ \E b \in Boots : boot'[b] # boot[b])
      BY <1>1, <2>3, StartsGiveToTheAdminGroup
    <3>2. QED
      BY <3>1 DEF StoredStays, ConferredStays
  <2>4. QED
    BY <1>1, <2>1, <2>2, <2>3 DEF Next
<1>2. Inv /\ [Next]_vars => [Step]_vars
  BY <1>1
<1>3. QED
  BY <1>2, InitInv, InvStep, PTL DEF Spec, GuardedNeedsAdmin
=============================================================================
