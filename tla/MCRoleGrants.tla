--------------------------- MODULE MCRoleGrants ---------------------------
(* One person, for TLC: each of two requests may have been resolved before  *)
(* or after the roles changed.                                             *)
EXTENDS RoleGrants, TLC

CallSymmetry == Permutations(Calls)

Ask(op, roles) == [by |-> "bob", op |-> op, who |-> "bob", roles |-> roles]

MCRequests ==
  {Ask("grant_user_role", {"admin"}), Ask("revoke_user_role", {"admin"}),
   Ask("set_group_roles", {"admin"}), Ask("set_group_roles", {"user_manager"})}
  \cup {Ask(op, {}) : op \in {"add_group_member", "remove_group_member", "delete_group",
                              "create_native_group", "add_directory_group",
                              "delete_user", "delete_all_non_admin_users"}}
=============================================================================
