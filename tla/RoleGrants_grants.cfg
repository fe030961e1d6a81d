SPECIFICATION Spec
CONSTANTS
  Users = {"bob"}
  Roots = {"root"}
  First = "bob"
  Dns = {"dn"}
  AdminDn = "dn"
  Calls = {c1, c2}
  Requests <- MCRequests
  Boots = {b1}
  MaxGroups = 2
SYMMETRY CallSymmetry
INVARIANTS CarriedOver
PROPERTIES GuardedNeedsAdmin
