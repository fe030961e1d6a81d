SPECIFICATION Spec
CONSTANTS
  Entries = {"jane"}
  WithId = {"jane"}
  Names = {"j", "jm", "j@", "kim"}
  Own <- OwnOfOne
  Mail <- MailOfOne
  Roots = {"jm"}
  Things = {"admin"}
  TokenNames = {}
  Admin = "admin"
  Calls = {c1, c2}
  MaxEarlier = 2
  MaxId = 3
  MaxOthers = 1
  NoOne = NoOne
SYMMETRY CallSymmetry
INVARIANTS NobodyElsesAccount FoldedIntoOne
PROPERTIES NothingLostInMerge RootsStay
CHECK_DEADLOCK FALSE
