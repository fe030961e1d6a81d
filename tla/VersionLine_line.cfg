SPECIFICATION Spec
CONSTANTS
  Calls = {c1, c2}
  Users = {"ann", "bob", "rel"}
  NoUser = "-"
  Releasers = {"rel"}
  Contents = {"b1", "a2"}
  NoContent = "-"
  Versions <- MCVersions
  VersionOf <- MCVersionOf
  Compatible <- MCCompatible
  Links = {"l0"}
  NoLink = "none"
  ProvideRequests <- OneLine
  Promoters = {}
  MaxId = 2
  StaleReads = FALSE
SYMMETRY CallSymmetry
INVARIANTS OriginOfItsNumber
PROPERTIES HonestAgainstLineRead
