SPECIFICATION Spec
CONSTANTS
  Calls = {c1, c2}
  Users = {"ann", "bob", "rel"}
  NoUser = "-"
  Releasers = {"rel"}
  Contents = {"a1", "b1"}
  NoContent = "-"
  Versions <- MCVersions
  VersionOf <- MCVersionOf
  Compatible <- MCCompatible
  Links = {}
  NoLink = "none"
  ProvideRequests <- OneNumber
  Promoters = {"rel"}
  MaxId = 2
  StaleReads = TRUE
SYMMETRY CallSymmetry
INVARIANTS CreditedAskedForBytes ReleaseAnswerHolds
PROPERTIES GaImmutable PromotionReleasesStored ImplementsAtomicLine
