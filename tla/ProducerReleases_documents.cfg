SPECIFICATION Spec
CONSTANTS
  Contents <- MCContents
  DocOf <- MCDocOf
  Documents <- MCDocuments
  SchemasOf <- MCSchemasOf
  Refs <- MCRefs
  SchemaCompatible <- MCSchemaCompatible
  Built <- MCBuilt
  Accepts <- MCAccepts
  Reads <- MCReads
  Expanded <- MCExpanded
  Accepted <- MCAccepted
  Additive <- MCAdditive
  Numbers <- MCNumbers
  MaxPart = 4
  Users = {"ann", "rel"}
  Releasers = {"rel"}
  Earlier <- MCEarlier
  MaxChoices = 2
  Depth = 4
  None = None
  Spins = Spins
INVARIANTS RequestsStillServed ResponsesStillRead BundleSaysTheSame ProposalsConverge
CHECK_DEADLOCK FALSE
