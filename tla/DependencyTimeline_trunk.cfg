SPECIFICATION Spec
CONSTANTS
  Calls = {c1, c2}
  Cutters = {}
  Keys = {k1}
  Versions = {v1, v2}
  Names = {n1}
  NoName = none
  MaxAge = 1
  Faults = TRUE
  MaxRequires = 4
  MaxBranches = 0
  MaxTime = 4
SYMMETRY MCSymmetry
INVARIANTS OverlapNeedsLateWrite NoSilentEdge
PROPERTIES PastIsFixed
