SPECIFICATION Spec
CONSTANTS
  Calls = {c1}
  Cutters = {a1}
  Keys = {k1}
  Versions = {v1}
  Names = {n1, n2}
  NoName = none
  MaxAge = 0
  Faults = TRUE
  MaxRequires = 2
  MaxBranches = 2
  MaxTime = 2
SYMMETRY MCSymmetry
INVARIANTS OneCurrentPin TagNeverStrays BornComplete
