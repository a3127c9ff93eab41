SPECIFICATION Spec
CONSTANTS
  Names = {n1, n2, n3, n4}
  MaxFailures = 1
INVARIANTS ExitMeansAllLoaded
CHECK_DEADLOCK FALSE
SYMMETRY AnyName
