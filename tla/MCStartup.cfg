SPECIFICATION FairSpec
CONSTANTS
  Names = {n1, n2, n3, n4}
  MaxFailures = 1
INVARIANTS TypeOK ExitMeansLoaded RunsAsConfigured
PROPERTIES ComesUp
CHECK_DEADLOCK FALSE
