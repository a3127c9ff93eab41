SPECIFICATION Spec
CONSTANTS
  r1 = r1
  r2 = r2
  Requests = {r1, r2}
  Secrets <- VaultSecrets
  Separators <- VaultSeparators
  CacheSize = 1
  Expiring = FALSE
  CacheTtl = 1
  MaxFlight = 1
  MaxTime = 2
  MaxVersion = 2
INVARIANTS AnswersOwnSecret
CHECK_DEADLOCK TRUE
