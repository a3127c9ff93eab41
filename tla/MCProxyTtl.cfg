SPECIFICATION Spec
CONSTANTS
  r1 = r1
  r2 = r2
  Requests = {r1, r2}
  Secrets <- AzureSecrets
  Separators <- AzureSeparators
  CacheSize = 1
  Expiring = FALSE
  CacheTtl = 1
  MaxFlight = 1
  MaxTime = 5
  MaxVersion = 2
PROPERTIES StaleAtMostTtl
CHECK_DEADLOCK TRUE
