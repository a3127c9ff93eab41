SPECIFICATION Spec
CONSTANTS
  r1 = r1
  r2 = r2
  Requests = {r1, r2}
  Secrets <- OauthSecrets
  Separators <- OauthSeparators
  CacheSize = 1
  Expiring = TRUE
  CacheTtl = 2
  MaxFlight = 1
  MaxTime = 5
  MaxVersion = 2
INVARIANTS TypeOK AnswersOwnSecret
PROPERTIES StaleAtMostTtl
CHECK_DEADLOCK TRUE
SYMMETRY AnyRequest
