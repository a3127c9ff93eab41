SPECIFICATION OauthSpec
CONSTANTS
  r1 = r1
  Requests = {r1}
  Secrets <- OneToken
  Separators <- OauthSeparators
  CacheSize = 1
  Expiring = TRUE
  CacheTtl = 1
  MaxFlight = 7
  MaxTime = 9
  MaxVersion = 1
  CertTtl = 1
  JwtDuration = 8
  RetryMax = 2
  RetryWaitMin = 1
  RetryWaitMax = 2
  ReadTime = 0
  AttemptTime = 1
  MaxPuts = 2
  MaxOutages = 1
INVARIANTS OauthTypeOK AnswersOwnSecret NoExpiredJwt MixedOnlyAfterRotation
PROPERTIES ProxySpec RidesOutOutage
CHECK_DEADLOCK FALSE
