SPECIFICATION FairReaderSpec
CONSTANTS
  Lease = 20
  MaxLife = 24
  Grace = 4
  LoginTime = 2
  MaxBackoff = 4
  MaxOutages = 2
  ReadTime = 1
  Interval = 2
INVARIANTS ReaderTypeOK NeverExpires RecoversInTime CarriesGoodToken ReadsInTime
PROPERTIES Replaced
CHECK_DEADLOCK TRUE
