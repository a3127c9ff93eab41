SPECIFICATION HandlerSpec
CONSTANTS
  p1 = p1  r1 = r1  r2 = r2  f1 = f1  f2 = f2  None = None
  Providers = {p1}
  Requests = {r1, r2}
  Paths = {f1, f2}
  FileOf <- OneFile
  Pinged = {p1}
  Panics = {p1}
  MaxVersion = 2
  Size <- ShrinkingSize
  MaxFaults = 2
INVARIANTS TypeOK OneWriter NoMixture RefreshAcknowledged
PROPERTIES KeepsLastGood PromiseSpec CatchesUp NoOldSecret RefreshAnswered
CHECK_DEADLOCK TRUE
