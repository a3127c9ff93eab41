SPECIFICATION Spec
CONSTANTS
  p1 = p1  r1 = r1  r2 = r2  f1 = f1  f2 = f2  None = None
  Providers = {p1}
  Requests = {r1}
  Paths = {f1, f2}
  FileOf <- OneFile
  Pinged = {}
  Panics = {p1}
  MaxVersion = 1
  Size <- ShrinkingSize
  MaxFaults = 0
PROPERTIES RefreshedFileIsWritten
CHECK_DEADLOCK TRUE
