SPECIFICATION Spec
CONSTANTS
  lower = lower  upper = upper  title = title  other = other
  Keys = {lower, upper, title, other}
  Nested = nested
  Values = {x, nested}
  Fold <- LowerCase
  Absent = absent
  Whole = whole
  Empty = empty
  MaxLength = 1
INVARIANTS OriginalsKept
CHECK_DEADLOCK FALSE
