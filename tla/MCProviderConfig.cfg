SPECIFICATION Spec
CONSTANTS
  MaxOdd = 3
INVARIANTS TypeOK CreatedAsDocumented RefusedForAReason NoTokenForRefused
CHECK_DEADLOCK FALSE
