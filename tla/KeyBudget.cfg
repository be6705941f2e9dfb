\* Three requests around the turn of a month.
SPECIFICATION Spec
CONSTANTS
  Requests = {r1, r2, r3}
  MaxClaim = 2
  Cap = 2
  Month = 2
  LastTick = 3
  MaxFaults = 1
SYMMETRY RequestSymmetry
INVARIANTS TypeOK MonthWithinCap MonthIsComplete PaidOnce RefusalsLeakOpenly
CHECK_DEADLOCK FALSE
