\* Three requests, two of which can be over the cap at the same time.
SPECIFICATION Spec
CONSTANTS
  Requests = {r1, r2, r3}
  MaxClaim = 2
  Cap = 3
  MaxFaults = 1
  MaxCancels = 1
SYMMETRY RequestSymmetry
INVARIANTS TypeOK BillWithinCap NeverUndercounts RefusalsLeakOpenly
PROPERTY ImplementsSpendLedger
CHECK_DEADLOCK FALSE
