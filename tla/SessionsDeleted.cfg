SPECIFICATION Spec
CONSTANTS
  r1 = r1
  r2 = r2
  Requests <- MCRequests
  MaxPairs = 2
SYMMETRY MCSymmetry
CHECK_DEADLOCK FALSE
INVARIANTS RenewalRefusesDeleted
