SPECIFICATION Spec
CONSTANTS
  x1 = x1
  x2 = x2
  Items <- TwoItems
  MaxRequests = 3
  MaxVisits = 3
INVARIANTS
  RetryNeverDuplicates
SYMMETRY ItemSymmetry
CHECK_DEADLOCK FALSE
