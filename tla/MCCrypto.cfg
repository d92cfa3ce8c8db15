SPECIFICATION Spec
CONSTANTS
  Times = {0, 1, 2, 3, 4, 5}
  MaxIssued = 3
  MaxRestarts = 2
INVARIANTS TypeOK StrictlyIncreasing LeadIsBounded UniqueAcrossRestarts
CHECK_DEADLOCK FALSE
