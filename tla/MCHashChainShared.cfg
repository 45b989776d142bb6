SPECIFICATION Spec
CONSTANTS
  w1 = w1
  w2 = w2
  Free = Free
  Writers = {w1, w2}
  Stores = {"sqlite"}
  MaxRecords = 3
  MaxFaults = 0
SYMMETRY Symmetry
INVARIANTS
  SqliteLedgerVerifies
CHECK_DEADLOCK FALSE
