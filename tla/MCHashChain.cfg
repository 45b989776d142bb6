SPECIFICATION Spec
CONSTANTS
  w1 = w1
  w2 = w2
  Free = Free
  Writers = {w1, w2}
  Stores = {"audit", "postgres", "sqlite"}
  MaxRecords = 6
  MaxFaults = 2
SYMMETRY Symmetry
INVARIANTS
  TypeOK
  HonestLogVerifies
  OkIsHonest
CHECK_DEADLOCK FALSE
