SPECIFICATION Spec
CONSTANTS
  a = a
  b = b
  c = c
  None = None
  Instances = {a, b, c}
  TTL = 2
  MinValidity = 1
  MaxTime = 3
  MaxEpoch = 3
SYMMETRY Symmetry
INVARIANTS
  LeaseInv
  SubmissionExclusive
  EpochIdentifiesHolder
  OrphanIsOlder
PROPERTIES
  TakeoverOnlyAfterExpiry
  ImplementsToken
