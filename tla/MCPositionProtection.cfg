SPECIFICATION FairSpec
CONSTANTS
  p1 = p1
  p2 = p2
  None = None
  Positions = {p1, p2}
  MaxStop = 3
  Raises = TRUE
  Restarts = TRUE
  PartialFills = FALSE
INVARIANTS
  TypeOK
  MirrorNotTighter
  FilledIsManagedOrHalted
  UnsentMeansHalted
PROPERTIES
  RuleUntilClosed
  ExitsUnlessCutShort
