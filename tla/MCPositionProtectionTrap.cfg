SPECIFICATION FairSpec
CONSTANTS
  p1 = p1
  p2 = p2
  None = None
  Positions = {p1, p2}
  MaxStop = 3
  Raises = FALSE
  Restarts = FALSE
  PartialFills = FALSE
PROPERTY ExitsGetThrough
