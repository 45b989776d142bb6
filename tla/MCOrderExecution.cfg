SPECIFICATION Spec
CONSTANTS
  s1 = s1
  s2 = s2
  None = None
  Symbols = {s1, s2}
  MaxPass = 2
  Ttl = 2
  Budget = 2
  PerInstrument = 1
  Total = 2
  NamesIntents = TRUE
SYMMETRY Symmetry
INVARIANTS
  TypeOK
  OwnerHaltHonoured
  NewRiskOverKnownBook
  LimitsHold
  OneOrderPerBar
  BareMeansHalted
PROPERTY RestartRestores
