CONSTANTS
  t1 = t1
  t2 = t2
  c1 = c1
  None = None
  Tasks = {t1, t2}
  Clients = {c1}
  PerSecond = 2
  OpenAtOnce = 2
  Second = 2
  Attempts = 2
  MaxTokens = 4
  MaxEnds = 1
  MaxTroubles = 2
SPECIFICATION Spec
INVARIANTS WindowKept NoSlotLost FewTokens
PROPERTIES EveryQueryEnds
