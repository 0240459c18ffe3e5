SPECIFICATION Spec
CONSTANTS
  w1 = w1
  w2 = w2
  w3 = w3
  Works = {w1, w2, w3}
  Anchored = {w1}
  MaxMerges = 2
  MaxEdits = 2
SYMMETRY Interchangeable
CHECK_DEADLOCK FALSE
INVARIANTS
  GoneIsGone
  NeverCollides
  CommittedDense
  UndoPutsBothBack
  RowsComeBack
PROPERTY OthersKeepTheirOrder
