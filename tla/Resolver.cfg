\* Three writing transactions over two works; three fields, one of each strategy.
CONSTANTS
  w1 = w1
  w2 = w2
  title = title
  item_kind = item_kind
  minutes = minutes
  manual = manual
  epic = epic
  store = store
  igdb = igdb
  Works = {w1, w2}
  Fields = {title, item_kind, minutes}
  Strategy <- MCStrategy
  Sources = {manual, epic, store, igdb}
  Manual = manual
  States <- MCStates
  Ladder <- MCLadder
  Weight <- MCWeight
  ManualFields = {item_kind}
  Optional = {}
  Figures = {1, 2}
  NoValue = NoValue
  Own = Own
  MaxWrites = 3
  MaxAsserted = 1
SPECIFICATION Spec
SYMMETRY Symmetry
CHECK_DEADLOCK FALSE
INVARIANTS IndexesHold ColumnsAreDecided
PROPERTY UserStands
