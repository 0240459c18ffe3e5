\* Every library of up to four works: a game, its add-on, and two titles
\* with one key; one work to a page, three changes during the walk, and an
\* add-on at which the cursor is too long.
CONSTANTS
  Null = Null
  Works = {1, 2, 3, 4}
  Key <- MCKey
  Parent <- MCParent
  Starts <- MCStarts
  Filters <- MCFilters
  Limit = 1
  CursorLength <- MCCursorLength
  MaxCursor = 256
  MaxMinutes = 1
  MaxChanges = 3
SPECIFICATION Spec
CHECK_DEADLOCK FALSE
INVARIANTS MetOnceInTurn EveryOwnedFound
