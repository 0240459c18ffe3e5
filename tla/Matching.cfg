CONSTANTS
  s = s
  goty = goty
  epic = epic
  beta = beta
  addon = addon
  gog = gog
  m = m
  twin = twin
  other = other
  game = game
  sequel = sequel
  ns = ns
  ns2 = ns2
  None = None
  Copies <- MCCopies
  Turn <- MCTurn
  Lib <- MCLib
  Kind <- MCKind
  Base <- MCBase
  Game <- MCGame
  Namespace <- MCNamespace
  BaseGame <- MCBaseGame
  Named = {epic}
  Conflicting = {}
  Appids <- MCAppids
  Listings <- MCListings
  Filings <- MCFilings
  r1 = r1
  r2 = r2
  Runs = {r1, r2}
  MaxId = 4
  MaxEdits = 3
  MaxLost = 1
SPECIFICATION MatchingSpec
SYMMETRY Symmetry
CHECK_DEADLOCK FALSE
INVARIANTS OneWorkPerGame NothingDangles PlaytimeIsTheSum AnchorsAreRight
PROPERTIES AnchorsStay
