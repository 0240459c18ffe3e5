CONSTANTS
  s = s
  goty = goty
  epic = epic
  beta = beta
  addon = addon
  gog = gog
  m = m
  twin = twin
  other = other
  game = game
  sequel = sequel
  ns = ns
  ns2 = ns2
  None = None
  Copies <- MCLiveCopies
  Turn <- MCLiveTurn
  Lib <- MCLiveLib
  Kind <- MCLiveKind
  Base <- MCLiveBase
  Game <- MCLiveGame
  Namespace <- MCLiveNamespace
  BaseGame <- MCLiveBaseGame
  Named = {epic, twin, other}
  Conflicting = {}
  Appids <- MCAppids
  Listings <- MCLiveListings
  Filings <- MCLiveFilings
  r1 = r1
  r2 = r2
  Runs = {r1}
  MaxId = 4
  MaxEdits = 3
  MaxLost = 1
SPECIFICATION MatchingSpec
CHECK_DEADLOCK FALSE
PROPERTIES GamesMeet
