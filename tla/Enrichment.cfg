\* Two chains, or a chain and a click, over one Steam item and one other.
CONSTANTS
  Tasks = {a, b}
  steam = steam
  epic = epic
  SteamItems = {steam}
  OtherItems = {epic}
  Configured = {"steam_store", "igdb", "rawg"}
  Knows <- KnowsAllButOne
  None = None
  Orphan = Orphan
  BatchSize = 1
  Varied = {"igdb"}
  MaxOrphans = 1
SPECIFICATION Spec
SYMMETRY Interchangeable
INVARIANTS CountsAreTrue AskedOnce
PROPERTIES ChainReaches
