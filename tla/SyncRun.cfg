\* Two accounts, two tasks: claims, landings and removals while an open run
\* past ORPHAN_AFTER is always one its process was killed under.
CONSTANTS
  Accounts = {a1, a2}
  Items = {g1, g2}
  Jobs = {job}
  Requests = {request}
  None = None
  SlowRuns = FALSE
  MaxRuns = 3
  MaxKills = 1
SYMMETRY Interchangeable
SPECIFICATION Spec
INVARIANTS OneWriterPerAccount
PROPERTIES LandsInOrder FinishedIsFinal ImplementsOwnedCopies
