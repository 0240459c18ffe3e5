\* One account whose runs may outlast ORPHAN_AFTER and be reclaimed while they
\* are still going: what has to hold of removals even then, and that no row
\* stays open for good.
CONSTANTS
  Accounts = {a1}
  Items = {g1}
  Jobs = {job}
  Requests = {request}
  None = None
  SlowRuns = TRUE
  MaxRuns = 3
  MaxKills = 2
SPECIFICATION FairSpec
INVARIANTS RemovalsOwnedBySuccess KeptIsLive
PROPERTIES RemovalIsJustified EveryRunFinishes
