\* Is an account that was switched off never synced?
CONSTANTS
  Accounts = {1, 2}
  Requests = {request}
  Jobs = {job}
  None = None
  Orphan = Orphan
  Outcomes = {"success", "failed"}
  MaxTokens = 3
SPECIFICATION Spec
PROPERTIES OffStopsEverySync
