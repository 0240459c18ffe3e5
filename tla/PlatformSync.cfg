\* A request and the job sync the same two accounts, which the owner switches
\* and signs in again meanwhile.  Partial runs differ from landed ones only in
\* how bad they are, and are left to the runs of SyncRun.
CONSTANTS
  Accounts = {1, 2}
  Requests = {request}
  Jobs = {job}
  None = None
  Orphan = Orphan
  Outcomes = {"success", "failed"}
  MaxTokens = 3
SPECIFICATION Spec
INVARIANTS StoredCredentialWorks
PROPERTIES FailureShows FailureStays
