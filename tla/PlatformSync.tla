---------------------------- MODULE PlatformSync ----------------------------
(***************************************************************************)
(* Syncing the accounts of one platform, one after another: the sync       *)
(* endpoint (api/sync.py) and the scheduler's job (schedule.py) over       *)
(* `sync_account`, with what the owner does to the accounts meanwhile      *)
(* (api/accounts.py).                                                      *)
(*                                                                         *)
(* SyncRun says how one run is claimed and landed.  Here a run is who      *)
(* holds it, how it ended, and what it leaves beside the library: the      *)
(* platform's health and the account's credential, which the platform      *)
(* (Epic) replaces on every use.  What a session read before another one   *)
(* committed stays in its memory, and that is where a request and a job    *)
(* differ: a request keeps one session for its whole loop, a job opens one *)
(* for every account.                                                      *)
(***************************************************************************)
EXTENDS Integers, FiniteSetsExt

CONSTANTS
  Accounts,   \* the platform's accounts, by id: they are synced in order
  Requests,   \* POST /api/sync/{provider}
  Jobs,       \* the scheduler's job of the platform
  None,       \* no task
  Outcomes,   \* bound: how a run may end
  Orphan,     \* holds a run that no task is left to finish
  MaxTokens   \* bound: credentials the platform issues

Tasks == Requests \cup Jobs
Token == 0..MaxTokens

ASSUME AccountsAssumption == Accounts \subseteq Nat \ {0}
ASSUME TasksAssumption == Requests \cap Jobs = {}
ASSUME HoldersAssumption == None \notin Tasks /\ Orphan \notin Tasks /\ None # Orphan
ASSUME OutcomesAssumption == "failed" \in Outcomes /\ Outcomes \subseteq {"success", "partial", "failed"}
ASSUME BoundsAssumption == MaxTokens \in Nat

VARIABLES
  \* The database.
  active,   \* accounts that are connected and not switched off
  secret,   \* secret[a]: account.credentials_encrypted, 0 before it is connected
  open,     \* open[a]: who holds the account's running sync_run
  latest,   \* latest[a]: status of its newest finished sync_run
  health,   \* provider.status
  \* The platform.
  issued,   \* credentials issued so far
  spent,    \* those that have been used
  \* The tasks of the process.
  pc,
  todo,     \* accounts the task has still to sync
  current,  \* the account it is syncing, 0 for none
  held,     \* held[t][a]: the credential in the instances of its session
  renewed,  \* library.renewed_secret, 0 for None
  outcome,  \* how its run is going to be closed
  seen,     \* provider.status in the instance of its session
  \* Bookkeeping.
  lost      \* accounts whose only working credential was lost with its holder

database == <<active, secret, open, latest, health>>
platform == <<issued, spent>>
session == <<held, seen>>
vars == <<active, secret, open, latest, health, issued, spent, pc, todo, current,
          held, renewed, outcome, seen, lost>>

-----------------------------------------------------------------------------
Health == {"success", "partial", "failed", "pending"}
NoTokens == [a \in Accounts |-> 0]
Expired == -1  \* an instance expired by a rollback: reading it raises

TypeOK ==
  /\ active \in SUBSET Accounts
  /\ secret \in [Accounts -> Token]
  /\ open \in [Accounts -> Tasks \cup {None, Orphan}]
  /\ latest \in [Accounts -> Health]
  /\ health \in Health
  /\ issued \in Token
  /\ spent \in SUBSET (1..MaxTokens)
  /\ pc \in [Tasks -> {"idle", "next", "recheck", "fetch", "closing"}]
  /\ todo \in [Tasks -> SUBSET Accounts]
  /\ current \in [Tasks -> Accounts \cup {0}]
  /\ held \in [Tasks -> [Accounts -> Token \cup {Expired}]]
  /\ renewed \in [Tasks -> Token]
  /\ outcome \in [Tasks -> Health]
  /\ seen \in [Tasks -> Health]
  /\ lost \in SUBSET Accounts

Init ==
  /\ active = {}
  /\ secret = NoTokens
  /\ open = [a \in Accounts |-> None]
  /\ latest = [a \in Accounts |-> "pending"]
  /\ health = "pending"
  /\ issued = 0
  /\ spent = {}
  /\ pc = [t \in Tasks |-> "idle"]
  /\ todo = [t \in Tasks |-> {}]
  /\ current = [t \in Tasks |-> 0]
  /\ held = [t \in Tasks |-> NoTokens]
  /\ renewed = [t \in Tasks |-> 0]
  /\ outcome = [t \in Tasks |-> "pending"]
  /\ seen = [t \in Tasks |-> "pending"]
  /\ lost = {}

-----------------------------------------------------------------------------
\* Bugs: the best of them, and nothing at all when there are none.
SummaryOfTheBest(ends, switchedOn) ==
  LET ended == {ends[a] : a \in switchedOn} IN
    IF "success" \in ended THEN "success"
    ELSE IF "partial" \in ended THEN "partial"
    ELSE IF "failed" \in ended THEN "failed" ELSE "pending"

(* _summary: the worst of the newest finished runs of the active accounts. *)
Summary(ends, switchedOn) ==
  LET ended == {ends[a] : a \in switchedOn} IN
    IF "failed" \in ended THEN "failed"
    ELSE IF "partial" \in ended THEN "partial"
    ELSE IF "success" \in ended THEN "success" ELSE "pending"

(* The call returned, raised or answered: its sessions are gone.           *)
Return(t) ==
  /\ pc' = [pc EXCEPT ![t] = "idle"]
  /\ todo' = [todo EXCEPT ![t] = {}]
  /\ current' = [current EXCEPT ![t] = 0]
  /\ held' = [held EXCEPT ![t] = NoTokens]
  /\ renewed' = [renewed EXCEPT ![t] = 0]
  /\ outcome' = [outcome EXCEPT ![t] = "pending"]
  /\ seen' = [seen EXCEPT ![t] = "pending"]

(* _syncable of a request: the list, the accounts and the provider are     *)
(* read at once and stay in its session.  With none it is a 404.           *)
Listed(r) ==
  /\ r \in Requests
  /\ pc[r] = "idle"
  /\ active # {}
  /\ todo' = [todo EXCEPT ![r] = active]
  /\ held' = [held EXCEPT ![r] = [a \in Accounts |-> IF a \in active THEN secret[a] ELSE 0]]
  /\ seen' = [seen EXCEPT ![r] = health]

(* The job reads its list in a session it closes again.                    *)
JobLists(j) ==
  /\ j \in Jobs
  /\ pc[j] = "idle"
  /\ active # {}
  /\ todo' = [todo EXCEPT ![j] = active]
  /\ pc' = [pc EXCEPT ![j] = "next"]
  /\ UNCHANGED <<database, platform, current, session, renewed, outcome, lost>>

(* _open: the account is claimed when no run of it is open.  An orphan     *)
(* blocks it until ORPHAN_AFTER has passed, and is failed by the claim.    *)
Claim(t, a) ==
  /\ open[a] \in {None, Orphan}
  /\ open' = [open EXCEPT ![a] = t]
  /\ latest' = [latest EXCEPT ![a] = IF open[a] = Orphan THEN "failed" ELSE @]
  /\ pc' = [pc EXCEPT ![t] = "fetch"]

Collide(t, a) ==
  /\ open[a] # None
  /\ pc' = [pc EXCEPT ![t] = "recheck"]
  /\ UNCHANGED <<open, latest>>

(* The first account of a request is claimed in the transaction that       *)
(* listed it.                                                              *)
RequestStarts(r) ==
  /\ Listed(r)
  /\ LET a == Min(active) IN
       /\ current' = [current EXCEPT ![r] = a]
       /\ Claim(r, a) \/ Collide(r, a)
  /\ UNCHANGED <<active, secret, health, platform, renewed, outcome, lost>>

(* The next account of a request: everything it knows of it, it read when  *)
(* it started.                                                             *)
RequestNext(r) ==
  /\ r \in Requests
  /\ pc[r] = "next"
  /\ todo[r] # {}
  /\ LET a == Min(todo[r]) IN
       /\ held[r][a] # Expired
       /\ current' = [current EXCEPT ![r] = a]
       /\ Claim(r, a) \/ Collide(r, a)
  /\ UNCHANGED <<active, secret, health, platform, todo, session, renewed, outcome,
                 lost>>

(* The next account of a job: a session of its own reads the account and   *)
(* the provider in the transaction that claims it.  Whether the account is *)
(* still switched on is not asked again.                                   *)
JobNext(j) ==
  /\ j \in Jobs
  /\ pc[j] = "next"
  /\ todo[j] # {}
  /\ LET a == Min(todo[j]) IN
       /\ current' = [current EXCEPT ![j] = a]
       /\ held' = [held EXCEPT ![j] = [NoTokens EXCEPT ![a] = secret[a]]]
       /\ Claim(j, a) \/ Collide(j, a)
  /\ seen' = [seen EXCEPT ![j] = health]
  /\ UNCHANGED <<active, secret, health, platform, todo, renewed, outcome, lost>>

(* What the session of the next account has seen of the provider.          *)
SeenNext(t, status) == IF t \in Requests THEN status ELSE "pending"

(* The loop goes on.  What it had read of this account is not read again,  *)
(* and the session of a job is closed.                                     *)
GoesOn(t) ==
  /\ todo' = [todo EXCEPT ![t] = @ \ {current[t]}]
  /\ held' = [held EXCEPT ![t][current[t]] = 0]
  /\ current' = [current EXCEPT ![t] = 0]
  /\ renewed' = [renewed EXCEPT ![t] = 0]
  /\ outcome' = [outcome EXCEPT ![t] = "pending"]
  /\ pc' = [pc EXCEPT ![t] = "next"]

(* library_for reads an instance that a rollback expired: MissingGreenlet, *)
(* a 500, and whatever was still to do is not done.                        *)
RequestRaises(r) ==
  /\ r \in Requests
  /\ pc[r] = "next"
  /\ todo[r] # {}
  /\ held[r][Min(todo[r])] = Expired
  /\ Return(r)
  /\ UNCHANGED <<database, platform, lost>>

(* The run that was in the way is still open: SyncInProgressError.  A      *)
(* request answers 409, a job goes on to the next account.                 *)
RequestRefused(r) ==
  /\ r \in Requests
  /\ pc[r] = "recheck"
  /\ open[current[r]] # None
  /\ Return(r)
  /\ UNCHANGED <<database, platform, lost>>

JobSkips(j) ==
  /\ j \in Jobs
  /\ pc[j] = "recheck"
  /\ open[current[j]] # None
  /\ GoesOn(j)
  /\ seen' = [seen EXCEPT ![j] = "pending"]
  /\ UNCHANGED <<database, platform, lost>>

(* The run that was in the way has finished: claim again.  The rollback    *)
(* expired every instance of the session, and only the account and the     *)
(* reporter were refreshed; the client was built before either.            *)
Retry(t) ==
  /\ pc[t] = "recheck"
  /\ open[current[t]] = None
  /\ open' = [open EXCEPT ![current[t]] = t]
  /\ pc' = [pc EXCEPT ![t] = "fetch"]
  /\ held' = [held EXCEPT ![t] = [a \in Accounts |->
                 IF a \in todo[t] \ {current[t]} THEN Expired ELSE held[t][a]]]
  /\ seen' = [seen EXCEPT ![t] = health]
  /\ UNCHANGED <<active, secret, latest, health, platform, todo, current, renewed,
                 outcome, lost>>

(* The job is cancelled while its claim commits.                           *)
OpenCancelled(j) ==
  /\ j \in Jobs
  /\ pc[j] = "next" /\ todo[j] # {}
  /\ LET a == Min(todo[j]) IN
       /\ open[a] = None
       /\ open' = [open EXCEPT ![a] = Orphan]
  /\ Return(j)
  /\ UNCHANGED <<active, secret, latest, health, platform, lost>>

-----------------------------------------------------------------------------
(* fetch_library.  The platform cannot be reached, or it refuses a         *)
(* credential that has been used.                                          *)
FetchRefused(t) ==
  /\ pc[t] = "fetch"
  /\ outcome' = [outcome EXCEPT ![t] = "failed"]
  /\ pc' = [pc EXCEPT ![t] = "closing"]
  /\ UNCHANGED <<database, platform, todo, current, session, renewed, seen, lost>>

(* It takes the credential and replaces it.  The new one arrives, and then *)
(* the library does, whole, in part or not at all.                         *)
FetchRenewed(t) ==
  LET a == current[t] IN
    /\ pc[t] = "fetch"
    /\ held[t][a] \notin spent
    /\ issued < MaxTokens
    /\ spent' = spent \cup {held[t][a]}
    /\ issued' = issued + 1
    /\ renewed' = [renewed EXCEPT ![t] = issued + 1]
    /\ \E end \in Outcomes : outcome' = [outcome EXCEPT ![t] = end]
    /\ pc' = [pc EXCEPT ![t] = "closing"]
    /\ UNCHANGED <<database, todo, current, session, lost>>

(* Of the accounts whose new credential is gone, those that have no other. *)
LostWith(as, used) == {a \in as : secret[a] \in used}

(* It takes the credential and its answer is lost.                         *)
FetchLost(t) ==
  LET a == current[t] IN
    /\ pc[t] = "fetch"
    /\ held[t][a] \notin spent
    /\ spent' = spent \cup {held[t][a]}
    /\ outcome' = [outcome EXCEPT ![t] = "failed"]
    /\ lost' = lost \cup LostWith({a}, spent')
    /\ pc' = [pc EXCEPT ![t] = "closing"]
    /\ UNCHANGED <<database, issued, todo, current, session, renewed>>

\* Bug: a failed run rolls the replaced credential back.
ClosesWithoutRenewal(t, end) ==
  /\ open' = [open EXCEPT ![current[t]] = None]
  /\ latest' = [latest EXCEPT ![current[t]] = end]
  /\ secret' = IF renewed[t] = 0 \/ end = "failed" THEN secret
               ELSE [secret EXCEPT ![current[t]] = renewed[t]]
  /\ lost' = lost

(* What every _close writes: the status, and the credential the platform   *)
(* replaced.                                                               *)
Closes(t, end) ==
  /\ open' = [open EXCEPT ![current[t]] = None]
  /\ latest' = [latest EXCEPT ![current[t]] = end]
  /\ secret' = IF renewed[t] = 0 THEN secret
               ELSE [secret EXCEPT ![current[t]] = renewed[t]]
  /\ lost' = IF renewed[t] = 0 THEN lost ELSE lost \ {current[t]}

(* A run that landed.  The session still has the provider as it read it:   *)
(* a summary equal to that is no change to it, and nothing is written.     *)
CloseLanded(t) ==
  /\ pc[t] = "closing"
  /\ outcome[t] # "failed"
  /\ Closes(t, outcome[t])
  /\ LET now == Summary(latest', active) IN
       /\ health' = IF now = seen[t] THEN health ELSE now
       /\ seen' = [seen EXCEPT ![t] = SeenNext(t, now)]
  /\ GoesOn(t)
  /\ UNCHANGED <<active, platform>>

\* Bug: the provider is not read again after the rollback.
CloseFailedUnread(t) ==
  /\ pc[t] = "closing"
  /\ Closes(t, "failed")
  /\ LET now == Summary(latest', active) IN
       health' = IF now = seen[t] THEN health ELSE now
  /\ \/ /\ outcome[t] = "failed"
        /\ seen' = [seen EXCEPT ![t] = SeenNext(t, Summary(latest', active))]
        /\ GoesOn(t)
     \/ Return(t)
  /\ UNCHANGED <<active, platform>>

(* A run that failed.  The provider is read again after the rollback.  A   *)
(* ProviderError is a status and the loop goes on; anything else, and a    *)
(* cancellation, ends it.                                                  *)
CloseFailed(t) ==
  /\ pc[t] = "closing"
  /\ Closes(t, "failed")
  /\ health' = Summary(latest', active)
  /\ \/ /\ outcome[t] = "failed"
        /\ seen' = [seen EXCEPT ![t] = SeenNext(t, health')]
        /\ GoesOn(t)
     \/ Return(t)
  /\ UNCHANGED <<active, platform>>

(* _close raises: cancelled itself, or the database stays locked.          *)
CloseLost(t) ==
  /\ pc[t] = "closing"
  /\ open' = [open EXCEPT ![current[t]] = Orphan]
  /\ lost' = lost \cup LostWith({a \in {current[t]} : renewed[t] # 0}, spent)
  /\ Return(t)
  /\ UNCHANGED <<active, secret, latest, health, platform>>

(* The loop is through.  What enrichment is queued behind it is            *)
(* Enrichment's.                                                           *)
Answer(t) ==
  /\ pc[t] = "next"
  /\ todo[t] = {}
  /\ Return(t)
  /\ UNCHANGED <<database, platform, lost>>

-----------------------------------------------------------------------------
(* PATCH /accounts/{id}: switched on or off.  The providers that have run  *)
(* for the account are summarised again.                                   *)
Switch(a) ==
  /\ secret[a] # 0
  /\ \E on \in BOOLEAN : active' = IF on THEN active \cup {a} ELSE active \ {a}
  /\ health' = IF latest[a] = "pending" /\ open[a] = None
                 THEN health ELSE Summary(latest, active')
  /\ UNCHANGED <<secret, open, latest, platform, pc, todo, current, session, renewed,
                 outcome, lost>>

(* POST /accounts: signed in, for the first time or again.  Active once    *)
(* more, and nothing is summarised.                                        *)
Connect(a) ==
  /\ issued < MaxTokens
  /\ issued' = issued + 1
  /\ secret' = [secret EXCEPT ![a] = issued + 1]
  /\ active' = active \cup {a}
  /\ lost' = lost \ {a}
  /\ UNCHANGED <<open, latest, health, spent, pc, todo, current, session, renewed,
                 outcome>>

(* The process is killed and started again.                                *)
Kill ==
  /\ open' = [a \in Accounts |-> IF open[a] \in Tasks THEN Orphan ELSE open[a]]
  /\ lost' = lost \cup LostWith({current[t] : t \in {u \in Tasks : renewed[u] # 0}}, spent)
  /\ pc' = [t \in Tasks |-> "idle"]
  /\ todo' = [t \in Tasks |-> {}]
  /\ current' = [t \in Tasks |-> 0]
  /\ held' = [t \in Tasks |-> NoTokens]
  /\ renewed' = [t \in Tasks |-> 0]
  /\ outcome' = [t \in Tasks |-> "pending"]
  /\ seen' = [t \in Tasks |-> "pending"]
  /\ UNCHANGED <<active, secret, latest, health, platform>>

RequestStep(r) ==
  RequestStarts(r) \/ RequestNext(r) \/ RequestRaises(r) \/ RequestRefused(r)

JobStep(j) == JobLists(j) \/ JobNext(j) \/ JobSkips(j) \/ OpenCancelled(j)

RunStep(t) ==
  \/ Retry(t) \/ FetchRefused(t) \/ FetchRenewed(t) \/ FetchLost(t)
  \/ CloseLanded(t) \/ CloseFailed(t) \/ CloseLost(t) \/ Answer(t)

Next ==
  \/ \E r \in Requests : RequestStep(r)
  \/ \E j \in Jobs : JobStep(j)
  \/ \E t \in Tasks : RunStep(t)
  \/ \E a \in Accounts : Switch(a) \/ Connect(a)
  \/ Kill

Spec == Init /\ [][Next]_vars

-----------------------------------------------------------------------------
(* The credential an account has stored still works, or a task holds the   *)
(* one that replaced it and has still to close its run, or that task was   *)
(* lost with it.  Neither a failed run nor a sign-in that overtakes one    *)
(* leaves an account with a credential nobody can use.                     *)
StoredCredentialWorks ==
  \A a \in Accounts :
    secret[a] \in spent =>
      a \in lost \/ \E t \in Tasks : current[t] = a /\ renewed[t] # 0

(* A run that failed shows: the step that closes it leaves the platform    *)
(* failed when the account is switched on, whatever the closing session    *)
(* had read of the platform before.                                        *)
FailureShows ==
  [][\A a \in Accounts :
       (open[a] \in Tasks /\ open'[a] = None /\ latest'[a] = "failed" /\ a \in active)
         => health' = "failed"]_vars

(* A failing account does not vanish from the platform's health because a  *)
(* healthy one was synced after it (#26): the platform stops being failed  *)
(* only in a step after which no account that is switched on is failing.   *)
FailureStays ==
  [][(health = "failed" /\ health' # "failed") =>
       \A a \in active' : latest'[a] # "failed"]_vars

(* AccountUpdate: "Off stops every sync of it, by hand or on the           *)
(* schedule."                                                              *)
OffStopsEverySync ==
  [][\A a \in Accounts : (open[a] # open'[a] /\ open'[a] \in Tasks) => a \in active]_vars

=============================================================================
