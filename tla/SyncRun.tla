------------------------------ MODULE SyncRun ------------------------------
(***************************************************************************)
(* `sync_account` of ludarium/sync.py: one run asks a platform what an     *)
(* account owns and lands the answer on the owner's copies.                *)
(*                                                                         *)
(* Several tasks call it at once: scheduler jobs, which a shutdown         *)
(* cancels, and sync or ingest requests.  A run is claimed in one          *)
(* transaction, the platform is asked with no transaction open, and the    *)
(* answer lands in a second transaction that commits with the run's        *)
(* status.  Every transaction is BEGIN IMMEDIATE, so a task that has       *)
(* written and not committed ("applied") shuts every other writer out.     *)
(***************************************************************************)
EXTENDS Naturals

CONSTANTS
  Accounts,   \* connected accounts
  Items,      \* what a platform can list
  Jobs,       \* scheduler tasks: cancelled when the application stops
  Requests,   \* sync and ingest requests: never cancelled
  None,       \* "no account"
  SlowRuns,   \* may a run still be going after ORPHAN_AFTER?
  MaxRuns,    \* bound: rows of sync_run
  MaxKills    \* bound: times the process is killed

Tasks == Jobs \cup Requests
RunId == 1..MaxRuns

ASSUME NoneAssumption == None \notin Accounts
ASSUME BoundAssumption == MaxRuns \in Nat /\ MaxKills \in Nat
ASSUME SlowAssumption == SlowRuns \in BOOLEAN

VARIABLES
  \* The database.
  last,       \* id of the newest sync_run row
  account,    \* account[r]: whom run r syncs
  status,     \* status[r]: sync_run.status, "none" before the row exists
  overdue,    \* runs whose started_at is further back than ORPHAN_AFTER
  copies,     \* copies[a][i]: the entitlement row of item i
  \* The tasks of the process.
  pc,         \* where in sync_account the task is
  subject,    \* the account it was called for
  mine,       \* the run it opened, 0 before it has
  answer,     \* what the platform answered
  draft,      \* the account's copies as its open transaction has them
  kills       \* times the process was killed

rows == <<last, account, status, overdue>>
locals == <<subject, mine, answer, draft>>
vars == <<last, account, status, overdue, copies,
          pc, subject, mine, answer, draft, kills>>

-----------------------------------------------------------------------------
RunStatus == {"none", "running", "success", "partial", "failed"}

(* removed_at, kept_at and removed_by_run_id of an entitlement.            *)
Copy == [state : {"absent", "live", "removed"},
         kept : BOOLEAN,
         by : 0..MaxRuns]

NoCopy == [state |-> "absent", kept |-> FALSE, by |-> 0]
NoCopies == [i \in Items |-> NoCopy]

(* FetchedLibrary: the items that could be read, whether they claim to be  *)
(* the whole library, and whether entries that could not be read are       *)
(* missing from them.                                                      *)
Answer == [listed : SUBSET Items, complete : BOOLEAN, skipped : BOOLEAN]
NoAnswer == [listed |-> {}, complete |-> FALSE, skipped |-> FALSE]

\* Bug: the sweep takes an answer with pages missing for a whole one.
SweepsIncomplete(ans) == ~ans.skipped

Sweeps(ans) == ans.complete /\ ~ans.skipped

TypeOK ==
  /\ last \in 0..MaxRuns
  /\ account \in [RunId -> Accounts \cup {None}]
  /\ status \in [RunId -> RunStatus]
  /\ overdue \in SUBSET RunId
  /\ copies \in [Accounts -> [Items -> Copy]]
  /\ pc \in [Tasks -> {"idle", "recheck", "fetch", "fetched", "applied", "failing"}]
  /\ subject \in [Tasks -> Accounts \cup {None}]
  /\ mine \in [Tasks -> 0..MaxRuns]
  /\ answer \in [Tasks -> Answer]
  /\ draft \in [Tasks -> [Items -> Copy]]
  /\ kills \in 0..MaxKills

Init ==
  /\ last = 0
  /\ account = [r \in RunId |-> None]
  /\ status = [r \in RunId |-> "none"]
  /\ overdue = {}
  /\ copies = [a \in Accounts |-> NoCopies]
  /\ pc = [t \in Tasks |-> "idle"]
  /\ subject = [t \in Tasks |-> None]
  /\ mine = [t \in Tasks |-> 0]
  /\ answer = [t \in Tasks |-> NoAnswer]
  /\ draft = [t \in Tasks |-> NoCopies]
  /\ kills = 0

-----------------------------------------------------------------------------
(* No task is between its first write and its commit.                      *)
WriteLockFree == \A t \in Tasks : pc[t] # "applied"

Open(a) == {r \in RunId : account[r] = a /\ status[r] = "running"}

\* Bugs: reclaiming any open run, none, or under a status outside the enum.
ReclaimedAny(a) == [r \in RunId |-> IF r \in Open(a) THEN "failed" ELSE status[r]]
ReclaimedNone(a) == status

(* reclaim_orphans: the account's open runs past ORPHAN_AFTER are failed.  *)
Reclaimed(a) ==
  [r \in RunId |-> IF r \in Open(a) /\ r \in overdue THEN "failed" ELSE status[r]]

\* Bug: no partial unique index.
CollidesNever(a) == FALSE

Collides(a) == \E r \in RunId : account[r] = a /\ Reclaimed(a)[r] = "running"

(* The row is committed over `known`, the statuses the transaction wrote.  *)
Insert(a, known) ==
  /\ last < MaxRuns
  /\ last' = last + 1
  /\ account' = [account EXCEPT ![last + 1] = a]
  /\ status' = [known EXCEPT ![last + 1] = "running"]

(* The call returned or raised: its session is gone.                       *)
Return(t) ==
  /\ pc' = [pc EXCEPT ![t] = "idle"]
  /\ subject' = [subject EXCEPT ![t] = None]
  /\ mine' = [mine EXCEPT ![t] = 0]
  /\ answer' = [answer EXCEPT ![t] = NoAnswer]
  /\ draft' = [draft EXCEPT ![t] = NoCopies]

-----------------------------------------------------------------------------
(* _open: reclaim and insert in one transaction.                           *)
Start(t, a) ==
  /\ pc[t] = "idle"
  /\ WriteLockFree
  /\ ~Collides(a)
  /\ Insert(a, Reclaimed(a))
  /\ pc' = [pc EXCEPT ![t] = "fetch"]
  /\ subject' = [subject EXCEPT ![t] = a]
  /\ mine' = [mine EXCEPT ![t] = last + 1]
  /\ UNCHANGED <<overdue, copies, answer, draft, kills>>

(* The partial unique index refused the row; the transaction is rolled     *)
(* back, and the reclaim with it.                                          *)
Collide(t, a) ==
  /\ pc[t] = "idle"
  /\ WriteLockFree
  /\ Collides(a)
  /\ pc' = [pc EXCEPT ![t] = "recheck"]
  /\ subject' = [subject EXCEPT ![t] = a]
  /\ UNCHANGED <<rows, copies, mine, answer, draft, kills>>

(* An open run was found: SyncInProgressError.                             *)
Busy(t) ==
  /\ pc[t] = "recheck"
  /\ WriteLockFree
  /\ Open(subject[t]) # {}
  /\ Return(t)
  /\ UNCHANGED <<rows, copies, kills>>

(* The blocker finished in between: insert again, reclaiming nothing.      *)
Retry(t) ==
  /\ pc[t] = "recheck"
  /\ WriteLockFree
  /\ Open(subject[t]) = {}
  /\ Insert(subject[t], status)
  /\ pc' = [pc EXCEPT ![t] = "fetch"]
  /\ mine' = [mine EXCEPT ![t] = last + 1]
  /\ UNCHANGED <<overdue, copies, subject, answer, draft, kills>>

(* A cancellation that lands on the insert's commit: the row is there, and *)
(* `_open` raises outside the try that would have closed it.               *)
OpenCancelled(t) ==
  /\ t \in Jobs
  /\ WriteLockFree
  /\ \E a \in Accounts :
       /\ pc[t] = "idle" \/ (pc[t] = "recheck" /\ subject[t] = a)
       /\ ~Collides(a)
       /\ Insert(a, Reclaimed(a))
  /\ Return(t)
  /\ UNCHANGED <<overdue, copies, kills>>

(* fetch_library answers.  An answer none of whose entries could be read   *)
(* is a MalformedResponseError and goes to Fail.                           *)
Fetch(t) ==
  /\ pc[t] = "fetch"
  /\ \E ans \in Answer :
       /\ ~(ans.skipped /\ ans.listed = {})
       /\ answer' = [answer EXCEPT ![t] = ans]
  /\ pc' = [pc EXCEPT ![t] = "fetched"]
  /\ UNCHANGED <<rows, copies, subject, mine, draft, kills>>

\* Bug: the sweep does not look at kept_at.
AppliedOverKept(before, ans, r) ==
  [i \in Items |->
     IF i \in ans.listed
       THEN [state |-> "live", kept |-> before[i].kept, by |-> 0]
       ELSE IF Sweeps(ans) /\ before[i].state = "live"
              THEN [state |-> "removed", kept |-> before[i].kept, by |-> r]
              ELSE before[i]]

(* The copies after the run has upserted what is listed and, when it may,  *)
(* swept what is not.  A copy listed again loses its removal; a kept one   *)
(* stays kept, and is never swept.                                         *)
Applied(before, ans, r) ==
  [i \in Items |->
     IF i \in ans.listed
       THEN [state |-> "live", kept |-> before[i].kept, by |-> 0]
       ELSE IF Sweeps(ans) /\ before[i].state = "live" /\ ~before[i].kept
              THEN [state |-> "removed", kept |-> FALSE, by |-> r]
              ELSE before[i]]

(* _apply, up to the flush before the status is written.                   *)
Apply(t) ==
  /\ pc[t] = "fetched"
  /\ WriteLockFree
  /\ draft' = [draft EXCEPT ![t] = Applied(copies[subject[t]], answer[t], mine[t])]
  /\ pc' = [pc EXCEPT ![t] = "applied"]
  /\ UNCHANGED <<rows, copies, subject, mine, answer, kills>>

\* Bug: a failed run commits what it had written.
FailWithoutRollback(t) ==
  /\ pc[t] \in {"fetch", "fetched", "applied"}
  /\ pc' = [pc EXCEPT ![t] = "failing"]
  /\ copies' = IF pc[t] = "applied"
                 THEN [copies EXCEPT ![subject[t]] = draft[t]] ELSE copies
  /\ draft' = [draft EXCEPT ![t] = NoCopies]
  /\ UNCHANGED <<rows, subject, mine, answer, kills>>

(* A ProviderError, a cancellation or any other exception before the last  *)
(* _close.  _close rolls back first, which gives up the write lock.        *)
Fail(t) ==
  /\ pc[t] \in {"fetch", "fetched", "applied"}
  /\ pc' = [pc EXCEPT ![t] = "failing"]
  /\ draft' = [draft EXCEPT ![t] = NoCopies]
  /\ UNCHANGED <<rows, copies, subject, mine, answer, kills>>

(* _close after the rollback: the run is failed.                           *)
CloseFailed(t) ==
  /\ pc[t] = "failing"
  /\ WriteLockFree
  /\ status' = [status EXCEPT ![mine[t]] = "failed"]
  /\ Return(t)
  /\ UNCHANGED <<last, account, overdue, copies, kills>>

Outcome(ans) == IF ans.skipped THEN "partial" ELSE "success"

(* _close in the transaction _apply wrote in: changes and status commit    *)
(* together.                                                               *)
CloseLanded(t) ==
  /\ pc[t] = "applied"
  /\ copies' = [copies EXCEPT ![subject[t]] = draft[t]]
  /\ status' = [status EXCEPT ![mine[t]] = Outcome(answer[t])]
  /\ Return(t)
  /\ UNCHANGED <<last, account, overdue, kills>>

(* _close itself raises: a cancellation inside it, or a database that      *)
(* stays locked past busy_timeout.  Nothing of it commits and nothing      *)
(* catches it, so the row stays `running`.                                 *)
CloseLost(t) ==
  /\ pc[t] \in {"applied", "failing"}
  /\ Return(t)
  /\ UNCHANGED <<rows, copies, kills>>

-----------------------------------------------------------------------------
(* The process is killed and started again: no task survives, and what it  *)
(* had not committed is gone.                                              *)
Kill ==
  /\ kills < MaxKills
  /\ kills' = kills + 1
  /\ pc' = [t \in Tasks |-> "idle"]
  /\ subject' = [t \in Tasks |-> None]
  /\ mine' = [t \in Tasks |-> 0]
  /\ answer' = [t \in Tasks |-> NoAnswer]
  /\ draft' = [t \in Tasks |-> NoCopies]
  /\ UNCHANGED <<rows, copies>>

(* An hour passes since the run was opened.  ORPHAN_AFTER is generous so   *)
(* that this only happens to a run no task is left for; SlowRuns drops     *)
(* that assumption.                                                        *)
Age(r) ==
  /\ status[r] = "running"
  /\ SlowRuns \/ \A t \in Tasks : mine[t] # r
  /\ overdue' = overdue \cup {r}
  /\ UNCHANGED <<last, account, status, copies, pc, locals, kills>>

(* POST /entitlements/{id}/restore: 409 unless the copy is removed.        *)
Restore(a, i) ==
  /\ WriteLockFree
  /\ copies[a][i].state = "removed"
  /\ copies' = [copies EXCEPT ![a][i] = [state |-> "live", kept |-> TRUE, by |-> 0]]
  /\ UNCHANGED <<rows, pc, locals, kills>>

(* DELETE /entitlements/{id}/keep, whatever state the copy is in.  A row   *)
(* that is not there is a 404, which changes as little.                    *)
LetGo(a, i) ==
  /\ WriteLockFree
  /\ copies' = [copies EXCEPT ![a][i].kept = FALSE]
  /\ UNCHANGED <<rows, pc, locals, kills>>

(* What a task that has been called goes on to do.                         *)
Progress(t) ==
  \/ Busy(t) \/ Retry(t)
  \/ Fetch(t) \/ Apply(t) \/ Fail(t)
  \/ CloseFailed(t) \/ CloseLanded(t) \/ CloseLost(t)

Next ==
  \/ \E t \in Tasks, a \in Accounts : Start(t, a) \/ Collide(t, a)
  \/ \E t \in Tasks : OpenCancelled(t) \/ Progress(t)
  \/ \E r \in RunId : Age(r)
  \/ \E a \in Accounts, i \in Items : Restore(a, i) \/ LetGo(a, i)
  \/ Kill

Spec == Init /\ [][Next]_vars

(***************************************************************************)
(* A task goes on: the client's timeout bounds the fetch, busy_timeout the *)
(* wait for the write lock.  The clock goes on.  The scheduler's interval  *)
(* comes round again for every account.                                    *)
(***************************************************************************)
Fairness ==
  /\ \A t \in Tasks : WF_vars(Progress(t))
  /\ \A r \in RunId : WF_vars(Age(r))
  /\ \A t \in Jobs, a \in Accounts : WF_vars(Start(t, a))

FairSpec == Spec /\ Fairness
-----------------------------------------------------------------------------
Landed == {"success", "partial"}

(* One writer per account: two tasks that opened a run of the same account *)
(* and have not finished are the same task.  The index is on open rows;    *)
(* this is what it is for, and it needs reclaiming never to take the row   *)
(* of a task that is still going.                                          *)
OneWriterPerAccount ==
  \A t, u \in Tasks :
    (mine[t] # 0 /\ mine[u] # 0 /\ subject[t] = subject[u]) => t = u

(* Rule 1 on disk: a removed copy names a run of its own account that      *)
(* committed as `success`, and a copy that is there names none.            *)
RemovalsOwnedBySuccess ==
  \A a \in Accounts, i \in Items :
    LET c == copies[a][i] IN
      IF c.state = "removed"
        THEN c.by # 0 /\ status[c.by] = "success" /\ account[c.by] = a
        ELSE c.by = 0

(* Rule 3: a copy the owner keeps is in the library, whatever the platform *)
(* lists; no interleaving of sweep, restore and let-go leaves it removed.  *)
KeptIsLive ==
  \A a \in Accounts, i \in Items :
    copies[a][i].kept => copies[a][i].state = "live"

(* Rule 1 as a step: a copy only becomes removed in the step that makes a  *)
(* run `success`, when that run's answer was whole and did not list it.    *)
RemovalIsJustified ==
  [][\A a \in Accounts, i \in Items :
       (copies[a][i].state = "live" /\ copies'[a][i].state = "removed") =>
         \E t \in Tasks :
           /\ mine[t] # 0 /\ copies'[a][i].by = mine[t]
           /\ account[mine[t]] = a
           /\ status'[mine[t]] = "success"
           /\ answer[t].complete /\ ~answer[t].skipped
           /\ i \notin answer[t].listed]_vars

(* A run that lands is the newest of its account to have landed: an older  *)
(* listing never overwrites what a newer one said.                         *)
LandsInOrder ==
  [][\A r \in RunId :
       (status[r] \notin Landed /\ status'[r] \in Landed) =>
         \A q \in RunId :
           (q > r /\ account[q] = account[r]) => status[q] \notin Landed]_vars

(* Every status but `running` is final: a run reported finished is never   *)
(* reported otherwise later.                                               *)
FinishedIsFinal ==
  [][\A r \in RunId :
       status[r] \in {"success", "partial", "failed"} => status'[r] = status[r]]_vars

(* A run that is open is eventually finished, whatever killed its task:    *)
(* the next sync of the account reclaims it.  The last row of the bound    *)
(* has no next sync.                                                       *)
EveryRunFinishes ==
  \A r \in RunId \ {MaxRuns} : status[r] = "running" ~> status[r] # "running"

-----------------------------------------------------------------------------
(* Every committed change to the copies is one whole landing, one restore  *)
(* or one let-go.                                                          *)
Seen(c) ==
  IF c.state = "live" /\ c.kept THEN "kept" ELSE c.state

Owned == INSTANCE OwnedCopies
           WITH copies <- [a \in Accounts |-> [i \in Items |-> Seen(copies[a][i])]]

ImplementsOwnedCopies == Owned!Spec
=============================================================================
