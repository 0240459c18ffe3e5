--------------------------- MODULE SyncRunProofs ---------------------------
(***************************************************************************)
(* What SyncRun's runs show on small instances, proved for every set of    *)
(* accounts, items and tasks and for every bound.  The argument is one     *)
(* inductive invariant built in layers: what the rows and the tasks look   *)
(* like, who holds which run, what the holder of the write lock has in its *)
(* transaction, and what that says of the copies on disk.                  *)
(***************************************************************************)
EXTENDS SyncRun, TLAPS

USE NoneAssumption, BoundAssumption, SlowAssumption

Holding == {"fetch", "fetched", "applied", "failing"}

(* Rows are inserted in order, and a task past `_open` holds one of them.  *)
Claims ==
  /\ \A r \in RunId : r > last => status[r] = "none"
  /\ \A r \in RunId : r <= last => status[r] # "none" /\ account[r] \in Accounts
  /\ \A t \in Tasks :
       IF pc[t] \in Holding
         THEN /\ mine[t] \in RunId /\ mine[t] <= last
              /\ subject[t] \in Accounts
              /\ account[mine[t]] = subject[t]
              /\ status[mine[t]] \in {"running", "failed"}
         ELSE mine[t] = 0
  /\ \A t \in Tasks : pc[t] = "recheck" => subject[t] \in Accounts
  /\ \A t, u \in Tasks : (mine[t] # 0 /\ mine[t] = mine[u]) => t = u

(* At most one task is between its first write and its commit.             *)
OneTransaction ==
  \A t, u \in Tasks : (pc[t] = "applied" /\ pc[u] = "applied") => t = u

Shape == TypeOK /\ Claims /\ OneTransaction

LEMMA AppliedType ==
  ASSUME NEW before \in [Items -> Copy], NEW ans \in Answer, NEW r \in 0..MaxRuns
  PROVE  Applied(before, ans, r) \in [Items -> Copy]
BY DEF Applied, Copy, Answer, Sweeps

LEMMA NoCopiesType == NoCopies \in [Items -> Copy] /\ NoAnswer \in Answer
BY DEF NoCopies, NoCopy, Copy, NoAnswer, Answer

LEMMA ReclaimedType ==
  ASSUME TypeOK, NEW a \in Accounts
  PROVE  /\ Reclaimed(a) \in [RunId -> RunStatus]
         /\ \A r \in RunId : Reclaimed(a)[r] = status[r]
                             \/ (status[r] = "running" /\ Reclaimed(a)[r] = "failed")
BY DEF TypeOK, Reclaimed, RunStatus, Open

LEMMA ShapeInit == Init => Shape
BY NoCopiesType DEF Init, Shape, TypeOK, Claims, OneTransaction, Tasks, RunId,
   RunStatus, Holding

LEMMA ShapeStep == Shape /\ [Next]_vars => Shape'
<1> SUFFICES ASSUME Shape, [Next]_vars PROVE Shape'
  OBVIOUS
<1> USE DEF Shape, RunId
<1>1. ASSUME NEW t \in Tasks, NEW a \in Accounts, Start(t, a) PROVE Shape'
  <2> USE <1>1 DEF Start, Insert, rows
  <2>1. TypeOK'
    BY ReclaimedType DEF TypeOK, RunStatus
  <2>2. Claims'
    BY ReclaimedType DEF TypeOK, Claims, Holding
  <2>3. OneTransaction'
    BY DEF OneTransaction, TypeOK
  <2> QED BY <2>1, <2>2, <2>3
<1>2. ASSUME NEW t \in Tasks, NEW a \in Accounts, Collide(t, a) PROVE Shape'
  BY <1>2 DEF Collide, rows, TypeOK, Claims, OneTransaction, Holding
<1>3. ASSUME NEW t \in Tasks, Busy(t) PROVE Shape'
  BY <1>3, NoCopiesType DEF Busy, Return, rows, TypeOK, Claims, OneTransaction, Holding
<1>4. ASSUME NEW t \in Tasks, Retry(t) PROVE Shape'
  <2> USE <1>4 DEF Retry, Insert
  <2>1. subject[t] \in Accounts
    BY DEF Claims
  <2>2. TypeOK'
    BY <2>1 DEF TypeOK, RunStatus
  <2>3. Claims'
    BY <2>1 DEF TypeOK, Claims, Holding
  <2>4. OneTransaction'
    BY DEF OneTransaction, TypeOK
  <2> QED BY <2>2, <2>3, <2>4
<1>5. ASSUME NEW t \in Tasks, OpenCancelled(t) PROVE Shape'
  <2> USE <1>5 DEF OpenCancelled, Insert, Return
  <2>1. PICK a \in Accounts :
          /\ pc[t] = "idle" \/ (pc[t] = "recheck" /\ subject[t] = a)
          /\ ~Collides(a)
          /\ Insert(a, Reclaimed(a))
    OBVIOUS
  <2>2. TypeOK'
    BY <2>1, ReclaimedType, NoCopiesType DEF TypeOK, RunStatus
  <2>3. Claims'
    BY <2>1, ReclaimedType DEF TypeOK, Claims, Holding
  <2>4. OneTransaction'
    BY DEF OneTransaction, TypeOK
  <2> QED BY <2>2, <2>3, <2>4
<1>6. ASSUME NEW t \in Tasks, Fetch(t) PROVE Shape'
  BY <1>6 DEF Fetch, rows, TypeOK, Claims, OneTransaction, Holding
<1>7. ASSUME NEW t \in Tasks, Apply(t) PROVE Shape'
  <2> USE <1>7 DEF Apply, rows
  <2>1. Applied(copies[subject[t]], answer[t], mine[t]) \in [Items -> Copy]
    BY AppliedType DEF TypeOK, Claims, Holding
  <2>2. TypeOK'
    BY <2>1 DEF TypeOK
  <2>3. Claims' /\ OneTransaction'
    BY DEF TypeOK, Claims, OneTransaction, Holding, WriteLockFree
  <2> QED BY <2>2, <2>3
<1>8. ASSUME NEW t \in Tasks, Fail(t) PROVE Shape'
  BY <1>8, NoCopiesType DEF Fail, rows, TypeOK, Claims, OneTransaction, Holding
<1>9. ASSUME NEW t \in Tasks, CloseFailed(t) PROVE Shape'
  BY <1>9, NoCopiesType DEF CloseFailed, Return, TypeOK, RunStatus, Claims,
     OneTransaction, Holding
<1>10. ASSUME NEW t \in Tasks, CloseLanded(t) PROVE Shape'
  BY <1>10, NoCopiesType DEF CloseLanded, Return, Outcome, TypeOK, RunStatus, Claims,
     OneTransaction, Holding
<1>11. ASSUME NEW t \in Tasks, CloseLost(t) PROVE Shape'
  BY <1>11, NoCopiesType DEF CloseLost, Return, rows, TypeOK, Claims, OneTransaction,
     Holding
<1>12. CASE Kill
  BY <1>12, NoCopiesType DEF Kill, rows, TypeOK, Claims, OneTransaction, Holding
<1>13. ASSUME NEW r \in RunId, Age(r) PROVE Shape'
  BY <1>13 DEF Age, locals, TypeOK, Claims, OneTransaction, Holding
<1>14. ASSUME NEW a \in Accounts, NEW i \in Items, Restore(a, i) PROVE Shape'
  BY <1>14 DEF Restore, rows, locals, TypeOK, Copy, Claims, OneTransaction, Holding
<1>15. ASSUME NEW a \in Accounts, NEW i \in Items, LetGo(a, i) PROVE Shape'
  <2> USE <1>15 DEF LetGo, rows, locals
  <2>0. copies[a][i] \in Copy
    BY DEF TypeOK
  <2>1. [copies[a][i] EXCEPT !.kept = FALSE] \in Copy
    BY <2>0 DEF Copy
  <2>2. copies' = [copies EXCEPT ![a] = [copies[a] EXCEPT ![i] =
                     [copies[a][i] EXCEPT !.kept = FALSE]]]
    BY DEF TypeOK
  <2>3. copies' \in [Accounts -> [Items -> Copy]]
    BY <2>1, <2>2 DEF TypeOK
  <2>4. TypeOK'
    BY <2>3 DEF TypeOK
  <2>5. Claims' /\ OneTransaction'
    BY DEF Claims, OneTransaction, Holding
  <2> QED BY <2>4, <2>5
<1>16. CASE UNCHANGED vars
  BY <1>16 DEF vars, TypeOK, Claims, OneTransaction, Holding
<1> QED
  BY <1>1, <1>2, <1>3, <1>4, <1>5, <1>6, <1>7, <1>8, <1>9, <1>10, <1>11, <1>12,
     <1>13, <1>14, <1>15, <1>16 DEF Next, Progress

(* Rows, claims and the write lock are as Shape says in every state.       *)
THEOREM ShapeHolds == Spec => []Shape
<1>1. Init => Shape
  BY ShapeInit
<1>2. Shape /\ [Next]_vars => Shape'
  BY ShapeStep
<1> QED BY <1>1, <1>2, PTL DEF Spec

(* Every variable keeps its type.                                          *)
THEOREM TypeCorrect == Spec => []TypeOK
<1>1. Shape => TypeOK
  BY DEF Shape
<1> QED BY <1>1, ShapeHolds, PTL

-----------------------------------------------------------------------------
(* The transaction a task holds was computed from the copies that are on   *)
(* disk now: nobody wrote since it took the write lock.                    *)
DraftIsCurrent ==
  \A t \in Tasks : pc[t] = "applied" =>
    draft[t] = Applied(copies[subject[t]], answer[t], mine[t])

LEMMA DraftStep == Shape /\ DraftIsCurrent /\ [Next]_vars => DraftIsCurrent'
<1> SUFFICES ASSUME Shape, DraftIsCurrent, [Next]_vars,
                    NEW u \in Tasks, pc'[u] = "applied"
             PROVE  (draft[u] = Applied(copies[subject[u]], answer[u], mine[u]))'
  BY DEF DraftIsCurrent
<1> USE DEF Shape, TypeOK, DraftIsCurrent
<1>1. ASSUME NEW t \in Tasks, NEW a \in Accounts, Start(t, a) \/ Collide(t, a) PROVE FALSE
  BY <1>1 DEF Start, Collide, WriteLockFree
<1>2. ASSUME NEW t \in Tasks, Busy(t) \/ Retry(t) \/ OpenCancelled(t) PROVE FALSE
  BY <1>2 DEF Busy, Retry, OpenCancelled, Return, WriteLockFree
<1>3. ASSUME NEW t \in Tasks, Apply(t) PROVE (draft[u] = Applied(copies[subject[u]], answer[u], mine[u]))'
  <2>1. u = t
    BY <1>3 DEF Apply, WriteLockFree
  <2> QED BY <1>3, <2>1 DEF Apply, rows, Applied
<1>4. ASSUME NEW t \in Tasks, Fetch(t) \/ Fail(t) \/ CloseLost(t)
      PROVE (draft[u] = Applied(copies[subject[u]], answer[u], mine[u]))'
  <2>1. u # t /\ pc[u] = "applied" /\ UNCHANGED copies
    BY <1>4 DEF Fetch, Fail, CloseLost, Return
  <2>2. draft'[u] = draft[u] /\ subject'[u] = subject[u] /\ answer'[u] = answer[u]
        /\ mine'[u] = mine[u]
    BY <1>4, <2>1 DEF Fetch, Fail, CloseLost, Return
  <2> QED BY <2>1, <2>2 DEF Applied
<1>5. ASSUME NEW t \in Tasks, CloseFailed(t) PROVE FALSE
  BY <1>5 DEF CloseFailed, WriteLockFree, Return
<1>6. ASSUME NEW t \in Tasks, CloseLanded(t) PROVE FALSE
  BY <1>6 DEF CloseLanded, OneTransaction, Return
<1>7. ASSUME NEW a \in Accounts, NEW i \in Items, Restore(a, i) \/ LetGo(a, i) PROVE FALSE
  BY <1>7 DEF Restore, LetGo, WriteLockFree
<1>8. CASE Kill
  BY <1>8 DEF Kill
<1>9. ASSUME NEW r \in RunId, Age(r) PROVE (draft[u] = Applied(copies[subject[u]], answer[u], mine[u]))'
  BY <1>9 DEF Age, locals, Applied
<1>10. CASE UNCHANGED vars
  BY <1>10 DEF vars, Applied
<1> QED
  BY <1>1, <1>2, <1>3, <1>4, <1>5, <1>6, <1>7, <1>8, <1>9, <1>10 DEF Next, Progress

LEMMA DraftHolds == Spec => []DraftIsCurrent
<1>1. Init => DraftIsCurrent
  BY DEF Init, DraftIsCurrent
<1> QED BY <1>1, DraftStep, ShapeHolds, PTL DEF Spec

(* Between one state and the next the copies of an account change in three *)
(* ways only.                                                              *)
LEMMA CopiesStep ==
  ASSUME Shape, DraftIsCurrent, Next
  PROVE  \/ UNCHANGED copies
         \/ \E t \in Tasks :
              /\ CloseLanded(t)
              /\ copies' = [copies EXCEPT ![subject[t]] =
                              Applied(copies[subject[t]], answer[t], mine[t])]
         \/ \E a \in Accounts, i \in Items : Restore(a, i) \/ LetGo(a, i)
BY DEF Next, Progress, Start, Collide, Busy, Retry, OpenCancelled, Fetch, Apply, Fail,
   CloseFailed, CloseLanded, CloseLost, Kill, Age, DraftIsCurrent

(* What a landing leaves of one copy, and of every other account's.        *)
LandedAs(t, a, i) ==
  /\ copies'[a][i] # copies[a][i] => a = subject[t]
  /\ (copies'[a][i] # copies[a][i] /\ copies'[a][i].state # "removed") =>
        copies'[a][i].state = "live" /\ copies'[a][i].by = 0
  /\ (copies'[a][i] # copies[a][i] /\ copies'[a][i].state = "removed") =>
        /\ copies[a][i].state = "live" /\ i \notin answer[t].listed
        /\ answer[t].complete = TRUE /\ answer[t].skipped = FALSE /\ copies'[a][i].by = mine[t]
        /\ copies'[a][i].kept = FALSE

LEMMA LandedCopies ==
  ASSUME Shape, NEW t \in Tasks, CloseLanded(t),
         copies' = [copies EXCEPT ![subject[t]] =
                     Applied(copies[subject[t]], answer[t], mine[t])],
         NEW a \in Accounts, NEW i \in Items
  PROVE  LandedAs(t, a, i)
<1>1. subject[t] \in Accounts /\ mine[t] \in RunId
  BY DEF Shape, Claims, Holding, CloseLanded
<1>2. copies[subject[t]] \in [Items -> Copy] /\ answer[t] \in Answer
      /\ mine[t] \in 0..MaxRuns
  BY <1>1 DEF Shape, TypeOK
<1>3. CASE a # subject[t]
  BY <1>1, <1>3 DEF Shape, TypeOK, LandedAs
<1>4. CASE a = subject[t]
  <2>1. copies'[a][i] = Applied(copies[a], answer[t], mine[t])[i]
    BY <1>1, <1>4 DEF Shape, TypeOK
  <2>2. copies[a] \in [Items -> Copy]
    BY DEF Shape, TypeOK
  <2> DEFINE old == copies[a][i]
             new == copies'[a][i]
  <2>3. CASE i \in answer[t].listed
    <3>1. new = [state |-> "live", kept |-> old.kept, by |-> 0]
      BY <2>1, <2>3 DEF Applied
    <3>2. new.state = "live" /\ new.kept = old.kept /\ new.by = 0
      BY <3>1
    <3> QED BY <3>2, <1>4, <2>3 DEF LandedAs
  <2>4. CASE i \notin answer[t].listed /\ Sweeps(answer[t]) /\ old.state = "live" /\ ~old.kept
    <3>1. new = [state |-> "removed", kept |-> FALSE, by |-> mine[t]]
      BY <2>1, <2>4 DEF Applied
    <3>2. new.state = "removed" /\ new.kept = FALSE /\ new.by = mine[t]
      BY <3>1
    <3>3. answer[t].complete = TRUE /\ answer[t].skipped = FALSE
      BY <2>4, <1>2 DEF Sweeps, Answer
    <3> QED BY <3>2, <3>3, <2>4, <1>4 DEF LandedAs
  <2>5. CASE i \notin answer[t].listed /\ ~(Sweeps(answer[t]) /\ old.state = "live" /\ ~old.kept)
    BY <2>1, <2>5 DEF Applied, LandedAs
  <2> QED BY <2>3, <2>4, <2>5
<1> QED BY <1>3, <1>4

LEMMA KeptStep == Shape /\ DraftIsCurrent /\ KeptIsLive /\ [Next]_vars => KeptIsLive'
<1> SUFFICES ASSUME Shape, DraftIsCurrent, KeptIsLive, [Next]_vars,
                    NEW a \in Accounts, NEW i \in Items, copies'[a][i].kept
             PROVE  copies'[a][i].state = "live"
  BY DEF KeptIsLive
<1>1. CASE UNCHANGED copies
  BY <1>1 DEF KeptIsLive
<1>2. ASSUME NEW t \in Tasks, CloseLanded(t),
             copies' = [copies EXCEPT ![subject[t]] =
                         Applied(copies[subject[t]], answer[t], mine[t])]
      PROVE  copies'[a][i].state = "live"
  <2>1. CASE copies'[a][i] = copies[a][i]
    BY <2>1 DEF KeptIsLive
  <2>2. CASE copies'[a][i] # copies[a][i] /\ copies'[a][i].state = "removed"
    <3>1. copies'[a][i].kept = FALSE
      BY <1>2, <2>2, LandedCopies DEF LandedAs
    <3> QED BY <3>1
  <2>3. CASE copies'[a][i] # copies[a][i] /\ copies'[a][i].state # "removed"
    BY <1>2, <2>3, LandedCopies DEF LandedAs
  <2> QED BY <2>1, <2>2, <2>3
<1>3. ASSUME NEW b \in Accounts, NEW j \in Items, Restore(b, j)
      PROVE  copies'[a][i].state = "live"
  BY <1>3 DEF Restore, KeptIsLive, Shape, TypeOK
<1>4. ASSUME NEW b \in Accounts, NEW j \in Items, LetGo(b, j)
      PROVE  copies'[a][i].state = "live"
  <2>1. copies' = [copies EXCEPT ![b] = [copies[b] EXCEPT ![j] =
                     [copies[b][j] EXCEPT !.kept = FALSE]]]
    BY <1>4 DEF LetGo, Shape, TypeOK
  <2>2. copies[b][j] \in Copy
    BY DEF Shape, TypeOK
  <2>3. copies'[a][i] = copies[a][i]
    BY <2>1, <2>2 DEF Shape, TypeOK, Copy
  <2> QED BY <2>3 DEF KeptIsLive
<1>5. CASE UNCHANGED vars
  BY <1>5, <1>1 DEF vars
<1> QED BY <1>1, <1>2, <1>3, <1>4, <1>5, CopiesStep

(* Rule 3: sweeping, restoring and letting go, in any order and from any   *)
(* number of tasks, never leave a kept copy out of the library.            *)
THEOREM KeptStaysLive == Spec => []KeptIsLive
<1>1. Init => KeptIsLive
  BY DEF Init, KeptIsLive, NoCopies, NoCopy
<1> QED BY <1>1, KeptStep, ShapeHolds, DraftHolds, PTL DEF Spec

-----------------------------------------------------------------------------
(* Run rows along a step: a run that is `success` stays so, and no row     *)
(* changes the account it is for.                                          *)
LEMMA RowsStep ==
  ASSUME Shape, [Next]_vars, NEW r \in RunId, status[r] = "success"
  PROVE  status'[r] = "success" /\ account'[r] = account[r]
<1>1. r <= last /\ last \in 0..MaxRuns
  BY DEF Shape, TypeOK, Claims, RunId
<1>2. ASSUME NEW a \in Accounts, Insert(a, Reclaimed(a))
      PROVE  status'[r] = "success" /\ account'[r] = account[r]
  BY <1>1, <1>2, ReclaimedType DEF Insert, Shape, TypeOK, RunId
<1>3. ASSUME NEW t \in Tasks, Retry(t) PROVE status'[r] = "success" /\ account'[r] = account[r]
  BY <1>1, <1>3 DEF Retry, Insert, Shape, TypeOK, RunId
<1>4. ASSUME NEW t \in Tasks, CloseFailed(t) \/ CloseLanded(t)
      PROVE  status'[r] = "success" /\ account'[r] = account[r]
  <2>1. mine[t] # r /\ mine[t] \in RunId
    BY <1>4 DEF Shape, Claims, Holding, CloseFailed, CloseLanded
  <2> QED BY <1>4, <2>1 DEF CloseFailed, CloseLanded, Shape, TypeOK
<1> QED
  BY <1>2, <1>3, <1>4 DEF Next, Progress, vars, rows, Start, Collide, Busy, OpenCancelled,
     Fetch, Apply, Fail, CloseLost, Kill, Age, Restore, LetGo

LEMMA RemovalsStep ==
  Shape /\ DraftIsCurrent /\ RemovalsOwnedBySuccess /\ [Next]_vars
    => RemovalsOwnedBySuccess'
<1> SUFFICES ASSUME Shape, DraftIsCurrent, RemovalsOwnedBySuccess, [Next]_vars,
                    NEW a \in Accounts, NEW i \in Items
             PROVE  LET c == copies'[a][i] IN
                      IF c.state = "removed"
                        THEN c.by # 0 /\ status'[c.by] = "success" /\ account'[c.by] = a
                        ELSE c.by = 0
  BY DEF RemovalsOwnedBySuccess
<1> DEFINE c == copies[a][i]
<1>1. c \in Copy
  BY DEF Shape, TypeOK
<1>2. IF c.state = "removed"
        THEN c.by # 0 /\ status[c.by] = "success" /\ account[c.by] = a
        ELSE c.by = 0
  BY DEF RemovalsOwnedBySuccess
<1>3. IF c.state = "removed"
        THEN c.by # 0 /\ status'[c.by] = "success" /\ account'[c.by] = a
        ELSE c.by = 0
  <2>1. CASE c.state = "removed"
    <3>1. c.by \in RunId
      BY <1>1, <1>2, <2>1 DEF Copy, RunId
    <3> QED BY <1>2, <2>1, <3>1, RowsStep
  <2> QED BY <1>2, <2>1
<1>4. CASE copies'[a][i] = copies[a][i]
  BY <1>3, <1>4
<1>5. ASSUME NEW t \in Tasks, CloseLanded(t),
             copies' = [copies EXCEPT ![subject[t]] =
                         Applied(copies[subject[t]], answer[t], mine[t])],
             a = subject[t], answer[t].complete = TRUE, answer[t].skipped = FALSE,
             copies'[a][i].state = "removed", copies'[a][i].by = mine[t]
      PROVE  /\ copies'[a][i].by # 0 /\ status'[copies'[a][i].by] = "success"
             /\ account'[copies'[a][i].by] = a
  <2>1. mine[t] \in RunId /\ account[mine[t]] = a
    BY <1>5 DEF Shape, Claims, Holding, CloseLanded
  <2>2. status'[mine[t]] = "success" /\ account' = account
    BY <1>5, <2>1 DEF CloseLanded, Outcome, Shape, TypeOK
  <2> QED BY <1>5, <2>1, <2>2 DEF RunId
<1>6. ASSUME NEW t \in Tasks, CloseLanded(t),
             copies' = [copies EXCEPT ![subject[t]] =
                         Applied(copies[subject[t]], answer[t], mine[t])]
      PROVE  LET d == copies'[a][i] IN
               IF d.state = "removed"
                 THEN d.by # 0 /\ status'[d.by] = "success" /\ account'[d.by] = a
                 ELSE d.by = 0
  <2>0. LandedAs(t, a, i)
    BY <1>6, LandedCopies
  <2>1. CASE copies'[a][i] = copies[a][i]
    BY <2>1, <1>4
  <2>2. CASE copies'[a][i] # copies[a][i] /\ copies'[a][i].state # "removed"
    <3>1. copies'[a][i].by = 0
      BY <2>0, <2>2 DEF LandedAs
    <3> QED BY <2>2, <3>1
  <2>3. CASE copies'[a][i] # copies[a][i] /\ copies'[a][i].state = "removed"
    <3>1. a = subject[t]
      BY <2>0, <2>3 DEF LandedAs
    <3>2. answer[t].complete = TRUE
      BY <2>0, <2>3 DEF LandedAs
    <3>3. answer[t].skipped = FALSE
      BY <2>0, <2>3 DEF LandedAs
    <3>4. copies'[a][i].by = mine[t]
      BY <2>0, <2>3 DEF LandedAs
    <3> QED BY <2>3, <3>1, <3>2, <3>3, <3>4, <1>5, <1>6
  <2> QED BY <2>1, <2>2, <2>3
<1>7. ASSUME NEW b \in Accounts, NEW j \in Items, Restore(b, j)
      PROVE  copies'[a][i] = c \/ (copies'[a][i].state = "live" /\ copies'[a][i].by = 0)
  BY <1>7 DEF Restore, Shape, TypeOK
<1>8. ASSUME NEW b \in Accounts, NEW j \in Items, LetGo(b, j)
      PROVE  copies'[a][i].state = c.state /\ copies'[a][i].by = c.by
  <2>1. copies' = [copies EXCEPT ![b] = [copies[b] EXCEPT ![j] =
                     [copies[b][j] EXCEPT !.kept = FALSE]]]
    BY <1>8 DEF LetGo, Shape, TypeOK
  <2>2. copies[b][j] \in Copy
    BY DEF Shape, TypeOK
  <2> QED BY <2>1, <2>2 DEF Shape, TypeOK, Copy
<1>9. CASE UNCHANGED vars
  BY <1>9, <1>4 DEF vars
<1> QED BY <1>3, <1>4, <1>6, <1>7, <1>8, <1>9, CopiesStep

(* Rule 1: every removal on disk belongs to a `success` run of its own     *)
(* account, even when runs are reclaimed while they are still going.       *)
THEOREM RemovalsBelongToSuccess == Spec => []RemovalsOwnedBySuccess
<1>1. Init => RemovalsOwnedBySuccess
  BY DEF Init, RemovalsOwnedBySuccess, NoCopies, NoCopy
<1> QED BY <1>1, RemovalsStep, ShapeHolds, DraftHolds, PTL DEF Spec

(* Rule 1 as a step: only a whole listing that leaves a copy out removes   *)
(* it, in the transaction that makes its run `success`.                    *)
THEOREM RemovalsAreJustified == Spec => RemovalIsJustified
<1> DEFINE Justified ==
      \A a \in Accounts, i \in Items :
        (copies[a][i].state = "live" /\ copies'[a][i].state = "removed") =>
          \E t \in Tasks :
            /\ mine[t] # 0 /\ copies'[a][i].by = mine[t]
            /\ account[mine[t]] = a
            /\ status'[mine[t]] = "success"
            /\ answer[t].complete /\ ~answer[t].skipped
            /\ i \notin answer[t].listed
<1>1. Shape /\ DraftIsCurrent /\ [Next]_vars => [Justified]_vars
  <2> SUFFICES ASSUME Shape, DraftIsCurrent, Next,
                      NEW a \in Accounts, NEW i \in Items,
                      copies[a][i].state = "live", copies'[a][i].state = "removed"
               PROVE  \E t \in Tasks :
                        /\ mine[t] # 0 /\ copies'[a][i].by = mine[t]
                        /\ account[mine[t]] = a
                        /\ status'[mine[t]] = "success"
                        /\ answer[t].complete /\ ~answer[t].skipped
                        /\ i \notin answer[t].listed
    OBVIOUS
  <2>1. ASSUME NEW b \in Accounts, NEW j \in Items, Restore(b, j) \/ LetGo(b, j) PROVE FALSE
    <3>1. copies[b][j] \in Copy
      BY DEF Shape, TypeOK
    <3>2. CASE Restore(b, j)
      BY <3>2 DEF Restore, Shape, TypeOK
    <3>3. CASE LetGo(b, j)
      <4>1. copies' = [copies EXCEPT ![b] = [copies[b] EXCEPT ![j] =
                         [copies[b][j] EXCEPT !.kept = FALSE]]]
        BY <3>3 DEF LetGo, Shape, TypeOK
      <4>2. copies'[a][i].state = copies[a][i].state
        BY <4>1, <3>1 DEF Shape, TypeOK, Copy
      <4> QED BY <4>2
    <3> QED BY <2>1, <3>2, <3>3
  <2>2. PICK t \in Tasks :
          /\ CloseLanded(t)
          /\ copies' = [copies EXCEPT ![subject[t]] =
                          Applied(copies[subject[t]], answer[t], mine[t])]
    BY <2>1, CopiesStep
  <2>3. copies'[a][i] # copies[a][i]
    OBVIOUS
  <2> LandedAs(t, a, i)
    BY <2>2, LandedCopies
  <2>4. a = subject[t]
    BY <2>3 DEF LandedAs
  <2>5. copies'[a][i].by = mine[t]
    BY <2>3 DEF LandedAs
  <2>6. answer[t].complete = TRUE
    BY <2>3 DEF LandedAs
  <2>7. answer[t].skipped = FALSE
    BY <2>3 DEF LandedAs
  <2>8. i \notin answer[t].listed
    BY <2>3 DEF LandedAs
  <2>9. mine[t] \in RunId /\ account[mine[t]] = a
    BY <2>2, <2>4 DEF Shape, Claims, Holding, CloseLanded
  <2>10. status'[mine[t]] = "success"
    BY <2>2, <2>7, <2>9 DEF CloseLanded, Outcome, Shape, TypeOK
  <2>11. mine[t] # 0
    BY <2>9 DEF RunId
  <2> QED BY <2>5, <2>6, <2>7, <2>8, <2>9, <2>10, <2>11
<1>2. RemovalIsJustified <=> [][Justified]_vars
  BY PTL DEF RemovalIsJustified
<1> QED BY <1>1, <1>2, ShapeHolds, DraftHolds, PTL DEF Spec

-----------------------------------------------------------------------------
(* While an hour is longer than any run, a task's run is open until the    *)
(* task closes it, and an account's open run is its newest.                *)
Unreclaimed ==
  /\ \A r \in overdue : r <= last
  /\ \A t \in Tasks : mine[t] # 0 => status[mine[t]] = "running" /\ mine[t] \notin overdue
  /\ \A r, q \in RunId :
       (status[r] = "running" /\ q > r /\ q <= last) => account[q] # account[r]

(* A new row goes in when no row of its account is open any more.          *)
LEMMA InsertStep ==
  ASSUME Shape, Unreclaimed, NEW a \in Accounts, ~Collides(a), Insert(a, Reclaimed(a))
  PROVE  /\ last + 1 \in RunId /\ last' = last + 1
         /\ status'[last + 1] = "running" /\ last + 1 \notin overdue
         /\ \A r \in RunId : (status[r] = "running" /\ r \notin overdue) => status'[r] = "running"
         /\ \A r, q \in RunId :
              (status'[r] = "running" /\ q > r /\ q <= last') => account'[q] # account'[r]
<1> USE DEF Shape, RunId
<1>1. last + 1 \in RunId /\ last' = last + 1 /\ last \in 0..MaxRuns
      /\ account' = [account EXCEPT ![last + 1] = a]
      /\ status' = [Reclaimed(a) EXCEPT ![last + 1] = "running"]
  BY DEF Insert, TypeOK
<1>2. status'[last + 1] = "running" /\ last + 1 \notin overdue
  BY <1>1 DEF Reclaimed, Unreclaimed
<1>3. \A r \in RunId : r # last + 1 =>
        /\ account'[r] = account[r]
        /\ status'[r] = status[r] \/ (status'[r] = "failed" /\ r \in overdue)
  BY <1>1 DEF Reclaimed, TypeOK
<1>4. \A r \in RunId : (r # last + 1 /\ status'[r] = "running") => account[r] # a
  BY <1>1 DEF Collides, Reclaimed, TypeOK
<1>5. \A r \in RunId : (status[r] = "running" /\ r \notin overdue) => status'[r] = "running"
  BY <1>2, <1>3
<1>6. ASSUME NEW r \in RunId, NEW q \in RunId,
             status'[r] = "running", q > r, q <= last'
      PROVE  account'[q] # account'[r]
  <2>1. r # last + 1
    BY <1>1, <1>6
  <2>2. CASE q = last + 1
    BY <1>1, <1>3, <1>4, <1>6, <2>1, <2>2 DEF TypeOK
  <2>3. CASE q # last + 1
    BY <1>1, <1>3, <1>6, <2>1, <2>3 DEF TypeOK, Unreclaimed
  <2> QED BY <2>2, <2>3
<1> QED BY <1>1, <1>2, <1>5, <1>6

LEMMA RetryInserts ==
  ASSUME Shape, NEW t \in Tasks, Retry(t)
  PROVE  /\ subject[t] \in Accounts
         /\ ~Collides(subject[t])
         /\ Insert(subject[t], Reclaimed(subject[t]))
<1>1. subject[t] \in Accounts /\ Open(subject[t]) = {}
  BY DEF Retry, Shape, Claims
<1>2. Reclaimed(subject[t]) = status
  BY <1>1 DEF Reclaimed, Shape, TypeOK
<1> QED BY <1>1, <1>2 DEF Retry, Collides, Open

LEMMA UnreclaimedStep ==
  ASSUME SlowRuns = FALSE
  PROVE  Shape /\ Unreclaimed /\ [Next]_vars => Unreclaimed'
<1> SUFFICES ASSUME Shape, Unreclaimed, [Next]_vars PROVE Unreclaimed'
  OBVIOUS
<1>1. last \in 0..MaxRuns /\ \A t \in Tasks : mine[t] # 0 => mine[t] \in RunId
  BY DEF Shape, TypeOK, RunId
<1>2. ASSUME NEW a \in Accounts, ~Collides(a), Insert(a, Reclaimed(a)), overdue' = overdue,
             \A t \in Tasks : mine'[t] \in {0, mine[t], last + 1}
      PROVE  Unreclaimed'
  <2>1. /\ last + 1 \in RunId /\ last' = last + 1
        /\ status'[last + 1] = "running" /\ last + 1 \notin overdue
    BY <1>2, InsertStep
  <2>2. \A r \in RunId : (status[r] = "running" /\ r \notin overdue) => status'[r] = "running"
    BY <1>2, InsertStep
  <2>3. \A r, q \in RunId :
          (status'[r] = "running" /\ q > r /\ q <= last') => account'[q] # account'[r]
    BY <1>2, InsertStep
  <2>4. \A r \in overdue' : r <= last'
    BY <1>1, <1>2, <2>1 DEF Unreclaimed, Shape, TypeOK, RunId
  <2>5. \A t \in Tasks : mine'[t] # 0 =>
          status'[mine'[t]] = "running" /\ mine'[t] \notin overdue'
    BY <1>1, <1>2, <2>1, <2>2 DEF Unreclaimed
  <2> QED BY <2>3, <2>4, <2>5 DEF Unreclaimed
<1>3. ASSUME NEW t \in Tasks, NEW a \in Accounts, Start(t, a) PROVE Unreclaimed'
  BY <1>2, <1>3 DEF Start, Shape, TypeOK
<1>4. ASSUME NEW t \in Tasks, Retry(t) PROVE Unreclaimed'
  <2>1. \A u \in Tasks : mine'[u] \in {0, mine[u], last + 1}
    BY <1>4 DEF Retry, Shape, TypeOK
  <2> QED BY <1>2, <1>4, <2>1, RetryInserts DEF Retry
<1>5. ASSUME NEW t \in Tasks, OpenCancelled(t) PROVE Unreclaimed'
  <2>1. \A u \in Tasks : mine'[u] \in {0, mine[u], last + 1}
    BY <1>5 DEF OpenCancelled, Return, Shape, TypeOK
  <2> QED BY <1>2, <1>5, <2>1 DEF OpenCancelled
<1>6. ASSUME UNCHANGED rows, \A t \in Tasks : mine'[t] \in {0, mine[t]}
      PROVE  Unreclaimed'
  BY <1>6 DEF rows, Unreclaimed
<1>7. ASSUME NEW t \in Tasks, Busy(t) \/ Fetch(t) \/ Apply(t) \/ Fail(t) \/ CloseLost(t)
      PROVE  Unreclaimed'
  BY <1>6, <1>7 DEF Busy, Fetch, Apply, Fail, CloseLost, Return, Shape, TypeOK
<1>8. ASSUME NEW t \in Tasks, NEW a \in Accounts, Collide(t, a) PROVE Unreclaimed'
  BY <1>6, <1>8 DEF Collide
<1>9. ASSUME NEW t \in Tasks, CloseFailed(t) \/ CloseLanded(t) PROVE Unreclaimed'
  <2>1. mine[t] \in RunId /\ \A u \in Tasks : u # t => mine[u] # mine[t]
    BY <1>9 DEF CloseFailed, CloseLanded, Shape, Claims, Holding, RunId
  <2>2. \A r \in RunId : r # mine[t] => status'[r] = status[r]
    BY <1>9 DEF CloseFailed, CloseLanded, Shape, TypeOK
  <2>3. status'[mine[t]] # "running"
    BY <1>9, <2>1 DEF CloseFailed, CloseLanded, Outcome, Shape, TypeOK
  <2>4. \A u \in Tasks : mine'[u] # 0 => u # t /\ mine'[u] = mine[u]
    BY <1>9 DEF CloseFailed, CloseLanded, Return, Shape, TypeOK
  <2>5. UNCHANGED <<last, account, overdue>>
    BY <1>9 DEF CloseFailed, CloseLanded
  <2> QED BY <1>1, <2>1, <2>2, <2>3, <2>4, <2>5 DEF Unreclaimed
<1>10. CASE Kill
  BY <1>6, <1>10 DEF Kill
<1>11. ASSUME NEW r \in RunId, Age(r) PROVE Unreclaimed'
  <2>1. overdue' = overdue \cup {r} /\ UNCHANGED <<last, account, status, mine>>
        /\ \A t \in Tasks : mine[t] # r
    BY <1>11 DEF Age, locals
  <2>2. r <= last
    BY <1>11, <1>1 DEF Age, Shape, Claims, RunId
  <2> QED BY <2>1, <2>2 DEF Unreclaimed
<1>12. ASSUME NEW a \in Accounts, NEW i \in Items, Restore(a, i) \/ LetGo(a, i)
       PROVE  Unreclaimed'
  BY <1>6, <1>12 DEF Restore, LetGo, locals
<1>13. CASE UNCHANGED vars
  BY <1>6, <1>13 DEF vars, rows
<1> QED
  BY <1>3, <1>4, <1>5, <1>7, <1>8, <1>9, <1>10, <1>11, <1>12, <1>13 DEF Next, Progress

LEMMA UnreclaimedHolds ==
  ASSUME SlowRuns = FALSE
  PROVE  Spec => []Unreclaimed
<1>1. Init => Unreclaimed
  BY DEF Init, Unreclaimed, RunId
<1>2. Shape /\ Unreclaimed /\ [Next]_vars => Unreclaimed'
  BY UnreclaimedStep
<1> QED BY <1>1, <1>2, ShapeHolds, PTL DEF Spec

(* Two tasks past `_open` for one account would be two open runs of it,    *)
(* and the newer could not have been inserted.                             *)
THEOREM OneWriter ==
  ASSUME SlowRuns = FALSE
  PROVE  Spec => []OneWriterPerAccount
<1>1. Shape /\ Unreclaimed => OneWriterPerAccount
  <2> SUFFICES ASSUME Shape, Unreclaimed, NEW t \in Tasks, NEW u \in Tasks,
                      mine[t] # 0, mine[u] # 0, subject[t] = subject[u]
               PROVE  t = u
    BY DEF OneWriterPerAccount
  <2>1. /\ mine[t] \in RunId /\ mine[t] <= last /\ account[mine[t]] = subject[t]
        /\ mine[u] \in RunId /\ mine[u] <= last /\ account[mine[u]] = subject[u]
    BY DEF Shape, Claims
  <2>2. status[mine[t]] = "running" /\ status[mine[u]] = "running"
    BY DEF Unreclaimed
  <2>3. ~(mine[t] > mine[u]) /\ ~(mine[u] > mine[t])
    BY <2>1, <2>2 DEF Unreclaimed
  <2>4. mine[t] = mine[u]
    BY <2>1, <2>3 DEF RunId
  <2> QED BY <2>4 DEF Shape, Claims
<1> QED BY <1>1, ShapeHolds, UnreclaimedHolds, PTL

(* Landing is what a task does to its own run, and that run is open.       *)
LEMMA LandsRunning ==
  ASSUME Shape, Unreclaimed, Next, NEW r \in RunId,
         status[r] \notin Landed, status'[r] \in Landed
  PROVE  status[r] = "running" /\ r <= last
<1>1. ASSUME NEW a \in Accounts, Insert(a, Reclaimed(a)) PROVE FALSE
  BY <1>1, ReclaimedType DEF Insert, Shape, TypeOK, RunId, Landed
<1>2. ASSUME NEW t \in Tasks, Retry(t) PROVE FALSE
  BY <1>2 DEF Retry, Insert, Shape, TypeOK, RunId, Landed
<1>3. ASSUME NEW t \in Tasks, CloseFailed(t) PROVE FALSE
  BY <1>3 DEF CloseFailed, Shape, TypeOK, Landed
<1>4. PICK t \in Tasks : CloseLanded(t)
  BY <1>1, <1>2, <1>3 DEF Next, Progress, rows, Start, Collide, Busy, OpenCancelled,
     Fetch, Apply, Fail, CloseLost, Kill, Age, Restore, LetGo
<1>5. mine[t] = r
  BY <1>4 DEF CloseLanded, Shape, TypeOK
<1>6. mine[t] # 0 /\ mine[t] <= last
  BY <1>4 DEF CloseLanded, Shape, Claims, Holding, RunId
<1> QED BY <1>5, <1>6 DEF Unreclaimed

(* An older answer never lands over a newer one, while an hour is longer   *)
(* than any run.                                                           *)
THEOREM LandingsAreOrdered ==
  ASSUME SlowRuns = FALSE
  PROVE  Spec => LandsInOrder
<1> DEFINE InOrder ==
      \A r \in RunId :
        (status[r] \notin Landed /\ status'[r] \in Landed) =>
          \A q \in RunId :
            (q > r /\ account[q] = account[r]) => status[q] \notin Landed
<1>1. Shape /\ Unreclaimed /\ [Next]_vars => [InOrder]_vars
  <2> SUFFICES ASSUME Shape, Unreclaimed, Next, NEW r \in RunId, NEW q \in RunId,
                      status[r] \notin Landed, status'[r] \in Landed,
                      q > r, account[q] = account[r], status[q] \in Landed
               PROVE  FALSE
    OBVIOUS
  <2>1. status[r] = "running"
    BY LandsRunning
  <2>2. q <= last
    BY DEF Shape, TypeOK, Claims, Landed, RunId
  <2> QED BY <2>1, <2>2 DEF Unreclaimed
<1>2. LandsInOrder <=> [][InOrder]_vars
  BY PTL DEF LandsInOrder
<1> QED BY <1>1, <1>2, ShapeHolds, UnreclaimedHolds, PTL DEF Spec

(* A finished run stays as it finished, while an hour is longer than any   *)
(* run: a row goes in past the newest, a reclaim only takes open rows, and *)
(* a task closes the run it opened, which nobody has reclaimed.            *)
THEOREM FinishedStays ==
  ASSUME SlowRuns = FALSE
  PROVE  Spec => FinishedIsFinal
<1> DEFINE Final ==
      \A r \in RunId :
        status[r] \in {"success", "partial", "failed"} => status'[r] = status[r]
<1>1. Shape /\ Unreclaimed /\ [Next]_vars => [Final]_vars
  <2> SUFFICES ASSUME Shape, Unreclaimed, Next, NEW r \in RunId,
                      status[r] \in {"success", "partial", "failed"}
               PROVE  status'[r] = status[r]
    OBVIOUS
  <2>1. r # last + 1 /\ last \in Nat
    BY DEF Shape, TypeOK, Claims, RunId
  <2>2. ASSUME NEW a \in Accounts, Insert(a, Reclaimed(a)) PROVE status'[r] = status[r]
    <3>1. Reclaimed(a)[r] = status[r]
      BY DEF Reclaimed, Open
    <3> QED BY <2>1, <2>2, <3>1, ReclaimedType DEF Insert, Shape
  <2>3. ASSUME NEW t \in Tasks, Retry(t) PROVE status'[r] = status[r]
    BY <2>2, <2>3, RetryInserts
  <2>4. ASSUME NEW t \in Tasks, CloseFailed(t) \/ CloseLanded(t) PROVE status'[r] = status[r]
    <3>1. mine[t] # 0
      BY <2>4 DEF CloseFailed, CloseLanded, Shape, Claims, Holding, RunId
    <3>2. mine[t] # r
      BY <3>1 DEF Unreclaimed
    <3> QED BY <2>4, <3>2 DEF CloseFailed, CloseLanded, Shape, TypeOK
  <2>5. ASSUME NEW t \in Tasks, NEW a \in Accounts, Start(t, a) PROVE status'[r] = status[r]
    BY <2>2, <2>5 DEF Start
  <2>6. ASSUME NEW t \in Tasks, OpenCancelled(t) PROVE status'[r] = status[r]
    BY <2>2, <2>6 DEF OpenCancelled
  <2> QED BY <2>3, <2>4, <2>5, <2>6 DEF Next, Progress, rows, Collide, Busy,
     Fetch, Apply, Fail, CloseLost, Kill, Age, Restore, LetGo
<1>2. FinishedIsFinal <=> [][Final]_vars
  BY PTL DEF FinishedIsFinal
<1> QED BY <1>1, <1>2, ShapeHolds, UnreclaimedHolds, PTL DEF Spec

-----------------------------------------------------------------------------
(* Every step of SyncRun is a step of OwnedCopies on the copies, or leaves *)
(* them alone: a landing is atomic whatever interleaves with the run.      *)
LEMMA SeenType ==
  ASSUME NEW c \in Copy
  PROVE  Seen(c) \in {"absent", "live", "kept", "removed"}
BY DEF Seen, Copy

THEOREM Implements == Spec => ImplementsOwnedCopies
<1> DEFINE shown == [a \in Accounts |-> [i \in Items |-> Seen(copies[a][i])]]
<1>1. Init => Owned!Init
  BY DEF Init, Owned!Init, NoCopies, NoCopy, Seen
<1>2. Shape /\ DraftIsCurrent /\ KeptIsLive /\ [Next]_vars => [Owned!Next]_shown
  <2> SUFFICES ASSUME Shape, DraftIsCurrent, KeptIsLive, [Next]_vars
               PROVE  Owned!Next \/ shown' = shown
    OBVIOUS
  <2>1. CASE UNCHANGED copies
    BY <2>1
  <2>2. ASSUME NEW t \in Tasks, CloseLanded(t),
               copies' = [copies EXCEPT ![subject[t]] =
                           Applied(copies[subject[t]], answer[t], mine[t])]
        PROVE  Owned!Next
    <3> DEFINE a == subject[t]
               listed == answer[t].listed
               whole == answer[t].complete /\ ~answer[t].skipped
    <3>1. a \in Accounts /\ answer[t] \in Answer
      BY <2>2 DEF CloseLanded, Shape, TypeOK, Claims, Holding
    <3>2. listed \in SUBSET Items /\ whole \in BOOLEAN
      BY <3>1 DEF Answer
    <3>3. ASSUME NEW i \in Items
          PROVE  Seen(copies'[a][i]) = Owned!Landing(shown[a], listed, whole)[i]
      <4>1. copies'[a][i] = Applied(copies[a], answer[t], mine[t])[i]
        BY <2>2, <3>1 DEF Shape, TypeOK
      <4>2. copies[a][i] \in Copy /\ shown[a][i] = Seen(copies[a][i])
        BY <3>1 DEF Shape, TypeOK
      <4>3. CASE i \in listed
        <5>1. copies'[a][i] = [state |-> "live", kept |-> copies[a][i].kept, by |-> 0]
          BY <4>1, <4>3 DEF Applied
        <5>2. Seen(copies'[a][i]) = IF copies[a][i].kept THEN "kept" ELSE "live"
          BY <5>1 DEF Seen
        <5>3. copies[a][i].kept => copies[a][i].state = "live"
          BY <3>1 DEF KeptIsLive
        <5>4. Seen(copies[a][i]) = "kept" <=> copies[a][i].kept
          BY <5>3, <4>2 DEF Seen, Copy
        <5>5. Owned!Landing(shown[a], listed, whole)[i]
                = IF shown[a][i] = "kept" THEN "kept" ELSE "live"
          BY <4>3 DEF Owned!Landing
        <5> QED BY <5>2, <5>4, <5>5, <4>2
      <4>4. CASE i \notin listed
        <5>1. Owned!Landing(shown[a], listed, whole)[i]
                = IF whole /\ shown[a][i] = "live" THEN "removed" ELSE shown[a][i]
          BY <4>4 DEF Owned!Landing
        <5>2. Seen(copies[a][i]) = "live"
                <=> (copies[a][i].state = "live" /\ ~copies[a][i].kept)
          BY <4>2 DEF Seen, Copy
        <5>3. CASE whole /\ copies[a][i].state = "live" /\ ~copies[a][i].kept
          <6>1. copies'[a][i] = [state |-> "removed", kept |-> FALSE, by |-> mine[t]]
            BY <4>1, <4>4, <5>3 DEF Applied, Sweeps
          <6>2. Seen(copies'[a][i]) = "removed"
            BY <6>1 DEF Seen
          <6> QED BY <6>2, <5>1, <5>2, <5>3, <4>2
        <5>4. CASE ~(whole /\ copies[a][i].state = "live" /\ ~copies[a][i].kept)
          <6>1. copies'[a][i] = copies[a][i]
            BY <4>1, <4>4, <5>4 DEF Applied, Sweeps
          <6> QED BY <6>1, <5>1, <5>2, <5>4, <4>2
        <5> QED BY <5>3, <5>4
      <4> QED BY <4>3, <4>4
    <3>4. \A b \in Accounts : b # a => copies'[b] = copies[b]
      BY <2>2, <3>1 DEF Shape, TypeOK
    <3>5. shown' = [shown EXCEPT ![a] = Owned!Landing(shown[a], listed, whole)]
      <4>1. shown'[a] = Owned!Landing(shown[a], listed, whole)
        BY <3>1, <3>3 DEF Owned!Landing
      <4> QED BY <3>1, <3>4, <4>1
    <3>6. Owned!Land(a, listed, whole)
      BY <3>5 DEF Owned!Land
    <3> QED BY <3>1, <3>2, <3>6 DEF Owned!Next
  <2>3. ASSUME NEW b \in Accounts, NEW j \in Items, Restore(b, j)
        PROVE  Owned!Next
    <3>1. Seen(copies[b][j]) = "removed"
      BY <2>3 DEF Restore, Seen
    <3>2. copies'[b][j] = [state |-> "live", kept |-> TRUE, by |-> 0]
          /\ \A a \in Accounts, i \in Items :
               (a # b \/ i # j) => copies'[a][i] = copies[a][i]
      BY <2>3 DEF Restore, Shape, TypeOK
    <3>3. Seen(copies'[b][j]) = "kept"
      BY <3>2 DEF Seen
    <3>4. shown' = [shown EXCEPT ![b] = [shown[b] EXCEPT ![j] = "kept"]]
      <4>1. shown'[b] = [shown[b] EXCEPT ![j] = "kept"]
        BY <3>2, <3>3
      <4>2. \A a \in Accounts : a # b => shown'[a] = shown[a]
        BY <3>2
      <4> QED BY <4>1, <4>2
    <3>5. Owned!Restore(b, j)
      BY <3>1, <3>4 DEF Owned!Restore
    <3> QED BY <3>5 DEF Owned!Next
  <2>4. ASSUME NEW b \in Accounts, NEW j \in Items, LetGo(b, j)
        PROVE  Owned!Next \/ shown' = shown
    <3>1. copies[b][j] \in Copy
      BY DEF Shape, TypeOK
    <3>2. copies' = [copies EXCEPT ![b] = [copies[b] EXCEPT ![j] =
                       [copies[b][j] EXCEPT !.kept = FALSE]]]
      BY <2>4 DEF LetGo, Shape, TypeOK
    <3>3. copies'[b][j] = [copies[b][j] EXCEPT !.kept = FALSE]
          /\ \A a \in Accounts, i \in Items :
               (a # b \/ i # j) => copies'[a][i] = copies[a][i]
      BY <3>2 DEF Shape, TypeOK
    <3>4. CASE copies[b][j].kept
      <4>1. copies[b][j].state = "live"
        BY <3>4 DEF KeptIsLive
      <4>2. Seen(copies[b][j]) = "kept"
        BY <3>4, <4>1 DEF Seen
      <4>3. Seen(copies'[b][j]) = "live"
        BY <3>1, <3>3, <4>1 DEF Seen, Copy
      <4>4. shown' = [shown EXCEPT ![b] = [shown[b] EXCEPT ![j] = "live"]]
        <5>1. shown'[b] = [shown[b] EXCEPT ![j] = "live"]
          BY <3>3, <4>3
        <5>2. \A a \in Accounts : a # b => shown'[a] = shown[a]
          BY <3>3
        <5> QED BY <5>1, <5>2
      <4>5. Owned!LetGo(b, j)
        BY <4>2, <4>4 DEF Owned!LetGo
      <4> QED BY <4>5 DEF Owned!Next
    <3>5. CASE ~copies[b][j].kept
      <4>1. copies'[b][j] = copies[b][j]
        <5>1. \A x \in Copy : ~x.kept => [x EXCEPT !.kept = FALSE] = x
          BY DEF Copy
        <5> QED BY <3>1, <3>3, <3>5, <5>1
      <4>2. shown' = shown
        BY <3>3, <4>1
      <4> QED BY <4>2
    <3> QED BY <3>4, <3>5
  <2>5. CASE UNCHANGED vars
    BY <2>5, <2>1 DEF vars
  <2> QED BY <2>1, <2>2, <2>3, <2>4, <2>5, CopiesStep
<1> QED
  BY <1>1, <1>2, ShapeHolds, DraftHolds, KeptStaysLive, PTL
     DEF Spec, ImplementsOwnedCopies, Owned!Spec
=============================================================================
