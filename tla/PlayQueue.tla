----------------------------- MODULE PlayQueue -----------------------------
(***************************************************************************)
(* The play queue of one user: ludarium/queue.py, and the state update and *)
(* the queue move of ludarium/api/works.py that use it.                    *)
(*                                                                         *)
(* A queued work holds a place.  An operation that opens a gap or decides  *)
(* a place ends in `arrange`, which writes every row of the queue again:   *)
(* first each is lifted past the highest place, then each is put where it  *)
(* goes.  SQLite checks the uniqueness of places at each row, so every row *)
(* write is a step here, in any order within a pass.                       *)
(*                                                                         *)
(* A writing transaction is BEGIN IMMEDIATE: one at a time, and what it    *)
(* has not committed is gone when its request fails or the process dies.   *)
(***************************************************************************)
EXTENDS Integers, FiniteSets

CONSTANT Works   \* ids a work can have

ASSUME WorksAssumption == IsFiniteSet(Works)

VARIABLES
  play,    \* play[w]: play_status of the user's row for w, "none" if no row
  place,   \* place[w]: its queue_position, 0 for NULL
  pass,    \* how far the open transaction is
  left,    \* rows its current pass has still to write
  lift,    \* what the first pass adds to each place
  goal,    \* where the second pass puts each row
  placed,  \* works `arrange` was given a place for
  saved    \* play and place as last committed

queueVars == <<play, place, pass, left, lift, goal, placed, saved>>

-----------------------------------------------------------------------------
(* Two statuses stand for all that are not queued: the default, which a    *)
(* merge overwrites, and "playing" for every one the user has chosen.      *)
Play == {"none", "not_started", "queued", "playing"}

NoPlace == [w \in Works |-> 0]

Queue(p) == {w \in Works : p[w] # 0}

Ahead(p, w) == {v \in Queue(p) : p[v] < p[w]}

(* The places with no gaps, in the same order.                             *)
ClosedUp(p) ==
  [w \in Works |-> IF p[w] = 0 THEN 0 ELSE Cardinality(Ahead(p, w)) + 1]

\* Bug: the work takes the place, and whoever held it moves to the end.
InsertBySwap(p, w, k) ==
  LET n == Cardinality(Queue(p)) + 1
      c == IF k > n THEN n ELSE k
  IN [v \in Works |-> IF v = w THEN c ELSE IF p[v] = c THEN n ELSE p[v]]

(* w put at place k of a queue without gaps that it is not in; a k past    *)
(* the end puts it last.                                                   *)
InsertAt(p, w, k) ==
  LET n == Cardinality(Queue(p)) + 1
      c == IF k > n THEN n ELSE k
  IN [v \in Works |-> IF v = w THEN c ELSE IF p[v] >= c THEN p[v] + 1 ELSE p[v]]

Highest(p) == CHOOSE h \in {0} \cup {p[w] : w \in Works} :
                \A w \in Works : p[w] <= h

FreePosition(p) == Highest(p) + 1

Without(p, W) == [w \in Works |-> IF w \in W THEN 0 ELSE p[w]]

-----------------------------------------------------------------------------
\* Bug: lifts by the number of rows, not by the highest place.
LiftByCount(p) == Cardinality(Queue(p))
(* `lift` of `_write`.                                                     *)
Lift(p) == Highest(p)

(* The rows an operation changes before `arrange`, flushed, and the order  *)
(* `arrange` then works out.                                               *)
Rearrange(pl, start, final, W) ==
  /\ play' = pl
  /\ place' = start
  /\ goal' = final
  /\ placed' = W
  /\ lift' = Lift(start)
  /\ left' = Queue(start)
  /\ pass' = "lift"

(* An operation that leaves the other places alone.                        *)
Write(pl, pc) ==
  /\ play' = pl
  /\ place' = pc
  /\ pass' = "written"
  /\ placed' = {}
  /\ UNCHANGED <<left, lift, goal>>

-----------------------------------------------------------------------------
(* With n queued works the places are 1..n.                                *)
Dense(p) ==
  /\ \A v, w \in Queue(p) : p[v] = p[w] => v = w
  /\ {p[w] : w \in Queue(p)} = 1..Cardinality(Queue(p))

(* A position iff the work is queued: the CHECK of user_work_state.        *)
Checked(pl, p) == \A w \in Works : p[w] # 0 <=> pl[w] = "queued"

(* Any queue its user has arranged; nothing makes sure of a row of state.  *)
QueueInit ==
  /\ play \in [Works -> Play]
  /\ place \in [Works -> 0..Cardinality(Works)]
  /\ Checked(play, place) /\ Dense(place)
  /\ pass = "idle"
  /\ left = {}
  /\ lift = 0
  /\ goal = NoPlace
  /\ placed = {}
  /\ saved = [play |-> play, place |-> place]

(* The update makes the work queued: it joins at the end.  Queueing it     *)
(* again changes nothing.                                                  *)
Enqueue(w) ==
  /\ pass = "idle"
  /\ play[w] # "queued"
  /\ Write([play EXCEPT ![w] = "queued"],
           [place EXCEPT ![w] = FreePosition(place)])
  /\ UNCHANGED saved

\* Bug: the queue is not closed up after the work that left.
LeaveGap(w, s) ==
  /\ pass = "idle"
  /\ play[w] = "queued"
  /\ Write([play EXCEPT ![w] = s], [place EXCEPT ![w] = 0])
  /\ UNCHANGED saved

(* The update takes a queued work to another status.                       *)
Leave(w, s) ==
  /\ pass = "idle"
  /\ play[w] = "queued"
  /\ LET start == [place EXCEPT ![w] = 0]
     IN Rearrange([play EXCEPT ![w] = s], start, ClosedUp(start), {})
  /\ UNCHANGED saved

(* It changes the status of a work that was not queued and will not be.    *)
Mark(w, s) ==
  /\ pass = "idle"
  /\ play[w] \notin {"queued", s}
  /\ Write([play EXCEPT ![w] = s], place)
  /\ UNCHANGED saved

(* PUT /works/{id}/queue: 409 unless the work is queued.                   *)
Move(w, k) ==
  /\ pass = "idle"
  /\ place[w] # 0
  /\ Rearrange(play, place, InsertAt(ClosedUp(Without(place, {w})), w, k), {w})
  /\ UNCHANGED saved

(* `delete_works`: the rows of the works go, and the queue closes up if    *)
(* one of them was in it.                                                  *)
Drop(W) ==
  /\ pass = "idle"
  /\ LET pl == [w \in Works |-> IF w \in W THEN "none" ELSE play[w]]
         start == Without(place, W)
     IN IF W \cap Queue(place) = {}
        THEN Write(pl, place)
        ELSE Rearrange(pl, start, ClosedUp(start), {})
  /\ UNCHANGED saved

-----------------------------------------------------------------------------
LiftRow(w) ==
  /\ pass = "lift"
  /\ w \in left
  /\ place' = [place EXCEPT ![w] = @ + lift]
  /\ left' = left \ {w}
  /\ UNCHANGED <<play, pass, lift, goal, placed, saved>>

Lifted ==
  /\ pass = "lift"
  /\ left = {}
  /\ pass' = "number"
  /\ left' = Queue(place)
  /\ UNCHANGED <<play, place, lift, goal, placed, saved>>

NumberRow(w) ==
  /\ pass = "number"
  /\ w \in left
  /\ place' = [place EXCEPT ![w] = goal[w]]
  /\ left' = left \ {w}
  /\ UNCHANGED <<play, pass, lift, goal, placed, saved>>

Numbered ==
  /\ pass = "number"
  /\ left = {}
  /\ pass' = "written"
  /\ lift' = 0
  /\ goal' = NoPlace
  /\ UNCHANGED <<play, place, left, placed, saved>>

Commit ==
  /\ pass = "written"
  /\ pass' = "idle"
  /\ saved' = [play |-> play, place |-> place]
  /\ placed' = {}
  /\ UNCHANGED <<play, place, left, lift, goal>>

(* The request fails, or the process dies, before the commit.              *)
Rollback ==
  /\ pass # "idle"
  /\ pass' = "idle"
  /\ play' = saved.play
  /\ place' = saved.place
  /\ left' = {}
  /\ lift' = 0
  /\ goal' = NoPlace
  /\ placed' = {}
  /\ UNCHANGED saved

-----------------------------------------------------------------------------
Update(w) ==
  \/ Enqueue(w)
  \/ \E s \in {"not_started", "playing"} : Leave(w, s) \/ Mark(w, s)
  \/ \E k \in 1..Cardinality(Works) + 1 : Move(w, k)

Renumber ==
  \/ \E w \in Works : LiftRow(w) \/ NumberRow(w)
  \/ Lifted
  \/ Numbered

-----------------------------------------------------------------------------
QueueTypeOK ==
  /\ play \in [Works -> Play]
  /\ place \in [Works -> Nat]
  /\ pass \in {"idle", "lift", "number", "written"}
  /\ left \in SUBSET Works
  /\ lift \in Nat
  /\ goal \in [Works -> Nat]
  /\ placed \in SUBSET Works
  /\ saved \in [play : [Works -> Play], place : [Works -> Nat]]

(* The constraints of user_work_state hold after every row write, not only *)
(* at the end of a renumbering: no two rows share a place, and a row has a *)
(* place exactly when it is queued (models/state.py, ludarium/queue.py).   *)
NeverCollides ==
  /\ \A v, w \in Queue(place) : place[v] = place[w] => v = w
  /\ Checked(play, place)

(* What a transaction commits is a queue without gaps or ties              *)
(* (ludarium/queue.py, lines 3 to 5).                                      *)
CommittedDense ==
  /\ Dense(saved.place)
  /\ pass = "written" => Dense(place)

(* A transaction never changes the order of two works it was given no      *)
(* place for.                                                              *)
OthersKeepTheirOrder ==
  [][\A v, w \in (Queue(saved.place) \cap Queue(saved'.place)) \ placed :
       saved'.place[v] < saved'.place[w] <=> saved.place[v] < saved.place[w]
    ]_queueVars
=============================================================================
