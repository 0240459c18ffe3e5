-------------------------- MODULE WorkMergeProofs --------------------------
(***************************************************************************)
(* Proofs about the play queue under requests, merges and undos: for any   *)
(* number of works, no row write breaks the constraints of                 *)
(* user_work_state, what is committed is a queue 1..n, works nobody moved  *)
(* stay in order, and an undo gives back what its merge took.              *)
(***************************************************************************)
EXTENDS MCWorkMerge, FiniteSetTheorems, TLAPS

USE WorksAssumption

-----------------------------------------------------------------------------
(* Places as the schema allows them: no two works share one.               *)
Distinct(p) == \A v, w \in Queue(p) : p[v] = p[w] => v = w

Places == [Works -> Nat]

(* The set of queued works is finite, and so is every part of it.          *)
LEMMA QueueFinite ==
  ASSUME NEW p, NEW T, T \subseteq Queue(p)
  PROVE  IsFiniteSet(T) /\ Cardinality(T) \in Nat
<1>1. T \in SUBSET Works
  BY DEF Queue
<1>2. QED
  BY <1>1, FS_Subset, FS_CardinalityType

(* A work ahead of another in the queue has fewer works ahead of it.       *)
LEMMA FewerAhead ==
  ASSUME NEW p \in Places, NEW v \in Queue(p), NEW w \in Queue(p), p[v] < p[w]
  PROVE  Cardinality(Ahead(p, v)) < Cardinality(Ahead(p, w))
<1>1. Ahead(p, v) \in SUBSET Ahead(p, w)
  BY DEF Ahead, Queue, Places
<1>2. v \in Ahead(p, w) /\ v \notin Ahead(p, v)
  BY DEF Ahead, Queue, Places
<1>3. /\ IsFiniteSet(Ahead(p, w))
      /\ Cardinality(Ahead(p, w)) \in Nat
      /\ Cardinality(Ahead(p, v)) \in Nat
  BY QueueFinite DEF Ahead
<1>4. Cardinality(Ahead(p, v)) <= Cardinality(Ahead(p, w))
  BY <1>1, <1>3, FS_Subset
<1>5. Cardinality(Ahead(p, v)) # Cardinality(Ahead(p, w))
  BY <1>1, <1>2, <1>3, FS_Subset
<1>6. QED
  BY <1>3, <1>4, <1>5

(* Closing up gives each queued work a place in 1..n.                      *)
LEMMA ClosedUpRange ==
  ASSUME NEW p \in Places, NEW w \in Queue(p)
  PROVE  ClosedUp(p)[w] \in 1..Cardinality(Queue(p))
<1>1. ClosedUp(p)[w] = Cardinality(Ahead(p, w)) + 1
  BY DEF ClosedUp, Queue
<1>2. Ahead(p, w) \in SUBSET (Queue(p) \ {w})
  BY DEF Ahead, Places, Queue
<1>3. IsFiniteSet(Queue(p)) /\ Cardinality(Queue(p)) \in Nat
  BY QueueFinite
<1>4. /\ IsFiniteSet(Queue(p) \ {w})
      /\ Cardinality(Queue(p) \ {w}) = Cardinality(Queue(p)) - 1
  BY <1>3, FS_RemoveElement
<1>5. Cardinality(Ahead(p, w)) <= Cardinality(Queue(p) \ {w})
  BY <1>2, <1>4, FS_Subset
<1>6. Cardinality(Ahead(p, w)) \in Nat
  BY QueueFinite DEF Ahead
<1>7. QED
  BY <1>1, <1>3, <1>4, <1>5, <1>6

(* n distinct places in 1..n are all of 1..n.                              *)
LEMMA DistinctIsDense ==
  ASSUME NEW p, Distinct(p),
         \A w \in Queue(p) : p[w] \in 1..Cardinality(Queue(p))
  PROVE  Dense(p)
<1> DEFINE Q == Queue(p)
           n == Cardinality(Q)
           f == [w \in Q |-> p[w]]
<1>1. IsFiniteSet(Q) /\ n \in Nat
  BY QueueFinite
<1>2. IsFiniteSet(1..n) /\ Cardinality(1..n) = n
  BY <1>1, FS_Interval
<1>3. f \in Injection(Q, 1..n)
  BY DEF Distinct, Injection, IsInjective
<1>4. f \in Surjection(Q, 1..n)
  <2>1. Cardinality(Q) = Cardinality(1..n)
    BY <1>2
  <2> HIDE DEF f, Q, n
  <2>2. QED
    BY <1>2, <1>3, <2>1, FS_Injection
<1>5. {p[w] : w \in Q} = 1..n
  BY <1>4 DEF Surjection
<1>6. QED
  BY <1>5 DEF Dense, Distinct

(* `arrange` with nothing placed closes the gaps: the same works queue, at *)
(* 1..n.                                                                   *)
LEMMA ClosedUpDense ==
  ASSUME NEW p \in Places, Distinct(p)
  PROVE  /\ ClosedUp(p) \in Places
         /\ Queue(ClosedUp(p)) = Queue(p)
         /\ Dense(ClosedUp(p))
<1> DEFINE c == ClosedUp(p)
<1>1. \A w \in Works : Cardinality(Ahead(p, w)) \in Nat
  BY QueueFinite DEF Ahead
<1>2. c \in Places
  BY <1>1 DEF ClosedUp, Places
<1>3. Queue(c) = Queue(p)
  BY <1>1 DEF ClosedUp, Queue
<1>4. \A w \in Queue(c) : c[w] \in 1..Cardinality(Queue(c))
  BY <1>3, ClosedUpRange
<1>5. Distinct(c)
  <2> SUFFICES ASSUME NEW v \in Queue(p), NEW w \in Queue(p), v # w
               PROVE  c[v] # c[w]
    BY <1>3 DEF Distinct
  <2>1. /\ c[v] = Cardinality(Ahead(p, v)) + 1
        /\ c[w] = Cardinality(Ahead(p, w)) + 1
    BY DEF ClosedUp, Queue
  <2>2. v \in Works /\ w \in Works /\ p[v] \in Nat /\ p[w] \in Nat
    BY DEF Queue, Places
  <2>3. p[v] < p[w] \/ p[w] < p[v]
    BY <2>2 DEF Distinct
  <2>4. QED
    BY <1>1, <2>1, <2>2, <2>3, FewerAhead
<1>6. QED
  BY <1>2, <1>3, <1>4, <1>5, DistinctIsDense

(* The highest place exists, no place is past it, and there are no more    *)
(* queued works than places up to it: the lift of `_write` clears 1..n.    *)
LEMMA HighestBounds ==
  ASSUME NEW p \in Places, Distinct(p)
  PROVE  /\ Highest(p) \in Nat
         /\ \A w \in Works : p[w] <= Highest(p)
         /\ Cardinality(Queue(p)) <= Highest(p)
<1> DEFINE c == ClosedUp(p)
           n == Cardinality(Queue(p))
           S == {0} \cup {p[w] : w \in Works}
<1>1. n \in Nat
  BY QueueFinite
<1>2. \E h \in S : \A w \in Works : p[w] <= h
  <2>1. CASE Queue(p) = {}
    BY <2>1 DEF Queue, Places
  <2>2. CASE Queue(p) # {}
    <3>1. n # 0
      BY <2>2, FS_EmptySet, QueueFinite
    <3>2. n \in 1..Cardinality(Queue(c))
      BY <1>1, <3>1, ClosedUpDense
    <3>3. PICK u \in Queue(p) : c[u] = n
      BY <3>2, ClosedUpDense DEF Dense
    <3>4. ASSUME NEW w \in Works, p[w] > p[u] PROVE FALSE
      <4>1. w \in Queue(p)
        BY <3>3, <3>4 DEF Queue, Places
      <4>2. Cardinality(Ahead(p, u)) < Cardinality(Ahead(p, w))
        BY <3>3, <3>4, <4>1, FewerAhead DEF Queue, Places
      <4>3. /\ c[w] = Cardinality(Ahead(p, w)) + 1
            /\ c[u] = Cardinality(Ahead(p, u)) + 1
        BY <3>3, <4>1 DEF ClosedUp, Queue
      <4>4. c[w] \in 1..n
        BY <4>1, ClosedUpRange
      <4>5. Cardinality(Ahead(p, u)) \in Nat /\ Cardinality(Ahead(p, w)) \in Nat
        BY QueueFinite DEF Ahead
      <4>6. QED
        BY <1>1, <3>3, <4>2, <4>3, <4>4, <4>5
    <3>5. p[u] \in S /\ \A w \in Works : p[w] <= p[u]
      BY <3>3, <3>4 DEF Queue, Places
    <3>6. QED
      BY <3>5
  <2>3. QED
    BY <2>1, <2>2
<1>3. Highest(p) \in S /\ \A w \in Works : p[w] <= Highest(p)
  BY <1>2 DEF Highest
<1>4. S \subseteq Nat
  BY DEF Places
<1>5. n <= Highest(p)
  <2> DEFINE Q == Queue(p)
             h == Highest(p)
             f == [w \in Q |-> p[w]]
  <2>1. h \in Nat
    BY <1>3, <1>4
  <2>2. IsFiniteSet(1..h) /\ Cardinality(1..h) = h
    BY <2>1, FS_Interval
  <2>3. f \in Injection(Q, 1..h)
    BY <1>3, <2>1 DEF Distinct, Injection, IsInjective, Queue, Places
  <2> HIDE DEF f, Q, h
  <2>4. Cardinality(Q) <= h
    BY <2>2, <2>3, FS_Injection
  <2>5. QED
    BY <2>4 DEF Q, h
<1>6. QED
  BY <1>3, <1>4, <1>5

(* In a queue without gaps the highest place is the number of works.       *)
LEMMA HighestOfDense ==
  ASSUME NEW p \in Places, Dense(p)
  PROVE  Highest(p) = Cardinality(Queue(p))
<1>1. Distinct(p)
  BY DEF Dense, Distinct
<1>2. Cardinality(Queue(p)) \in Nat
  BY QueueFinite
<1>3. \A w \in Queue(p) : p[w] <= Cardinality(Queue(p))
  BY <1>2 DEF Dense
<1>4. Highest(p) \in {0} \cup {p[w] : w \in Works}
  BY <1>1, HighestBounds DEF Highest
<1>5. Highest(p) <= Cardinality(Queue(p))
  BY <1>2, <1>3, <1>4 DEF Queue, Places
<1>6. QED
  BY <1>1, <1>2, <1>5, HighestBounds

(* A work put into a queue without gaps: it joins, and there is still no   *)
(* gap.                                                                    *)
LEMMA InsertAtDense ==
  ASSUME NEW p \in Places, Dense(p),
         NEW w \in Works, p[w] = 0, NEW k \in Nat \ {0}
  PROVE  /\ InsertAt(p, w, k) \in Places
         /\ Queue(InsertAt(p, w, k)) = Queue(p) \cup {w}
         /\ Dense(InsertAt(p, w, k))
<1> DEFINE i == InsertAt(p, w, k)
           n == Cardinality(Queue(p))
           c == IF k > n + 1 THEN n + 1 ELSE k
<1>1. n \in Nat /\ IsFiniteSet(Queue(p)) /\ w \notin Queue(p)
  BY QueueFinite DEF Queue
<1>2. c \in 1..n + 1
  BY <1>1
<1>3. \A v \in Works :
        i[v] = IF v = w THEN c ELSE IF p[v] >= c THEN p[v] + 1 ELSE p[v]
  BY DEF InsertAt
<1>4. i \in Places
  <2>1. i = [v \in Works |-> i[v]]
    BY DEF InsertAt
  <2>2. \A v \in Works : i[v] \in Nat
    BY <1>2, <1>3 DEF Places
  <2>3. QED
    BY <2>1, <2>2 DEF Places
<1>5. Queue(i) = Queue(p) \cup {w}
  BY <1>2, <1>3 DEF Queue, Places
<1>6. Cardinality(Queue(i)) = n + 1
  <2> DEFINE Q == Queue(p)
  <2> IsFiniteSet(Q) /\ w \notin Q
    BY <1>1
  <2> HIDE DEF Q
  <2>1. Cardinality(Q \cup {w}) = Cardinality(Q) + 1
    BY FS_AddElement
  <2>2. QED
    BY <1>5, <2>1 DEF Q
<1>7. \A v \in Queue(p) : p[v] \in 1..n
  BY DEF Dense
<1>8. \A v \in Queue(i) : i[v] \in 1..Cardinality(Queue(i))
  BY <1>1, <1>2, <1>3, <1>5, <1>6, <1>7 DEF Queue
<1>9. Distinct(i)
  <2> SUFFICES ASSUME NEW u \in Queue(p) \cup {w}, NEW v \in Queue(p) \cup {w}, u # v
               PROVE  i[u] # i[v]
    BY <1>5 DEF Distinct
  <2>1. u \in Works /\ v \in Works
    BY DEF Queue
  <2>2. CASE u = w \/ v = w
    BY <1>2, <1>3, <1>7, <2>1, <2>2
  <2>3. CASE u # w /\ v # w
    <3>1. p[u] # p[v] /\ p[u] \in 1..n /\ p[v] \in 1..n
      BY <1>7, <2>3 DEF Dense
    <3>2. QED
      BY <1>1, <1>2, <1>3, <2>1, <2>3, <3>1
  <2>4. QED
    BY <2>2, <2>3
<1>10. QED
  BY <1>4, <1>5, <1>8, <1>9, DistinctIsDense

-----------------------------------------------------------------------------
(* The inductive invariant of the queue.  Density is no invariant of the   *)
(* rows while they are renumbered; that they can be finished is.           *)

(* Where the second pass goes is a queue without gaps of the same works.   *)
GoalOK ==
  /\ Dense(goal)
  /\ Queue(goal) = Queue(place)
  /\ left \subseteq Queue(place)
  /\ Cardinality(Queue(place)) <= lift

(* The place a row had before the first pass lifted it.                    *)
Base(w) == IF w \in left THEN place[w] ELSE place[w] - lift

Lifting ==
  /\ GoalOK
  /\ \A w \in Queue(place) : Base(w) \in 1..lift
  /\ \A v, w \in Queue(place) : Base(v) = Base(w) => v = w

Numbering ==
  /\ GoalOK
  /\ \A w \in left : place[w] > lift
  /\ \A v, w \in left : place[v] = place[w] => v = w
  /\ \A w \in Queue(place) \ left : place[w] = goal[w]

QueueInv ==
  /\ QueueTypeOK
  /\ Checked(play, place)
  /\ Checked(saved.play, saved.place)
  /\ Dense(saved.place)
  /\ pass = "idle" => play = saved.play /\ place = saved.place
  /\ pass = "written" => Dense(place)
  /\ pass = "lift" => Lifting
  /\ pass = "number" => Numbering

(* The invariant is strong enough for the constraints of every row.        *)
LEMMA QueueInvNeverCollides == QueueInv => NeverCollides
<1> SUFFICES ASSUME QueueInv PROVE NeverCollides
  OBVIOUS
<1>1. ASSUME NEW v \in Queue(place), NEW w \in Queue(place), place[v] = place[w]
      PROVE  v = w
  <2> v \in Works /\ w \in Works /\ place[v] \in Nat /\ place[w] \in Nat /\ lift \in Nat
    BY DEF QueueInv, QueueTypeOK, Queue
  <2>1. CASE pass \in {"idle", "written"}
    BY <1>1, <2>1 DEF QueueInv, Dense
  <2>2. CASE pass = "lift"
    <3>1. Base(v) \in 1..lift /\ Base(w) \in 1..lift /\ (Base(v) = Base(w) => v = w)
      BY <2>2 DEF QueueInv, Lifting
    <3>2. QED
      BY <1>1, <3>1 DEF Base
  <2>3. CASE pass = "number"
    <3>1. Numbering
      BY <2>3 DEF QueueInv
    <3>2. goal[v] \in 1..Cardinality(Queue(place)) /\ goal[w] \in 1..Cardinality(Queue(place))
      BY <3>1 DEF Numbering, GoalOK, Dense
    <3>3. Cardinality(Queue(place)) \in Nat /\ Cardinality(Queue(place)) <= lift
      BY <3>1, QueueFinite DEF Numbering, GoalOK
    <3>4. goal[v] = goal[w] => v = w
      BY <3>1 DEF Numbering, GoalOK, Dense
    <3>5. /\ v \in left => place[v] > lift
          /\ v \notin left => place[v] = goal[v]
          /\ w \in left => place[w] > lift
          /\ w \notin left => place[w] = goal[w]
          /\ v \in left /\ w \in left => v = w
      BY <1>1, <3>1 DEF Numbering
    <3>6. QED
      BY <1>1, <3>2, <3>3, <3>4, <3>5
  <2>4. QED
    BY <2>1, <2>2, <2>3 DEF QueueInv, QueueTypeOK
<1>2. QED
  BY <1>1 DEF NeverCollides, QueueInv

LEMMA DenseDistinct == ASSUME NEW p, Dense(p) PROVE Distinct(p)
BY DEF Dense, Distinct

(* An operation that writes one queue without gaps in one go.              *)
LEMMA WriteInv ==
  ASSUME QueueInv, NEW pl \in [Works -> Play], NEW pc \in Places,
         Checked(pl, pc), Dense(pc), Write(pl, pc), saved' = saved
  PROVE  QueueInv'
<1>1. play' = pl /\ place' = pc /\ pass' = "written" /\ saved' = saved
  BY DEF Write
<1>2. QueueTypeOK'
  BY <1>1 DEF QueueInv, QueueTypeOK, Write, Places
<1>3. Checked(play', place') /\ Checked(saved.play', saved.place') /\ Dense(saved.place')
  BY <1>1 DEF QueueInv
<1>4. Dense(place')
  BY <1>1
<1>5. QED
  BY <1>1, <1>2, <1>3, <1>4 DEF QueueInv

(* An operation that ends in `arrange`.                                    *)
LEMMA RearrangeInv ==
  ASSUME QueueInv, NEW pl \in [Works -> Play], NEW start \in Places,
         NEW final \in Places, NEW W \in SUBSET Works,
         Checked(pl, start), Distinct(start),
         Dense(final), Queue(final) = Queue(start),
         Rearrange(pl, start, final, W), saved' = saved
  PROVE  QueueInv'
<1>1. /\ play' = pl /\ place' = start /\ goal' = final /\ placed' = W
      /\ lift' = Highest(start) /\ left' = Queue(start) /\ pass' = "lift"
  BY DEF Rearrange, Lift
<1>2. /\ Highest(start) \in Nat
      /\ \A w \in Works : start[w] <= Highest(start)
      /\ Cardinality(Queue(start)) <= Highest(start)
  BY HighestBounds
<1>3. QueueTypeOK'
  BY <1>1, <1>2 DEF QueueInv, QueueTypeOK, Places, Queue
<1>4. Checked(play', place') /\ Checked(saved.play', saved.place') /\ Dense(saved.place')
  BY <1>1 DEF QueueInv
<1>5. Lifting'
  <2>1. GoalOK'
    <3>1. Queue(place') = Queue(start) /\ Queue(goal') = Queue(start) /\ Dense(goal')
      BY <1>1
    <3>2. QED
      BY <1>1, <1>2, <3>1 DEF GoalOK
  <2>2. \A w \in Queue(start) : Base(w)' = start[w] /\ start[w] \in 1..Highest(start)
    BY <1>1, <1>2 DEF Base, Queue, Places
  <2>3. \A w \in Queue(start) : Base(w)' \in 1..lift'
    BY <1>1, <2>2
  <2>4. \A v, w \in Queue(start) : Base(v)' = Base(w)' => v = w
    BY <2>2 DEF Distinct
  <2>5. Queue(place') = Queue(start)
    BY <1>1
  <2>6. QED
    BY <2>1, <2>3, <2>4, <2>5 DEF Lifting
<1>6. QED
  BY <1>1, <1>3, <1>4, <1>5 DEF QueueInv

(* Lifting one row: it leaves its old place for one past every place that  *)
(* has still to be lifted.                                                 *)
LEMMA LiftRowInv ==
  ASSUME QueueInv, NEW w \in Works, LiftRow(w)
  PROVE  QueueInv'
<1>1. /\ pass = "lift" /\ pass' = "lift" /\ w \in left /\ left' = left \ {w}
      /\ place' = [place EXCEPT ![w] = @ + lift]
      /\ UNCHANGED <<play, lift, goal, placed, saved>>
  BY DEF LiftRow
<1>2. QueueTypeOK /\ Lifting /\ GoalOK
  BY <1>1 DEF QueueInv, Lifting
<1>3. place \in [Works -> Nat] /\ lift \in Nat /\ w \in Queue(place)
  BY <1>1, <1>2 DEF QueueTypeOK, GoalOK
<1>4. \A v \in Works : place'[v] = IF v = w THEN place[v] + lift ELSE place[v]
  BY <1>1, <1>3
<1>5. place' \in [Works -> Nat]
  BY <1>1, <1>3
<1>6. Queue(place') = Queue(place)
  BY <1>3, <1>4 DEF Queue
<1>7. QueueTypeOK'
  BY <1>1, <1>2, <1>5 DEF QueueTypeOK
<1>8. Checked(play', place') /\ Checked(saved.play', saved.place') /\ Dense(saved.place')
  <2>1. Checked(play, place')
    BY <1>6 DEF QueueInv, Checked, Queue
  <2>2. QED
    BY <1>1, <2>1 DEF QueueInv
<1>9. Lifting'
  <2>1. GoalOK'
    BY <1>1, <1>2, <1>6 DEF GoalOK
  <2>2. \A v \in Queue(place) : Base(v)' = Base(v)
    BY <1>1, <1>3, <1>4 DEF Base, Queue
  <2>3. \A v \in Queue(place) : Base(v)' \in 1..lift'
    BY <1>1, <1>2, <2>2 DEF Lifting
  <2>4. \A u, v \in Queue(place) : Base(u)' = Base(v)' => u = v
    BY <1>2, <2>2 DEF Lifting
  <2>5. QED
    BY <1>6, <2>1, <2>3, <2>4 DEF Lifting
<1>10. QED
  BY <1>1, <1>7, <1>8, <1>9 DEF QueueInv

(* When all are lifted, every row is past the places to be numbered.       *)
LEMMA LiftedInv ==
  ASSUME QueueInv, Lifted
  PROVE  QueueInv'
<1>1. /\ pass = "lift" /\ pass' = "number" /\ left = {} /\ left' = Queue(place)
      /\ UNCHANGED <<play, place, lift, goal, placed, saved>>
  BY DEF Lifted
<1>2. QueueTypeOK /\ Lifting /\ GoalOK
  BY <1>1 DEF QueueInv, Lifting
<1>3. QueueTypeOK'
  BY <1>1, <1>2 DEF QueueTypeOK, Queue
<1>4. Checked(play', place') /\ Checked(saved.play', saved.place') /\ Dense(saved.place')
  BY <1>1 DEF QueueInv
<1>5. Numbering'
  <2>1. GoalOK'
    BY <1>1, <1>2 DEF GoalOK
  <2>2. \A v \in Queue(place) : place[v] \in Nat /\ lift \in Nat /\ place[v] - lift \in 1..lift
    BY <1>1, <1>2 DEF Lifting, Base, QueueTypeOK, Queue
  <2>3. \A v, w \in Queue(place) : place[v] = place[w] => v = w
    BY <1>1, <1>2 DEF Lifting, Base
  <2>4. \A v \in Queue(place) : place[v] > lift
    BY <2>2
  <2>5. Queue(place') \ left' = {}
    BY <1>1
  <2>6. QED
    BY <1>1, <2>1, <2>3, <2>4, <2>5 DEF Numbering
<1>6. QED
  BY <1>1, <1>3, <1>4, <1>5 DEF QueueInv

(* Numbering one row: its place is free, since those to be numbered are    *)
(* past n and those numbered have theirs.                                  *)
LEMMA NumberRowInv ==
  ASSUME QueueInv, NEW w \in Works, NumberRow(w)
  PROVE  QueueInv'
<1>1. /\ pass = "number" /\ pass' = "number" /\ w \in left /\ left' = left \ {w}
      /\ place' = [place EXCEPT ![w] = goal[w]]
      /\ UNCHANGED <<play, lift, goal, placed, saved>>
  BY DEF NumberRow
<1>2. QueueTypeOK /\ Numbering /\ GoalOK
  BY <1>1 DEF QueueInv, Numbering
<1>3. /\ place \in [Works -> Nat] /\ goal \in [Works -> Nat]
      /\ w \in Queue(place) /\ w \in Queue(goal)
  BY <1>1, <1>2 DEF QueueTypeOK, GoalOK
<1>4. \A v \in Works : place'[v] = IF v = w THEN goal[v] ELSE place[v]
  BY <1>1, <1>3
<1>5. place' \in [Works -> Nat]
  BY <1>1, <1>3
<1>6. Queue(place') = Queue(place)
  BY <1>3, <1>4 DEF Queue
<1>7. QueueTypeOK'
  BY <1>1, <1>2, <1>5 DEF QueueTypeOK
<1>8. Checked(play', place') /\ Checked(saved.play', saved.place') /\ Dense(saved.place')
  <2>1. Checked(play, place')
    BY <1>6 DEF QueueInv, Checked, Queue
  <2>2. QED
    BY <1>1, <2>1 DEF QueueInv
<1>9. Numbering'
  <2>1. GoalOK'
    BY <1>1, <1>2, <1>6 DEF GoalOK
  <2>2. \A v \in left \ {w} : v \in Works /\ place'[v] = place[v]
    BY <1>2, <1>4 DEF QueueTypeOK
  <2>3. \A v \in Queue(place) \ (left \ {w}) : place'[v] = goal[v]
    BY <1>2, <1>4 DEF Numbering, Queue
  <2>4. QED
    BY <1>1, <1>2, <1>6, <2>1, <2>2, <2>3 DEF Numbering
<1>10. QED
  BY <1>1, <1>7, <1>8, <1>9 DEF QueueInv

(* When all are numbered, the places are the goal.                         *)
LEMMA NumberedPlaces ==
  ASSUME QueueInv, Numbered
  PROVE  place = goal
<1>1. QueueTypeOK /\ Numbering /\ GoalOK /\ left = {}
  BY DEF QueueInv, Numbering, Numbered
<1>2. place \in [Works -> Nat] /\ goal \in [Works -> Nat]
  BY <1>1 DEF QueueTypeOK
<1>3. \A v \in Queue(place) : place[v] = goal[v]
  BY <1>1 DEF Numbering
<1>4. \A v \in Works : v \notin Queue(place) => place[v] = 0 /\ goal[v] = 0
  BY <1>1 DEF GoalOK, Queue
<1>5. QED
  BY <1>2, <1>3, <1>4

LEMMA NumberedInv ==
  ASSUME QueueInv, Numbered
  PROVE  QueueInv'
<1>1. /\ pass = "number" /\ pass' = "written" /\ left = {} /\ lift' = 0
      /\ goal' = NoPlace /\ UNCHANGED <<play, place, left, placed, saved>>
  BY DEF Numbered
<1>2. QueueTypeOK /\ Numbering /\ GoalOK
  BY <1>1 DEF QueueInv, Numbering
<1>3. QueueTypeOK'
  BY <1>1, <1>2 DEF QueueTypeOK, NoPlace
<1>4. Checked(play', place') /\ Checked(saved.play', saved.place') /\ Dense(saved.place')
  BY <1>1 DEF QueueInv
<1>5. Dense(place')
  BY <1>1, <1>2, NumberedPlaces DEF GoalOK
<1>6. QED
  BY <1>1, <1>3, <1>4, <1>5 DEF QueueInv

(* What is committed is a queue without gaps, and a rollback goes back to  *)
(* one.                                                                    *)
LEMMA CommitInv ==
  ASSUME QueueInv, Commit
  PROVE  QueueInv'
<1>1. /\ pass = "written" /\ pass' = "idle"
      /\ saved' = [play |-> play, place |-> place] /\ placed' = {}
      /\ UNCHANGED <<play, place, left, lift, goal>>
  BY DEF Commit
<1>2. saved.play' = play /\ saved.place' = place
  BY <1>1
<1>3. QueueTypeOK'
  BY <1>1 DEF QueueInv, QueueTypeOK
<1>4. Checked(play', place') /\ Checked(saved.play', saved.place') /\ Dense(saved.place')
  BY <1>1, <1>2 DEF QueueInv
<1>5. QED
  BY <1>1, <1>2, <1>3, <1>4 DEF QueueInv

LEMMA RollbackInv ==
  ASSUME QueueInv, Rollback
  PROVE  QueueInv'
<1>1. /\ pass' = "idle" /\ play' = saved.play /\ place' = saved.place /\ saved' = saved
      /\ left' = {} /\ lift' = 0 /\ goal' = NoPlace /\ placed' = {}
  BY DEF Rollback
<1>2. QueueTypeOK'
  BY <1>1 DEF QueueInv, QueueTypeOK, NoPlace
<1>3. Checked(play', place') /\ Checked(saved.play', saved.place') /\ Dense(saved.place')
  BY <1>1 DEF QueueInv
<1>4. QED
  BY <1>1, <1>2, <1>3 DEF QueueInv

-----------------------------------------------------------------------------
(* The operations.  With no transaction open the queue is as committed.    *)
LEMMA IdleDense ==
  ASSUME QueueInv, pass = "idle"
  PROVE  /\ play \in [Works -> Play] /\ place \in Places
         /\ Dense(place) /\ Distinct(place) /\ Checked(play, place)
BY DenseDistinct DEF QueueInv, QueueTypeOK, Places

(* A queue some works have left, or been taken out of, has no ties.        *)
LEMMA WithoutDistinct ==
  ASSUME NEW p \in Places, Distinct(p), NEW W
  PROVE  /\ Without(p, W) \in Places
         /\ Distinct(Without(p, W))
         /\ Queue(Without(p, W)) = Queue(p) \ W
         /\ \A w \in Works : Without(p, W)[w] = IF w \in W THEN 0 ELSE p[w]
BY DEF Without, Places, Distinct, Queue

(* A place past the end of a queue without gaps is the next one.           *)
LEMMA AppendDense ==
  ASSUME NEW p \in Places, Dense(p), NEW w \in Works, p[w] = 0,
         NEW q, q = [p EXCEPT ![w] = FreePosition(p)]
  PROVE  q \in Places /\ Dense(q) /\ Queue(q) = Queue(p) \cup {w}
<1> DEFINE n == Cardinality(Queue(p))
<1>1. n \in Nat /\ IsFiniteSet(Queue(p)) /\ w \notin Queue(p)
  BY QueueFinite DEF Queue
<1>2. FreePosition(p) = n + 1
  BY HighestOfDense DEF FreePosition
<1>3. \A v \in Works : q[v] = IF v = w THEN n + 1 ELSE p[v]
  BY <1>2 DEF Places
<1>4. q \in Places
  BY <1>1, <1>2 DEF Places
<1>5. Queue(q) = Queue(p) \cup {w}
  BY <1>1, <1>3 DEF Queue
<1>6. Cardinality(Queue(q)) = n + 1
  BY <1>1, <1>5, FS_AddElement
<1>7. \A v \in Queue(p) : p[v] \in 1..n
  BY DEF Dense
<1>8. \A v \in Queue(q) : q[v] \in 1..Cardinality(Queue(q))
  BY <1>1, <1>3, <1>5, <1>6, <1>7 DEF Queue
<1>9. Distinct(q)
  <2> SUFFICES ASSUME NEW u \in Queue(p) \cup {w}, NEW v \in Queue(p) \cup {w},
                      q[u] = q[v]
               PROVE  u = v
    BY <1>5 DEF Distinct
  <2>1. u \in Works /\ v \in Works
    BY DEF Queue
  <2>2. QED
    BY <1>1, <1>3, <1>7, <2>1 DEF Dense
<1>10. QED
  BY <1>4, <1>5, <1>8, <1>9, DistinctIsDense

(* A place past every other makes no tie.                                  *)
LEMMA ParkDistinct ==
  ASSUME NEW p \in Places, Distinct(p), NEW w \in Works, p[w] = 0,
         NEW h \in Nat, \A v \in Works : p[v] < h,
         NEW q, q = [p EXCEPT ![w] = h]
  PROVE  q \in Places /\ Distinct(q) /\ Queue(q) = Queue(p) \cup {w}
<1>1. \A v \in Works : q[v] = IF v = w THEN h ELSE p[v]
  BY DEF Places
<1>2. q \in Places
  BY DEF Places
<1>3. h # 0
  BY DEF Places
<1>4. Queue(q) = Queue(p) \cup {w}
  BY <1>1, <1>3 DEF Queue
<1>5. Distinct(q)
  <2> SUFFICES ASSUME NEW u \in Queue(q), NEW v \in Queue(q), q[u] = q[v]
               PROVE  u = v
    BY DEF Distinct
  <2>1. u \in Works /\ v \in Works /\ p[u] \in Nat /\ p[v] \in Nat /\ p[u] < h /\ p[v] < h
    BY DEF Queue, Places
  <2>2. u # w => u \in Queue(p)
    BY <1>1 DEF Queue
  <2>3. v # w => v \in Queue(p)
    BY <1>1 DEF Queue
  <2>4. QED
    BY <1>1, <2>1, <2>2, <2>3 DEF Distinct
<1>6. QED
  BY <1>2, <1>4, <1>5

LEMMA EnqueueInv ==
  ASSUME QueueInv, NEW w \in Works, Enqueue(w)
  PROVE  QueueInv'
<1> DEFINE pl == [play EXCEPT ![w] = "queued"]
           q  == [place EXCEPT ![w] = FreePosition(place)]
<1>1. pass = "idle" /\ play[w] # "queued" /\ Write(pl, q) /\ saved' = saved
  BY DEF Enqueue
<1>2. /\ play \in [Works -> Play] /\ place \in Places
      /\ Dense(place) /\ Checked(play, place)
  BY <1>1, IdleDense
<1>3. place[w] = 0
  BY <1>1, <1>2 DEF Checked
<1>4. q \in Places /\ Dense(q) /\ Queue(q) = Queue(place) \cup {w}
  BY <1>2, <1>3, AppendDense
<1>5. pl \in [Works -> Play]
  BY <1>2 DEF Play
<1>6. Checked(pl, q)
  <2>1. \A v \in Works : q[v] # 0 <=> v \in Queue(place) \cup {w}
    BY <1>4 DEF Queue
  <2>2. QED
    BY <1>2, <2>1 DEF Checked, Queue
<1>7. QED
  BY <1>1, <1>4, <1>5, <1>6, WriteInv

LEMMA LeaveInv ==
  ASSUME QueueInv, NEW w \in Works, NEW s \in {"not_started", "playing"}, Leave(w, s)
  PROVE  QueueInv'
<1> DEFINE pl == [play EXCEPT ![w] = s]
           q  == [place EXCEPT ![w] = 0]
<1>1. pass = "idle" /\ Rearrange(pl, q, ClosedUp(q), {}) /\ saved' = saved
  BY DEF Leave
<1>2. /\ play \in [Works -> Play] /\ place \in Places
      /\ Distinct(place) /\ Checked(play, place)
  BY <1>1, IdleDense
<1>3. q \in Places /\ Distinct(q)
  BY <1>2 DEF Distinct, Queue, Places
<1>4. ClosedUp(q) \in Places /\ Queue(ClosedUp(q)) = Queue(q) /\ Dense(ClosedUp(q))
  BY <1>3, ClosedUpDense
<1>5. pl \in [Works -> Play]
  BY <1>2 DEF Play
<1>6. Checked(pl, q)
  BY <1>2 DEF Checked, Places
<1> HIDE DEF pl, q
<1>7. QED
  BY <1>1, <1>3, <1>4, <1>5, <1>6, RearrangeInv

LEMMA MarkInv ==
  ASSUME QueueInv, NEW w \in Works, NEW s \in {"not_started", "playing"}, Mark(w, s)
  PROVE  QueueInv'
<1> DEFINE pl == [play EXCEPT ![w] = s]
<1>1. pass = "idle" /\ play[w] # "queued" /\ Write(pl, place) /\ saved' = saved
  BY DEF Mark
<1>2. /\ play \in [Works -> Play] /\ place \in Places
      /\ Dense(place) /\ Checked(play, place)
  BY <1>1, IdleDense
<1>3. pl \in [Works -> Play] /\ Checked(pl, place)
  BY <1>1, <1>2 DEF Checked, Play
<1>4. QED
  BY <1>1, <1>2, <1>3, WriteInv

LEMMA MoveInv ==
  ASSUME QueueInv, NEW w \in Works, NEW k \in Nat \ {0}, Move(w, k)
  PROVE  QueueInv'
<1> DEFINE rest == ClosedUp(Without(place, {w}))
           g == InsertAt(rest, w, k)
<1>1. pass = "idle" /\ place[w] # 0 /\ Rearrange(play, place, g, {w}) /\ saved' = saved
  BY DEF Move
<1>2. /\ play \in [Works -> Play] /\ place \in Places
      /\ Distinct(place) /\ Checked(play, place)
  BY <1>1, IdleDense
<1>3. /\ Without(place, {w}) \in Places
      /\ Distinct(Without(place, {w}))
      /\ Queue(Without(place, {w})) = Queue(place) \ {w}
  BY <1>2, WithoutDistinct
<1>4. rest \in Places /\ Queue(rest) = Queue(place) \ {w} /\ Dense(rest)
  BY <1>3, ClosedUpDense
<1>5. rest[w] = 0 /\ w \in Queue(place)
  BY <1>1, <1>4 DEF Queue
<1> HIDE DEF rest
<1>6. g \in Places /\ Queue(g) = Queue(place) /\ Dense(g)
  BY <1>4, <1>5, InsertAtDense
<1> HIDE DEF g
<1>7. QED
  BY <1>1, <1>2, <1>6, RearrangeInv

LEMMA DropInv ==
  ASSUME QueueInv, NEW W \in SUBSET Works, Drop(W)
  PROVE  QueueInv'
<1> DEFINE pl == [w \in Works |-> IF w \in W THEN "none" ELSE play[w]]
           q  == Without(place, W)
<1>1. pass = "idle" /\ saved' = saved
  BY DEF Drop
<1>2. /\ play \in [Works -> Play] /\ place \in Places
      /\ Dense(place) /\ Distinct(place) /\ Checked(play, place)
  BY <1>1, IdleDense
<1>3. pl \in [Works -> Play]
  BY <1>2 DEF Play
<1>4. /\ q \in Places /\ Distinct(q)
      /\ \A w \in Works : q[w] = IF w \in W THEN 0 ELSE place[w]
  BY <1>2, WithoutDistinct
<1>5. CASE W \cap Queue(place) = {}
  <2>1. Checked(pl, place)
    BY <1>2, <1>5 DEF Checked, Queue
  <2>2. Write(pl, place)
    BY <1>5 DEF Drop
  <2>3. QED
    BY <1>1, <1>2, <1>3, <2>1, <2>2, WriteInv
<1>6. CASE W \cap Queue(place) # {}
  <2>1. Checked(pl, q)
    BY <1>2, <1>4 DEF Checked
  <2>2. Rearrange(pl, q, ClosedUp(q), {})
    BY <1>6 DEF Drop
  <2>3. ClosedUp(q) \in Places /\ Queue(ClosedUp(q)) = Queue(q) /\ Dense(ClosedUp(q))
    BY <1>4, ClosedUpDense
  <2> HIDE DEF pl, q
  <2>4. QED
    BY <1>1, <1>3, <1>4, <2>1, <2>2, <2>3, RearrangeInv
<1>7. QED
  BY <1>5, <1>6

-----------------------------------------------------------------------------
(* A merge or an undo that hands one work's row to a work without one.     *)
LEMMA MoveRowDense ==
  ASSUME NEW p \in Places, Dense(p), NEW s \in Works, NEW t \in Works, s # t, p[t] = 0,
         NEW q \in Places,
         \A v \in Works : q[v] = IF v = s THEN 0 ELSE IF v = t THEN p[s] ELSE p[v]
  PROVE  Dense(q)
<1> DEFINE n == Cardinality(Queue(p))
<1>1. n \in Nat /\ IsFiniteSet(Queue(p)) /\ t \notin Queue(p)
  BY QueueFinite DEF Queue
<1>2. CASE p[s] = 0
  <2>1. q = p
    BY <1>2 DEF Places
  <2>2. QED
    BY <2>1
<1>3. CASE p[s] # 0
  <2>1. Queue(q) = (Queue(p) \ {s}) \cup {t} /\ s \in Queue(p)
    BY <1>3 DEF Queue
  <2>2. /\ IsFiniteSet(Queue(p) \ {s})
        /\ Cardinality(Queue(p) \ {s}) = n - 1
    BY <1>1, <2>1, FS_RemoveElement
  <2>3. Cardinality(Queue(q)) = n
    <3>1. Cardinality((Queue(p) \ {s}) \cup {t}) = Cardinality(Queue(p) \ {s}) + 1
      BY <1>1, <2>2, FS_AddElement
    <3>2. QED
      BY <1>1, <2>1, <2>2, <3>1
  <2>4. \A v \in Queue(p) : p[v] \in 1..n
    BY DEF Dense
  <2>5. \A v \in Queue(q) : q[v] \in 1..Cardinality(Queue(q))
    BY <2>1, <2>3, <2>4 DEF Queue
  <2>6. Distinct(q)
    <3> SUFFICES ASSUME NEW u \in (Queue(p) \ {s}) \cup {t},
                        NEW v \in (Queue(p) \ {s}) \cup {t}, q[u] = q[v]
                 PROVE  u = v
      BY <2>1 DEF Distinct
    <3>1. u \in Works /\ v \in Works
      BY DEF Queue
    <3>2. \A a, b \in Queue(p) : p[a] = p[b] => a = b
      BY DEF Dense
    <3>3. QED
      BY <2>1, <3>1, <3>2
  <2>7. QED
    BY <2>5, <2>6, DistinctIsDense
<1>4. QED
  BY <1>2, <1>3

(* The status of the target after a merge is queued exactly when it was    *)
(* queued, or takes the source's place in the queue.                       *)
LEMMA FilledQueued ==
  ASSUME QueueInv, pass = "idle", NEW s \in Works, NEW t \in Works
  PROVE  /\ Filled(s, t) = "queued" <=> place[t] # 0 \/ TakesPlace(s, t)
         /\ Filled(s, t) \in Play
         /\ place[s] = 0 => ~TakesPlace(s, t)
<1>1. play \in [Works -> Play] /\ place \in Places /\ Checked(play, place)
  BY IdleDense
<1>2. (place[s] # 0 <=> play[s] = "queued") /\ (place[t] # 0 <=> play[t] = "queued")
  BY <1>1 DEF Checked
<1>3. QED
  BY <1>1, <1>2 DEF Filled, TakesPlace

(* The places and statuses a merge flushes before `arrange`.               *)
LEMMA FreedOK ==
  ASSUME QueueInv, pass = "idle", NEW s \in Works, NEW t \in Works, s # t
  PROVE  /\ Freed(s, t) \in Places /\ Distinct(Freed(s, t))
         /\ Queue(Freed(s, t)) = (Queue(place) \ {s}) \cup
                                 (IF TakesPlace(s, t) THEN {t} ELSE {})
         /\ Folded(s, t) \in [Works -> Play]
         /\ Checked(Folded(s, t), Freed(s, t))
<1> DEFINE gone == [place EXCEPT ![s] = 0]
<1>1. /\ play \in [Works -> Play] /\ place \in Places
      /\ Distinct(place) /\ Checked(play, place)
  BY IdleDense
<1>2. gone \in Places /\ Distinct(gone) /\ Queue(gone) = Queue(place) \ {s}
  BY <1>1 DEF Distinct, Queue, Places
<1>3. \A v \in Works : gone[v] = IF v = s THEN 0 ELSE place[v]
  BY <1>1 DEF Places
<1>4. Folded(s, t) \in [Works -> Play]
  BY <1>1, FilledQueued DEF Folded, Play
<1>5. CASE TakesPlace(s, t) /\ place[t] = 0
  <2> DEFINE h == FreePosition(gone)
  <2>1. h \in Nat /\ \A v \in Works : gone[v] < h
    <3> HIDE DEF gone
    <3>1. Highest(gone) \in Nat /\ \A v \in Works : gone[v] <= Highest(gone)
      BY <1>2, HighestBounds
    <3>2. \A v \in Works : gone[v] \in Nat
      BY <1>2 DEF Places
    <3>3. QED
      BY <3>1, <3>2 DEF FreePosition
  <2>2. Freed(s, t) = [gone EXCEPT ![t] = h]
    BY <1>5 DEF Freed
  <2>3. gone[t] = 0
    BY <1>3, <1>5
  <2> HIDE DEF gone, h
  <2>4. /\ Freed(s, t) \in Places /\ Distinct(Freed(s, t))
        /\ Queue(Freed(s, t)) = Queue(gone) \cup {t}
    BY <1>2, <2>1, <2>2, <2>3, ParkDistinct
  <2>5. QED
    <3>1. Queue(Freed(s, t)) = (Queue(place) \ {s}) \cup {t}
      BY <1>2, <2>4
    <3>2. Checked(Folded(s, t), Freed(s, t))
      BY <1>1, <1>5, <3>1, FilledQueued DEF Checked, Folded, Queue
    <3>3. QED
      BY <1>4, <1>5, <2>4, <3>1, <3>2
<1>6. CASE ~(TakesPlace(s, t) /\ place[t] = 0)
  <2>1. Freed(s, t) = gone
    BY <1>6 DEF Freed
  <2>2. TakesPlace(s, t) => t \in Queue(place) \ {s}
    BY <1>6 DEF Queue
  <2>3. Checked(Folded(s, t), gone)
    BY <1>1, <1>3, <1>6, FilledQueued DEF Checked, Folded
  <2>4. QED
    BY <1>2, <1>4, <2>1, <2>2, <2>3
<1>7. QED
  BY <1>5, <1>6

(* The order a merge asks for is a queue without gaps of the same works.   *)
LEMMA MergedOrderOK ==
  ASSUME QueueInv, pass = "idle", NEW s \in Works, NEW t \in Works, s # t
  PROVE  /\ MergedOrder(s, t) \in Places
         /\ Dense(MergedOrder(s, t))
         /\ Queue(MergedOrder(s, t)) = Queue(Freed(s, t))
<1>1. place \in Places /\ Distinct(place)
  BY IdleDense
<1>2. CASE TakesPlace(s, t)
  <2> DEFINE rest == ClosedUp(Without(place, {s, t}))
  <2>1. /\ Without(place, {s, t}) \in Places
        /\ Distinct(Without(place, {s, t}))
        /\ Queue(Without(place, {s, t})) = Queue(place) \ {s, t}
    BY <1>1, WithoutDistinct
  <2>2. rest \in Places /\ Queue(rest) = Queue(place) \ {s, t} /\ Dense(rest)
    BY <2>1, ClosedUpDense
  <2>3. rest[t] = 0 /\ place[s] \in Nat \ {0}
    BY <1>1, <1>2, <2>2 DEF Queue, Places, TakesPlace
  <2>4. MergedOrder(s, t) = InsertAt(rest, t, place[s])
    BY <1>2 DEF MergedOrder
  <2> HIDE DEF rest
  <2>5. /\ MergedOrder(s, t) \in Places /\ Dense(MergedOrder(s, t))
        /\ Queue(MergedOrder(s, t)) = Queue(rest) \cup {t}
    BY <2>2, <2>3, <2>4, InsertAtDense
  <2>6. Queue(Freed(s, t)) = (Queue(place) \ {s}) \cup {t}
    BY <1>2, FreedOK
  <2>7. QED
    BY <2>2, <2>5, <2>6
<1>3. CASE ~TakesPlace(s, t)
  <2>1. MergedOrder(s, t) = ClosedUp(Freed(s, t))
    BY <1>3 DEF MergedOrder
  <2>2. QED
    BY <2>1, FreedOK, ClosedUpDense
<1>4. QED
  BY <1>2, <1>3

LEMMA MergeStatesInv ==
  ASSUME QueueInv, pass = "idle", NEW s \in Works, NEW t \in Works, s # t,
         MergeStates(s, t), saved' = saved
  PROVE  QueueInv'
<1>1. /\ play \in [Works -> Play] /\ place \in Places
      /\ Dense(place) /\ Checked(play, place)
  BY IdleDense
<1>2. CASE play[s] = "none"
  <2>1. Write(play, place)
    BY <1>2 DEF MergeStates
  <2>2. QED
    BY <1>1, <2>1, WriteInv
<1>3. CASE play[s] # "none" /\ play[t] = "none"
  <2> DEFINE pl == [play EXCEPT ![s] = "none", ![t] = play[s]]
             q  == [place EXCEPT ![s] = 0, ![t] = place[s]]
  <2>1. Write(pl, q)
    BY <1>3 DEF MergeStates
  <2>2. pl \in [Works -> Play] /\ q \in Places /\ place[t] = 0
    BY <1>1, <1>3 DEF Places, Play, Checked
  <2>3. \A v \in Works : q[v] = IF v = s THEN 0 ELSE IF v = t THEN place[s] ELSE place[v]
    BY <1>1 DEF Places
  <2>4. Checked(pl, q)
    BY <1>1, <2>3 DEF Checked
  <2> HIDE DEF pl, q
  <2>5. Dense(q)
    BY <1>1, <2>2, <2>3, MoveRowDense
  <2>6. QED
    BY <2>1, <2>2, <2>4, <2>5, WriteInv
<1>4. CASE play[s] # "none" /\ play[t] # "none" /\ place[s] = 0
  <2>1. Write(Folded(s, t), place)
    BY <1>4 DEF MergeStates
  <2>2. Folded(s, t) \in [Works -> Play] /\ Checked(Folded(s, t), place)
    BY <1>1, <1>4, FilledQueued DEF Folded, Checked, Play
  <2>3. QED
    BY <1>1, <2>1, <2>2, WriteInv
<1>5. CASE play[s] # "none" /\ play[t] # "none" /\ place[s] # 0
  <2>1. PICK W \in SUBSET Works :
          Rearrange(Folded(s, t), Freed(s, t), MergedOrder(s, t), W)
    <3>1. (IF TakesPlace(s, t) THEN {t} ELSE {}) \in SUBSET Works
      OBVIOUS
    <3>2. QED
      BY <1>5, <3>1 DEF MergeStates
  <2>2. QED
    BY <2>1, FreedOK, MergedOrderOK, RearrangeInv
<1>6. QED
  BY <1>2, <1>3, <1>4, <1>5

-----------------------------------------------------------------------------
(* What `target_before` may hold.                                          *)
Befores == UNION {[D -> Play \cup Nat] : D \in SUBSET {"play", "place"}}

Entries ==
  [source : Works, work : Works, restored : Works, undone : BOOLEAN,
   moved : BOOLEAN, merged : BOOLEAN, play : Play, place : Nat,
   before : Befores, audits : SUBSET Nat]

(* What an undo relies on: the source's row met the CHECK, and a field is  *)
(* put back only if it was at its default.                                 *)
EntryOK(e) ==
  /\ e.merged => (e.place # 0 <=> e.play = "queued")
  /\ "play" \in DOMAIN e.before => e.before["play"] = "not_started"
  /\ "place" \in DOMAIN e.before => e.before["place"] \in Nat

Rows == {e \in Entries : EntryOK(e)}

(* The status the target goes back to, and the places before `arrange`.    *)
LEMMA ParkedOK ==
  ASSUME QueueInv, pass = "idle", NEW e \in Rows, e.merged,
         NEW t \in Works, NEW r \in Works, t # r, play[r] = "none"
  PROVE  /\ Parked(e, t, r) \in Places /\ Distinct(Parked(e, t, r))
         /\ Unfolded(e, t, r) \in [Works -> Play]
         /\ Checked(Unfolded(e, t, r), Parked(e, t, r))
         /\ e.place # 0 => Parked(e, t, r)[r] # 0
         /\ GoesBack(e, t) => Parked(e, t, r)[t] # 0
<1> DEFINE out == play[t] # "none" /\ PlayBefore(e, t) # "queued"
           gone == [place EXCEPT ![t] = IF out THEN 0 ELSE place[t]]
           h == FreePosition(place)
<1>1. /\ play \in [Works -> Play] /\ place \in Places
      /\ Distinct(place) /\ Checked(play, place)
  BY IdleDense
<1>2. gone \in Places /\ Distinct(gone)
  BY <1>1 DEF Distinct, Queue, Places
<1>3. \A v \in Works : gone[v] = IF v = t /\ out THEN 0 ELSE place[v]
  BY <1>1 DEF Places
<1>4. place[r] = 0 /\ gone[r] = 0
  BY <1>1, <1>3 DEF Checked
<1>5. h \in Nat /\ h # 0 /\ \A v \in Works : gone[v] < h
  <2>1. Highest(place) \in Nat /\ \A v \in Works : place[v] <= Highest(place)
    BY <1>1, HighestBounds
  <2>2. \A v \in Works : place[v] \in Nat
    BY <1>1 DEF Places
  <2>3. h = Highest(place) + 1
    BY DEF FreePosition
  <2> HIDE DEF h, gone
  <2>4. QED
    BY <1>3, <2>1, <2>2, <2>3
<1>6. /\ e.play \in Play /\ e.place \in Nat
      /\ (e.place # 0 <=> e.play = "queued")
      /\ "play" \in DOMAIN e.before => e.before["play"] = "not_started"
  BY DEF Rows, Entries, EntryOK
<1>7. /\ PlayBefore(e, t) \in Play
      /\ PlayBefore(e, t) = "queued" => play[t] = "queued"
  BY <1>1, <1>6 DEF PlayBefore, Play
<1>8. /\ \A v \in Works : Unfolded(e, t, r)[v] =
              IF v = t THEN (IF play[t] = "none" THEN "none" ELSE PlayBefore(e, t))
              ELSE IF v = r THEN e.play ELSE play[v]
      /\ Unfolded(e, t, r) \in [Works -> Play]
  BY <1>1, <1>6, <1>7 DEF Unfolded, Play
<1>9. \A v \in Works : Parked(e, t, r)[v] =
        IF v = r THEN (IF e.place = 0 THEN 0 ELSE h) ELSE gone[v]
  BY <1>1, <1>3 DEF Parked, Places
<1>10. Parked(e, t, r) = IF e.place = 0 THEN gone ELSE [gone EXCEPT ![r] = h]
  <2>1. Parked(e, t, r) = [v \in Works |-> Parked(e, t, r)[v]]
    BY <1>1 DEF Parked, Places
  <2>2. gone = [v \in Works |-> gone[v]]
    BY <1>1 DEF Places
  <2>3. [gone EXCEPT ![r] = h] = [v \in Works |-> IF v = r THEN h ELSE gone[v]]
    BY <2>2
  <2> HIDE DEF gone, h
  <2>4. QED
    BY <1>4, <1>9, <2>1, <2>2, <2>3
<1>11. Parked(e, t, r) \in Places /\ Distinct(Parked(e, t, r))
  <2> HIDE DEF gone, h
  <2>1. QED
    BY <1>2, <1>4, <1>5, <1>10, ParkDistinct
<1>12. Checked(Unfolded(e, t, r), Parked(e, t, r))
  <2> SUFFICES ASSUME NEW v \in Works
               PROVE  Parked(e, t, r)[v] # 0 <=> Unfolded(e, t, r)[v] = "queued"
    BY DEF Checked
  <2>1. CASE v = r
    BY <1>5, <1>6, <1>8, <1>9, <2>1
  <2>2. CASE v = t
    BY <1>1, <1>3, <1>7, <1>8, <1>9, <2>2 DEF Checked
  <2>3. CASE v # r /\ v # t
    BY <1>1, <1>3, <1>8, <1>9, <2>3 DEF Checked
  <2>4. QED
    BY <2>1, <2>2, <2>3
<1>13. e.place # 0 => Parked(e, t, r)[r] # 0
  BY <1>5, <1>9
<1>14. GoesBack(e, t) => Parked(e, t, r)[t] # 0
  BY <1>1, <1>3, <1>7, <1>9 DEF GoesBack, Checked
<1>15. QED
  BY <1>8, <1>11, <1>12, <1>13, <1>14

(* The order an undo asks for is a queue without gaps of the same works.   *)
LEMMA UndoneOrderOK ==
  ASSUME QueueInv, pass = "idle", NEW e \in Rows, e.merged,
         NEW t \in Works, NEW r \in Works, t # r, play[r] = "none"
  PROVE  /\ UndoneOrder(e, t, r) \in Places
         /\ Dense(UndoneOrder(e, t, r))
         /\ Queue(UndoneOrder(e, t, r)) = Queue(Parked(e, t, r))
<1> DEFINE start == Parked(e, t, r)
           U == UndoPlaced(e, t, r)
           rest == ClosedUp(Without(start, U))
           back == PlaceBefore(e, t)
<1>1. /\ start \in Places /\ Distinct(start)
      /\ e.place # 0 => r \in Queue(start)
      /\ GoesBack(e, t) => t \in Queue(start)
  BY ParkedOK DEF Queue
<1>2. /\ Without(start, U) \in Places /\ Distinct(Without(start, U))
      /\ Queue(Without(start, U)) = Queue(start) \ U
  BY <1>1, WithoutDistinct
<1>3. rest \in Places /\ Dense(rest) /\ Queue(rest) = Queue(start) \ U
  BY <1>2, ClosedUpDense
<1>4. /\ r \in U <=> e.place # 0
      /\ t \in U <=> GoesBack(e, t)
      /\ U \subseteq {r, t}
  BY DEF UndoPlaced
<1>5. /\ e.place # 0 => rest[r] = 0
      /\ GoesBack(e, t) => rest[t] = 0
  BY <1>3, <1>4 DEF Queue
<1>6. /\ e.place \in Nat
      /\ GoesBack(e, t) => back \in Nat \ {0}
  <2>1. place[t] \in Nat
    BY IdleDense DEF Places
  <2>2. QED
    BY <2>1 DEF Rows, Entries, EntryOK, GoesBack, PlaceBefore
<1>7. UndoneOrder(e, t, r) =
        IF e.place = 0
        THEN IF GoesBack(e, t) THEN InsertAt(rest, t, back) ELSE rest
        ELSE IF ~GoesBack(e, t)
        THEN InsertAt(rest, r, e.place)
        ELSE IF e.place <= back
        THEN InsertAt(InsertAt(rest, r, e.place), t, back)
        ELSE InsertAt(InsertAt(rest, t, back), r, e.place)
  BY DEF UndoneOrder
<1> HIDE DEF start, rest, back, U
<1>8. CASE e.place = 0 /\ ~GoesBack(e, t)
  BY <1>3, <1>4, <1>7, <1>8 DEF start
<1>9. CASE e.place = 0 /\ GoesBack(e, t)
  <2>1. /\ InsertAt(rest, t, back) \in Places /\ Dense(InsertAt(rest, t, back))
        /\ Queue(InsertAt(rest, t, back)) = Queue(rest) \cup {t}
    BY <1>3, <1>5, <1>6, <1>9, InsertAtDense
  <2>2. Queue(rest) \cup {t} = Queue(start)
    BY <1>1, <1>3, <1>4, <1>9
  <2>3. QED
    BY <1>7, <1>9, <2>1, <2>2 DEF start
<1>10. CASE e.place # 0 /\ ~GoesBack(e, t)
  <2>1. /\ InsertAt(rest, r, e.place) \in Places /\ Dense(InsertAt(rest, r, e.place))
        /\ Queue(InsertAt(rest, r, e.place)) = Queue(rest) \cup {r}
    BY <1>3, <1>5, <1>6, <1>10, InsertAtDense
  <2>2. Queue(rest) \cup {r} = Queue(start)
    BY <1>1, <1>3, <1>4, <1>10
  <2>3. QED
    BY <1>7, <1>10, <2>1, <2>2 DEF start
<1>11. CASE e.place # 0 /\ GoesBack(e, t)
  <2>1. Queue(rest) \cup {r} \cup {t} = Queue(start)
    BY <1>1, <1>3, <1>4, <1>11
  <2>2. CASE e.place <= back
    <3> DEFINE one == InsertAt(rest, r, e.place)
    <3>1. one \in Places /\ Dense(one) /\ Queue(one) = Queue(rest) \cup {r}
      BY <1>3, <1>5, <1>6, <1>11, InsertAtDense
    <3>2. one[t] = 0
      BY <1>5, <1>11, <3>1 DEF Queue
    <3> HIDE DEF one
    <3>3. /\ InsertAt(one, t, back) \in Places /\ Dense(InsertAt(one, t, back))
          /\ Queue(InsertAt(one, t, back)) = Queue(one) \cup {t}
      BY <1>6, <1>11, <3>1, <3>2, InsertAtDense
    <3>4. QED
      BY <1>7, <1>11, <2>1, <2>2, <3>1, <3>3 DEF one, start
  <2>3. CASE ~(e.place <= back)
    <3> DEFINE one == InsertAt(rest, t, back)
    <3>1. one \in Places /\ Dense(one) /\ Queue(one) = Queue(rest) \cup {t}
      BY <1>3, <1>5, <1>6, <1>11, InsertAtDense
    <3>2. one[r] = 0
      BY <1>5, <1>11, <3>1 DEF Queue
    <3> HIDE DEF one
    <3>3. /\ InsertAt(one, r, e.place) \in Places /\ Dense(InsertAt(one, r, e.place))
          /\ Queue(InsertAt(one, r, e.place)) = Queue(one) \cup {r}
      BY <1>6, <1>11, <3>1, <3>2, InsertAtDense
    <3>4. QED
      BY <1>7, <1>11, <2>1, <2>3, <3>1, <3>3 DEF one, start
  <2>4. QED
    BY <2>2, <2>3
<1>12. QED
  BY <1>8, <1>9, <1>10, <1>11

LEMMA UnmergeStatesInv ==
  ASSUME QueueInv, pass = "idle", NEW e \in Rows,
         NEW t \in Works, NEW r \in Works, t # r, play[r] = "none",
         UnmergeStates(e, t, r), saved' = saved
  PROVE  QueueInv'
<1>1. /\ play \in [Works -> Play] /\ place \in Places
      /\ Dense(place) /\ Checked(play, place)
  BY IdleDense
<1>2. CASE Write([play EXCEPT ![r] = play[t], ![t] = "none"],
                 [place EXCEPT ![r] = place[t], ![t] = 0])
  <2> DEFINE pl == [play EXCEPT ![r] = play[t], ![t] = "none"]
             q  == [place EXCEPT ![r] = place[t], ![t] = 0]
  <2>1. pl \in [Works -> Play] /\ q \in Places /\ place[r] = 0
    BY <1>1 DEF Places, Play, Checked
  <2>2. \A v \in Works : q[v] = IF v = t THEN 0 ELSE IF v = r THEN place[t] ELSE place[v]
    BY <1>1 DEF Places
  <2>3. Checked(pl, q)
    BY <1>1, <2>2 DEF Checked
  <2>4. Write(pl, q)
    BY <1>2
  <2> HIDE DEF pl, q
  <2>5. Dense(q)
    BY <1>1, <2>1, <2>2, MoveRowDense
  <2>6. QED
    BY <2>1, <2>3, <2>4, <2>5, WriteInv
<1>3. CASE e.merged /\ Rearrange(Unfolded(e, t, r), Parked(e, t, r),
                                 UndoneOrder(e, t, r), UndoPlaced(e, t, r))
  <2>1. UndoPlaced(e, t, r) \in SUBSET Works
    BY DEF UndoPlaced
  <2>2. QED
    BY <1>3, <2>1, ParkedOK, UndoneOrderOK, RearrangeInv
<1>4. CASE Write(play, place)
  BY <1>1, <1>4, WriteInv
<1>5. QED
  BY <1>2, <1>3, <1>4 DEF UnmergeStates

-----------------------------------------------------------------------------
(* The invariant of the whole specification: the queue's, no state of a    *)
(* work that is gone, and rows of the trail an undo can rely on.           *)
Gone(ws, pl) == \A w \in Works \ ws : pl[w] = "none"

MergeInv ==
  /\ QueueInv
  /\ works \in SUBSET Works /\ kept.works \in SUBSET Works
  /\ Gone(works, play) /\ Gone(kept.works, saved.play)
  /\ trail \in Seq(Rows) /\ kept.trail \in Seq(Rows)

LEMMA RepointRows ==
  ASSUME NEW tr \in Seq(Rows), NEW ids, NEW from, NEW to \in Works
  PROVE  /\ Repoint(tr, ids, from, to) \in Seq(Rows)
         /\ Len(Repoint(tr, ids, from, to)) = Len(tr)
<1> DEFINE rp == Repoint(tr, ids, from, to)
<1>1. /\ Len(tr) \in Nat /\ DOMAIN tr = 1..Len(tr)
      /\ \A i \in 1..Len(tr) : tr[i] \in Rows
  OBVIOUS
<1>2. ASSUME NEW e \in Rows PROVE [e EXCEPT !.work = to] \in Rows
  BY DEF Rows, Entries, EntryOK
<1>3. rp \in [1..Len(tr) -> Rows]
  BY <1>1, <1>2 DEF Repoint
<1>4. QED
  BY <1>1, <1>3

(* The row a merge writes is one an undo can rely on.                      *)
LEMMA RecordedRow ==
  ASSUME QueueInv, pass = "idle", NEW s \in Works, NEW t \in Works,
         trail \in Seq(Rows)
  PROVE  Recorded(s, t) \in Rows
<1>1. play \in [Works -> Play] /\ place \in Places /\ Checked(play, place)
  BY IdleDense
<1>2. {i \in DOMAIN trail : trail[i].work = s} \in SUBSET Nat
  OBVIOUS
<1>3. play[s] \in Play /\ place[s] \in Nat /\ play[t] \in Play /\ place[t] \in Nat
  BY <1>1 DEF Places
<1>4. /\ Before(s, t) \in Befores
      /\ "play" \in DOMAIN Before(s, t) => Before(s, t)["play"] = "not_started"
      /\ "place" \in DOMAIN Before(s, t) => Before(s, t)["place"] \in Nat
  <2> DEFINE D == (IF Filled(s, t) # play[t] THEN {"play"} ELSE {})
                  \cup (IF TakesPlace(s, t) THEN {"place"} ELSE {})
  <2>1. Before(s, t) = [f \in D |-> IF f = "play" THEN play[t] ELSE place[t]]
    BY DEF Before
  <2>2. D \in SUBSET {"play", "place"}
    OBVIOUS
  <2>3. "play" \in D => play[t] = "not_started"
    BY DEF Filled
  <2> HIDE DEF D
  <2>4. Before(s, t) \in [D -> Play \cup Nat]
    BY <1>3, <2>1
  <2>5. QED
    BY <1>3, <2>1, <2>2, <2>3, <2>4 DEF Befores
<1>5. NoBefore \in Befores /\ DOMAIN NoBefore = {}
  <2>1. NoBefore \in [{} -> Play \cup Nat]
    BY DEF NoBefore
  <2>2. QED
    BY <2>1 DEF Befores, NoBefore
<1> DEFINE b == IF play[s] # "none" /\ play[t] # "none" THEN Before(s, t) ELSE NoBefore
<1>6. /\ b \in Befores
      /\ "play" \in DOMAIN b => b["play"] = "not_started"
      /\ "place" \in DOMAIN b => b["place"] \in Nat
  BY <1>4, <1>5
<1>7. place[s] # 0 <=> play[s] = "queued"
  BY <1>1 DEF Checked
<1>8. Recorded(s, t) =
        [source |-> s, work |-> t, restored |-> s, undone |-> FALSE,
         moved |-> play[s] # "none" /\ play[t] = "none",
         merged |-> play[s] # "none" /\ play[t] # "none",
         play |-> play[s], place |-> place[s], before |-> b,
         audits |-> {i \in DOMAIN trail : trail[i].work = s}]
  BY DEF Recorded
<1> HIDE DEF b
<1>9. Recorded(s, t) \in Entries
  BY <1>2, <1>3, <1>6, <1>8 DEF Entries
<1>10. EntryOK(Recorded(s, t))
  BY <1>6, <1>7, <1>8 DEF EntryOK
<1>11. QED
  BY <1>9, <1>10 DEF Rows

(* Merging keeps the invariant.                                            *)
LEMMA MergeStep ==
  ASSUME MergeInv, NEW s \in works, NEW t \in works, Merge(s, t)
  PROVE  MergeInv'
<1>1. /\ pass = "idle" /\ s \in Works /\ t \in Works /\ s # t
      /\ MergeStates(s, t) /\ saved' = saved /\ kept' = kept /\ works' = works \ {s}
      /\ trail' = Append(Repoint(trail, DOMAIN trail, s, t), Recorded(s, t))
  BY DEF Merge, MergeInv
<1>2. QueueInv /\ trail \in Seq(Rows)
  BY DEF MergeInv
<1>3. QueueInv'
  BY <1>1, <1>2, MergeStatesInv
<1>4. trail' \in Seq(Rows)
  BY <1>1, <1>2, RepointRows, RecordedRow
<1>5. play \in [Works -> Play]
  BY <1>2 DEF QueueInv, QueueTypeOK
<1>6. Gone(works', play')
  <2> SUFFICES ASSUME NEW w \in Works, w \notin works' PROVE play'[w] = "none"
    BY DEF Gone
  <2>1. w = s \/ (w # s /\ w # t /\ play[w] = "none")
    BY <1>1 DEF MergeInv, Gone
  <2>2. CASE play[s] = "none"
    BY <1>1, <2>1, <2>2 DEF MergeStates, Write
  <2>3. CASE play[s] # "none" /\ play[t] = "none"
    BY <1>1, <1>5, <2>1, <2>3 DEF MergeStates, Write
  <2>4. CASE play[s] # "none" /\ play[t] # "none"
    <3>1. play' = Folded(s, t)
      BY <1>1, <2>4 DEF MergeStates, Write, Rearrange
    <3>2. QED
      BY <1>1, <1>5, <2>1, <3>1 DEF Folded
  <2>5. QED
    BY <2>2, <2>3, <2>4
<1>7. Gone(kept.works', saved.play')
  BY <1>1 DEF MergeInv
<1>8. QED
  BY <1>1, <1>3, <1>4, <1>6, <1>7 DEF MergeInv

(* Undoing a merge keeps the invariant.                                    *)
LEMMA UndoStep ==
  ASSUME MergeInv, NEW i \in DOMAIN trail, NEW r \in Works, Undo(i, r)
  PROVE  MergeInv'
<1> DEFINE e == trail[i]
           rp == Repoint(trail, e.audits, e.work, r)
<1>1. /\ pass = "idle" /\ e.work \in works /\ r \in Works \ works
      /\ UnmergeStates(e, e.work, r) /\ saved' = saved /\ kept' = kept
      /\ works' = works \cup {r}
      /\ trail' = [rp EXCEPT ![i].undone = TRUE, ![i].restored = r]
  BY DEF Undo
<1>2. QueueInv /\ trail \in Seq(Rows) /\ works \in SUBSET Works
  BY DEF MergeInv
<1>3. e \in Rows /\ i \in 1..Len(trail)
  BY <1>2
<1>4. e.work \in Works /\ e.work # r /\ play[r] = "none"
  BY <1>1, <1>2 DEF MergeInv, Gone
<1>5. QueueInv'
  <2> HIDE DEF e
  <2>1. QED
    BY <1>1, <1>2, <1>3, <1>4, UnmergeStatesInv
<1>6. trail' \in Seq(Rows)
  <2>1. rp \in Seq(Rows) /\ Len(rp) = Len(trail)
    BY <1>2, RepointRows
  <2>2. ASSUME NEW f \in Rows
        PROVE  [f EXCEPT !.undone = TRUE, !.restored = r] \in Rows
    BY DEF Rows, Entries, EntryOK
  <2> HIDE DEF rp
  <2>3. rp \in [1..Len(trail) -> Rows]
    BY <2>1
  <2>4. [rp[i] EXCEPT !.undone = TRUE, !.restored = r] \in Rows
    BY <1>3, <2>2, <2>3
  <2>5. trail' = [rp EXCEPT ![i] = [rp[i] EXCEPT !.undone = TRUE, !.restored = r]]
    BY <1>1, <1>3, <2>3
  <2>6. trail' \in [1..Len(trail) -> Rows]
    BY <1>3, <2>3, <2>4, <2>5
  <2>7. QED
    BY <1>2, <2>6
<1>7. play \in [Works -> Play]
  BY <1>2 DEF QueueInv, QueueTypeOK
<1>8. Gone(works', play')
  <2> SUFFICES ASSUME NEW w \in Works, w \notin works' PROVE play'[w] = "none"
    BY DEF Gone
  <2>1. play[w] = "none" /\ w # r /\ w # e.work
    BY <1>1 DEF MergeInv, Gone
  <2> HIDE DEF e
  <2>2. play' = [play EXCEPT ![r] = play[e.work], ![e.work] = "none"]
        \/ play' = Unfolded(e, e.work, r) \/ play' = play
    BY <1>1 DEF UnmergeStates, Write, Rearrange
  <2>3. QED
    BY <1>7, <2>1, <2>2 DEF Unfolded
<1>9. Gone(kept.works', saved.play')
  BY <1>1 DEF MergeInv
<1>10. QED
  BY <1>1, <1>2, <1>5, <1>6, <1>8, <1>9 DEF MergeInv

-----------------------------------------------------------------------------
LEMMA MergeInitInv == MergeInit => MergeInv
<1> SUFFICES ASSUME MergeInit PROVE MergeInv
  OBVIOUS
<1>1. /\ play \in [Works -> Play] /\ place \in [Works -> 0..Cardinality(Works)]
      /\ Checked(play, place) /\ Dense(place) /\ pass = "idle" /\ left = {} /\ lift = 0
      /\ goal = NoPlace /\ placed = {} /\ saved = [play |-> play, place |-> place]
      /\ works = Works /\ trail = <<>> /\ kept = [works |-> works, trail |-> trail]
  BY DEF MergeInit, QueueInit
<1>2. saved.play = play /\ saved.place = place /\ kept.works = works /\ kept.trail = trail
  BY <1>1
<1>3. place \in [Works -> Nat]
  BY <1>1
<1>4. QueueTypeOK
  BY <1>1, <1>3 DEF QueueTypeOK, NoPlace
<1>5. QueueInv
  BY <1>1, <1>2, <1>4 DEF QueueInv
<1>6. QED
  BY <1>1, <1>2, <1>5 DEF MergeInv, Gone

(* A request, a work that arrives or a work that goes.                     *)
LEMMA EditStep ==
  ASSUME MergeInv,
         \/ \E w \in Works : Request(w) \/ NewWork(w)
         \/ \E W \in (SUBSET works) \ {{}} : Delete(W)
  PROVE  MergeInv'
<1>1. QueueInv /\ works \in SUBSET Works /\ play \in [Works -> Play]
  BY DEF MergeInv, QueueInv, QueueTypeOK
<1>2. CASE \E w \in Works : Request(w)
  <2>1. PICK w \in Works : Request(w)
    BY <1>2
  <2>2. w \in works /\ Update(w) /\ UNCHANGED <<works, trail, kept>> /\ saved' = saved
    BY <2>1 DEF Request, Update, Enqueue, Leave, Mark, Move
  <2>3. QueueInv'
    <3>1. Cardinality(Works) \in Nat
      BY FS_CardinalityType
    <3>2. QED
      BY <1>1, <2>2, <3>1, EnqueueInv, LeaveInv, MarkInv, MoveInv DEF Update
  <2>4. \A v \in Works : v # w => play'[v] = play[v]
    BY <1>1, <2>2 DEF Update, Enqueue, Leave, Mark, Move, Write, Rearrange
  <2>5. QED
    BY <2>2, <2>3, <2>4 DEF MergeInv, Gone
<1>3. CASE \E w \in Works : NewWork(w)
  <2>1. PICK w \in Works : NewWork(w)
    BY <1>3
  <2> DEFINE pl == [play EXCEPT ![w] = "not_started"]
  <2>2. /\ pass = "idle" /\ w \notin works /\ works' = works \cup {w}
        /\ Write(pl, place) /\ UNCHANGED <<trail, saved, kept>>
    BY <2>1 DEF NewWork
  <2>3. place \in Places /\ Dense(place) /\ Checked(play, place) /\ play[w] = "none"
    BY <1>1, <2>2, IdleDense DEF MergeInv, Gone
  <2>4. pl \in [Works -> Play] /\ Checked(pl, place)
    BY <1>1, <2>3 DEF Checked, Play
  <2>5. QueueInv'
    BY <1>1, <2>2, <2>3, <2>4, WriteInv
  <2>6. \A v \in Works : v # w => play'[v] = play[v]
    BY <1>1, <2>2 DEF Write
  <2>7. QED
    BY <2>2, <2>5, <2>6 DEF MergeInv, Gone
<1>4. CASE \E W \in (SUBSET works) \ {{}} : Delete(W)
  <2>1. PICK W \in SUBSET works : Delete(W)
    BY <1>4
  <2>2. W \in SUBSET Works /\ Drop(W) /\ works' = works \ W /\ UNCHANGED <<trail, kept>>
    BY <1>1, <2>1 DEF Delete
  <2>3. QueueInv'
    BY <1>1, <2>2, DropInv
  <2>4. /\ saved' = saved
        /\ play' = [w \in Works |-> IF w \in W THEN "none" ELSE play[w]]
    BY <2>2 DEF Drop, Write, Rearrange
  <2>5. QED
    BY <2>2, <2>3, <2>4 DEF MergeInv, Gone
<1>5. QED
  BY <1>2, <1>3, <1>4

(* One row of a renumbering, a commit or a rollback.                       *)
LEMMA WritingStep ==
  ASSUME MergeInv,
         (Renumber /\ UNCHANGED mergeVars) \/ CommitAll \/ RollbackAll
  PROVE  MergeInv'
<1>1. QueueInv
  BY DEF MergeInv
<1>2. CASE Renumber /\ UNCHANGED mergeVars
  <2>1. QueueInv'
    BY <1>1, <1>2, LiftRowInv, LiftedInv, NumberRowInv, NumberedInv DEF Renumber
  <2>2. UNCHANGED <<works, trail, kept, play, saved>>
    BY <1>2 DEF mergeVars, Renumber, LiftRow, Lifted, NumberRow, Numbered
  <2>3. QED
    BY <2>1, <2>2 DEF MergeInv, Gone
<1>3. CASE CommitAll
  <2>1. QueueInv'
    BY <1>1, <1>3, CommitInv DEF CommitAll
  <2>2. /\ kept'.works = works /\ kept'.trail = trail
        /\ saved'.play = play /\ UNCHANGED <<works, trail, play>>
    BY <1>3 DEF CommitAll, Commit
  <2>3. QED
    BY <2>1, <2>2 DEF MergeInv, Gone
<1>4. CASE RollbackAll
  <2>1. QueueInv'
    BY <1>1, <1>4, RollbackInv DEF RollbackAll
  <2>2. /\ works' = kept.works /\ trail' = kept.trail /\ play' = saved.play
        /\ kept' = kept /\ saved' = saved
    BY <1>4 DEF RollbackAll, Rollback
  <2>3. QED
    BY <2>1, <2>2 DEF MergeInv, Gone
<1>5. QED
  BY <1>2, <1>3, <1>4

LEMMA StutterStep == ASSUME MergeInv, UNCHANGED vars PROVE MergeInv'
<1>1. UNCHANGED <<play, place, pass, left, lift, goal, placed, saved, works, trail, kept>>
  BY DEF vars, queueVars, mergeVars
<1>2. QueueTypeOK'
  BY <1>1 DEF MergeInv, QueueInv, QueueTypeOK
<1>3. pass = "lift" => Lifting'
  BY <1>1 DEF MergeInv, QueueInv, Lifting, GoalOK, Base
<1>4. pass = "number" => Numbering'
  BY <1>1 DEF MergeInv, QueueInv, Numbering, GoalOK
<1>5. QueueInv'
  BY <1>1, <1>2, <1>3, <1>4 DEF MergeInv, QueueInv
<1>6. QED
  BY <1>1, <1>5 DEF MergeInv

LEMMA MergeInvStep == MergeInv /\ [MergeNext]_vars => MergeInv'
<1> SUFFICES ASSUME MergeInv, [MergeNext]_vars PROVE MergeInv'
  OBVIOUS
<1>1. CASE Matching
  BY <1>1, MergeStep, UndoStep DEF Matching
<1>2. CASE \E w \in Works : Request(w) \/ NewWork(w)
  BY <1>2, EditStep
<1>3. CASE \E W \in (SUBSET works) \ {{}} : Delete(W)
  BY <1>3, EditStep
<1>4. CASE (Renumber /\ UNCHANGED mergeVars) \/ CommitAll \/ RollbackAll
  BY <1>4, WritingStep
<1>5. CASE UNCHANGED vars
  BY <1>5, StutterStep
<1>6. QED
  BY <1>1, <1>2, <1>3, <1>4, <1>5 DEF MergeNext

(* The invariant holds in every reachable state, for any number of works.  *)
THEOREM MergeInvariant == MergeSpec => []MergeInv
<1>1. MergeInit => MergeInv
  BY MergeInitInv
<1>2. QED
  BY <1>1, MergeInvStep, PTL DEF MergeSpec

(* Renumbering the queue row by row, in whatever order the rows are        *)
(* written and wherever it is cut short, never gives two works one place,  *)
(* nor a place to a work that is not queued (ludarium/queue.py `_write`).  *)
THEOREM PlacesNeverCollide == MergeSpec => []NeverCollides
<1>1. MergeInv => NeverCollides
  BY QueueInvNeverCollides DEF MergeInv
<1>2. QED
  BY <1>1, MergeInvariant, PTL

(* Whatever requests, merges, undos and deletions come in whatever order,  *)
(* what is committed is a queue at 1..n (ludarium/queue.py).               *)
THEOREM CommittedQueueIsDense == MergeSpec => []CommittedDense
<1>1. MergeInv => CommittedDense
  BY DEF MergeInv, QueueInv, CommittedDense
<1>2. QED
  BY <1>1, MergeInvariant, PTL

(* A work that was merged away or deleted leaves no state or place for the *)
(* work that is given its id next (ludarium/merging.py `delete_works`).    *)
THEOREM GoneWorksLeaveNothing == MergeSpec => []GoneIsGone
<1>1. MergeInv => GoneIsGone
  BY DEF MergeInv, QueueInv, Gone, GoneIsGone, Checked
<1>2. QED
  BY <1>1, MergeInvariant, PTL

-----------------------------------------------------------------------------
(* The order of the works an operation was given no place for.             *)

(* The works of S come in the same order in both.                          *)
SameOrder(p, q, S) == \A v, w \in S : q[v] < q[w] <=> p[v] < p[w]

(* Closing the gaps keeps the order.                                       *)
LEMMA ClosedUpKeepsOrder ==
  ASSUME NEW p \in Places
  PROVE  SameOrder(p, ClosedUp(p), Queue(p))
<1> DEFINE c == ClosedUp(p)
<1> SUFFICES ASSUME NEW v \in Queue(p), NEW w \in Queue(p)
             PROVE  c[v] < c[w] <=> p[v] < p[w]
  BY DEF SameOrder
<1>1. /\ c[v] = Cardinality(Ahead(p, v)) + 1
      /\ c[w] = Cardinality(Ahead(p, w)) + 1
  BY DEF ClosedUp, Queue
<1>2. Cardinality(Ahead(p, v)) \in Nat /\ Cardinality(Ahead(p, w)) \in Nat
  BY QueueFinite DEF Ahead
<1>3. p[v] \in Nat /\ p[w] \in Nat
  BY DEF Queue, Places
<1>4. CASE p[v] < p[w]
  BY <1>1, <1>2, <1>4, FewerAhead
<1>5. CASE p[w] < p[v]
  <2>1. Cardinality(Ahead(p, w)) < Cardinality(Ahead(p, v))
    BY <1>5, FewerAhead
  <2>2. QED
    BY <1>1, <1>2, <1>3, <1>5, <2>1
<1>6. CASE p[v] = p[w]
  <2>1. Ahead(p, v) = Ahead(p, w)
    BY <1>6 DEF Ahead
  <2>2. QED
    BY <1>1, <1>2, <1>3, <1>6, <2>1
<1>7. QED
  BY <1>3, <1>4, <1>5, <1>6

(* A work put in between leaves the others in their order.                 *)
LEMMA InsertAtKeepsOrder ==
  ASSUME NEW p \in Places, NEW x \in Works, NEW k \in Nat
  PROVE  SameOrder(p, InsertAt(p, x, k), Works \ {x})
<1> DEFINE n == Cardinality(Queue(p)) + 1
           c == IF k > n THEN n ELSE k
<1>1. Cardinality(Queue(p)) \in Nat
  BY QueueFinite
<1>2. c \in Nat
  BY <1>1
<1>3. \A v \in Works \ {x} :
        InsertAt(p, x, k)[v] = IF p[v] >= c THEN p[v] + 1 ELSE p[v]
  BY DEF InsertAt
<1> HIDE DEF c
<1>4. SUFFICES ASSUME NEW v \in Works \ {x}, NEW w \in Works \ {x}
               PROVE  InsertAt(p, x, k)[v] < InsertAt(p, x, k)[w] <=> p[v] < p[w]
  BY DEF SameOrder
<1>5. p[v] \in Nat /\ p[w] \in Nat
  BY DEF Places
<1>6. QED
  BY <1>2, <1>3, <1>5

(* Where the open transaction puts the works.                              *)
Final == IF pass \in {"lift", "number"} THEN goal ELSE place

Shared(p, q) == (Queue(p) \cap Queue(q)) \ placed

(* The invariant behind the order of the others.                           *)
OrderInv ==
  /\ pass = "idle" => placed = {}
  /\ SameOrder(saved.place, Final, Shared(saved.place, Final))

(* What an operation has to show for it.                                   *)
Keeps(p, q, W) == SameOrder(p, q, (Queue(p) \cap Queue(q)) \ W)

LEMMA WriteOrder ==
  ASSUME QueueInv, pass = "idle", NEW pl, NEW pc, Write(pl, pc), saved' = saved,
         Keeps(place, pc, {})
  PROVE  OrderInv'
<1>1. pass' = "written" /\ place' = pc /\ placed' = {} /\ saved' = saved
  BY DEF Write
<1>2. saved.place = place
  BY DEF QueueInv
<1>3. Final' = pc
  BY <1>1 DEF Final
<1>4. SameOrder(place, pc, (Queue(place) \cap Queue(pc)) \ {})
  BY DEF Keeps
<1>5. QED
  BY <1>1, <1>2, <1>3, <1>4 DEF OrderInv, Shared, SameOrder, Queue

LEMMA RearrangeOrder ==
  ASSUME QueueInv, pass = "idle", NEW pl, NEW start, NEW final, NEW W,
         Rearrange(pl, start, final, W), saved' = saved,
         Keeps(place, final, W)
  PROVE  OrderInv'
<1>1. pass' = "lift" /\ goal' = final /\ placed' = W /\ saved' = saved
  BY DEF Rearrange
<1>2. saved.place = place
  BY DEF QueueInv
<1>3. Final' = final
  BY <1>1 DEF Final
<1>4. SameOrder(place, final, (Queue(place) \cap Queue(final)) \ W)
  BY DEF Keeps
<1>5. QED
  BY <1>1, <1>2, <1>3, <1>4 DEF OrderInv, Shared, SameOrder, Queue

(* A queue closed up after some of its works left.                         *)
LEMMA ClosedUpKeeps ==
  ASSUME NEW p \in Places, NEW q \in Places, NEW W,
         \A v \in Works : q[v] # 0 /\ p[v] # 0 /\ v \notin W => q[v] = p[v]
  PROVE  Keeps(p, ClosedUp(q), W)
<1>1. SameOrder(q, ClosedUp(q), Queue(q))
  BY ClosedUpKeepsOrder
<1>2. \A v \in Works : Cardinality(Ahead(q, v)) \in Nat
  BY QueueFinite DEF Ahead
<1>3. Queue(ClosedUp(q)) = Queue(q)
  BY <1>2 DEF ClosedUp, Queue
<1>4. \A v \in (Queue(p) \cap Queue(q)) \ W : v \in Queue(q) /\ q[v] = p[v]
  BY DEF Queue
<1>5. QED
  BY <1>1, <1>3, <1>4 DEF Keeps, SameOrder

(* And one that a placed work then enters.                                 *)
LEMMA InsertAtKeeps ==
  ASSUME NEW p \in Places, NEW q \in Places, NEW x \in Works, NEW k \in Nat \ {0}, NEW W,
         Keeps(p, q, W), x \in W
  PROVE  Keeps(p, InsertAt(q, x, k), W)
<1> DEFINE i == InsertAt(q, x, k)
           n == Cardinality(Queue(q)) + 1
           c == IF k > n THEN n ELSE k
<1>1. Cardinality(Queue(q)) \in Nat
  BY QueueFinite
<1>2. \A v \in Works \ {x} : i[v] = IF q[v] >= c THEN q[v] + 1 ELSE q[v]
  BY DEF InsertAt
<1>3. c \in Nat \ {0}
  BY <1>1
<1> HIDE DEF c
<1>4. \A v \in Works \ {x} : i[v] # 0 => q[v] # 0
  BY <1>2, <1>3 DEF Places
<1>5. SameOrder(q, i, Works \ {x})
  BY InsertAtKeepsOrder
<1> HIDE DEF i
<1>6. \A v \in (Queue(p) \cap Queue(i)) \ W :
         v \in Works \ {x} /\ v \in (Queue(p) \cap Queue(q)) \ W
  BY <1>4 DEF Queue
<1>7. QED
  BY <1>5, <1>6 DEF Keeps, SameOrder, i

(* The requests: what leaves, joins or is deleted moves no other.          *)
LEMMA RequestOrder ==
  ASSUME QueueInv, NEW w \in Works, Update(w), saved' = saved
  PROVE  OrderInv'
<1>1. pass = "idle"
  BY DEF Update, Enqueue, Leave, Mark, Move
<1>2. place \in Places /\ Distinct(place) /\ Checked(play, place)
  BY <1>1, IdleDense
<1>3. CASE Enqueue(w)
  <2> DEFINE q == [place EXCEPT ![w] = FreePosition(place)]
  <2>1. Write([play EXCEPT ![w] = "queued"], q) /\ place[w] = 0
    BY <1>2, <1>3 DEF Enqueue, Checked
  <2>2. \A v \in Works : place[v] # 0 => q[v] = place[v]
    BY <1>2, <2>1 DEF Places
  <2>3. Keeps(place, q, {})
    BY <2>2 DEF Keeps, SameOrder, Queue
  <2>4. QED
    BY <1>1, <2>1, <2>3, WriteOrder
<1>4. ASSUME NEW s \in {"not_started", "playing"}, Leave(w, s)
      PROVE  OrderInv'
  <2> DEFINE q == [place EXCEPT ![w] = 0]
  <2>1. Rearrange([play EXCEPT ![w] = s], q, ClosedUp(q), {})
    BY <1>4 DEF Leave
  <2>2. q \in Places /\ \A v \in Works : q[v] # 0 => q[v] = place[v]
    BY <1>2 DEF Places
  <2> HIDE DEF q
  <2>3. Keeps(place, ClosedUp(q), {})
    BY <1>2, <2>2, ClosedUpKeeps
  <2>4. QED
    BY <1>1, <2>1, <2>3, RearrangeOrder
<1>5. ASSUME NEW s \in {"not_started", "playing"}, Mark(w, s)
      PROVE  OrderInv'
  <2>1. Keeps(place, place, {})
    BY DEF Keeps, SameOrder
  <2>2. Write([play EXCEPT ![w] = s], place)
    BY <1>5 DEF Mark
  <2>3. QED
    BY <1>1, <2>1, <2>2, WriteOrder
<1>6. ASSUME NEW k \in 1..Cardinality(Works) + 1, Move(w, k)
      PROVE  OrderInv'
  <2> DEFINE q == Without(place, {w})
             rest == ClosedUp(q)
  <2>1. Rearrange(play, place, InsertAt(rest, w, k), {w})
    BY <1>6 DEF Move
  <2>2. q \in Places /\ Distinct(q) /\ \A v \in Works : q[v] = IF v = w THEN 0 ELSE place[v]
    BY <1>2, WithoutDistinct
  <2>3. k \in Nat \ {0}
    BY FS_CardinalityType
  <2> HIDE DEF q
  <2>4. rest \in Places /\ Keeps(place, rest, {w})
    BY <1>2, <2>2, ClosedUpKeeps, ClosedUpDense
  <2> HIDE DEF rest
  <2>5. Keeps(place, InsertAt(rest, w, k), {w})
    BY <1>2, <2>3, <2>4, InsertAtKeeps
  <2>6. QED
    BY <1>1, <2>1, <2>5, RearrangeOrder
<1>7. QED
  BY <1>3, <1>4, <1>5, <1>6 DEF Update

LEMMA DropOrder ==
  ASSUME QueueInv, NEW W, Drop(W)
  PROVE  OrderInv'
<1> DEFINE pl == [w \in Works |-> IF w \in W THEN "none" ELSE play[w]]
           q  == Without(place, W)
<1>1. pass = "idle" /\ saved' = saved
  BY DEF Drop
<1>2. place \in Places /\ Distinct(place)
  BY <1>1, IdleDense
<1>3. CASE Write(pl, place)
  <2>1. Keeps(place, place, {})
    BY DEF Keeps, SameOrder
  <2>2. QED
    BY <1>1, <1>3, <2>1, WriteOrder
<1>4. CASE Rearrange(pl, q, ClosedUp(q), {})
  <2>1. q \in Places /\ \A v \in Works : q[v] = IF v \in W THEN 0 ELSE place[v]
    BY <1>2, WithoutDistinct
  <2> HIDE DEF pl, q
  <2>2. Keeps(place, ClosedUp(q), {})
    BY <1>2, <2>1, ClosedUpKeeps
  <2>3. QED
    BY <1>1, <1>4, <2>2, RearrangeOrder
<1>5. QED
  BY <1>3, <1>4 DEF Drop

(* A merge: only the target is given a place.                              *)
LEMMA MergeOrder ==
  ASSUME QueueInv, pass = "idle", NEW s \in Works, NEW t \in Works, s # t,
         MergeStates(s, t), saved' = saved
  PROVE  OrderInv'
<1>1. place \in Places /\ Distinct(place) /\ Checked(play, place)
  BY IdleDense
<1>2. Keeps(place, place, {})
  BY DEF Keeps, SameOrder
<1>3. CASE play[s] = "none" \/ (play[t] # "none" /\ place[s] = 0)
  <2>1. \E pl : Write(pl, place)
    BY <1>1, <1>3 DEF MergeStates, Checked
  <2>2. QED
    BY <1>2, <2>1, WriteOrder
<1>4. CASE play[s] # "none" /\ play[t] = "none"
  <2> DEFINE q == [place EXCEPT ![s] = 0, ![t] = place[s]]
  <2>1. Write([play EXCEPT ![s] = "none", ![t] = play[s]], q) /\ place[t] = 0
    BY <1>1, <1>4 DEF MergeStates, Checked
  <2>2. \A v \in Works : place[v] # 0 /\ q[v] # 0 => q[v] = place[v]
    BY <1>1, <2>1 DEF Places
  <2>3. Keeps(place, q, {})
    BY <2>2 DEF Keeps, SameOrder, Queue
  <2>4. QED
    BY <2>1, <2>3, WriteOrder
<1>5. CASE play[s] # "none" /\ play[t] # "none" /\ place[s] # 0
  <2> DEFINE W == IF TakesPlace(s, t) THEN {t} ELSE {}
  <2>1. Rearrange(Folded(s, t), Freed(s, t), MergedOrder(s, t), W)
    BY <1>5 DEF MergeStates
  <2>2. Keeps(place, MergedOrder(s, t), W)
    <3>1. CASE TakesPlace(s, t)
      <4> DEFINE q == Without(place, {s, t})
                 rest == ClosedUp(q)
      <4>1. MergedOrder(s, t) = InsertAt(rest, t, place[s])
        BY <3>1 DEF MergedOrder
      <4>2. /\ q \in Places /\ Distinct(q)
            /\ \A v \in Works : q[v] = IF v \in {s, t} THEN 0 ELSE place[v]
        BY <1>1, WithoutDistinct
      <4>3. place[s] \in Nat \ {0} /\ W = {t}
        BY <1>1, <1>5, <3>1 DEF Places
      <4> HIDE DEF q, W
      <4>4. rest \in Places /\ Keeps(place, rest, W)
        BY <1>1, <4>2, ClosedUpKeeps, ClosedUpDense
      <4> HIDE DEF rest
      <4>5. QED
        BY <1>1, <4>1, <4>3, <4>4, InsertAtKeeps
    <3>2. CASE ~TakesPlace(s, t)
      <4>1. MergedOrder(s, t) = ClosedUp(Freed(s, t)) /\ W = {}
        BY <3>2 DEF MergedOrder
      <4>2. Freed(s, t) = [place EXCEPT ![s] = 0]
        BY <3>2 DEF Freed
      <4>3. Freed(s, t) \in Places /\ \A v \in Works : Freed(s, t)[v] # 0 => Freed(s, t)[v] = place[v]
        BY <1>1, <4>2 DEF Places
      <4> HIDE DEF W
      <4>4. QED
        BY <1>1, <4>1, <4>3, ClosedUpKeeps
    <3>3. QED
      BY <3>1, <3>2
  <2> HIDE DEF W
  <2>3. QED
    BY <2>1, <2>2, RearrangeOrder
<1>6. QED
  BY <1>3, <1>4, <1>5

(* An undo: only the restored work and a target that goes back are given   *)
(* places.                                                                 *)
LEMMA UndoOrder ==
  ASSUME QueueInv, pass = "idle", NEW e \in Rows,
         NEW t \in Works, NEW r \in Works, t # r, play[r] = "none",
         UnmergeStates(e, t, r), saved' = saved
  PROVE  OrderInv'
<1>1. /\ place \in Places /\ Distinct(place) /\ Checked(play, place)
      /\ place[r] = 0
  BY IdleDense DEF Checked
<1>2. CASE Write([play EXCEPT ![r] = play[t], ![t] = "none"],
                 [place EXCEPT ![r] = place[t], ![t] = 0])
  <2> DEFINE q == [place EXCEPT ![r] = place[t], ![t] = 0]
  <2>1. \A v \in Works : place[v] # 0 /\ q[v] # 0 => q[v] = place[v]
    BY <1>1 DEF Places
  <2>2. Keeps(place, q, {})
    BY <2>1 DEF Keeps, SameOrder, Queue
  <2>3. QED
    BY <1>2, <2>2, WriteOrder
<1>3. CASE Write(play, place)
  <2>1. Keeps(place, place, {})
    BY DEF Keeps, SameOrder
  <2>2. QED
    BY <1>3, <2>1, WriteOrder
<1>4. CASE e.merged /\ Rearrange(Unfolded(e, t, r), Parked(e, t, r),
                                 UndoneOrder(e, t, r), UndoPlaced(e, t, r))
  <2> DEFINE start == Parked(e, t, r)
             W == UndoPlaced(e, t, r)
             q == Without(start, W)
             rest == ClosedUp(q)
             back == PlaceBefore(e, t)
             go == GoesBack(e, t)
  <2>1. start \in Places /\ Distinct(start)
    BY <1>4, ParkedOK
  <2>2. \A v \in Works : place[v] # 0 /\ start[v] # 0 => start[v] = place[v]
    BY <1>1 DEF Parked, Places
  <2>3. /\ q \in Places /\ Distinct(q)
        /\ \A v \in Works : q[v] = IF v \in W THEN 0 ELSE start[v]
    BY <2>1, WithoutDistinct
  <2>4. /\ e.place \in Nat
        /\ go => back \in Nat \ {0}
    BY <1>1 DEF Rows, Entries, EntryOK, GoesBack, PlaceBefore, Places
  <2>5. (e.place # 0 => r \in W) /\ (go => t \in W)
    BY DEF UndoPlaced
  <2>6. UndoneOrder(e, t, r) =
          IF e.place = 0
          THEN IF go THEN InsertAt(rest, t, back) ELSE rest
          ELSE IF ~go
          THEN InsertAt(rest, r, e.place)
          ELSE IF e.place <= back
          THEN InsertAt(InsertAt(rest, r, e.place), t, back)
          ELSE InsertAt(InsertAt(rest, t, back), r, e.place)
    BY DEF UndoneOrder
  <2> HIDE DEF start, W, q, back, go
  <2>7. \A v \in Works : q[v] # 0 /\ place[v] # 0 /\ v \notin W => q[v] = place[v]
    BY <2>2, <2>3
  <2>8. rest \in Places /\ Dense(rest) /\ Keeps(place, rest, W) /\ Queue(rest) = Queue(q)
    BY <1>1, <2>3, <2>7, ClosedUpKeeps, ClosedUpDense
  <2>9. (e.place # 0 => rest[r] = 0) /\ (go => rest[t] = 0)
    BY <2>3, <2>5, <2>8 DEF Queue
  <2> HIDE DEF rest
  <2>10. go => /\ InsertAt(rest, t, back) \in Places
               /\ Queue(InsertAt(rest, t, back)) = Queue(rest) \cup {t}
               /\ Keeps(place, InsertAt(rest, t, back), W)
    BY <1>1, <2>4, <2>5, <2>8, <2>9, InsertAtDense, InsertAtKeeps
  <2>11. e.place # 0 => /\ InsertAt(rest, r, e.place) \in Places
                        /\ Keeps(place, InsertAt(rest, r, e.place), W)
    BY <1>1, <2>4, <2>5, <2>8, <2>9, InsertAtDense, InsertAtKeeps
  <2>12. go /\ e.place # 0 =>
           /\ Keeps(place, InsertAt(InsertAt(rest, r, e.place), t, back), W)
           /\ Keeps(place, InsertAt(InsertAt(rest, t, back), r, e.place), W)
    BY <1>1, <2>4, <2>5, <2>10, <2>11, InsertAtKeeps
  <2>13. Keeps(place, UndoneOrder(e, t, r), W)
    BY <2>6, <2>8, <2>10, <2>11, <2>12
  <2>14. QED
    BY <1>4, <2>13, RearrangeOrder DEF W
<1>5. QED
  BY <1>2, <1>3, <1>4 DEF UnmergeStates

(* The passes leave the final order alone, a commit makes it the order,    *)
(* and a rollback goes back to it.                                         *)
LEMMA WritingOrder ==
  ASSUME QueueInv, OrderInv, Renumber \/ Commit \/ Rollback
  PROVE  OrderInv'
<1>1. CASE \E w \in Works : LiftRow(w) \/ NumberRow(w)
  BY <1>1 DEF LiftRow, NumberRow, OrderInv, Final, Shared
<1>2. CASE Lifted
  BY <1>2 DEF Lifted, OrderInv, Final, Shared
<1>3. CASE Numbered
  <2>1. place = goal
    BY <1>3, NumberedPlaces
  <2>2. QED
    BY <1>3, <2>1 DEF Numbered, OrderInv, Final, Shared
<1>4. CASE Commit
  <2>1. /\ pass' = "idle" /\ placed' = {} /\ place' = place /\ saved.place' = place
    BY <1>4 DEF Commit
  <2>2. QED
    BY <2>1 DEF OrderInv, Final, SameOrder
<1>5. CASE Rollback
  <2>1. /\ pass' = "idle" /\ placed' = {} /\ place' = saved.place /\ saved' = saved
    BY <1>5 DEF Rollback
  <2>2. QED
    BY <2>1 DEF OrderInv, Final, SameOrder
<1>6. QED
  BY <1>1, <1>2, <1>3, <1>4, <1>5 DEF Renumber

LEMMA OrderStep ==
  ASSUME MergeInv, OrderInv, [MergeNext]_vars
  PROVE  OrderInv'
<1>1. QueueInv /\ works \in SUBSET Works /\ trail \in Seq(Rows)
  BY DEF MergeInv
<1>2. ASSUME NEW s \in works, NEW t \in works, Merge(s, t)
      PROVE  OrderInv'
  <2>1. /\ pass = "idle" /\ s \in Works /\ t \in Works /\ s # t
        /\ MergeStates(s, t) /\ saved' = saved
    BY <1>1, <1>2 DEF Merge
  <2>2. QED
    BY <1>1, <2>1, MergeOrder
<1>3. ASSUME NEW i \in DOMAIN trail, NEW r \in Works, Undo(i, r)
      PROVE  OrderInv'
  <2> DEFINE e == trail[i]
  <2>1. /\ pass = "idle" /\ e.work \in works /\ r \in Works \ works
        /\ UnmergeStates(e, e.work, r) /\ saved' = saved
    BY <1>3 DEF Undo
  <2>2. e \in Rows /\ play[r] = "none"
    BY <1>1, <2>1 DEF MergeInv, Gone
  <2> HIDE DEF e
  <2>3. QED
    BY <1>1, <2>1, <2>2, UndoOrder
<1>4. ASSUME NEW w \in Works, Request(w)
      PROVE  OrderInv'
  <2>1. Update(w) /\ saved' = saved
    BY <1>4 DEF Request, Update, Enqueue, Leave, Mark, Move
  <2>2. QED
    BY <1>1, <2>1, RequestOrder
<1>5. ASSUME NEW w \in Works, NewWork(w)
      PROVE  OrderInv'
  <2>1. Keeps(place, place, {})
    BY DEF Keeps, SameOrder
  <2>2. QED
    BY <1>1, <1>5, <2>1, WriteOrder DEF NewWork
<1>6. ASSUME NEW W \in SUBSET works, Delete(W)
      PROVE  OrderInv'
  BY <1>1, <1>6, DropOrder DEF Delete
<1>7. CASE Renumber \/ CommitAll \/ RollbackAll
  BY <1>1, <1>7, WritingOrder DEF CommitAll, RollbackAll
<1>8. CASE UNCHANGED vars
  BY <1>8 DEF vars, queueVars, OrderInv, Final, Shared
<1>9. QED
  BY <1>2, <1>3, <1>4, <1>5, <1>6, <1>7, <1>8 DEF MergeNext, Matching

(* Whatever a transaction does to the queue, the works it was given no     *)
(* place for stay in the order they were in (ludarium/queue.py `arrange`). *)
THEOREM OthersStayInOrder == MergeSpec => OthersKeepTheirOrder
<1> DEFINE Kept ==
      \A v, w \in (Queue(saved.place) \cap Queue(saved'.place)) \ placed :
        saved'.place[v] < saved'.place[w] <=> saved.place[v] < saved.place[w]
<1>1. MergeInit => OrderInv
  <2> SUFFICES ASSUME MergeInit PROVE OrderInv
    OBVIOUS
  <2>1. pass = "idle" /\ placed = {} /\ saved.place = place
    BY DEF MergeInit, QueueInit
  <2>2. QED
    BY <2>1 DEF OrderInv, Final, SameOrder
<1>2. MergeInv /\ OrderInv /\ [MergeNext]_vars => OrderInv'
  BY OrderStep
<1>3. MergeInv /\ OrderInv /\ [MergeNext]_vars => [Kept]_queueVars
  <2> SUFFICES ASSUME MergeInv, OrderInv, [MergeNext]_vars
               PROVE  [Kept]_queueVars
    OBVIOUS
  <2>1. CASE Commit
    <3>1. Final = place /\ saved'.place = place
      BY <2>1 DEF Commit, Final
    <3>2. Kept
      BY <3>1 DEF OrderInv, SameOrder, Shared
    <3>3. QED
      BY <3>2
  <2>2. CASE saved' = saved
    BY <2>2
  <2>3. Commit \/ saved' = saved
    BY DEF MergeNext, Matching, Merge, Undo, Request, Update, Enqueue, Leave, Mark, Move,
           NewWork, Delete, Drop, Renumber, LiftRow, Lifted, NumberRow, Numbered,
           CommitAll, RollbackAll, Rollback, vars, queueVars
  <2>4. QED
    BY <2>1, <2>2, <2>3
<1>4. QED
  BY <1>1, <1>2, <1>3, MergeInvariant, PTL DEF MergeSpec, OthersKeepTheirOrder

-----------------------------------------------------------------------------
(* What a merge and its undo do to the queue, place by place.              *)

(* A queue without gaps is closed up already.                              *)
LEMMA DenseIsClosed ==
  ASSUME NEW p \in Places, Dense(p)
  PROVE  ClosedUp(p) = p
<1>1. ASSUME NEW w \in Queue(p)
      PROVE  Cardinality(Ahead(p, w)) + 1 = p[w]
  <2> DEFINE A == Ahead(p, w)
             k == p[w] - 1
             f == [v \in A |-> p[v]]
  <2>1. w \in Works /\ p[w] \in 1..Cardinality(Queue(p)) /\ Cardinality(Queue(p)) \in Nat
    BY QueueFinite DEF Dense, Queue
  <2>2. IsFiniteSet(1..k) /\ Cardinality(1..k) = k /\ k \in Nat
    <3>1. k \in Nat
      BY <2>1
    <3> HIDE DEF k
    <3>2. QED
      BY <3>1, FS_Interval
  <2>3. f \in Injection(A, 1..k)
    BY <2>1 DEF Injection, IsInjective, Ahead, Dense, Queue, Places
  <2>4. f \in Surjection(A, 1..k)
    <3>1. ASSUME NEW j \in 1..k PROVE \E v \in A : f[v] = j
      <4>1. j \in 1..Cardinality(Queue(p)) /\ j < p[w]
        BY <2>1
      <4>2. PICK v \in Queue(p) : p[v] = j
        BY <4>1 DEF Dense
      <4>3. v \in A
        BY <4>1, <4>2 DEF Ahead
      <4>4. QED
        BY <4>2, <4>3
    <3>2. f \in [A -> 1..k]
      BY <2>3 DEF Injection
    <3> HIDE DEF f, A, k
    <3>3. QED
      BY <3>1, <3>2 DEF Surjection
  <2>5. IsFiniteSet(A)
    BY QueueFinite DEF Ahead
  <2> HIDE DEF f, A, k
  <2>6. Cardinality(1..k) = Cardinality(A)
    BY <2>3, <2>4, <2>5, FS_Surjection
  <2>7. QED
    BY <2>1, <2>2, <2>6 DEF A, k
<1>2. ClosedUp(p) = [w \in Works |-> p[w]]
  BY <1>1 DEF ClosedUp, Queue
<1>3. QED
  BY <1>2 DEF Places

(* Closing up is decided by the works and their order.                     *)
LEMMA ClosedUpIs ==
  ASSUME NEW p \in Places, NEW q \in Places, Dense(q),
         Queue(p) = Queue(q), SameOrder(p, q, Queue(q))
  PROVE  ClosedUp(p) = q
<1>1. \A w \in Queue(q) : Ahead(p, w) = Ahead(q, w)
  BY DEF Ahead, SameOrder
<1>2. \A w \in Works : p[w] = 0 <=> q[w] = 0
  BY DEF Queue
<1>3. ClosedUp(p) = ClosedUp(q)
  BY <1>1, <1>2 DEF ClosedUp, Queue
<1>4. QED
  BY <1>3, DenseIsClosed

(* The queue once w has left, and with the place of s handed to x.         *)
Removed(p, w) ==
  [v \in Works |-> IF v = w THEN 0
                   ELSE IF p[w] # 0 /\ p[v] > p[w] THEN p[v] - 1 ELSE p[v]]

Handed(p, s, x) ==
  [v \in Works |-> IF v = x THEN p[s] ELSE IF v = s THEN 0 ELSE p[v]]

LEMMA RemovedDense ==
  ASSUME NEW p \in Places, Dense(p), NEW w \in Works
  PROVE  /\ Removed(p, w) \in Places /\ Dense(Removed(p, w))
         /\ Queue(Removed(p, w)) = Queue(p) \ {w}
         /\ SameOrder(p, Removed(p, w), Queue(p) \ {w})
<1> DEFINE q == Removed(p, w)
           n == Cardinality(Queue(p))
<1>1. \A v \in Works : p[v] \in Nat
  BY DEF Places
<1>2. \A v \in Works : q[v] = IF v = w THEN 0
                              ELSE IF p[w] # 0 /\ p[v] > p[w] THEN p[v] - 1 ELSE p[v]
  BY DEF Removed
<1>3. q \in Places
  <2>1. \A v \in Works : q[v] \in Nat
    BY <1>1, <1>2
  <2>2. q = [v \in Works |-> q[v]]
    BY DEF Removed
  <2>3. QED
    BY <2>1, <2>2 DEF Places
<1> HIDE DEF q
<1>4. Queue(q) = Queue(p) \ {w}
  BY <1>1, <1>2 DEF Queue
<1>5. /\ n \in Nat /\ IsFiniteSet(Queue(p))
      /\ Cardinality(Queue(q)) = IF w \in Queue(p) THEN n - 1 ELSE n
  BY <1>4, QueueFinite, FS_RemoveElement
<1>6. /\ \A v \in Queue(p) : p[v] \in 1..n
      /\ \A u, v \in Queue(p) : p[u] = p[v] => u = v
  BY DEF Dense
<1>7. \A v \in Queue(q) : q[v] \in 1..Cardinality(Queue(q))
  <2> SUFFICES ASSUME NEW v \in Queue(p), v # w
               PROVE  q[v] \in 1..Cardinality(Queue(q))
    BY <1>4
  <2>1. v \in Works /\ p[v] \in 1..n
    BY <1>6 DEF Queue
  <2>2. CASE w \in Queue(p)
    <3>1. p[w] \in 1..n /\ p[w] # p[v] /\ p[w] # 0
      BY <1>6, <2>2
    <3>2. QED
      BY <1>2, <1>5, <2>1, <2>2, <3>1
  <2>3. CASE w \notin Queue(p)
    BY <1>2, <1>5, <2>1, <2>3 DEF Queue
  <2>4. QED
    BY <2>2, <2>3
<1>8. ASSUME NEW u \in Queue(p) \ {w}, NEW v \in Queue(p) \ {w}
      PROVE  q[u] < q[v] <=> p[u] < p[v]
  <2>1. u \in Works /\ v \in Works /\ p[u] \in 1..n /\ p[v] \in 1..n
    BY <1>6 DEF Queue
  <2>2. p[w] # 0 => p[u] # p[w] /\ p[v] # p[w]
    BY <1>6 DEF Queue
  <2>3. p[w] \in Nat /\ (u = v \/ p[u] # p[v])
    BY <1>1, <1>6
  <2>4. QED
    BY <1>2, <1>5, <2>1, <2>2, <2>3
<1>9. Distinct(q)
  <2> SUFFICES ASSUME NEW u \in Queue(p) \ {w}, NEW v \in Queue(p) \ {w}, q[u] = q[v]
               PROVE  u = v
    BY <1>4 DEF Distinct
  <2>1. ~(q[u] < q[v]) /\ ~(q[v] < q[u])
    BY <1>3 DEF Places, Queue
  <2>2. p[u] \in Nat /\ p[v] \in Nat /\ ~(p[u] < p[v]) /\ ~(p[v] < p[u])
    BY <1>1, <1>8, <2>1 DEF Queue
  <2>3. QED
    BY <1>6, <2>2
<1>10. Dense(q)
  BY <1>7, <1>9, DistinctIsDense
<1>11. QED
  BY <1>3, <1>4, <1>8, <1>10 DEF q, SameOrder

(* Closing up after works have left one queue, whatever else has moved.    *)
LEMMA ClosedUpIsRemoved ==
  ASSUME NEW p \in Places, Dense(p), NEW w \in Works, NEW q \in Places,
         Queue(q) = Queue(p) \ {w}, SameOrder(q, p, Queue(q))
  PROVE  ClosedUp(q) = Removed(p, w)
<1>1. /\ Removed(p, w) \in Places /\ Dense(Removed(p, w))
      /\ Queue(Removed(p, w)) = Queue(q)
      /\ SameOrder(p, Removed(p, w), Queue(q))
  BY RemovedDense
<1>2. SameOrder(q, Removed(p, w), Queue(q))
  BY <1>1 DEF SameOrder
<1>3. QED
  BY <1>1, <1>2, ClosedUpIs

(* A work put at the place another had takes that place, and every other   *)
(* work is where it was.                                                   *)
LEMMA InsertBack ==
  ASSUME NEW p \in Places, Dense(p), NEW s \in Queue(p), NEW x \in Works,
         x = s \/ p[x] = 0
  PROVE  /\ InsertAt(Removed(p, s), x, p[s]) = Handed(p, s, x)
         /\ Handed(p, s, x) \in Places /\ Dense(Handed(p, s, x))
         /\ Queue(Handed(p, s, x)) = (Queue(p) \ {s}) \cup {x}
<1> DEFINE q == Removed(p, s)
           m == Cardinality(Queue(q)) + 1
           c == IF p[s] > m THEN m ELSE p[s]
<1>1. q \in Places /\ Dense(q) /\ Queue(q) = Queue(p) \ {s}
  BY RemovedDense DEF Queue
<1>2. /\ s \in Works /\ IsFiniteSet(Queue(p)) /\ Cardinality(Queue(p)) \in Nat
      /\ p[s] \in 1..Cardinality(Queue(p))
  BY QueueFinite DEF Dense, Queue
<1>3. Cardinality(Queue(q)) = Cardinality(Queue(p)) - 1
  BY <1>1, <1>2, FS_RemoveElement
<1>4. c = p[s]
  BY <1>2, <1>3
<1>5. InsertAt(q, x, p[s]) =
        [v \in Works |-> IF v = x THEN c ELSE IF q[v] >= c THEN q[v] + 1 ELSE q[v]]
  BY DEF InsertAt
<1>6. ASSUME NEW v \in Works, v # x
      PROVE  (IF q[v] >= p[s] THEN q[v] + 1 ELSE q[v]) = IF v = s THEN 0 ELSE p[v]
  <2>1. p[v] \in Nat /\ p[s] \in Nat /\ p[s] # 0
    BY <1>2 DEF Places
  <2>2. v # s => p[v] # p[s]
    BY <2>1 DEF Dense, Queue
  <2>3. q[v] = IF v = s THEN 0 ELSE IF p[v] > p[s] THEN p[v] - 1 ELSE p[v]
    BY <2>1 DEF Removed
  <2> HIDE DEF q
  <2>4. QED
    BY <2>1, <2>2, <2>3
<1> HIDE DEF q, c
<1>7. InsertAt(q, x, p[s]) = Handed(p, s, x)
  BY <1>4, <1>5, <1>6 DEF Handed
<1>8. q[x] = 0 /\ p[s] \in Nat \ {0}
  BY <1>1, <1>2 DEF Queue
<1>9. QED
  BY <1>1, <1>7, <1>8, InsertAtDense DEF q

(* The order a merge asks for, in terms of the order there was.            *)
LEMMA MergedOrderIs ==
  ASSUME QueueInv, pass = "idle", NEW s \in Works, NEW t \in Works, s # t,
         place[s] # 0
  PROVE  MergedOrder(s, t) =
           IF ~TakesPlace(s, t) THEN Removed(place, s)
           ELSE IF place[t] = 0 THEN Handed(place, s, t)
           ELSE Handed(Removed(place, t), s, t)
<1> DEFINE q == Without(place, {s, t})
<1>1. place \in Places /\ Dense(place) /\ Distinct(place) /\ s \in Queue(place)
  BY IdleDense DEF Queue
<1>2. /\ q \in Places
      /\ Queue(q) = Queue(place) \ {s, t}
      /\ \A w \in Works : q[w] = IF w \in {s, t} THEN 0 ELSE place[w]
  BY <1>1, WithoutDistinct
<1>3. TakesPlace(s, t) => MergedOrder(s, t) = InsertAt(ClosedUp(q), t, place[s])
  BY DEF MergedOrder
<1> HIDE DEF q
<1>4. SameOrder(q, place, Queue(q))
  BY <1>2 DEF SameOrder, Queue
<1>5. CASE ~TakesPlace(s, t)
  <2> DEFINE f == [place EXCEPT ![s] = 0]
  <2>1. MergedOrder(s, t) = ClosedUp(f)
    BY <1>5 DEF MergedOrder, Freed
  <2>2. f \in Places /\ \A w \in Works : f[w] = IF w = s THEN 0 ELSE place[w]
    BY <1>1 DEF Places
  <2> HIDE DEF f
  <2>3. Queue(f) = Queue(place) \ {s}
    BY <2>2 DEF Queue
  <2>4. SameOrder(f, place, Queue(f))
    BY <2>2, <2>3 DEF SameOrder, Queue
  <2>5. QED
    BY <1>1, <1>5, <2>1, <2>2, <2>3, <2>4, ClosedUpIsRemoved
<1>6. CASE TakesPlace(s, t) /\ place[t] = 0
  <2>1. Queue(q) = Queue(place) \ {s}
    BY <1>2, <1>6 DEF Queue
  <2>2. ClosedUp(q) = Removed(place, s)
    BY <1>1, <1>2, <1>4, <2>1, ClosedUpIsRemoved
  <2>3. QED
    BY <1>1, <1>3, <1>6, <2>2, InsertBack
<1>7. CASE TakesPlace(s, t) /\ place[t] # 0
  <2> DEFINE R == Removed(place, t)
  <2>1. /\ R \in Places /\ Dense(R) /\ Queue(R) = Queue(place) \ {t}
        /\ SameOrder(place, R, Queue(place) \ {t})
    BY <1>1, RemovedDense
  <2>2. place[s] < place[t] /\ place[s] \in Nat /\ place[t] \in Nat
    BY <1>1, <1>7 DEF TakesPlace, Places
  <2>3. R[s] = place[s] /\ R[t] = 0
    BY <2>2 DEF Removed
  <2> HIDE DEF R
  <2>4. Queue(q) = Queue(R) \ {s} /\ s \in Queue(R)
    BY <1>1, <1>2, <2>1
  <2>5. SameOrder(q, R, Queue(q))
    BY <1>2, <1>4, <2>1 DEF SameOrder
  <2>6. ClosedUp(q) = Removed(R, s)
    BY <1>2, <2>1, <2>4, <2>5, ClosedUpIsRemoved
  <2>7. QED
    BY <1>3, <1>7, <2>1, <2>3, <2>4, <2>6, InsertBack DEF R
<1>8. QED
  BY <1>5, <1>6, <1>7

(* What a merge leaves behind: from P and L, the statuses and places there *)
(* were, it makes pl and M, and the row of the trail is e.                 *)
Reordered(e, L, M) ==
  LET s == e.source
      t == e.work
  IN \/ L[s] = 0 /\ "place" \notin DOMAIN e.before /\ M = L
     \/ L[s] # 0 /\ "place" \notin DOMAIN e.before /\ M = Removed(L, s)
     \/ L[s] # 0 /\ L[t] = 0 /\ M = Handed(L, s, t)
     \/ /\ L[s] # 0 /\ L[s] < L[t]
        /\ "place" \in DOMAIN e.before /\ e.before["place"] = L[t]
        /\ M = Handed(Removed(L, t), s, t)

Outcome(e, P, L, pl, M) ==
  LET s == e.source
      t == e.work
  IN /\ e.play = P[s] /\ e.place = L[s]
     /\ \/ P[s] = "none" /\ ~e.moved /\ ~e.merged /\ pl = P /\ M = L
        \/ /\ P[s] # "none" /\ P[t] = "none" /\ e.moved /\ ~e.merged
           /\ pl = [P EXCEPT ![s] = "none", ![t] = P[s]]
           /\ M = [L EXCEPT ![s] = 0, ![t] = L[s]]
        \/ /\ P[s] # "none" /\ P[t] # "none" /\ e.merged /\ ~e.moved
           /\ \A v \in Works \ {s, t} : pl[v] = P[v]
           /\ pl[t] # "none"
           /\ IF "play" \in DOMAIN e.before THEN e.before["play"] = P[t]
                                            ELSE pl[t] = P[t]
           /\ Reordered(e, L, M)

LEMMA MergeOutcome ==
  ASSUME QueueInv, pass = "idle", NEW s \in Works, NEW t \in Works, s # t,
         MergeStates(s, t)
  PROVE  Outcome(Recorded(s, t), play, place, play', Final')
<1> DEFINE e == Recorded(s, t)
<1>1. play \in [Works -> Play] /\ place \in Places /\ Checked(play, place)
  BY IdleDense
<1>2. /\ e.source = s /\ e.work = t /\ e.play = play[s] /\ e.place = place[s]
      /\ e.moved <=> play[s] # "none" /\ play[t] = "none"
      /\ e.merged <=> play[s] # "none" /\ play[t] # "none"
      /\ e.merged => e.before = Before(s, t)
  BY DEF Recorded
<1> HIDE DEF e
<1>3. CASE play[s] = "none"
  <2>1. play' = play /\ place' = place /\ pass' = "written"
    BY <1>3 DEF MergeStates, Write
  <2>2. QED
    BY <1>2, <1>3, <2>1 DEF Outcome, Final, e
<1>4. CASE play[s] # "none" /\ play[t] = "none"
  <2>1. /\ play' = [play EXCEPT ![s] = "none", ![t] = play[s]]
        /\ place' = [place EXCEPT ![s] = 0, ![t] = place[s]]
        /\ pass' = "written"
    BY <1>4 DEF MergeStates, Write
  <2>2. QED
    BY <1>2, <1>4, <2>1 DEF Outcome, Final, e
<1>5. CASE play[s] # "none" /\ play[t] # "none"
  <2>1. play' = Folded(s, t)
    BY <1>5 DEF MergeStates, Write, Rearrange
  <2>2. /\ \A v \in Works \ {s, t} : play'[v] = play[v]
        /\ play'[t] = Filled(s, t)
    BY <1>1, <2>1 DEF Folded
  <2>3. /\ "play" \in DOMAIN Before(s, t) <=> Filled(s, t) # play[t]
        /\ "place" \in DOMAIN Before(s, t) <=> TakesPlace(s, t)
        /\ "play" \in DOMAIN Before(s, t) => Before(s, t)["play"] = play[t]
        /\ "place" \in DOMAIN Before(s, t) => Before(s, t)["place"] = place[t]
    BY DEF Before
  <2>4. play'[t] # "none"
    BY <1>5, <2>2 DEF Filled
  <2>5. Reordered(e, place, Final')
    <3>1. CASE place[s] = 0
      <4>1. place' = place /\ pass' = "written" /\ ~TakesPlace(s, t)
        BY <1>5, <3>1 DEF MergeStates, Write, TakesPlace
      <4>2. QED
        BY <1>2, <1>5, <2>3, <3>1, <4>1 DEF Reordered, Final
    <3>2. CASE place[s] # 0
      <4>1. Final' = MergedOrder(s, t)
        BY <1>5, <3>2 DEF MergeStates, Rearrange, Final
      <4>2. place[t] # 0 /\ TakesPlace(s, t) => place[s] < place[t]
        BY DEF TakesPlace
      <4>3. QED
        BY <1>2, <1>5, <2>3, <3>2, <4>1, <4>2, MergedOrderIs DEF Reordered
    <3>3. QED
      BY <3>1, <3>2
  <2>6. QED
    BY <1>2, <1>5, <2>2, <2>3, <2>4, <2>5 DEF Outcome, e
<1>6. QED
  BY <1>3, <1>4, <1>5

(* The order an undo asks for right after the merge: the restored work is  *)
(* at the source's place, and every other where it was.                    *)
LEMMA UndoneOrderIs ==
  ASSUME NEW P \in [Works -> Play], NEW L \in Places, Checked(P, L), Dense(L),
         place \in Places, Dense(place),
         NEW e, NEW s \in Works, NEW t \in Works, s # t,
         e.source = s, e.work = t, e.merged, Outcome(e, P, L, play, place),
         NEW r \in Works, r # t, r = s \/ L[r] = 0, place[r] = 0
  PROVE  /\ UndoneOrder(e, t, r) = Handed(L, s, r)
         /\ PlayBefore(e, t) = P[t] /\ play[t] # "none"
<1> DEFINE go == GoesBack(e, t)
           pk == Parked(e, t, r)
           U  == UndoPlaced(e, t, r)
           q  == Without(pk, U)
           rest == ClosedUp(q)
           back == PlaceBefore(e, t)
<1>1. /\ e.place = L[s] /\ play[t] # "none" /\ PlayBefore(e, t) = P[t]
      /\ Reordered(e, L, place)
  BY DEF Outcome, PlayBefore
<1>2. L[s] \in Nat /\ L[t] \in Nat /\ (L[t] # 0 <=> P[t] = "queued")
  BY DEF Places, Checked
<1>3. go <=> P[t] = "queued" /\ back \notin {0, place[t]}
  BY <1>1 DEF GoesBack
<1>4. UndoneOrder(e, t, r) =
        IF L[s] = 0
        THEN IF go THEN InsertAt(rest, t, back) ELSE rest
        ELSE IF ~go
        THEN InsertAt(rest, r, L[s])
        ELSE IF L[s] <= back
        THEN InsertAt(InsertAt(rest, r, L[s]), t, back)
        ELSE InsertAt(InsertAt(rest, t, back), r, L[s])
  BY <1>1 DEF UndoneOrder
<1>5. /\ q = [v \in Works |-> q[v]]
      /\ \A v \in Works : q[v] = IF v = r THEN 0
                                 ELSE IF v = t /\ (go \/ P[t] # "queued") THEN 0
                                 ELSE place[v]
  <2>1. \A v \in Works : q[v] = IF v \in U THEN 0 ELSE pk[v]
    BY DEF Without
  <2>2. \A v \in Works :
          pk[v] = IF v = t THEN (IF P[t] # "queued" THEN 0 ELSE place[t])
                  ELSE IF v = r THEN (IF L[s] = 0 THEN 0 ELSE FreePosition(place))
                  ELSE place[v]
    BY <1>1 DEF Parked, Places
  <2>3. U = (IF L[s] # 0 THEN {r} ELSE {}) \cup (IF go THEN {t} ELSE {})
    BY <1>1 DEF UndoPlaced
  <2>4. q = [v \in Works |-> q[v]]
    BY DEF Without
  <2> HIDE DEF q, pk, U, go
  <2>5. QED
    BY <2>1, <2>2, <2>3, <2>4
<1>6. q \in Places
  <2> HIDE DEF q, go
  <2>1. \A v \in Works : q[v] \in Nat
    BY <1>5 DEF Places
  <2>2. QED
    BY <1>5, <2>1 DEF Places
<1>7. "place" \notin DOMAIN e.before => back = place[t]
  BY DEF PlaceBefore
<1> HIDE DEF q, go, back
<1>8. CASE L[s] = 0
  <2>1. place = L /\ ~go
    BY <1>1, <1>3, <1>7, <1>8 DEF Reordered
  <2>2. \A v \in Works : q[v] = L[v]
    BY <1>2, <1>5, <1>8, <2>1
  <2>3. q = L
    BY <1>6, <2>2 DEF Places
  <2>4. Handed(L, s, r) = L
    <3>1. \A v \in Works : L[v] = IF v = r THEN L[s] ELSE IF v = s THEN 0 ELSE L[v]
      BY <1>8
    <3>2. L = [v \in Works |-> L[v]]
      BY DEF Places
    <3>3. QED
      BY <3>1, <3>2 DEF Handed
  <2>5. QED
    BY <1>1, <1>4, <1>8, <2>1, <2>3, <2>4, DenseIsClosed
<1>9. CASE L[s] # 0 /\ place = Removed(L, s) /\ "place" \notin DOMAIN e.before
  <2>1. ~go
    BY <1>3, <1>7, <1>9
  <2>2. P[t] # "queued" => place[t] = 0
    BY <1>2, <1>9 DEF Removed
  <2>3. \A v \in Works : q[v] = place[v]
    BY <1>5, <2>1, <2>2
  <2>4. q = place
    BY <1>6, <2>3 DEF Places
  <2>5. rest = Removed(L, s)
    BY <1>9, <2>4, DenseIsClosed
  <2>6. s \in Queue(L)
    BY <1>9 DEF Queue
  <2>7. QED
    BY <1>1, <1>4, <1>9, <2>1, <2>5, <2>6, InsertBack
<1>10. CASE L[s] # 0 /\ L[t] = 0 /\ place = Handed(L, s, t)
  <2>1. ~go /\ s \in Queue(L) /\ P[t] # "queued"
    BY <1>2, <1>3, <1>10 DEF Queue
  <2>2. \A v \in Works : q[v] = IF v = s THEN 0 ELSE L[v]
    BY <1>5, <1>10, <2>1 DEF Handed
  <2>3. Queue(q) = Queue(L) \ {s}
    BY <2>2 DEF Queue
  <2>4. SameOrder(q, L, Queue(q))
    BY <2>2, <2>3 DEF SameOrder, Queue
  <2>5. rest = Removed(L, s)
    BY <1>6, <2>3, <2>4, ClosedUpIsRemoved
  <2>6. QED
    BY <1>1, <1>4, <1>10, <2>1, <2>5, InsertBack
<1>11. CASE /\ L[s] # 0 /\ L[s] < L[t]
            /\ "place" \in DOMAIN e.before /\ e.before["place"] = L[t]
            /\ place = Handed(Removed(L, t), s, t)
  <2> DEFINE R == Removed(L, t)
             H == Handed(R, s, r)
             K == Handed(L, s, r)
  <2>1. s \in Queue(L) /\ t \in Queue(L) /\ L[t] # 0
    BY <1>2, <1>11 DEF Queue
  <2>2. R \in Places /\ Dense(R) /\ Queue(R) = Queue(L) \ {t}
    BY RemovedDense
  <2>3. /\ R[s] = L[s] /\ R[t] = 0 /\ s \in Queue(R)
        /\ r = s \/ R[r] = 0
    BY <1>2, <1>11, <2>1, <2>2 DEF Removed, Queue
  <2>4. back = L[t] /\ go
    <3>1. place[t] = L[s]
      BY <1>11, <2>3 DEF Handed
    <3>2. back = L[t]
      BY <1>11 DEF back, PlaceBefore
    <3>3. QED
      BY <1>2, <1>3, <1>11, <2>1, <3>1, <3>2
  <2> HIDE DEF R
  <2>5. \A v \in Works : q[v] = IF v = s THEN 0 ELSE R[v]
    <3>1. \A v \in Works : place[v] = IF v = t THEN R[s] ELSE IF v = s THEN 0 ELSE R[v]
      BY <1>11 DEF Handed, R
    <3>2. QED
      BY <1>5, <2>3, <2>4, <3>1
  <2>6. Queue(q) = Queue(R) \ {s}
    BY <2>5 DEF Queue
  <2>7. SameOrder(q, R, Queue(q))
    BY <2>5, <2>6 DEF SameOrder, Queue
  <2>8. rest = Removed(R, s)
    BY <1>6, <2>2, <2>6, <2>7, ClosedUpIsRemoved
  <2>9. InsertAt(rest, r, L[s]) = H
    BY <2>2, <2>3, <2>8, InsertBack
  <2>10. K \in Places /\ Dense(K) /\ t \in Queue(K) /\ K[t] = L[t]
    <3>1. K \in Places /\ Dense(K)
      BY <2>1, InsertBack
    <3>2. K[t] = L[t]
      BY DEF Handed
    <3>3. QED
      BY <2>1, <3>1, <3>2 DEF Queue
  <2>11. Removed(K, t) = H
    <3>1. ASSUME NEW v \in Works
          PROVE  (IF v = t THEN 0
                  ELSE IF K[t] # 0 /\ K[v] > K[t] THEN K[v] - 1 ELSE K[v])
                 = IF v = r THEN R[s] ELSE IF v = s THEN 0 ELSE R[v]
      <4>1. K[v] = IF v = r THEN L[s] ELSE IF v = s THEN 0 ELSE L[v]
        BY DEF Handed
      <4>2. R[v] = IF v = t THEN 0
                   ELSE IF L[t] # 0 /\ L[v] > L[t] THEN L[v] - 1 ELSE L[v]
        BY DEF R, Removed
      <4>3. L[v] \in Nat
        BY DEF Places
      <4> HIDE DEF K
      <4>4. QED
        BY <1>2, <1>11, <2>1, <2>3, <2>10, <4>1, <4>2, <4>3
    <3> HIDE DEF K
    <3>2. QED
      BY <3>1 DEF Removed, Handed
  <2>12. Handed(K, t, t) = K
    <3>1. K = [v \in Works |-> K[v]]
      BY DEF Handed
    <3>2. Handed(K, t, t) = [v \in Works |-> K[v]]
      <4>1. \A v \in Works : (IF v = t THEN K[t] ELSE IF v = t THEN 0 ELSE K[v]) = K[v]
        OBVIOUS
      <4> HIDE DEF K
      <4>2. QED
        BY <4>1 DEF Handed
    <3>3. QED
      BY <3>1, <3>2
  <2> HIDE DEF H, K
  <2>13. InsertAt(H, t, L[t]) = K
    BY <2>10, <2>11, <2>12, InsertBack
  <2>14. L[s] <= back
    BY <1>2, <1>11, <2>4
  <2>15. UndoneOrder(e, t, r) = K
    BY <1>4, <1>11, <2>4, <2>9, <2>13, <2>14
  <2>16. QED
    BY <1>1, <2>15 DEF K
<1>12. QED
  BY <1>1, <1>8, <1>9, <1>10, <1>11 DEF Reordered

(* The invariant: what the open transaction has merged, it has merged from *)
(* what is committed.                                                      *)
JustMerged(e) ==
  /\ e.source \in kept.works /\ e.work \in kept.works /\ e.source # e.work
  /\ works = kept.works \ {e.source}
  /\ Outcome(e, saved.play, saved.place, play, Final)

UndoInv ==
  /\ Len(trail) \in {Len(kept.trail), Len(kept.trail) + 1}
  /\ pass = "idle" => trail = kept.trail /\ works = kept.works
  /\ pass # "idle" /\ Len(trail) = Len(kept.trail) + 1 => JustMerged(trail[Len(trail)])

(* The invariant gives the property.                                       *)
LEMMA UndoInvSuffices == MergeInv /\ UndoInv => UndoPutsBothBack
<1> DEFINE e == trail[Len(trail)]
           s == e.source
           t == e.work
           P == saved.play
           L == saved.place
           Back(r) == IF e.merged THEN UndoneOrder(e, t, r)
                      ELSE IF e.moved THEN [place EXCEPT ![r] = place[t], ![t] = 0]
                      ELSE place
           Again(r) == IF e.merged THEN Unfolded(e, t, r)
                       ELSE IF e.moved THEN [play EXCEPT ![r] = play[t], ![t] = "none"]
                       ELSE play
<1> SUFFICES ASSUME MergeInv, UndoInv, pass = "written", Len(trail) = Len(kept.trail) + 1,
                    NEW r \in Works \ works
             PROVE  /\ \A w \in works : Back(r)[w] = L[w] /\ Again(r)[w] = P[w]
                    /\ Back(r)[r] = L[s]
                    /\ Again(r)[r] = P[s]
  BY DEF UndoPutsBothBack
<1> HIDE DEF e
<1>1. /\ s \in kept.works /\ t \in kept.works /\ s # t /\ works = kept.works \ {s}
      /\ Outcome(e, P, L, play, place)
  BY DEF UndoInv, JustMerged, Final, e
<1>2. /\ P \in [Works -> Play] /\ L \in Places /\ Checked(P, L) /\ Dense(L)
      /\ play \in [Works -> Play] /\ place \in Places /\ Dense(place)
      /\ Checked(play, place)
  BY DEF MergeInv, QueueInv, QueueTypeOK, Places
<1>3. works \in SUBSET Works /\ kept.works \in SUBSET Works
  BY DEF MergeInv
<1>4. s \in Works /\ t \in works /\ t \in Works /\ r # t /\ r \in Works
  BY <1>1, <1>3
<1>5. play[r] = "none" /\ place[r] = 0
  BY <1>2 DEF MergeInv, Gone, Checked
<1>6. r = s \/ (P[r] = "none" /\ L[r] = 0)
  BY <1>1, <1>2 DEF MergeInv, Gone, Checked
<1> HIDE DEF P, L
<1>7. CASE ~e.merged /\ ~e.moved
  <2>1. play = P /\ place = L /\ P[s] = "none" /\ L[s] = 0
    BY <1>1, <1>2, <1>4, <1>7 DEF Outcome, Checked
  <2>2. QED
    BY <1>5, <1>7, <2>1
<1>8. CASE ~e.merged /\ e.moved
  <2>1. /\ P[t] = "none" /\ L[t] = 0
        /\ play = [P EXCEPT ![s] = "none", ![t] = P[s]]
        /\ place = [L EXCEPT ![s] = 0, ![t] = L[s]]
    BY <1>1, <1>2, <1>4, <1>8 DEF Outcome, Checked
  <2>2. /\ Back(r) = [place EXCEPT ![r] = place[t], ![t] = 0]
        /\ Again(r) = [play EXCEPT ![r] = play[t], ![t] = "none"]
    BY <1>8
  <2>3. \A v \in Works : /\ place[v] = IF v = t THEN L[s] ELSE IF v = s THEN 0 ELSE L[v]
                         /\ play[v] = IF v = t THEN P[s] ELSE IF v = s THEN "none" ELSE P[v]
    BY <1>1, <1>2, <1>4, <2>1 DEF Places
  <2>4. \A v \in Works :
          /\ Back(r)[v] = IF v = t THEN 0 ELSE IF v = r THEN place[t] ELSE place[v]
          /\ Again(r)[v] = IF v = t THEN "none" ELSE IF v = r THEN play[t] ELSE play[v]
    BY <1>2, <1>4, <2>2 DEF Places
  <2> HIDE DEF Back, Again, s, t
  <2>5. ASSUME NEW w \in works PROVE Back(r)[w] = L[w] /\ Again(r)[w] = P[w]
    <3>1. w \in Works /\ w # s /\ w # r
      BY <1>1, <1>3
    <3>2. QED
      BY <2>1, <2>3, <2>4, <3>1
  <2>6. Back(r)[r] = L[s] /\ Again(r)[r] = P[s]
    BY <1>4, <2>3, <2>4
  <2>7. QED
    BY <2>5, <2>6
<1>9. CASE e.merged
  <2>1. /\ UndoneOrder(e, t, r) = Handed(L, s, r)
        /\ PlayBefore(e, t) = P[t] /\ play[t] # "none"
    BY <1>1, <1>2, <1>4, <1>5, <1>6, <1>9, UndoneOrderIs
  <2>2. /\ e.play = P[s]
        /\ \A v \in Works \ {s, t} : play[v] = P[v]
    BY <1>1, <1>9 DEF Outcome
  <2>3. \A v \in Works :
          /\ Back(r)[v] = IF v = r THEN L[s] ELSE IF v = s THEN 0 ELSE L[v]
          /\ Again(r)[v] = IF v = t THEN P[t] ELSE IF v = r THEN P[s] ELSE play[v]
    BY <1>2, <1>4, <1>9, <2>1, <2>2 DEF Handed, Unfolded
  <2> HIDE DEF Back, Again
  <2>4. QED
    BY <1>1, <1>3, <1>4, <2>2, <2>3
<1>10. QED
  BY <1>7, <1>8, <1>9

(* A merge is the only operation that adds a row to the trail.             *)
LEMMA MergeUndoInv ==
  ASSUME MergeInv, UndoInv, NEW s \in works, NEW t \in works, Merge(s, t)
  PROVE  UndoInv'
<1>1. /\ pass = "idle" /\ s \in Works /\ t \in Works /\ s # t
      /\ MergeStates(s, t) /\ saved' = saved /\ kept' = kept /\ works' = works \ {s}
      /\ trail' = Append(Repoint(trail, DOMAIN trail, s, t), Recorded(s, t))
  BY DEF Merge, MergeInv
<1>2. QueueInv /\ trail \in Seq(Rows) /\ trail = kept.trail /\ works = kept.works
  BY <1>1 DEF MergeInv, UndoInv
<1> DEFINE rp == Repoint(trail, DOMAIN trail, s, t)
<1>3. rp \in Seq(Rows) /\ Len(rp) = Len(trail) /\ Recorded(s, t) \in Rows
  BY <1>1, <1>2, RepointRows, RecordedRow
<1> HIDE DEF rp
<1>4. Len(trail') = Len(trail) + 1 /\ trail'[Len(trail')] = Recorded(s, t)
  BY <1>1, <1>3 DEF rp
<1>5. pass' # "idle"
  BY <1>1 DEF MergeStates, Write, Rearrange
<1>6. saved.play = play /\ saved.place = place
  BY <1>1, <1>2 DEF QueueInv
<1>7. Outcome(Recorded(s, t), play, place, play', Final')
  BY <1>1, <1>2, MergeOutcome
<1>8. Recorded(s, t).source = s /\ Recorded(s, t).work = t
  BY DEF Recorded
<1>9. /\ trail'[Len(trail')].source = s /\ trail'[Len(trail')].work = t
      /\ Outcome(trail'[Len(trail')], saved'.play, saved'.place, play', Final')
  BY <1>1, <1>4, <1>6, <1>7, <1>8
<1>10. JustMerged(trail[Len(trail)])'
  BY <1>1, <1>2, <1>9 DEF JustMerged
<1>11. QED
  BY <1>1, <1>2, <1>4, <1>5, <1>10 DEF UndoInv

(* Every other operation leaves the trail as long as it is committed.      *)
LEMMA OtherUndoInv ==
  ASSUME UndoInv, pass = "idle", pass' # "idle", kept' = kept, Len(trail') = Len(trail)
  PROVE  UndoInv'
<1>1. Len(trail') = Len(kept.trail)
  BY DEF UndoInv
<1>2. Len(trail') # Len(kept.trail) + 1
  BY <1>1
<1>3. QED
  BY <1>1, <1>2 DEF UndoInv

(* The passes leave where the transaction goes alone.                      *)
LEMMA WritingUndoInv ==
  ASSUME MergeInv, UndoInv, Renumber /\ UNCHANGED mergeVars
  PROVE  UndoInv'
<1>1. /\ pass # "idle" /\ pass' # "idle" /\ play' = play /\ saved' = saved
      /\ UNCHANGED <<works, trail, kept>>
  BY DEF mergeVars, Renumber, LiftRow, Lifted, NumberRow, Numbered
<1>2. Final' = Final
  <2>1. CASE \E w \in Works : LiftRow(w) \/ NumberRow(w)
    BY <2>1 DEF LiftRow, NumberRow, Final
  <2>2. CASE Lifted
    BY <2>2 DEF Lifted, Final
  <2>3. CASE Numbered
    <3>1. place = goal
      BY <2>3, NumberedPlaces DEF MergeInv
    <3>2. QED
      BY <2>3, <3>1 DEF Numbered, Final
  <2>4. QED
    BY <2>1, <2>2, <2>3 DEF Renumber
<1>3. QED
  BY <1>1, <1>2 DEF UndoInv, JustMerged

LEMMA UndoInvStep ==
  ASSUME MergeInv, UndoInv, [MergeNext]_vars
  PROVE  UndoInv'
<1>1. QueueInv /\ works \in SUBSET Works /\ trail \in Seq(Rows)
  BY DEF MergeInv
<1>2. ASSUME NEW s \in works, NEW t \in works, Merge(s, t)
      PROVE  UndoInv'
  BY <1>2, MergeUndoInv
<1>3. ASSUME NEW i \in DOMAIN trail, NEW r \in Works, Undo(i, r)
      PROVE  UndoInv'
  <2> DEFINE rp == Repoint(trail, trail[i].audits, trail[i].work, r)
  <2>1. /\ pass = "idle" /\ pass' # "idle" /\ kept' = kept
        /\ trail' = [rp EXCEPT ![i].undone = TRUE, ![i].restored = r]
    BY <1>3 DEF Undo, UnmergeStates, Write, Rearrange
  <2>2. rp \in Seq(Rows) /\ Len(rp) = Len(trail)
    BY <1>1, RepointRows
  <2> HIDE DEF rp
  <2>3. DOMAIN trail' = 1..Len(trail) /\ Len(trail) \in Nat
    BY <1>1, <2>1, <2>2
  <2>4. trail' \in Seq(Rows)
    BY <1>3, UndoStep DEF MergeInv
  <2>5. Len(trail') = Len(trail)
    BY <2>3, <2>4
  <2>6. QED
    BY <2>1, <2>5, OtherUndoInv
<1>4. ASSUME NEW w \in Works, Request(w) \/ NewWork(w)
      PROVE  UndoInv'
  <2>1. pass = "idle" /\ pass' # "idle" /\ kept' = kept /\ trail' = trail
    BY <1>4 DEF Request, Update, Enqueue, Leave, Mark, Move, NewWork, Write, Rearrange
  <2>2. QED
    BY <2>1, OtherUndoInv
<1>5. ASSUME NEW W \in SUBSET works, Delete(W)
      PROVE  UndoInv'
  <2>1. pass = "idle" /\ pass' # "idle" /\ kept' = kept /\ trail' = trail
    BY <1>5 DEF Delete, Drop, Write, Rearrange
  <2>2. QED
    BY <2>1, OtherUndoInv
<1>6. CASE Renumber /\ UNCHANGED mergeVars
  BY <1>6, WritingUndoInv
<1>7. CASE CommitAll
  <2>1. pass' = "idle" /\ kept'.works = works' /\ kept'.trail = trail'
    BY <1>7 DEF CommitAll, Commit
  <2>2. QED
    BY <2>1 DEF UndoInv
<1>8. CASE RollbackAll
  <2>1. pass' = "idle" /\ works' = kept.works /\ trail' = kept.trail /\ kept' = kept
    BY <1>8 DEF RollbackAll, Rollback
  <2>2. QED
    BY <2>1 DEF UndoInv
<1>9. CASE UNCHANGED vars
  BY <1>9 DEF vars, queueVars, mergeVars, UndoInv, JustMerged, Final
<1>10. QED
  BY <1>2, <1>3, <1>4, <1>5, <1>6, <1>7, <1>8, <1>9 DEF MergeNext, Matching

(* Undoing a merge with nothing done in between puts the statuses and the  *)
(* whole queue back, whatever id the source comes back under               *)
(* (ludarium/merging.py `_unmerge_states`, ADR-0033).                      *)
THEOREM UndoPutsBack == MergeSpec => []UndoPutsBothBack
<1>1. MergeInit => UndoInv
  <2> SUFFICES ASSUME MergeInit PROVE UndoInv
    OBVIOUS
  <2>1. /\ pass = "idle" /\ trail = <<>> /\ kept.trail = trail /\ kept.works = works
    BY DEF MergeInit, QueueInit
  <2>2. QED
    BY <2>1 DEF UndoInv
<1>2. MergeInv /\ UndoInv /\ [MergeNext]_vars => UndoInv'
  BY UndoInvStep
<1>3. QED
  BY <1>1, <1>2, MergeInvariant, UndoInvSuffices, PTL DEF MergeSpec

-----------------------------------------------------------------------------
(* Which works have a row of state, when nothing but merges and undos has  *)
(* happened and every source has come back under the id it had.            *)

(* The rows of a trail that are not undone; those that were folded into w  *)
(* directly, and those that went along when k folded their work away.      *)
Live(tr) == {i \in DOMAIN tr : ~tr[i].undone}

Direct(tr, w) ==
  {i \in Live(tr) : tr[i].work = w /\ \A j \in Live(tr) : i \notin tr[j].audits}

Under(tr, k) ==
  {i \in Live(tr) : /\ i \in tr[k].audits
                    /\ \A j \in Live(tr) : i \in tr[j].audits => j \notin tr[k].audits}

(* A work had a row among the first, or one of S gave it its own.          *)
Owed(F, tr, S, w) == w \in F \/ \E i \in S : tr[i].moved

OneMover(F, tr, S, w) ==
  /\ w \in F => \A i \in S : ~tr[i].moved
  /\ \A i, j \in S : tr[i].moved /\ tr[j].moved => i = j

(* The works there are, and what their merges say of each other: a merge   *)
(* that folded another's target away took along all that the other had.    *)
Forest(ws, tr) ==
  /\ ws = Works \ {tr[i].source : i \in Live(tr)}
  /\ \A i, j \in Live(tr) : tr[i].source = tr[j].source => i = j
  /\ \A i \in DOMAIN tr : tr[i].work \in ws /\ tr[i].audits \in SUBSET (1..i - 1)
  /\ \A j \in Live(tr) : \A i \in tr[j].audits : tr[i].work = tr[j].work
  /\ \A j, k \in Live(tr) : \A i \in tr[j].audits :
       j < k => (j \in tr[k].audits <=> i \in tr[k].audits)

(* Which works have a row, and which of those that are gone had one.       *)
Accounts(F, ws, tr, pl) ==
  /\ \A w \in ws : /\ pl[w] # "none" <=> Owed(F, tr, Direct(tr, w), w)
                   /\ OneMover(F, tr, Direct(tr, w), w)
  /\ \A k \in Live(tr) :
       /\ tr[k].moved \/ tr[k].merged <=> Owed(F, tr, Under(tr, k), tr[k].source)
       /\ OneMover(F, tr, Under(tr, k), tr[k].source)
       /\ ~(tr[k].moved /\ tr[k].merged)
       /\ tr[k].merged => tr[k].play # "none"

Tame(tr) == \A i \in DOMAIN tr : tr[i].undone => tr[i].restored = tr[i].source

RowsInv ==
  /\ edits \in Nat /\ first \in SUBSET Works
  /\ edits = 0 =>
       /\ Tame(trail) => Forest(works, trail) /\ Accounts(first, works, trail, play)
       /\ Tame(kept.trail) =>
            /\ Forest(kept.works, kept.trail)
            /\ Accounts(first, kept.works, kept.trail, saved.play)

(* Two rows that differ in the work they name, or in being undone.         *)
Alike(a, b) ==
  /\ a.source = b.source /\ a.moved = b.moved /\ a.merged = b.merged
  /\ a.play = b.play /\ a.audits = b.audits

(* What a merge of s into t makes of trail and statuses.                   *)
MergeMakes(ws, tr, pl, s, t, tn, pn) ==
  LET n == Len(tr) + 1
  IN /\ DOMAIN tn = DOMAIN tr \cup {n}
     /\ \A i \in DOMAIN tr :
          /\ Alike(tn[i], tr[i]) /\ tn[i].undone = tr[i].undone
          /\ tn[i].work = IF tr[i].work = s THEN t ELSE tr[i].work
     /\ tn[n].source = s /\ tn[n].work = t /\ ~tn[n].undone
     /\ tn[n].moved <=> pl[s] # "none" /\ pl[t] = "none"
     /\ tn[n].merged <=> pl[s] # "none" /\ pl[t] # "none"
     /\ tn[n].play = pl[s]
     /\ \A i : i \in tn[n].audits <=> i \in DOMAIN tr /\ tr[i].work = s
     /\ \A w \in ws \ {s, t} : pn[w] = pl[w]
     /\ pn[t] # "none" <=> pl[s] # "none" \/ pl[t] # "none"

(* A merge folds one tree of the forest into another.                      *)
LEMMA MergeAccounts ==
  ASSUME NEW F, NEW ws, NEW tr \in Seq(Rows), NEW pl,
         Forest(ws, tr), Accounts(F, ws, tr, pl),
         NEW s \in ws, NEW t \in ws, s # t,
         NEW tn, NEW pn, MergeMakes(ws, tr, pl, s, t, tn, pn)
  PROVE  Forest(ws \ {s}, tn) /\ Accounts(F, ws \ {s}, tn, pn)
<1> DEFINE n == Len(tr) + 1
<1>0. /\ n = Len(tr) + 1 /\ DOMAIN tn = DOMAIN tr \cup {n}
      /\ \A i \in DOMAIN tr :
           /\ Alike(tn[i], tr[i]) /\ tn[i].undone = tr[i].undone
           /\ tn[i].work = IF tr[i].work = s THEN t ELSE tr[i].work
      /\ tn[n].source = s /\ tn[n].work = t /\ ~tn[n].undone
      /\ tn[n].moved <=> pl[s] # "none" /\ pl[t] = "none"
      /\ tn[n].merged <=> pl[s] # "none" /\ pl[t] # "none"
      /\ tn[n].play = pl[s]
      /\ \A i : i \in tn[n].audits <=> i \in DOMAIN tr /\ tr[i].work = s
      /\ \A w \in ws \ {s, t} : pn[w] = pl[w]
      /\ pn[t] # "none" <=> pl[s] # "none" \/ pl[t] # "none"
  BY DEF MergeMakes
<1> HIDE DEF n
<1> USE <1>0
<1>1. /\ DOMAIN tr = 1..Len(tr) /\ Len(tr) \in Nat /\ n \notin DOMAIN tr
      /\ \A i \in DOMAIN tr : i \in Nat /\ i < n
  OBVIOUS
<1>2. Live(tr) \in SUBSET DOMAIN tr /\ Live(tn) = Live(tr) \cup {n}
  BY DEF Live
<1>3. /\ ws = Works \ {tr[i].source : i \in Live(tr)}
      /\ \A i, j \in Live(tr) : tr[i].source = tr[j].source => i = j
      /\ \A i \in DOMAIN tr : tr[i].work \in ws /\ tr[i].audits \in SUBSET (1..i - 1)
      /\ \A j \in Live(tr) : \A i \in tr[j].audits : tr[i].work = tr[j].work
      /\ \A j, k \in Live(tr) : \A i \in tr[j].audits :
           j < k => (j \in tr[k].audits <=> i \in tr[k].audits)
  BY DEF Forest
<1>4. \A j \in Live(tr) : tn[j].audits = tr[j].audits /\ tr[j].audits \in SUBSET DOMAIN tr
  BY <1>1, <1>2, <1>3 DEF Alike
<1>5. \A j \in Live(tn) : n \notin tn[j].audits
  BY <1>1, <1>2, <1>4
<1>6. Forest(ws \ {s}, tn)
  <2>1. ws \ {s} = Works \ {tn[i].source : i \in Live(tn)}
    <3>1. \A w : w \in {tn[i].source : i \in Live(tn)}
                 <=> w = s \/ w \in {tr[i].source : i \in Live(tr)}
      BY <1>1, <1>2 DEF Alike
    <3>2. QED
      BY <1>3, <3>1
  <2>2. \A i, j \in Live(tn) : tn[i].source = tn[j].source => i = j
    <3>1. \A i \in Live(tr) : tn[i].source = tr[i].source /\ tr[i].source # s
      BY <1>2, <1>3 DEF Alike
    <3>2. QED
      BY <1>2, <1>3, <3>1
  <2>3. \A i \in DOMAIN tn : /\ tn[i].work \in ws \ {s}
                             /\ tn[i].audits \in SUBSET (1..i - 1)
    <3>1. \A i \in DOMAIN tr : /\ tn[i].work \in ws \ {s}
                               /\ tn[i].audits \in SUBSET (1..i - 1)
      BY <1>3 DEF Alike
    <3>2. tn[n].audits \in SUBSET (1..n - 1)
      BY <1>1
    <3>3. QED
      BY <3>1, <3>2
  <2>4. ASSUME NEW j \in Live(tn), NEW i \in tn[j].audits
        PROVE  tn[i].work = tn[j].work
    <3>1. CASE j = n
      BY <3>1, <2>4
    <3>2. CASE j \in Live(tr)
      <4>1. i \in DOMAIN tr /\ j \in DOMAIN tr /\ tr[i].work = tr[j].work
        BY <1>2, <1>3, <1>4, <2>4, <3>2
      <4>2. QED
        BY <4>1
    <3>3. QED
      BY <1>2, <3>1, <3>2
  <2>5. ASSUME NEW j \in Live(tn), NEW k \in Live(tn), NEW i \in tn[j].audits, j < k
        PROVE  j \in tn[k].audits <=> i \in tn[k].audits
    <3>1. j \in Live(tr)
      BY <1>1, <1>2, <2>5
    <3>2. /\ i \in DOMAIN tr /\ j \in DOMAIN tr /\ i \in tr[j].audits
          /\ tr[i].work = tr[j].work
      BY <1>2, <1>3, <1>4, <2>5, <3>1
    <3>3. CASE k = n
      BY <3>2, <3>3
    <3>4. CASE k \in Live(tr)
      BY <1>3, <1>4, <2>5, <3>1, <3>2, <3>4
    <3>5. QED
      BY <1>2, <3>3, <3>4
  <2>6. QED
    BY <2>1, <2>2, <2>3, <2>4, <2>5 DEF Forest
<1>7. ASSUME NEW w \in ws \ {s, t} PROVE Direct(tn, w) = Direct(tr, w)
  <2>1. \A i \in Direct(tn, w) : i \in Direct(tr, w)
    BY <1>2, <1>4, <1>7 DEF Direct
  <2>2. \A i \in Direct(tr, w) : i \in Direct(tn, w)
    BY <1>2, <1>4, <1>7 DEF Direct
  <2>3. QED
    BY <2>1, <2>2
<1>8. Direct(tn, t) = Direct(tr, t) \cup {n}
  <2>1. \A i \in Direct(tn, t) : i \in Direct(tr, t) \cup {n}
    BY <1>2, <1>4 DEF Direct
  <2>2. \A i \in Direct(tr, t) : i \in Direct(tn, t)
    BY <1>2, <1>4 DEF Direct
  <2>3. n \in Direct(tn, t)
    BY <1>2, <1>5 DEF Direct
  <2>4. QED
    BY <2>1, <2>2, <2>3
<1>9. ASSUME NEW k \in Live(tr) PROVE Under(tn, k) = Under(tr, k)
  <2>1. tn[k].audits = tr[k].audits /\ n \notin tr[k].audits
    BY <1>1, <1>4
  <2>2. \A i : i \in Under(tn, k) <=> i \in Under(tr, k)
    BY <1>1, <1>2, <1>4, <2>1 DEF Under
  <2>3. QED
    BY <2>2 DEF Under
<1>10. Under(tn, n) = Direct(tr, s)
  <2>1. ASSUME NEW i \in Under(tn, n) PROVE i \in Direct(tr, s)
    <3>1. i \in Live(tr) /\ tr[i].work = s
      BY <1>1, <1>2 DEF Under
    <3>2. ASSUME NEW j \in Live(tr), i \in tr[j].audits PROVE FALSE
      <4>1. tr[j].work = s /\ j \in DOMAIN tr
        BY <1>2, <1>3, <3>1, <3>2
      <4>2. j \in tn[n].audits /\ j \in Live(tn) /\ i \in tn[j].audits
        BY <1>2, <1>4, <3>2, <4>1
      <4>3. QED
        BY <4>2 DEF Under
    <3>3. QED
      BY <3>1, <3>2 DEF Direct
  <2>2. ASSUME NEW i \in Direct(tr, s) PROVE i \in Under(tn, n)
    <3>1. i \in Live(tn) /\ i \in tn[n].audits
      BY <1>2 DEF Direct
    <3>2. \A j \in Live(tn) : i \in tn[j].audits => j \notin tn[n].audits
      BY <1>1, <1>2, <1>4 DEF Direct
    <3>3. QED
      BY <3>1, <3>2 DEF Under
  <2>3. QED
    BY <2>1, <2>2
<1>11. /\ \A w : Direct(tr, w) \in SUBSET DOMAIN tr
       /\ \A k : Under(tr, k) \in SUBSET DOMAIN tr
       /\ \A i \in DOMAIN tr : tn[i].moved = tr[i].moved
  BY <1>2 DEF Direct, Under, Alike
<1>12. \A w, S : S \in SUBSET DOMAIN tr =>
         /\ Owed(F, tn, S, w) <=> Owed(F, tr, S, w)
         /\ OneMover(F, tn, S, w) <=> OneMover(F, tr, S, w)
  BY <1>11 DEF Owed, OneMover
<1>13. /\ \A w \in ws : /\ pl[w] # "none" <=> Owed(F, tr, Direct(tr, w), w)
                        /\ OneMover(F, tr, Direct(tr, w), w)
       /\ \A k \in Live(tr) :
            /\ tr[k].moved \/ tr[k].merged <=> Owed(F, tr, Under(tr, k), tr[k].source)
            /\ OneMover(F, tr, Under(tr, k), tr[k].source)
            /\ ~(tr[k].moved /\ tr[k].merged)
            /\ tr[k].merged => tr[k].play # "none"
  BY DEF Accounts
<1>14. ASSUME NEW w \in ws \ {s}
       PROVE  /\ pn[w] # "none" <=> Owed(F, tn, Direct(tn, w), w)
              /\ OneMover(F, tn, Direct(tn, w), w)
  <2>1. CASE w # t
    BY <1>7, <1>11, <1>12, <1>13, <2>1
  <2>2. CASE w = t
    <3>1. Owed(F, tn, Direct(tn, t), t) <=> Owed(F, tr, Direct(tr, t), t) \/ tn[n].moved
      BY <1>8, <1>11, <1>12 DEF Owed
    <3>2. pl[t] # "none" <=> Owed(F, tr, Direct(tr, t), t)
      BY <1>13
    <3>3. OneMover(F, tn, Direct(tn, t), t)
      <4>1. OneMover(F, tr, Direct(tr, t), t)
        BY <1>13
      <4>2. tn[n].moved => ~Owed(F, tr, Direct(tr, t), t)
        BY <3>2
      <4>3. \A i \in Direct(tr, t) : tn[i].moved = tr[i].moved
        BY <1>11
      <4>4. QED
        BY <1>8, <4>1, <4>2, <4>3 DEF OneMover, Owed
    <3>4. QED
      BY <2>2, <3>1, <3>2, <3>3
  <2>3. QED
    BY <2>1, <2>2
<1>15. ASSUME NEW k \in Live(tn)
       PROVE  /\ tn[k].moved \/ tn[k].merged <=> Owed(F, tn, Under(tn, k), tn[k].source)
              /\ OneMover(F, tn, Under(tn, k), tn[k].source)
              /\ ~(tn[k].moved /\ tn[k].merged)
              /\ tn[k].merged => tn[k].play # "none"
  <2>1. CASE k \in Live(tr)
    <3>1. Alike(tn[k], tr[k])
      BY <1>2, <2>1
    <3>2. QED
      BY <1>9, <1>11, <1>12, <1>13, <2>1, <3>1 DEF Alike
  <2>2. CASE k = n
    <3>1. tn[n].moved \/ tn[n].merged <=> pl[s] # "none"
      OBVIOUS
    <3>2. QED
      BY <1>10, <1>11, <1>12, <1>13, <2>2, <3>1
  <2>3. QED
    BY <1>2, <2>1, <2>2
<1>16. Accounts(F, ws \ {s}, tn, pn)
  BY <1>14, <1>15 DEF Accounts
<1>17. QED
  BY <1>6, <1>16

(* An undo cuts a tree of the forest off again, with all that went along   *)
(* when it was folded away: `_folded_since` sees to it that no merge that  *)
(* still stands took the row of the undone one along.                      *)
LEMMA UndoAccounts ==
  ASSUME NEW F, NEW ws \in SUBSET Works, NEW tr \in Seq(Rows), NEW pl,
         Forest(ws, tr), Accounts(F, ws, tr, pl),
         NEW k \in Live(tr), NEW s, s = tr[k].source, NEW t, t = tr[k].work,
         ~\E j \in DOMAIN tr :
            j > k /\ tr[j].work = t /\ k \in tr[j].audits /\ ~tr[j].undone,
         NEW tn, DOMAIN tn = DOMAIN tr,
         \A i \in DOMAIN tr :
           /\ Alike(tn[i], tr[i])
           /\ tn[i].undone <=> tr[i].undone \/ i = k
           /\ tn[i].work = IF i \in tr[k].audits /\ tr[i].work = t THEN s ELSE tr[i].work,
         NEW pn, \A w \in ws \ {t} : pn[w] = pl[w],
         tr[k].moved => pn[t] = "none" /\ pn[s] = pl[t],
         ~tr[k].moved => (pn[t] # "none" <=> pl[t] # "none"),
         tr[k].merged => pn[s] # "none",
         ~tr[k].moved /\ ~tr[k].merged => pn[s] = "none"
  PROVE  Forest(ws \cup {s}, tn) /\ Accounts(F, ws \cup {s}, tn, pn)
<1>1. \A i \in DOMAIN tr : i \in Nat
  OBVIOUS
<1>2. /\ Live(tr) \in SUBSET DOMAIN tr /\ Live(tn) = Live(tr) \ {k}
      /\ k \in DOMAIN tr /\ k \notin Live(tn)
  BY DEF Live
<1>3. /\ ws = Works \ {tr[i].source : i \in Live(tr)}
      /\ \A i, j \in Live(tr) : tr[i].source = tr[j].source => i = j
      /\ \A i \in DOMAIN tr : tr[i].work \in ws /\ tr[i].audits \in SUBSET (1..i - 1)
      /\ \A j \in Live(tr) : \A i \in tr[j].audits : tr[i].work = tr[j].work
      /\ \A j, l \in Live(tr) : \A i \in tr[j].audits :
           j < l => (j \in tr[l].audits <=> i \in tr[l].audits)
  BY DEF Forest
<1>4. \A i \in DOMAIN tr : /\ tn[i].audits = tr[i].audits
                           /\ tn[i].source = tr[i].source
                           /\ tn[i].moved = tr[i].moved /\ tn[i].merged = tr[i].merged
                           /\ tn[i].play = tr[i].play
                           /\ tr[i].audits \in SUBSET DOMAIN tr
  <2>1. DOMAIN tr = 1..Len(tr) /\ Len(tr) \in Nat
    OBVIOUS
  <2>2. QED
    BY <1>3, <2>1 DEF Alike
<1>5. s \notin ws /\ t \in ws /\ s # t /\ s \in Works
  <2>1. tr[k].source \in Works
    BY <1>2 DEF Rows, Entries
  <2>2. QED
    BY <1>2, <1>3, <2>1
<1>6. \A i \in tr[k].audits : tr[i].work = t
  BY <1>3
<1>7. ASSUME NEW j \in Live(tr) PROVE k \notin tr[j].audits
  <2>1. SUFFICES ASSUME k \in tr[j].audits PROVE FALSE
    OBVIOUS
  <2>2. tr[j].work = t /\ j \in DOMAIN tr /\ ~tr[j].undone
    BY <1>2, <1>3, <2>1 DEF Live
  <2>3. k \in 1..j - 1
    BY <1>3, <2>1, <2>2
  <2>4. j > k
    BY <1>1, <2>2, <2>3
  <2>5. QED
    BY <2>1, <2>2, <2>4
<1>8. ASSUME NEW j \in Live(tn), NEW i \in tr[j].audits
      PROVE  i \in tr[k].audits <=> j \in tr[k].audits
  <2>1. j \in Live(tr) /\ j \in DOMAIN tr /\ j # k /\ j \in Nat /\ k \in Nat
    BY <1>1, <1>2
  <2>2. CASE j < k
    BY <1>3, <1>8, <2>1, <2>2
  <2>3. CASE k < j
    <3>1. j \notin tr[k].audits
      BY <1>2, <1>3, <2>1, <2>3
    <3>2. i \notin tr[k].audits
      BY <1>3, <1>7, <1>8, <2>1, <2>3
    <3>3. QED
      BY <3>1, <3>2
  <2>4. QED
    BY <2>1, <2>2, <2>3
<1>9. k \notin tr[k].audits
  BY <1>7
<1>10. Forest(ws \cup {s}, tn)
  <2>1. ws \cup {s} = Works \ {tn[i].source : i \in Live(tn)}
    <3>1. ASSUME NEW w
          PROVE  w \in {tn[i].source : i \in Live(tn)}
                 <=> w # s /\ w \in {tr[i].source : i \in Live(tr)}
      <4>1. \A i \in Live(tr) : tn[i].source = tr[i].source /\ (tr[i].source = s <=> i = k)
        BY <1>2, <1>3, <1>4
      <4>2. QED
        BY <1>2, <4>1
    <3> DEFINE old == {tr[i].source : i \in Live(tr)}
               new == {tn[i].source : i \in Live(tn)}
    <3>2. ws = Works \ old /\ \A w : w \in new <=> w # s /\ w \in old
      BY <1>3, <3>1
    <3> HIDE DEF old, new
    <3>3. ws \cup {s} = Works \ new
      BY <1>5, <3>2
    <3>4. QED
      BY <3>3 DEF new
  <2>2. \A i, j \in Live(tn) : tn[i].source = tn[j].source => i = j
    BY <1>2, <1>3, <1>4
  <2>3. \A i \in DOMAIN tn : /\ tn[i].work \in ws \cup {s}
                             /\ tn[i].audits \in SUBSET (1..i - 1)
    BY <1>3, <1>4
  <2>4. ASSUME NEW j \in Live(tn), NEW i \in tn[j].audits
        PROVE  tn[i].work = tn[j].work
    <3>1. /\ i \in DOMAIN tr /\ j \in DOMAIN tr /\ i \in tr[j].audits
          /\ tr[i].work = tr[j].work
      BY <1>2, <1>3, <1>4, <2>4
    <3>2. i \in tr[k].audits <=> j \in tr[k].audits
      BY <1>8, <3>1
    <3>3. QED
      BY <3>1, <3>2
  <2>5. \A j, l \in Live(tn) : \A i \in tn[j].audits :
          j < l => (j \in tn[l].audits <=> i \in tn[l].audits)
    BY <1>2, <1>3, <1>4
  <2>6. QED
    BY <2>1, <2>2, <2>3, <2>4, <2>5 DEF Forest
<1>11. Direct(tn, s) = Under(tr, k)
  <2>1. ASSUME NEW i \in Direct(tn, s) PROVE i \in Under(tr, k)
    <3>1. /\ i \in Live(tr) /\ i \in DOMAIN tr /\ i # k
          /\ \A j \in Live(tn) : i \notin tr[j].audits
      BY <1>2, <1>4 DEF Direct
    <3>2. i \in tr[k].audits
      BY <1>3, <1>5, <3>1 DEF Direct
    <3>3. QED
      BY <1>2, <1>9, <3>1, <3>2 DEF Under
  <2>2. ASSUME NEW i \in Under(tr, k) PROVE i \in Direct(tn, s)
    <3>1. /\ i \in Live(tn) /\ i \in DOMAIN tr /\ i \in tr[k].audits
          /\ \A j \in Live(tr) : i \in tr[j].audits => j \notin tr[k].audits
      BY <1>2, <1>9 DEF Under
    <3>2. tn[i].work = s
      BY <1>6, <3>1
    <3>3. ASSUME NEW j \in Live(tn), i \in tn[j].audits PROVE FALSE
      BY <1>2, <1>4, <1>8, <3>1, <3>3
    <3>4. QED
      BY <3>1, <3>2, <3>3 DEF Direct
  <2>3. QED
    BY <2>1, <2>2
<1>12. Direct(tn, t) = Direct(tr, t) \ {k}
  <2>1. ASSUME NEW i \in Direct(tn, t) PROVE i \in Direct(tr, t) \ {k}
    <3>1. /\ i \in Live(tr) /\ i \in DOMAIN tr /\ i # k /\ tn[i].work = t
          /\ \A j \in Live(tn) : i \notin tr[j].audits
      BY <1>2, <1>4 DEF Direct
    <3>2. i \notin tr[k].audits /\ tr[i].work = t
      BY <1>5, <1>6, <3>1
    <3>3. QED
      BY <1>2, <3>1, <3>2 DEF Direct
  <2>2. ASSUME NEW i \in Direct(tr, t) \ {k} PROVE i \in Direct(tn, t)
    BY <1>2, <1>4 DEF Direct
  <2>3. QED
    BY <2>1, <2>2
<1>13. ASSUME NEW w \in ws \ {t} PROVE Direct(tn, w) = Direct(tr, w)
  <2>1. ASSUME NEW i \in Direct(tn, w) PROVE i \in Direct(tr, w)
    <3>1. /\ i \in Live(tr) /\ i \in DOMAIN tr /\ tn[i].work = w
          /\ \A j \in Live(tn) : i \notin tr[j].audits
      BY <1>2, <1>4 DEF Direct
    <3>2. i \notin tr[k].audits /\ tr[i].work = w
      BY <1>5, <1>6, <1>13, <3>1
    <3>3. QED
      BY <1>2, <3>1, <3>2 DEF Direct
  <2>2. ASSUME NEW i \in Direct(tr, w) PROVE i \in Direct(tn, w)
    <3>1. i \in Live(tr) /\ tr[i].work = w /\ i # k
      BY <1>13 DEF Direct
    <3>2. QED
      BY <1>2, <1>4, <1>13, <3>1 DEF Direct
  <2>3. QED
    BY <2>1, <2>2
<1>14. ASSUME NEW l \in Live(tn) PROVE Under(tn, l) = Under(tr, l)
  <2>1. l \in Live(tr) /\ tn[l].audits = tr[l].audits /\ k \notin tr[l].audits
    BY <1>2, <1>4, <1>7
  <2>2. \A i : i \in Under(tn, l) <=> i \in Under(tr, l)
    BY <1>2, <1>4, <2>1 DEF Under
  <2>3. QED
    BY <2>2
<1>15. /\ \A w : Direct(tr, w) \in SUBSET DOMAIN tr
       /\ \A l : Under(tr, l) \in SUBSET DOMAIN tr
  BY <1>2 DEF Direct, Under
<1>16. \A w, S : S \in SUBSET DOMAIN tr =>
         /\ Owed(F, tn, S, w) <=> Owed(F, tr, S, w)
         /\ OneMover(F, tn, S, w) <=> OneMover(F, tr, S, w)
  BY <1>4 DEF Owed, OneMover
<1>17. /\ \A w \in ws : /\ pl[w] # "none" <=> Owed(F, tr, Direct(tr, w), w)
                        /\ OneMover(F, tr, Direct(tr, w), w)
       /\ \A l \in Live(tr) :
            /\ tr[l].moved \/ tr[l].merged <=> Owed(F, tr, Under(tr, l), tr[l].source)
            /\ OneMover(F, tr, Under(tr, l), tr[l].source)
            /\ ~(tr[l].moved /\ tr[l].merged)
            /\ tr[l].merged => tr[l].play # "none"
  BY DEF Accounts
<1>18. k \in Direct(tr, t)
  BY <1>7 DEF Direct
<1>19. tr[k].moved => /\ pl[t] # "none" /\ t \notin F
                      /\ \A i \in Direct(tr, t) \ {k} : ~tr[i].moved
  BY <1>5, <1>17, <1>18 DEF Owed, OneMover
<1>20. ASSUME NEW w \in ws \cup {s}
       PROVE  /\ pn[w] # "none" <=> Owed(F, tn, Direct(tn, w), w)
              /\ OneMover(F, tn, Direct(tn, w), w)
  <2>1. CASE w \in ws \ {t}
    BY <1>13, <1>15, <1>16, <1>17, <2>1
  <2>2. CASE w = t
    <3>1. Direct(tn, t) \in SUBSET DOMAIN tr
      BY <1>12, <1>15
    <3>2. OneMover(F, tr, Direct(tn, t), t)
      BY <1>5, <1>12, <1>17 DEF OneMover
    <3>3. pn[t] # "none" <=> Owed(F, tr, Direct(tn, t), t)
      <4>1. CASE tr[k].moved
        BY <1>12, <1>19, <4>1 DEF Owed
      <4>2. CASE ~tr[k].moved
        BY <1>5, <1>12, <1>17, <4>2 DEF Owed
      <4>3. QED
        BY <4>1, <4>2
    <3>4. QED
      BY <1>16, <2>2, <3>1, <3>2, <3>3
  <2>3. CASE w = s
    <3>1. pn[s] # "none" <=> tr[k].moved \/ tr[k].merged
      BY <1>19
    <3>2. QED
      BY <1>11, <1>15, <1>16, <1>17, <2>3, <3>1
  <2>4. QED
    BY <2>1, <2>2, <2>3
<1>21. ASSUME NEW l \in Live(tn)
       PROVE  /\ tn[l].moved \/ tn[l].merged <=> Owed(F, tn, Under(tn, l), tn[l].source)
              /\ OneMover(F, tn, Under(tn, l), tn[l].source)
              /\ ~(tn[l].moved /\ tn[l].merged)
              /\ tn[l].merged => tn[l].play # "none"
  BY <1>2, <1>4, <1>14, <1>15, <1>16, <1>17
<1>22. Accounts(F, ws \cup {s}, tn, pn)
  BY <1>20, <1>21 DEF Accounts
<1>23. QED
  BY <1>10, <1>22

LEMMA RowsMerge ==
  ASSUME MergeInv, RowsInv, NEW s \in works, NEW t \in works, Merge(s, t), first' = first
  PROVE  RowsInv'
<1> DEFINE n == Len(trail) + 1
           rp == Repoint(trail, DOMAIN trail, s, t)
           d == Recorded(s, t)
<1>1. /\ pass = "idle" /\ s \in Works /\ t \in Works /\ s # t
      /\ MergeStates(s, t) /\ works' = works \ {s}
      /\ trail' = Append(rp, d) /\ UNCHANGED <<saved, kept, edits>>
  BY DEF Merge, MergeInv
<1>2. QueueInv /\ trail \in Seq(Rows)
  BY DEF MergeInv
<1>3. rp \in Seq(Rows) /\ Len(rp) = Len(trail) /\ d \in Rows
  BY <1>1, <1>2, RepointRows, RecordedRow
<1>4. ASSUME NEW i \in DOMAIN trail
      PROVE  /\ Alike(rp[i], trail[i]) /\ rp[i].undone = trail[i].undone
             /\ rp[i].restored = trail[i].restored
             /\ rp[i].work = IF trail[i].work = s THEN t ELSE trail[i].work
  <2>1. rp[i] = IF trail[i].work = s THEN [trail[i] EXCEPT !.work = t] ELSE trail[i]
    BY DEF Repoint
  <2>2. trail[i] \in Entries
    BY <1>2 DEF Rows
  <2> HIDE DEF rp
  <2>3. QED
    BY <2>1, <2>2 DEF Alike, Entries
<1>5. /\ d.source = s /\ d.work = t /\ ~d.undone
      /\ d.moved <=> play[s] # "none" /\ play[t] = "none"
      /\ d.merged <=> play[s] # "none" /\ play[t] # "none"
      /\ d.play = play[s] /\ d.audits = {i \in DOMAIN trail : trail[i].work = s}
  BY DEF Recorded
<1> HIDE DEF rp, d
<1>6. /\ DOMAIN trail' = DOMAIN trail \cup {n}
      /\ trail'[n] = d
      /\ \A i \in DOMAIN trail : trail'[i] = rp[i]
  <2>1. DOMAIN trail = 1..Len(trail) /\ Len(trail) \in Nat
    BY <1>2
  <2>2. Len(trail') = n /\ DOMAIN trail' = 1..n
    BY <1>1, <1>3, <2>1
  <2>3. QED
    BY <1>1, <1>3, <2>1, <2>2
<1> HIDE DEF n
<1>7. /\ \A w \in works \ {s, t} : play'[w] = play[w]
      /\ play'[t] # "none" <=> play[s] # "none" \/ play[t] # "none"
  <2>1. play \in [Works -> Play] /\ works \in SUBSET Works
    BY <1>2 DEF MergeInv, QueueInv, QueueTypeOK
  <2>2. CASE play[s] = "none"
    BY <1>1, <2>2 DEF MergeStates, Write
  <2>3. CASE play[s] # "none" /\ play[t] = "none"
    BY <1>1, <2>1, <2>3 DEF MergeStates, Write
  <2>4. CASE play[s] # "none" /\ play[t] # "none"
    <3>1. play' = Folded(s, t)
      BY <1>1, <2>4 DEF MergeStates, Write, Rearrange
    <3>2. QED
      BY <1>1, <2>1, <2>4, <3>1 DEF Folded, Filled
  <2>5. QED
    BY <2>2, <2>3, <2>4
<1>8. ASSUME edits = 0, Tame(trail')
      PROVE  Forest(works', trail') /\ Accounts(first, works', trail', play')
  <2>1. Tame(trail)
    BY <1>4, <1>6, <1>8 DEF Tame, Alike
  <2>2. Forest(works, trail) /\ Accounts(first, works, trail, play)
    BY <1>8, <2>1 DEF RowsInv
  <2>3. \A i \in DOMAIN trail :
          /\ Alike(trail'[i], trail[i]) /\ trail'[i].undone = trail[i].undone
          /\ trail'[i].work = IF trail[i].work = s THEN t ELSE trail[i].work
    BY <1>4, <1>6
  <2>4. MergeMakes(works, trail, play, s, t, trail', play')
    BY <1>5, <1>6, <1>7, <2>3 DEF MergeMakes, n
  <2>5. s # t /\ trail \in Seq(Rows)
    BY <1>1, <1>2
  <2> DEFINE tn == trail'
             pn == play'
  <2>6. MergeMakes(works, trail, play, s, t, tn, pn)
    BY <2>4
  <2> HIDE DEF tn, pn
  <2>7. Forest(works \ {s}, tn) /\ Accounts(first, works \ {s}, tn, pn)
    BY <2>2, <2>5, <2>6, MergeAccounts
  <2>8. QED
    BY <1>1, <2>7 DEF tn, pn
<1>9. edits' = edits /\ kept' = kept /\ saved' = saved
  BY <1>1
<1>10. QED
  BY <1>8, <1>9 DEF RowsInv

LEMMA RowsUndo ==
  ASSUME MergeInv, RowsInv, NEW k \in DOMAIN trail, NEW r \in Works, Undo(k, r),
         first' = first
  PROVE  RowsInv'
<1> DEFINE e == trail[k]
           t == e.work
           rp == Repoint(trail, e.audits, t, r)
<1>1. /\ pass = "idle" /\ ~e.undone /\ ~FoldedSince(k)
      /\ t \in works /\ r \in Works \ works
      /\ UnmergeStates(e, t, r) /\ works' = works \cup {r}
      /\ trail' = [rp EXCEPT ![k].undone = TRUE, ![k].restored = r]
      /\ UNCHANGED <<saved, kept, edits>>
  BY DEF Undo
<1>2. QueueInv /\ trail \in Seq(Rows) /\ works \in SUBSET Works
  BY DEF MergeInv
<1>3. play \in [Works -> Play] /\ play[r] = "none" /\ t # r
  BY <1>1 DEF MergeInv, Gone, QueueInv, QueueTypeOK
<1>4. rp \in Seq(Rows) /\ Len(rp) = Len(trail)
  BY <1>1, <1>2, RepointRows
<1>5. ASSUME NEW i \in DOMAIN trail
      PROVE  /\ Alike(rp[i], trail[i]) /\ rp[i].undone = trail[i].undone
             /\ rp[i].restored = trail[i].restored
             /\ rp[i].work = IF i \in e.audits /\ trail[i].work = t
                             THEN r ELSE trail[i].work
  <2>1. rp[i] = IF i \in e.audits /\ trail[i].work = t
                THEN [trail[i] EXCEPT !.work = r] ELSE trail[i]
    BY DEF Repoint
  <2>2. trail[i] \in Entries
    BY <1>2 DEF Rows
  <2> HIDE DEF rp, e
  <2>3. QED
    BY <2>1, <2>2 DEF Alike, Entries
<1>6. e \in Rows /\ rp[k] \in Entries
  <2> HIDE DEF rp
  <2>1. QED
    BY <1>2, <1>4 DEF Rows
<1> HIDE DEF rp, e
<1>7. /\ DOMAIN trail' = DOMAIN trail
      /\ \A i \in DOMAIN trail : i # k => trail'[i] = rp[i]
      /\ trail'[k] = [rp[k] EXCEPT !.undone = TRUE, !.restored = r]
  <2>1. DOMAIN rp = DOMAIN trail /\ rp = [i \in DOMAIN trail |-> rp[i]]
    BY <1>2, <1>4
  <2>2. trail' = [rp EXCEPT ![k] = [rp[k] EXCEPT !.undone = TRUE, !.restored = r]]
    BY <1>1, <2>1
  <2>3. QED
    BY <2>1, <2>2
<1>8. ASSUME NEW i \in DOMAIN trail
      PROVE  /\ Alike(trail'[i], trail[i])
             /\ trail'[i].undone <=> trail[i].undone \/ i = k
             /\ trail'[i].restored = IF i = k THEN r ELSE trail[i].restored
             /\ trail'[i].work = IF i \in e.audits /\ trail[i].work = t
                                 THEN r ELSE trail[i].work
  <2>1. CASE i # k
    BY <1>5, <1>7, <2>1
  <2>2. CASE i = k
    <3>1. /\ Alike(trail'[k], rp[k]) /\ trail'[k].undone /\ trail'[k].restored = r
          /\ trail'[k].work = rp[k].work
      BY <1>6, <1>7 DEF Alike, Entries
    <3>2. QED
      BY <1>5, <2>2, <3>1 DEF Alike
  <2>3. QED
    BY <2>1, <2>2
<1>9. ASSUME edits = 0, Tame(trail')
      PROVE  Forest(works', trail') /\ Accounts(first, works', trail', play')
  <2>1. e.source = r
    <3>1. trail'[k].source = trail'[k].restored
      BY <1>7, <1>8, <1>9 DEF Tame
    <3>2. QED
      BY <1>8, <3>1 DEF Alike, e
  <2>2. Tame(trail)
    BY <1>1, <1>7, <1>8, <1>9 DEF Tame, Alike, e
  <2>3. Forest(works, trail) /\ Accounts(first, works, trail, play)
    BY <1>9, <2>2 DEF RowsInv
  <2>4. k \in Live(trail)
    BY <1>1 DEF Live, e
  <2>5. ~(e.moved /\ e.merged) /\ (e.merged => e.play # "none")
    BY <2>3, <2>4 DEF Accounts, e
  <2>6. /\ \A w \in works \ {t} : play'[w] = play[w]
        /\ e.moved => play'[t] = "none" /\ play'[r] = play[t]
        /\ ~e.moved => (play'[t] # "none" <=> play[t] # "none")
        /\ e.merged => play'[r] # "none"
        /\ ~e.moved /\ ~e.merged => play'[r] = "none"
    <3>1. t \in Works
      BY <1>1, <1>2
    <3>2. CASE e.moved
      <4>1. play' = [play EXCEPT ![r] = play[t], ![t] = "none"]
        BY <1>1, <2>5, <3>2 DEF UnmergeStates, Write
      <4>2. QED
        BY <1>1, <1>2, <1>3, <2>5, <3>1, <3>2, <4>1
    <3>3. CASE e.merged
      <4>1. play' = Unfolded(e, t, r)
        BY <1>1, <2>5, <3>3 DEF UnmergeStates, Rearrange
      <4>2. play[t] # "none" => PlayBefore(e, t) # "none"
        BY <1>6 DEF PlayBefore, Rows, EntryOK
      <4>3. \A w \in Works : play'[w] =
              IF w = t THEN (IF play[t] = "none" THEN "none" ELSE PlayBefore(e, t))
              ELSE IF w = r THEN e.play ELSE play[w]
        BY <1>3, <3>1, <4>1 DEF Unfolded
      <4>4. QED
        BY <1>1, <1>2, <1>3, <2>5, <3>1, <3>3, <4>2, <4>3
    <3>4. CASE ~e.moved /\ ~e.merged
      <4>1. play' = play
        BY <1>1, <3>4 DEF UnmergeStates, Write
      <4>2. QED
        BY <1>3, <3>4, <4>1
    <3>5. QED
      BY <3>2, <3>3, <3>4
  <2>7. ~\E j \in DOMAIN trail :
          j > k /\ trail[j].work = t /\ k \in trail[j].audits /\ ~trail[j].undone
    BY <1>1 DEF FoldedSince, e
  <2> DEFINE tn == trail'
             pn == play'
  <2>8. /\ DOMAIN tn = DOMAIN trail
        /\ \A i \in DOMAIN trail :
             /\ Alike(tn[i], trail[i])
             /\ tn[i].undone <=> trail[i].undone \/ i = k
             /\ tn[i].work = IF i \in trail[k].audits /\ trail[i].work = t
                             THEN r ELSE trail[i].work
    BY <1>7, <1>8 DEF e
  <2>9. /\ \A w \in works \ {t} : pn[w] = play[w]
        /\ trail[k].moved => pn[t] = "none" /\ pn[r] = play[t]
        /\ ~trail[k].moved => (pn[t] # "none" <=> play[t] # "none")
        /\ trail[k].merged => pn[r] # "none"
        /\ ~trail[k].moved /\ ~trail[k].merged => pn[r] = "none"
    BY <2>6 DEF e
  <2>10. r = trail[k].source /\ t = trail[k].work
    BY <2>1 DEF e
  <2> HIDE DEF tn, pn, t
  <2>11. Forest(works \cup {r}, tn) /\ Accounts(first, works \cup {r}, tn, pn)
    BY <1>2, <2>3, <2>4, <2>7, <2>8, <2>9, <2>10, UndoAccounts
  <2>12. QED
    BY <1>1, <2>11 DEF tn, pn
<1>10. edits' = edits /\ kept' = kept /\ saved' = saved
  BY <1>1
<1>11. QED
  BY <1>9, <1>10 DEF RowsInv

LEMMA RowsStep ==
  ASSUME MergeInv, RowsInv, [MergeNext]_vars, first' = first
  PROVE  RowsInv'
<1>1. ASSUME NEW s \in works, NEW t \in works, Merge(s, t)
      PROVE  RowsInv'
  BY <1>1, RowsMerge
<1>2. ASSUME NEW i \in DOMAIN trail, NEW r \in Works, Undo(i, r)
      PROVE  RowsInv'
  BY <1>2, RowsUndo
<1>3. CASE Edit
  <2>1. edits' \in Nat /\ edits' # 0
    BY <1>3 DEF Edit, RowsInv
  <2>2. QED
    BY <2>1 DEF RowsInv
<1>4. CASE Renumber /\ UNCHANGED mergeVars
  <2>1. UNCHANGED <<play, saved, works, trail, edits, kept>>
    BY <1>4 DEF Renumber, LiftRow, NumberRow, Lifted, Numbered, mergeVars
  <2>2. QED
    BY <2>1 DEF RowsInv
<1>5. CASE CommitAll
  <2>1. /\ UNCHANGED <<play, works, trail, edits>> /\ saved'.play = play
        /\ kept'.works = works /\ kept'.trail = trail
    BY <1>5 DEF CommitAll, Commit
  <2>2. QED
    BY <2>1 DEF RowsInv
<1>6. CASE RollbackAll
  <2>1. /\ play' = saved.play /\ works' = kept.works /\ trail' = kept.trail
        /\ UNCHANGED <<saved, kept, edits>>
    BY <1>6 DEF RollbackAll, Rollback
  <2>2. QED
    BY <2>1 DEF RowsInv
<1>7. CASE UNCHANGED vars
  BY <1>7 DEF vars, queueVars, mergeVars, RowsInv
<1>8. (\E w \in Works : Request(w) \/ NewWork(w))
      \/ (\E W \in (SUBSET works) \ {{}} : Delete(W)) => Edit
  BY DEF Request, NewWork, Delete
<1>9. QED
  BY <1>1, <1>2, <1>3, <1>4, <1>5, <1>6, <1>7, <1>8 DEF MergeNext, Matching

LEMMA RowsInit == Init => RowsInv
<1> SUFFICES ASSUME Init PROVE RowsInv
  OBVIOUS
<1>1. /\ works = Works /\ trail = <<>> /\ edits = 0 /\ kept.works = works
      /\ kept.trail = trail /\ saved.play = play
      /\ first = {w \in Works : play[w] # "none"}
  BY DEF Init, MergeInit, QueueInit
<1>2. DOMAIN trail = {} /\ Live(trail) = {}
  BY <1>1 DEF Live
<1>3. Forest(works, trail)
  BY <1>1, <1>2 DEF Forest
<1>4. \A w : Direct(trail, w) = {}
  BY <1>2 DEF Direct
<1>5. Accounts(first, works, trail, play)
  BY <1>1, <1>2, <1>4 DEF Accounts, Owed, OneMover
<1>6. first \in SUBSET Works
  BY <1>1
<1>7. QED
  BY <1>1, <1>3, <1>5, <1>6 DEF RowsInv

(* Merges undone in any order undo_merge allows give every work its row of *)
(* state back, and none to a work that had none (ludarium/merging.py       *)
(* `undo_merge`, `_folded_since`).                                         *)
THEOREM EveryRowComesBack == Spec => []RowsComeBack
<1>1. Init => MergeInv /\ RowsInv
  BY MergeInitInv, RowsInit DEF Init
<1>2. [Next]_<<vars, first>> => [MergeNext]_vars /\ first' = first
  BY DEF Next, MergeNext, Matching
<1>3. MergeInv /\ [MergeNext]_vars => MergeInv'
  BY MergeInvStep
<1>4. MergeInv /\ RowsInv /\ [Next]_<<vars, first>> => RowsInv'
  BY <1>2, RowsStep
<1>5. MergeInv /\ RowsInv => RowsComeBack
  <2> SUFFICES ASSUME MergeInv, RowsInv, edits = 0,
                      \A i \in DOMAIN trail :
                        trail[i].undone /\ trail[i].restored = trail[i].source
               PROVE  {w \in Works : play[w] # "none"} = first
    BY DEF RowsComeBack
  <2>1. Live(trail) = {} /\ Tame(trail)
    BY DEF Live, Tame
  <2>2. Forest(works, trail) /\ Accounts(first, works, trail, play) /\ first \in SUBSET Works
    BY <2>1 DEF RowsInv
  <2>3. works = Works
    BY <2>1, <2>2 DEF Forest
  <2>4. \A w \in Works : play[w] # "none" <=> w \in first
    BY <2>1, <2>2, <2>3 DEF Accounts, Owed, Direct
  <2>5. QED
    BY <2>2, <2>4
<1>6. QED
  BY <1>1, <1>2, <1>3, <1>4, <1>5, PTL DEF Spec
=============================================================================
