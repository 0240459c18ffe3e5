--------------------------- MODULE ListingProofs ---------------------------
(***************************************************************************)
(* Proofs about the listing: the cursor's predicate is the order it pages  *)
(* on, for every value; folding hides nothing, for every library; and a    *)
(* walk through the pages misses and repeats nothing, whatever changes     *)
(* meanwhile.                                                              *)
(***************************************************************************)
EXTENDS Listing, FiniteSetTheorems, SequenceTheorems, WellFoundedInduction, TLAPS

LEMMA KeyBelowIsStrict ==
  ASSUME NEW p \in Positions, NEW q \in Positions
  PROVE  /\ ~KeyBelow(p, p)
         /\ ~(KeyBelow(p, q) /\ KeyBelow(q, p))
         /\ p.id # q.id => KeyBelow(p, q) \/ KeyBelow(q, p)
  BY DEF Positions, KeyBelow

LEMMA KeyBelowIsTransitive ==
  ASSUME NEW p \in Positions, NEW q \in Positions, NEW r \in Positions,
         KeyBelow(p, q), KeyBelow(q, r)
  PROVE  KeyBelow(p, r)
  BY DEF Positions, KeyBelow

(* The predicate of a cursor (Ordering.after) and the ORDER BY it pages on *)
(* (Ordering.order_by) are one relation read from its two ends: after a    *)
(* position is exactly what the order puts behind it, unknown values and   *)
(* ties included, for every integer value, key and id.                     *)
THEOREM CursorReadsTheOrder ==
  \A o \in Orders, p \in Positions, at \in Positions : After(o, p, at) <=> Before(o, at, p)
<1> SUFFICES ASSUME NEW o \in Orders, NEW p \in Positions, NEW at \in Positions
             PROVE  After(o, p, at) <=> Before(o, at, p)
  OBVIOUS
<1>1. CASE o.sort = "title"
  BY <1>1 DEF After, Before
<1>2. CASE o.sort # "title" /\ at.value = Null
  <2>1. After(o, p, at) <=> p.value = Null /\ KeyBelow(at, p)
    BY <1>2 DEF After
  <2>2. Before(o, at, p) <=> at.value = p.value /\ KeyBelow(at, p)
    BY <1>2 DEF Before
  <2> QED  BY <1>2, <2>1, <2>2
<1>3. CASE o.sort # "title" /\ at.value # Null
  <2>1. After(o, p, at) <=> \/ p.value = Null
                            \/ p.value # Null /\ Ahead(o, at.value, p.value)
                            \/ p.value = at.value /\ KeyBelow(at, p)
    BY <1>3 DEF After
  <2>2. Before(o, at, p) <=> \/ p.value = Null
                             \/ p.value # Null /\ Ahead(o, at.value, p.value)
                             \/ at.value = p.value /\ KeyBelow(at, p)
    BY <1>3 DEF Before
  <2> QED  BY <2>1, <2>2
<1> QED  BY <1>1, <1>2, <1>3

(* No two works share a place in an order, and each has one: whatever the  *)
(* tie on value and key, the id separates them (Ordering.order_by), so a   *)
(* page boundary falls between two rows and a cursor never comes back.     *)
THEOREM OrderIsTotal ==
  \A o \in Orders, p \in Positions, q \in Positions :
    /\ ~Before(o, p, p)
    /\ ~(Before(o, p, q) /\ Before(o, q, p))
    /\ p.id # q.id => Before(o, p, q) \/ Before(o, q, p)
<1> SUFFICES ASSUME NEW o \in Orders, NEW p \in Positions, NEW q \in Positions
             PROVE  /\ ~Before(o, p, p)
                    /\ ~(Before(o, p, q) /\ Before(o, q, p))
                    /\ p.id # q.id => Before(o, p, q) \/ Before(o, q, p)
  OBVIOUS
<1>0. p.value \in Int \cup {Null} /\ q.value \in Int \cup {Null}
  BY DEF Positions
<1>1. CASE o.sort = "title"
  BY <1>1, KeyBelowIsStrict DEF Before
<1>2. CASE o.sort # "title"
  <2>1. p.value = Null \/ p.value \in Int
    BY <1>0
  <2>2. q.value = Null \/ q.value \in Int
    BY <1>0
  <2>3. p.value \in Int => ~Ahead(o, p.value, p.value)
    BY DEF Ahead
  <2>4. p.value \in Int /\ q.value \in Int =>
          /\ ~(Ahead(o, p.value, q.value) /\ Ahead(o, q.value, p.value))
          /\ p.value # q.value => Ahead(o, p.value, q.value) \/ Ahead(o, q.value, p.value)
          /\ p.value = q.value => ~Ahead(o, p.value, q.value)
    BY DEF Ahead
  <2> QED  BY <1>2, <2>1, <2>2, <2>3, <2>4, NullAssumption, KeyBelowIsStrict DEF Before
<1> QED  BY <1>1, <1>2

(* What follows a row that follows a row follows the first                 *)
(* (Ordering.order_by): a walk only moves on.                              *)
THEOREM OrderIsTransitive ==
  \A o \in Orders, p \in Positions, q \in Positions, r \in Positions :
    Before(o, p, q) /\ Before(o, q, r) => Before(o, p, r)
<1> SUFFICES ASSUME NEW o \in Orders, NEW p \in Positions, NEW q \in Positions,
                    NEW r \in Positions, Before(o, p, q), Before(o, q, r)
             PROVE  Before(o, p, r)
  OBVIOUS
<1>1. CASE o.sort = "title"
  BY <1>1, KeyBelowIsTransitive DEF Before
<1>2. CASE o.sort # "title"
  <2>0. /\ p.value \in Int \cup {Null} /\ q.value \in Int \cup {Null}
        /\ r.value \in Int \cup {Null}
    BY DEF Positions
  <2>1. CASE r.value = Null
    <3>1. p.value # Null \/ (q.value = Null /\ p.value = q.value /\ KeyBelow(p, q))
      BY <1>2 DEF Before
    <3>2. q.value = Null => KeyBelow(q, r)
      BY <1>2, <2>1 DEF Before
    <3> QED  BY <1>2, <2>1, <3>1, <3>2, KeyBelowIsTransitive DEF Before
  <2>2. CASE r.value # Null
    <3>1. q.value # Null /\ p.value # Null
      BY <1>2, <2>2 DEF Before
    <3>2. \/ Ahead(o, p.value, q.value)
          \/ p.value = q.value /\ KeyBelow(p, q)
      BY <1>2, <3>1 DEF Before
    <3>3. \/ Ahead(o, q.value, r.value)
          \/ q.value = r.value /\ KeyBelow(q, r)
      BY <1>2, <2>2, <3>1 DEF Before
    <3>4. Ahead(o, p.value, q.value) /\ Ahead(o, q.value, r.value) => Ahead(o, p.value, r.value)
      BY <2>0, <2>2, <3>1 DEF Ahead
    <3>5. Ahead(o, p.value, r.value) \/ (p.value = r.value /\ KeyBelow(p, r))
      BY <3>2, <3>3, <3>4, KeyBelowIsTransitive
    <3> QED  BY <1>2, <2>2, <3>1, <3>5 DEF Before
  <2> QED  BY <2>1, <2>2
<1> QED  BY <1>1, <1>2

(***************************************************************************)
(* Folding.                                                                *)
(***************************************************************************)
LEMMA OwnedAreWorks == Spec => [](owned \subseteq Works)
<1>1. Init => owned \subseteq Works
  BY DEF Init
<1>2. owned \subseteq Works /\ [Next]_vars => (owned \subseteq Works)'
  <2> SUFFICES ASSUME owned \subseteq Works, [Next]_vars
               PROVE  (owned \subseteq Works)'
    OBVIOUS
  <2>1. ASSUME NEW o \in Orders, NEW c \in Filters, Start(o, c)
        PROVE  owned' = owned
    BY <2>1 DEF Start
  <2>2. CASE Page
    BY <2>2 DEF Page, Read, Answer, Follow
  <2>3. ASSUME NEW w \in Works, Land(w) \/ Withdraw(w) \/ Played(w) \/ SetHidden(w)
        PROVE  (owned \subseteq Works)'
    BY <2>3 DEF Land, Withdraw, Played, SetHidden
  <2>4. CASE UNCHANGED vars
    BY <2>4 DEF vars
  <2> QED  BY <2>1, <2>2, <2>3, <2>4 DEF Next
<1> QED  BY <1>1, <1>2, PTL DEF Spec

(* Whatever is owned, hidden or an add-on of what, each owned work a view  *)
(* shows is found in it by name, on its own card or on its game's          *)
(* (_on_addons, through_addons), for every library in which an add-on's    *)
(* game is not an add-on itself.                                           *)
LEMMA FoundThroughACard ==
  ASSUME owned \subseteq Works, NEW hidden \in {"exclude", "include", "only"},
         NEW w \in owned, Shown(w, hidden),
         NEW cards, cards = Listed([hidden |-> hidden, addons |-> "fold", wanted |-> {w}])
  PROVE  cards # {} /\ cards \subseteq {w, Parent[w]}
<1> DEFINE c == [hidden |-> hidden, addons |-> "fold", wanted |-> {w}]
<1>0. c.hidden = hidden /\ c.addons = "fold" /\ c.wanted = {w}
  OBVIOUS
<1> HIDE DEF c
<1>1. cards = {x \in owned : Wanted(x, c) /\ Shown(x, hidden) /\ ~Folded(x, c)}
  BY <1>0 DEF Listed, c
<1>2. \A x \in owned : Wanted(x, c) <=> x = w \/ Parent[w] = x
  BY <1>0 DEF Wanted
<1>3. cards \subseteq {w, Parent[w]}
  BY <1>1, <1>2
<1>4. CASE Folded(w, c)
  <2>1. Parent[w] # Null /\ Parent[w] \in owned /\ Shown(Parent[w], hidden)
    BY <1>0, <1>4 DEF Folded
  <2>2. Parent[Parent[w]] = Null
    BY <2>1, ParentAssumption
  <2>3. ~Folded(Parent[w], c)
    BY <2>2 DEF Folded
  <2>4. Parent[w] \in cards
    BY <1>1, <1>2, <2>1, <2>3
  <2> QED  BY <1>3, <2>4
<1>5. CASE ~Folded(w, c)
  <2>1. w \in cards
    BY <1>1, <1>2, <1>5
  <2> QED  BY <1>3, <2>1
<1> QED  BY <1>4, <1>5

THEOREM EveryOwnedIsFound == Spec => []EveryOwnedFound
<1>1. owned \subseteq Works => EveryOwnedFound
  <2> SUFFICES ASSUME owned \subseteq Works,
                      NEW hidden \in {"exclude", "include", "only"}, NEW w \in owned,
                      Shown(w, hidden)
               PROVE  LET cards == Listed([hidden |-> hidden, addons |-> "fold", wanted |-> {w}])
                      IN cards # {} /\ cards \subseteq {w, Parent[w]}
    BY DEF EveryOwnedFound
  <2> QED  BY FoundThroughACard
<1> QED  BY <1>1, OwnedAreWorks, PTL

-----------------------------------------------------------------------------
(***************************************************************************)
(* A page.  Any finite set of places, no two of one work, can be put in    *)
(* order: around one of them, those before it and those behind it.         *)
(***************************************************************************)
OnePerWork(S) == \A p, q \in S : p.id = q.id => p = q

Places == {S \in SUBSET Positions : IsFiniteSet(S) /\ OnePerWork(S)}

Sorts(o, s, S) ==
  /\ s \in [1..Cardinality(S) -> S]
  /\ \A i, j \in 1..Cardinality(S) : i < j => Before(o, s[i], s[j])

LEMMA AroundOne ==
  ASSUME NEW o \in Orders, NEW S \in Places, NEW x \in S,
         NEW L, L = {p \in S : Before(o, p, x)},
         NEW U, U = {p \in S : Before(o, x, p)}
  PROVE  /\ L \in Places /\ U \in Places
         /\ Cardinality(L) \in Nat /\ Cardinality(U) \in Nat
         /\ Cardinality(S) = Cardinality(L) + 1 + Cardinality(U)
<1>1. S \subseteq Positions /\ IsFiniteSet(S) /\ OnePerWork(S)
  BY DEF Places
<1>2. /\ S = (L \cup {x}) \cup U
      /\ x \notin L /\ (L \cup {x}) \cap U = {}
  <2>1. \A p \in S : p # x => Before(o, p, x) \/ Before(o, x, p)
    BY <1>1, OrderIsTotal DEF OnePerWork
  <2>2. \A p \in S : ~Before(o, p, p) /\ ~(Before(o, p, x) /\ Before(o, x, p))
    BY <1>1, OrderIsTotal
  <2> QED BY <2>1, <2>2
<1>3. IsFiniteSet(L) /\ IsFiniteSet(U)
  BY <1>1, FS_Subset
<1>4. Cardinality(L) \in Nat /\ Cardinality(U) \in Nat
  BY <1>3, FS_CardinalityType
<1>5. IsFiniteSet(L \cup {x}) /\ Cardinality(L \cup {x}) = Cardinality(L) + 1
  BY <1>2, <1>3, FS_AddElement
<1>6. Cardinality((L \cup {x}) \cup U) = Cardinality(L) + 1 + Cardinality(U)
  <2>1. Cardinality((L \cup {x}) \cap U) = 0
    BY <1>2, FS_EmptySet
  <2>2. Cardinality((L \cup {x}) \cup U)
          = Cardinality(L \cup {x}) + Cardinality(U) - Cardinality((L \cup {x}) \cap U)
    BY <1>3, <1>5, FS_Union
  <2> QED BY <2>1, <2>2, <1>4, <1>5
<1>7. L \in Places /\ U \in Places
  BY <1>1, <1>3 DEF Places, OnePerWork
<1> QED BY <1>2, <1>4, <1>6, <1>7

LEMMA SortedAround ==
  ASSUME NEW o \in Orders, NEW S \in Places, NEW x \in S,
         NEW L, L = {p \in S : Before(o, p, x)},
         NEW U, U = {p \in S : Before(o, x, p)},
         NEW s, Sorts(o, s, L), NEW t, Sorts(o, t, U)
  PROVE  \E r : Sorts(o, r, S)
<1> DEFINE l == Cardinality(L)
           u == Cardinality(U)
           n == Cardinality(S)
           r == [i \in 1..n |-> IF i <= l THEN s[i] ELSE IF i = l + 1 THEN x ELSE t[i - l - 1]]
<1>1. l \in Nat /\ u \in Nat /\ n = l + 1 + u
  BY AroundOne
<1>2. /\ \A i \in 1..l : s[i] \in S /\ Before(o, s[i], x)
      /\ \A i \in 1..u : t[i] \in S /\ Before(o, x, t[i])
      /\ \A i, j \in 1..l : i < j => Before(o, s[i], s[j])
      /\ \A i, j \in 1..u : i < j => Before(o, t[i], t[j])
  BY DEF Sorts
<1>3. S \subseteq Positions
  BY DEF Places
<1> HIDE DEF l, u, n
<1>4. \A i \in 1..n : /\ i <= l => i \in 1..l /\ r[i] = s[i]
                      /\ i = l + 1 => r[i] = x
                      /\ i > l + 1 => i - l - 1 \in 1..u /\ r[i] = t[i - l - 1]
  BY <1>1
<1>5. \A i \in 1..n : r[i] \in S
  BY <1>1, <1>2, <1>4
<1>6. r \in [1..n -> S]
  BY <1>5
<1> HIDE DEF r
<1>7. ASSUME NEW i \in 1..n, NEW j \in 1..n, i < j
      PROVE  Before(o, r[i], r[j])
  <2>1. CASE j <= l
    BY <1>1, <1>2, <1>4, <1>7, <2>1
  <2>2. CASE i <= l /\ j = l + 1
    BY <1>1, <1>2, <1>4, <1>7, <2>2
  <2>3. CASE i <= l /\ j > l + 1
    <3>1. r[i] \in S /\ r[j] \in S /\ Before(o, r[i], x) /\ Before(o, x, r[j])
      BY <1>1, <1>2, <1>4, <1>5, <1>7, <2>3
    <3> QED BY <3>1, <1>3, OrderIsTransitive
  <2>4. CASE i = l + 1
    BY <1>1, <1>2, <1>4, <1>7, <2>4
  <2>5. CASE i > l + 1
    <3>1. i - l - 1 \in 1..u /\ j - l - 1 \in 1..u /\ i - l - 1 < j - l - 1
      BY <1>1, <1>4, <1>7, <2>5
    <3> QED BY <3>1, <1>1, <1>2, <1>4, <1>7, <2>5
  <2> QED BY <1>1, <1>7, <2>1, <2>2, <2>3, <2>4, <2>5
<1> QED BY <1>6, <1>7 DEF Sorts, n

(* A nonempty set of numbers has a least one; the intervals 1..n are       *)
(* ordered as the numbers are.                                             *)
LEMMA LeastOne ==
  ASSUME NEW S \in SUBSET Nat, S # {}
  PROVE  \E n \in S : \A m \in S : n <= m
<1> DEFINE D == {1..n : n \in S}
<1>1. D \subseteq FiniteSubsetsOf(Nat) /\ D # {}
  <2>1. \A n \in S : 1..n \subseteq Nat /\ IsFiniteSet(1..n)
    BY FS_Interval
  <2> QED BY <2>1 DEF FiniteSubsetsOf
<1>2. PICK x \in D : \A y \in D : <<y, x>> \notin StrictSubsetOrdering(Nat)
  BY <1>1, FS_StrictSubsetOrderingWellFounded, WFMin
<1>3. PICK n \in S : x = 1..n
  OBVIOUS
<1>4. ASSUME NEW m \in S, m < n PROVE FALSE
  <2>1. 1..m \subseteq 1..n /\ n \in 1..n /\ n \notin 1..m
    BY <1>4
  <2>2. <<1..m, 1..n>> \in StrictSubsetOrdering(Nat)
    BY <2>1 DEF StrictSubsetOrdering
  <2> QED BY <1>2, <1>3, <2>2
<1> QED BY <1>4

LEMMA SortExists ==
  ASSUME NEW o \in Orders, NEW S \in Places
  PROVE  \E s : Sorts(o, s, S)
<1> DEFINE Bad == {T \in Places : ~ \E s : Sorts(o, s, T)}
           Sizes == {Cardinality(T) : T \in Bad}
<1> SUFFICES ASSUME Bad # {} PROVE FALSE
  OBVIOUS
<1>1. \A T \in Places : IsFiniteSet(T) /\ Cardinality(T) \in Nat
  BY FS_CardinalityType DEF Places
<1>2. Sizes \in SUBSET Nat /\ Sizes # {}
  BY <1>1
<1>3. PICK n \in Sizes : \A m \in Sizes : n <= m
  <2> HIDE DEF Sizes
  <2> QED BY <1>2, LeastOne
<1>4. PICK T \in Bad : Cardinality(T) = n
  BY <1>3
<1> HIDE DEF Sizes
<1>5. T # {}
  <2> SUFFICES ASSUME T = {} PROVE FALSE
    OBVIOUS
  <2>1. Cardinality(T) = 0 /\ 1..0 = {}
    BY FS_EmptySet
  <2>2. Sorts(o, [i \in 1..0 |-> i], T)
    BY <2>1 DEF Sorts
  <2> QED BY <1>4, <2>2
<1>6. PICK x \in T : TRUE
  BY <1>5
<1> DEFINE L == {p \in T : Before(o, p, x)}
           U == {p \in T : Before(o, x, p)}
<1>7. /\ L \in Places /\ U \in Places
      /\ Cardinality(L) \in Nat /\ Cardinality(U) \in Nat
      /\ Cardinality(T) = Cardinality(L) + 1 + Cardinality(U)
  <2>1. T \in Places
    BY <1>4
  <2> HIDE DEF Bad
  <2> QED BY <1>6, <2>1, AroundOne
<1> HIDE DEF L, U
<1>8. L \notin Bad /\ U \notin Bad
  BY <1>3, <1>4, <1>7 DEF Sizes
<1>9. PICK s, t : Sorts(o, s, L) /\ Sorts(o, t, U)
  BY <1>7, <1>8
<1>10. \E r : Sorts(o, r, T)
  BY <1>4, <1>6, <1>9, SortedAround DEF L, U
<1> QED BY <1>4, <1>10

(* What a page is read in: all of the places, once each, in order.         *)
LEMMA InOrderIs ==
  ASSUME NEW o \in Orders, NEW S \in Places, NEW s, s = InOrder(o, S)
  PROVE  /\ s \in Seq(S) /\ Range(s) = S
         /\ Len(s) \in Nat /\ DOMAIN s = 1..Len(s)
         /\ \A i, j \in 1..Len(s) : i < j => Before(o, s[i], s[j])
<1> DEFINE n == Cardinality(S)
<1>1. n \in Nat /\ IsFiniteSet(S) /\ S \subseteq Positions
  BY FS_CardinalityType DEF Places
<1>2. s \in [1..n -> S] /\ \A i, j \in DOMAIN s : i < j => Before(o, s[i], s[j])
  <2>1. \E r \in [1..n -> S] : \A i, j \in DOMAIN r : i < j => Before(o, r[i], r[j])
    BY SortExists DEF Sorts
  <2> HIDE DEF n
  <2> QED BY <2>1 DEF InOrder, n
<1>3. DOMAIN s = 1..n /\ s \in Seq(S) /\ Len(s) = n
  BY <1>1, <1>2, IsASeq, LenProperties
<1>4. s \in Injection(1..n, S)
  <2>1. ASSUME NEW i \in 1..n, NEW j \in 1..n, s[i] = s[j], i # j PROVE FALSE
    BY <1>1, <1>2, <1>3, <2>1, OrderIsTotal
  <2> QED BY <1>2, <2>1 DEF Injection, IsInjective
<1>5. s \in Surjection(1..n, S)
  <2>1. Cardinality(1..n) = n
    BY <1>1, FS_Interval
  <2> QED BY <1>1, <1>4, <2>1, FS_Injection
<1>6. Range(s) = S
  BY <1>2, <1>3, <1>5 DEF Surjection, Range
<1> QED BY <1>1, <1>2, <1>3, <1>6

(***************************************************************************)
(* The walk.  What its variables hold: the request with its cursor, the    *)
(* rows of its page, and which works it may not lose.                      *)
(***************************************************************************)
AnyChoice == Filters \cup {CHOOSE c \in Filters : TRUE}

Walks == [at : {"idle", "asked", "read", "page", "done", "refused"},
          order : Orders, choice : AnyChoice, cursor : Positions \cup {Null},
          rows : Seq(Positions), more : BOOLEAN]

WalkShape ==
  /\ owned \subseteq Works
  /\ state \in [Works -> States \cup {Null}]
  /\ walk \in Walks
  /\ seen \in Seq(Works)
  /\ stable \subseteq Listed(walk.choice)
  /\ walk.at = "idle" => seen = <<>> /\ stable = {} /\ walk.cursor = Null

At(w) == Position(walk.order, w)

(* What is behind the cursor: the works met are in order, none of them is  *)
(* past it, and no work that may not be lost is left out.  A cursor of     *)
(* such a work is where the work is.                                       *)
Met == {i \in DOMAIN seen : seen[i] \in stable}

Reached(w) == walk.cursor # Null /\ (At(w) = walk.cursor \/ Before(walk.order, At(w), walk.cursor))

MetInOrder == \A i, j \in Met : i < j => Before(walk.order, At(seen[i]), At(seen[j]))

BehindCursor ==
  walk.at # "done" =>
    /\ \A i \in Met : Reached(seen[i])
    /\ \A w \in stable : Reached(w) => w \in Range(seen)
    /\ \A w \in stable : walk.cursor # Null /\ walk.cursor.id = w => walk.cursor = At(w)

(* What the page has read: places past the cursor, in order, one of each   *)
(* work; of the works that may not be lost all that the page has room for. *)
RowsAscend ==
  /\ \A i, j \in DOMAIN walk.rows : i < j => Before(walk.order, walk.rows[i], walk.rows[j])
  /\ \A i, j \in DOMAIN walk.rows : walk.rows[i].id = walk.rows[j].id => i = j

RowsAreAhead ==
  \A i \in DOMAIN walk.rows :
    /\ walk.rows[i].id \in Works
    /\ walk.cursor # Null => Before(walk.order, walk.cursor, walk.rows[i])
    /\ \A w \in stable : walk.rows[i].id = w => walk.rows[i] = At(w)

PageIsFull ==
  /\ \A w \in stable :
       (walk.cursor = Null \/ Before(walk.order, walk.cursor, At(w))) =>
         \/ At(w) \in Range(walk.rows)
         \/ walk.more /\ Before(walk.order, walk.rows[Len(walk.rows)], At(w))
  /\ walk.more => walk.rows # <<>>

PageIsNext == walk.at = "read" => RowsAscend /\ RowsAreAhead /\ PageIsFull

WholeWhenDone == walk.at = "done" => stable \subseteq Range(seen)

Walking == WalkShape /\ MetInOrder /\ BehindCursor /\ PageIsNext /\ WholeWhenDone

LEMMA PlaceOf ==
  ASSUME state \in [Works -> States \cup {Null}], NEW o \in Orders, NEW w \in Works
  PROVE  Position(o, w) \in Positions /\ Position(o, w).id = w
<1>1. Key[w] \in Int /\ w \in Int
  BY WorksAssumption
<1>2. ValueOf(o, w) \in Int \cup {Null}
  <2>1. CASE o.sort = "title" \/ state[w] = Null
    BY <2>1 DEF ValueOf
  <2>2. CASE ~(o.sort = "title" \/ state[w] = Null)
    <3>1. state[w] \in States
      BY <2>2
    <3> QED BY <2>2, <3>1, StartsAssumption DEF ValueOf, States
  <2> QED BY <2>1, <2>2
<1> QED BY <1>1, <1>2 DEF Position, Positions

LEMMA PlacesOfWorks ==
  ASSUME state \in [Works -> States \cup {Null}], NEW o \in Orders, NEW W \in SUBSET Works,
         NEW S \in SUBSET {Position(o, w) : w \in W}
  PROVE  S \in Places
<1> DEFINE all == {Position(o, w) : w \in W}
           f == [w \in W |-> Position(o, w)]
<1>1. \A w \in W : Position(o, w) \in Positions /\ Position(o, w).id = w
  BY PlaceOf
<1>2. IsFiniteSet(W)
  BY WorksAssumption, FS_Subset
<1>3. f \in Surjection(W, all)
  BY DEF Surjection
<1>4. IsFiniteSet(all)
  <2> HIDE DEF f, all
  <2> QED BY <1>2, <1>3, FS_Surjection
<1>5. IsFiniteSet(S)
  BY <1>4, FS_Subset
<1>6. S \subseteq Positions /\ OnePerWork(S)
  BY <1>1 DEF OnePerWork
<1> QED BY <1>5, <1>6 DEF Places

(* A page is read: what follows the cursor, as far as the page goes.       *)
LEMMA ReadWalks ==
  ASSUME Walking, Read
  PROVE  Walking'
<1> DEFINE o == walk.order
           C == walk.cursor
           S == Past(o, C, {Position(o, w) : w \in Listed(walk.choice)})
           found == InOrder(o, S)
           rows == IF Len(found) > Limit THEN SubSeq(found, 1, Limit) ELSE found
<1>1. /\ walk \in Walks /\ o \in Orders /\ C \in Positions \cup {Null}
      /\ state \in [Works -> States \cup {Null}] /\ Limit \in Nat \ {0}
      /\ Listed(walk.choice) \subseteq Works /\ stable \subseteq Listed(walk.choice)
  BY LimitAssumption DEF Walking, WalkShape, Walks, Listed
<1>2. /\ walk.at = "asked"
      /\ walk' = [walk EXCEPT !.at = "read", !.more = Len(found) > Limit, !.rows = rows]
      /\ UNCHANGED <<owned, state, seen, stable, changes>>
  BY DEF Read, Rows
<1>3. S \in Places /\ S \subseteq {Position(o, w) : w \in Listed(walk.choice)}
  BY <1>1, PlacesOfWorks DEF Past
<1>4. /\ found \in Seq(S) /\ Range(found) = S
      /\ Len(found) \in Nat /\ DOMAIN found = 1..Len(found)
      /\ \A i, j \in 1..Len(found) : i < j => Before(o, found[i], found[j])
  <2> HIDE DEF S, o
  <2> QED BY <1>1, <1>3, InOrderIs
<1>5. S \subseteq Positions
  BY <1>3 DEF Places
<1> HIDE DEF found
<1>6. \A i \in 1..Len(found) : found[i] \in S
  BY <1>4, ElementOfSeq
<1>7. /\ rows \in Seq(Positions)
      /\ Len(rows) \in Nat /\ DOMAIN rows = 1..Len(rows) /\ Len(rows) <= Len(found)
      /\ Len(rows) = IF Len(found) > Limit THEN Limit ELSE Len(found)
      /\ \A i \in 1..Len(rows) : rows[i] = found[i]
  <2>1. found \in Seq(Positions)
    BY <1>4, <1>5
  <2>2. CASE Len(found) > Limit
    BY <1>1, <1>4, <1>6, <2>1, <2>2, SubSeqProperties, LenProperties
  <2>3. CASE ~(Len(found) > Limit)
    BY <1>1, <1>4, <2>1, <2>3
  <2> QED BY <2>2, <2>3
<1> HIDE DEF rows, S
<1>8. /\ walk' \in Walks /\ walk'.at = "read" /\ walk'.order = o /\ walk'.cursor = C
      /\ walk'.choice = walk.choice
      /\ walk'.rows = rows /\ walk'.more = (Len(found) > Limit)
  <2>1. (Len(found) > Limit) \in BOOLEAN
    BY <1>1, <1>4
  <2> HIDE DEF o, C
  <2> QED BY <1>1, <1>2, <1>7, <2>1 DEF Walks, o, C
<1> HIDE DEF o, C
<1>9. /\ \A w : At(w)' = At(w)
      /\ Met' = Met /\ Listed(walk.choice)' = Listed(walk.choice)
      /\ \A w : Reached(w)' <=> Reached(w)
  <2>1. \A w : ValueOf(o, w)' = ValueOf(o, w)
    BY <1>2, <1>8 DEF ValueOf, o
  <2>2. \A w : At(w)' = At(w)
    BY <1>2, <1>8, <2>1 DEF At, Position, o
  <2>3. Listed(walk.choice)' = Listed(walk.choice)
    <3>1. owned' = owned /\ state' = state /\ walk'.choice = walk.choice
      BY <1>2, <1>8
    <3> QED BY <3>1 DEF Listed, Wanted, Shown, Folded, IsHidden
  <2> QED BY <1>2, <1>8, <2>2, <2>3 DEF Met, Reached, o, C
<1>10. WalkShape'
  BY <1>2, <1>8, <1>9 DEF Walking, WalkShape
<1>11. MetInOrder' /\ BehindCursor' /\ WholeWhenDone'
  BY <1>2, <1>8, <1>9 DEF Walking, MetInOrder, BehindCursor, WholeWhenDone, o, C
<1>12. PageIsNext'
  <2>1. \A w \in Listed(walk.choice) : At(w) \in Positions /\ At(w).id = w
    BY <1>1, PlaceOf DEF At, o
  <2>2. \A p \in S : p \in Positions /\ p.id \in Works /\ p = At(p.id)
                     /\ (C # Null => Before(o, C, p))
    <3> SUFFICES ASSUME NEW p \in S
                 PROVE  p \in Positions /\ p.id \in Works /\ p = At(p.id)
                        /\ (C # Null => Before(o, C, p))
      OBVIOUS
    <3>1. PICK w \in Listed(walk.choice) : p = At(w)
      BY <1>3 DEF At, o
    <3>2. C # Null => After(o, p, C)
      BY DEF Past, S
    <3> QED BY <1>1, <2>1, <3>1, <3>2, CursorReadsTheOrder DEF o, C
  <2>3. \A w \in stable : (C = Null \/ Before(o, C, At(w))) => At(w) \in S
    <3> SUFFICES ASSUME NEW w \in stable, C = Null \/ Before(o, C, At(w))
                 PROVE  At(w) \in S
      OBVIOUS
    <3>1. w \in Listed(walk.choice) /\ At(w) \in Positions
      BY <1>1, <2>1
    <3>2. C = Null \/ After(o, At(w), C)
      BY <1>1, <3>1, CursorReadsTheOrder DEF o, C
    <3> QED BY <3>1, <3>2 DEF Past, At, o, S
  <2>4. \A i, j \in DOMAIN rows : i < j => Before(o, rows[i], rows[j])
    BY <1>4, <1>7
  <2>5. \A i, j \in DOMAIN rows : rows[i].id = rows[j].id => i = j
    <3> SUFFICES ASSUME NEW i \in DOMAIN rows, NEW j \in DOMAIN rows, rows[i].id = rows[j].id,
                        i < j
                 PROVE  FALSE
      BY <1>7
    <3>1. rows[i] = rows[j] /\ rows[i] \in Positions
      BY <1>6, <1>7, <2>2
    <3>2. Before(o, rows[i], rows[i])
      BY <2>4, <3>1
    <3> QED BY <1>1, <3>1, <3>2, OrderIsTotal DEF o
  <2>6. \A i \in DOMAIN rows :
          /\ rows[i].id \in Works
          /\ C # Null => Before(o, C, rows[i])
          /\ \A w \in stable : rows[i].id = w => rows[i] = At(w)
    BY <1>6, <1>7, <2>2
  <2>7. ASSUME NEW w \in stable, C = Null \/ Before(o, C, At(w))
        PROVE  \/ At(w) \in Range(rows)
               \/ Len(found) > Limit /\ Before(o, rows[Len(rows)], At(w))
    <3>1. PICK i \in 1..Len(found) : found[i] = At(w)
      BY <1>4, <2>3, <2>7 DEF Range
    <3>2. CASE i <= Len(rows)
      <4>1. i \in DOMAIN rows /\ rows[i] = At(w)
        BY <1>7, <3>1, <3>2
      <4> QED BY <4>1 DEF Range
    <3>3. CASE i > Len(rows)
      BY <1>1, <1>4, <1>7, <3>1, <3>3
    <3> QED BY <1>7, <3>2, <3>3
  <2>8. Len(found) > Limit => rows # <<>>
    BY <1>1, <1>7
  <2>9. \A w : At(w)' = At(w)
    BY <1>9
  <2>10. /\ walk'.order = o /\ walk'.cursor = C /\ walk'.rows = rows /\ stable' = stable
         /\ walk'.more = (Len(found) > Limit)
    BY <1>2, <1>8
  <2> HIDE DEF o, C
  <2>11. RowsAscend'
    BY <2>4, <2>5, <2>10 DEF RowsAscend
  <2>12. RowsAreAhead'
    BY <2>6, <2>9, <2>10 DEF RowsAreAhead
  <2>13. PageIsFull'
    BY <2>7, <2>8, <2>9, <2>10 DEF PageIsFull
  <2> QED BY <2>11, <2>12, <2>13 DEF PageIsNext
<1> QED BY <1>10, <1>11, <1>12 DEF Walking

(* Every work that may not be lost is already met, or is past the cursor.  *)
LEMMA MetOrAhead ==
  ASSUME Walking, walk.at # "done", NEW w \in stable
  PROVE  /\ At(w) \in Positions /\ At(w).id = w /\ w \in Works /\ w \in owned
         /\ w \in Range(seen) \/ walk.cursor = Null \/ Before(walk.order, walk.cursor, At(w))
<1>1. /\ walk.order \in Orders /\ walk.cursor \in Positions \cup {Null}
      /\ w \in owned /\ w \in Works /\ state \in [Works -> States \cup {Null}]
  BY DEF Walking, WalkShape, Walks, Listed
<1>2. At(w) \in Positions /\ At(w).id = w
  BY <1>1, PlaceOf DEF At
<1>3. ASSUME walk.cursor # Null, w \notin Range(seen)
      PROVE  Before(walk.order, walk.cursor, At(w))
  <2>1. ~Reached(w) /\ (walk.cursor.id = w => walk.cursor = At(w))
    BY <1>3 DEF Walking, BehindCursor
  <2>2. walk.cursor.id # At(w).id /\ ~Before(walk.order, At(w), walk.cursor)
    BY <1>2, <1>3, <2>1 DEF Reached
  <2> QED BY <1>1, <1>2, <1>3, <2>2, OrderIsTotal
<1> QED BY <1>1, <1>2, <1>3

(* The page is answered: its rows that are still owned are met.            *)
LEMMA AnswerWalks ==
  ASSUME Walking, Answer
  PROVE  Walking'
<1> DEFINE o == walk.order
           C == walk.cursor
           rows == walk.rows
           K == {p \in Range(rows) : p.id \in owned}
           kept == InOrder(o, K)
           ids == [i \in DOMAIN kept |-> kept[i].id]
           last == rows[Len(rows)]
           n == Len(seen)
<1>1. /\ walk \in Walks /\ o \in Orders /\ C \in Positions \cup {Null} /\ rows \in Seq(Positions)
      /\ walk.more \in BOOLEAN
      /\ seen \in Seq(Works)
      /\ RowsAscend /\ RowsAreAhead /\ PageIsFull
  BY DEF Walking, WalkShape, Walks, PageIsNext, Answer
<1>2. /\ walk.at = "read"
      /\ seen' = seen \o ids
      /\ walk' = [walk EXCEPT !.at = IF walk.more /\ last # Null THEN "page" ELSE "done",
                              !.cursor = IF walk.more THEN last ELSE Null,
                              !.rows = <<>>]
      /\ UNCHANGED <<owned, state, stable, changes>>
  BY DEF Answer, NextCursor
<1>3. Len(rows) \in Nat /\ DOMAIN rows = 1..Len(rows) /\ \A i \in 1..Len(rows) : rows[i] \in Positions
  BY <1>1, LenProperties, ElementOfSeq
<1>4. K \in Places
  <2>1. IsFiniteSet(Range(rows))
    <3>1. IsFiniteSet(1..Len(rows))
      BY <1>3, FS_Interval
    <3>2. rows \in Surjection(1..Len(rows), Range(rows))
      BY <1>1, <1>3 DEF Surjection, Range
    <3> HIDE DEF rows
    <3> QED BY <3>1, <3>2, FS_Surjection
  <2>2. IsFiniteSet(K)
    BY <2>1, FS_Subset
  <2>3. K \subseteq Positions
    BY <1>3 DEF Range
  <2>4. OnePerWork(K)
    BY <1>1 DEF OnePerWork, RowsAscend, Range
  <2> QED BY <2>2, <2>3, <2>4 DEF Places
<1>5. /\ kept \in Seq(K) /\ Range(kept) = K
      /\ Len(kept) \in Nat /\ DOMAIN kept = 1..Len(kept)
      /\ \A i, j \in 1..Len(kept) : i < j => Before(o, kept[i], kept[j])
  <2> HIDE DEF K, o
  <2> QED BY <1>1, <1>4, InOrderIs
<1> HIDE DEF kept
<1> DEFINE m == Len(kept)
<1>6. \A i \in 1..m : kept[i] \in K
  BY <1>5, ElementOfSeq
<1>7. \A p \in K : /\ p \in Positions /\ p.id \in Works /\ p.id \in owned
                   /\ (C # Null => Before(o, C, p))
                   /\ \A w \in stable : p.id = w => p = At(w)
                   /\ \E k \in 1..Len(rows) : p = rows[k]
  BY <1>1, <1>3 DEF RowsAreAhead, Range
<1>8. n \in Nat /\ m \in Nat /\ ids \in Seq(Works) /\ Len(ids) = m /\ \A i \in 1..m : ids[i] = kept[i].id
  <2>1. ids \in [1..m -> Works]
    BY <1>5, <1>6, <1>7
  <2> QED BY <1>1, <1>5, <2>1, IsASeq, LenProperties
<1> HIDE DEF ids, K
<1>9. /\ seen' \in Seq(Works) /\ DOMAIN seen' = 1..(n + m) /\ DOMAIN seen = 1..n
      /\ \A i \in 1..n : seen'[i] = seen[i]
      /\ \A i \in (n + 1)..(n + m) : i - n \in 1..m /\ seen'[i] = kept[i - n].id
  <2>1. /\ seen' \in Seq(Works) /\ Len(seen') = n + m
        /\ \A i \in 1..(n + m) : seen'[i] = IF i <= n THEN seen[i] ELSE ids[i - n]
    <3>1. seen \in Seq(Works) /\ ids \in Seq(Works) /\ seen' = seen \o ids /\ m = Len(ids)
      BY <1>1, <1>2, <1>8
    <3> HIDE DEF m
    <3>2. seen' \in Seq(Works)
      BY <3>1, ConcatProperties
    <3>3. Len(seen') = Len(seen) + Len(ids)
      BY <3>1, ConcatProperties
    <3>4. \A i \in 1..(Len(seen) + Len(ids)) : seen'[i] = IF i <= Len(seen) THEN seen[i] ELSE ids[i - Len(seen)]
      BY <3>1, ConcatProperties
    <3> QED BY <3>1, <3>2, <3>3, <3>4
  <2>2. \A i \in (n + 1)..(n + m) : i - n \in 1..m /\ i \in 1..(n + m) /\ ~(i <= n)
    BY <1>8
  <2>3. \A i \in 1..n : i \in 1..(n + m) /\ i <= n
    BY <1>8
  <2>4. DOMAIN seen' = 1..(n + m) /\ DOMAIN seen = 1..n
    BY <1>1, <2>1, LenProperties
  <2> HIDE DEF n, m
  <2> QED BY <1>8, <2>1, <2>2, <2>3, <2>4
<1> HIDE DEF n, m
<1>10. walk.more => rows # <<>> /\ Len(rows) \in 1..Len(rows) /\ last \in Positions /\ last # Null
  <2>1. walk.more => rows # <<>>
    BY <1>1 DEF PageIsFull
  <2>2. rows # <<>> => Len(rows) # 0
    BY <1>1, EmptySeq
  <2> QED BY <1>3, <2>1, <2>2, NullAssumption
<1>11. /\ walk' \in Walks /\ walk'.order = o /\ walk'.choice = walk.choice
       /\ walk'.at \in {"page", "done"} /\ (walk'.at = "page" <=> walk.more)
       /\ walk.more => walk'.cursor = last
  <2> HIDE DEF o, C, last
  <2>1. <<>> \in Seq(Positions)
    BY EmptySeq
  <2>2. walk.more => last \in Positions /\ last # Null
    BY <1>10
  <2> QED BY <1>1, <1>2, <2>1, <2>2 DEF Walks, o
<1>12. /\ \A w : At(w)' = At(w)
       /\ Listed(walk.choice)' = Listed(walk.choice)
  <2>1. owned' = owned /\ state' = state /\ walk'.choice = walk.choice /\ walk'.order = walk.order
    BY <1>2, <1>11
  <2> QED BY <2>1 DEF At, Position, ValueOf, Listed, Wanted, Shown, Folded, IsHidden
<1>13. \A w \in stable : /\ At(w) \in Positions /\ At(w).id = w /\ w \in owned
                         /\ w \in Range(seen) \/ C = Null \/ Before(o, C, At(w))
  BY <1>2, MetOrAhead
<1>14. \A w \in Range(seen) : w \in Range(seen')
  <2>1. \A i \in 1..n : i \in 1..(n + m)
    BY <1>8
  <2> QED BY <1>9, <2>1 DEF Range
<1>15. ASSUME NEW w \in stable, At(w) \in Range(rows)
       PROVE  w \in Range(seen')
  <2>1. At(w) \in K
    BY <1>13, <1>15 DEF K
  <2>2. PICK a \in 1..m : kept[a] = At(w)
    BY <1>5, <2>1 DEF Range, m
  <2>3. n + a \in (n + 1)..(n + m) /\ n + a \in 1..(n + m) /\ (n + a) - n = a
    BY <1>8
  <2>4. seen'[n + a] = w
    BY <1>9, <1>13, <2>2, <2>3
  <2> QED BY <1>9, <2>3, <2>4 DEF Range
<1>16. \A i \in Met' : \/ i \in 1..n /\ i \in Met /\ seen'[i] = seen[i]
                       \/ /\ i \in (n + 1)..(n + m) /\ i - n \in 1..m
                          /\ kept[i - n] \in K /\ kept[i - n] = At(seen'[i]) /\ seen'[i] \in stable
  <2> SUFFICES ASSUME NEW i \in Met'
               PROVE  \/ i \in 1..n /\ i \in Met /\ seen'[i] = seen[i]
                      \/ /\ i \in (n + 1)..(n + m) /\ i - n \in 1..m
                         /\ kept[i - n] \in K /\ kept[i - n] = At(seen'[i]) /\ seen'[i] \in stable
    OBVIOUS
  <2>1. i \in 1..(n + m) /\ seen'[i] \in stable
    BY <1>2, <1>9 DEF Met
  <2>2. i \in 1..n \/ i \in (n + 1)..(n + m)
    BY <1>8, <2>1
  <2>3. CASE i \in 1..n
    BY <1>9, <2>1, <2>3 DEF Met
  <2>4. CASE i \in (n + 1)..(n + m)
    <3>1. i - n \in 1..m /\ seen'[i] = kept[i - n].id /\ kept[i - n] \in K
      BY <1>6, <1>9, <2>4
    <3> QED BY <1>7, <2>1, <2>4, <3>1
  <2> QED BY <2>2, <2>3, <2>4
<1>17. \A i \in Met : seen[i] \in stable /\ Reached(seen[i])
  BY <1>2 DEF Walking, BehindCursor, Met
<1>18. WalkShape'
  <2>1. owned' = owned /\ state' = state /\ stable' = stable
    BY <1>2
  <2> QED BY <1>9, <1>11, <1>12, <2>1 DEF Walking, WalkShape
<1>19. ASSUME NEW i \in Met', NEW j \in Met', i < j
       PROVE  Before(o, At(seen'[i]), At(seen'[j]))
  <2>1. CASE i \in Met /\ seen'[i] = seen[i] /\ j \in Met /\ seen'[j] = seen[j]
    BY <1>19, <2>1 DEF Walking, MetInOrder
  <2>2. CASE /\ i \in Met /\ seen'[i] = seen[i]
             /\ kept[j - n] \in K /\ kept[j - n] = At(seen'[j])
    <3>1. C # Null /\ Before(o, C, At(seen'[j])) /\ At(seen'[j]) \in Positions
      BY <1>7, <1>17, <2>2 DEF Reached
    <3>2. At(seen[i]) = C \/ Before(o, At(seen[i]), C)
      BY <1>17, <2>2 DEF Reached
    <3>3. At(seen[i]) \in Positions /\ C \in Positions
      BY <1>1, <1>13, <1>17, <2>2, <3>1
    <3> QED BY <1>1, <2>2, <3>1, <3>2, <3>3, OrderIsTransitive
  <2>3. CASE /\ i - n \in 1..m /\ kept[i - n] = At(seen'[i])
             /\ j - n \in 1..m /\ kept[j - n] = At(seen'[j])
             /\ i \in (n + 1)..(n + m) /\ j \in (n + 1)..(n + m)
    <3>1. i - n < j - n
      BY <1>8, <1>19, <2>3
    <3> QED BY <1>5, <2>3, <3>1 DEF m
  <2>4. ~(i \in (n + 1)..(n + m) /\ j \in 1..n)
    BY <1>8, <1>19
  <2> HIDE DEF o
  <2> QED BY <1>16, <2>1, <2>2, <2>3, <2>4
<1>20. MetInOrder'
  <2> HIDE DEF o
  <2>1. Met' \subseteq DOMAIN seen'
    BY DEF Met
  <2> QED BY <1>11, <1>12, <1>19 DEF MetInOrder
<1>21. ASSUME walk.more, NEW i \in Met'
       PROVE  At(seen'[i]) = last \/ Before(o, At(seen'[i]), last)
  <2>1. last \in Positions /\ Len(rows) \in 1..Len(rows)
    BY <1>10, <1>21
  <2>2. CASE i \in Met /\ seen'[i] = seen[i]
    <3>1. C # Null /\ C \in Positions /\ (At(seen[i]) = C \/ Before(o, At(seen[i]), C))
      BY <1>1, <1>17, <2>2 DEF Reached
    <3>2. Before(o, C, last)
      BY <1>1, <1>3, <2>1, <3>1 DEF RowsAreAhead
    <3>3. At(seen[i]) \in Positions
      BY <1>13, <1>17, <2>2
    <3> QED BY <1>1, <2>1, <2>2, <3>1, <3>2, <3>3, OrderIsTransitive
  <2>3. CASE kept[i - n] \in K /\ kept[i - n] = At(seen'[i])
    <3>1. PICK k \in 1..Len(rows) : At(seen'[i]) = rows[k]
      BY <1>7, <2>3
    <3>2. k = Len(rows) \/ k < Len(rows)
      BY <1>3
    <3> QED BY <1>1, <1>3, <2>1, <3>1, <3>2 DEF RowsAscend
  <2> QED BY <1>16, <2>2, <2>3
<1>22. ASSUME NEW w \in stable, ~walk.more \/ At(w) = last \/ Before(o, At(w), last)
       PROVE  w \in Range(seen')
  <2>1. CASE w \in Range(seen)
    BY <1>14, <2>1
  <2>2. CASE C = Null \/ Before(o, C, At(w))
    <3>1. At(w) \in Range(rows) \/ (walk.more /\ Before(o, last, At(w)))
      BY <1>1, <2>2 DEF PageIsFull
    <3>2. walk.more => last \in Positions
      BY <1>10
    <3>3. ~(walk.more /\ Before(o, last, At(w)))
      BY <1>1, <1>13, <1>22, <3>2, OrderIsTotal
    <3> QED BY <1>15, <3>1, <3>3
  <2> QED BY <1>13, <2>1, <2>2
<1>23. BehindCursor'
  <2> SUFFICES ASSUME walk.more
               PROVE  BehindCursor'
    BY <1>11 DEF BehindCursor
  <2>1. walk'.cursor = last /\ walk'.order = o /\ stable' = stable /\ last # Null
    BY <1>2, <1>10, <1>11
  <2>2. \A w : Reached(w)' <=> At(w) = last \/ Before(o, At(w), last)
    <3> HIDE DEF o, last
    <3> QED BY <1>12, <2>1 DEF Reached
  <2>3. \A w \in stable : last.id = w => last = At(w)
    BY <1>1, <1>3, <1>10 DEF RowsAreAhead
  <2>4. (\A i \in Met : Reached(seen[i]))'
    <3> HIDE DEF o, last
    <3> QED BY <1>12, <1>21, <2>1 DEF Reached
  <2> HIDE DEF o, last
  <2> QED BY <1>12, <1>22, <2>1, <2>2, <2>3, <2>4 DEF BehindCursor
<1>24. WholeWhenDone'
  <2>1. stable' = stable
    BY <1>2
  <2> QED BY <1>11, <1>22, <2>1 DEF WholeWhenDone
<1>25. PageIsNext'
  BY <1>11 DEF PageIsNext
<1> QED BY <1>18, <1>20, <1>23, <1>24, <1>25 DEF Walking

(* The client asks: nothing is met, and what is listed may not be lost.    *)
LEMMA StartWalks ==
  ASSUME Walking, NEW o \in Orders, NEW c \in Filters, Start(o, c)
  PROVE  Walking'
<1>1. /\ walk \in Walks /\ walk.at = "idle" /\ seen = <<>> /\ walk.cursor = Null
      /\ owned \subseteq Works /\ state \in [Works -> States \cup {Null}]
  BY DEF Walking, WalkShape, Start
<1>2. /\ walk' = [walk EXCEPT !.at = "asked", !.order = o, !.choice = c]
      /\ stable' = Listed(c) /\ owned' = owned /\ state' = state /\ seen' = <<>>
  BY <1>1 DEF Start
<1>3. /\ walk' \in Walks /\ walk'.at = "asked" /\ walk'.order = o /\ walk'.choice = c
      /\ walk'.cursor = Null
  BY <1>1, <1>2 DEF Walks, AnyChoice
<1>4. Listed(walk.choice)' = Listed(c)
  BY <1>2, <1>3 DEF Listed, Wanted, Shown, Folded, IsHidden
<1>5. seen' \in Seq(Works) /\ DOMAIN seen' = {}
  BY <1>2, EmptySeq
<1>6. WalkShape'
  BY <1>1, <1>2, <1>3, <1>4, <1>5 DEF WalkShape
<1>7. Met' = {}
  BY <1>5 DEF Met
<1>8. \A w : ~Reached(w)'
  BY <1>3 DEF Reached
<1>9. MetInOrder'
  BY <1>7 DEF MetInOrder
<1>10. BehindCursor'
  BY <1>3, <1>7, <1>8 DEF BehindCursor
<1>11. PageIsNext' /\ WholeWhenDone'
  BY <1>3 DEF PageIsNext, WholeWhenDone
<1> QED BY <1>6, <1>9, <1>10, <1>11 DEF Walking

(* The client sends its cursor back.                                       *)
LEMMA FollowWalks ==
  ASSUME Walking, NEW o \in Orders, Follow(o)
  PROVE  Walking'
<1>1. walk \in Walks /\ walk.at = "page"
  BY DEF Walking, WalkShape, Follow
<1>2. /\ UNCHANGED <<owned, state, seen, stable>>
      /\ walk' \in Walks /\ walk'.at \in {"asked", "refused"}
      /\ walk'.order = walk.order /\ walk'.choice = walk.choice /\ walk'.cursor = walk.cursor
  BY <1>1 DEF Follow, Accepts, Walks
<1>3. /\ \A w : At(w)' = At(w)
      /\ Listed(walk.choice)' = Listed(walk.choice)
  BY <1>2 DEF At, Position, ValueOf, Listed, Wanted, Shown, Folded, IsHidden
<1>4. WalkShape'
  BY <1>2, <1>3 DEF Walking, WalkShape
<1>5. Met' = Met /\ \A w : Reached(w)' <=> Reached(w)
  BY <1>2, <1>3 DEF Met, Reached
<1>6. MetInOrder' /\ BehindCursor'
  BY <1>1, <1>2, <1>3, <1>5 DEF Walking, MetInOrder, BehindCursor
<1>7. PageIsNext' /\ WholeWhenDone'
  BY <1>2 DEF PageIsNext, WholeWhenDone
<1> QED BY <1>4, <1>6, <1>7 DEF Walking

(* The library changes: what keeps its card and its place stays where it   *)
(* is, and only that may not be lost.                                      *)
LEMMA ChangeWalks ==
  ASSUME Walking, Change, (owned \subseteq Works)', (state \in [Works -> States \cup {Null}])'
  PROVE  Walking'
<1>1. /\ walk' = walk /\ seen' = seen /\ walk.at # "idle"
      /\ stable' \subseteq stable /\ stable' \subseteq Listed(walk.choice)'
      /\ \A w \in stable' : At(w)' = At(w)
  BY DEF Change, Stands, At
<1>2. WalkShape'
  BY <1>1 DEF Walking, WalkShape
<1>3. /\ Met' \subseteq Met /\ \A i \in Met' : seen[i] \in stable'
      /\ \A w \in stable' : Reached(w)' <=> Reached(w)
  BY <1>1 DEF Met, Reached
<1>4. MetInOrder'
  BY <1>1, <1>3 DEF Walking, MetInOrder
<1>5. BehindCursor'
  BY <1>1, <1>3 DEF Walking, BehindCursor
<1>6. PageIsNext'
  <2> SUFFICES ASSUME walk.at = "read"
               PROVE  PageIsNext'
    BY <1>1 DEF PageIsNext
  <2>1. RowsAscend /\ RowsAreAhead /\ PageIsFull
    BY DEF Walking, PageIsNext
  <2>2. RowsAscend'
    BY <1>1, <2>1 DEF RowsAscend
  <2>3. RowsAreAhead'
    BY <1>1, <2>1 DEF RowsAreAhead
  <2>4. PageIsFull'
    BY <1>1, <2>1 DEF PageIsFull
  <2> QED BY <2>2, <2>3, <2>4 DEF PageIsNext
<1>7. WholeWhenDone'
  BY <1>1 DEF Walking, WholeWhenDone
<1> QED BY <1>2, <1>4, <1>5, <1>6, <1>7 DEF Walking

LEMMA WalkingStep ==
  ASSUME Walking, [Next]_vars
  PROVE  Walking'
<1>1. owned \subseteq Works /\ state \in [Works -> States \cup {Null}]
  BY DEF Walking, WalkShape
<1>2. ASSUME NEW w \in Works, Land(w) \/ Withdraw(w) \/ Played(w) \/ SetHidden(w)
      PROVE  Walking'
  <2>1. Change
    BY <1>2 DEF Land, Withdraw, Played, SetHidden
  <2>2. (owned \subseteq Works)'
    BY <1>1, <1>2 DEF Land, Withdraw, Played, SetHidden
  <2>3. \/ state' = state
        \/ \E r \in States : state' = [state EXCEPT ![w] = r]
    <3>1. Row(w) \in States
      BY <1>1, StartsAssumption DEF Row, Fresh, States
    <3>2. CASE Land(w)
      BY <3>1, <3>2 DEF Land
    <3>3. CASE Withdraw(w)
      BY <3>3 DEF Withdraw
    <3>4. CASE Played(w)
      <4>1. state[w] \in States /\ state[w].minutes < MaxMinutes
        BY <1>1, <3>4 DEF Played
      <4>2. state' = [state EXCEPT ![w] = [state[w] EXCEPT !.minutes = @ + 1]]
        BY <3>4 DEF Played
      <4>3. [state[w] EXCEPT !.minutes = @ + 1] \in States
        BY <4>1, StartsAssumption DEF States
      <4> QED BY <4>2, <4>3
    <3>5. CASE SetHidden(w)
      <4>1. state' = [state EXCEPT ![w] = [Row(w) EXCEPT !.hidden = ~@]]
        BY <3>5 DEF SetHidden
      <4>2. [Row(w) EXCEPT !.hidden = ~@] \in States
        BY <3>1 DEF States
      <4> QED BY <4>1, <4>2
    <3> QED BY <1>2, <3>2, <3>3, <3>4, <3>5
  <2>4. (state \in [Works -> States \cup {Null}])'
    BY <1>1, <2>3
  <2> QED BY <2>1, <2>2, <2>4, ChangeWalks
<1>3. CASE Page
  BY <1>3, ReadWalks, AnswerWalks, FollowWalks DEF Page
<1>4. CASE UNCHANGED vars
  <2>1. UNCHANGED <<owned, state, walk, seen, stable>>
    BY <1>4 DEF vars
  <2>2. /\ \A w : At(w)' = At(w)
        /\ Listed(walk.choice)' = Listed(walk.choice)
    BY <2>1 DEF At, Position, ValueOf, Listed, Wanted, Shown, Folded, IsHidden
  <2>3. Met' = Met /\ \A w : Reached(w)' <=> Reached(w)
    BY <2>1, <2>2 DEF Met, Reached
  <2>4. WalkShape' /\ MetInOrder' /\ BehindCursor' /\ WholeWhenDone'
    BY <2>1, <2>2, <2>3 DEF Walking, WalkShape, MetInOrder, BehindCursor, WholeWhenDone
  <2>5. PageIsNext'
    BY <2>1, <2>2 DEF Walking, PageIsNext, RowsAscend, RowsAreAhead, PageIsFull
  <2> QED BY <2>4, <2>5 DEF Walking
<1> QED BY <1>2, <1>3, <1>4, StartWalks DEF Next

LEMMA WalkingAtFirst ==
  ASSUME Init
  PROVE  Walking
<1>1. (CHOOSE o \in Orders : TRUE) \in Orders
  <2>1. [sort |-> "title", direction |-> "asc"] \in Orders
    BY DEF Orders
  <2> QED BY <2>1
<1>2. <<>> \in Seq(Positions) /\ <<>> \in Seq(Works)
  BY EmptySeq
<1>3. walk \in Walks /\ walk.at = "idle" /\ walk.cursor = Null
  BY <1>1, <1>2 DEF Init, Walks, AnyChoice
<1>4. owned \subseteq Works /\ state \in [Works -> States \cup {Null}] /\ seen = <<>> /\ stable = {}
  BY StartsAssumption DEF Init
<1>5. WalkShape
  BY <1>2, <1>3, <1>4 DEF WalkShape
<1>6. Met = {}
  BY <1>4 DEF Met
<1>7. MetInOrder /\ BehindCursor /\ PageIsNext /\ WholeWhenDone
  BY <1>3, <1>4, <1>6 DEF MetInOrder, BehindCursor, PageIsNext, WholeWhenDone
<1> QED BY <1>5, <1>7 DEF Walking

LEMMA WalkingIsMet ==
  ASSUME Walking
  PROVE  MetOnceInTurn
<1> DEFINE o == walk.order
<1>1. /\ o \in Orders /\ walk.cursor \in Positions \cup {Null}
      /\ state \in [Works -> States \cup {Null}] /\ stable \subseteq Works
  BY DEF Walking, WalkShape, Walks, Listed
<1>2. \A w \in stable : At(w) \in Positions
  BY <1>1, PlaceOf DEF At
<1>3. ASSUME NEW i \in Met, NEW w \in stable, Before(o, At(w), At(seen[i]))
      PROVE  w \in Range(seen)
  <2>1. CASE walk.at = "done"
    BY <2>1 DEF Walking, WholeWhenDone
  <2>2. CASE walk.at # "done"
    <3>1. seen[i] \in stable /\ Reached(seen[i])
      BY <2>2 DEF Walking, BehindCursor, Met
    <3>2. /\ walk.cursor \in Positions /\ walk.cursor # Null
          /\ At(seen[i]) = walk.cursor \/ Before(o, At(seen[i]), walk.cursor)
      BY <1>1, <3>1 DEF Reached
    <3>3. Before(o, At(w), walk.cursor)
      BY <1>1, <1>2, <1>3, <3>1, <3>2, OrderIsTransitive
    <3>4. Reached(w)
      BY <3>2, <3>3 DEF Reached
    <3> QED BY <2>2, <3>4 DEF Walking, BehindCursor
  <2> QED BY <2>1, <2>2
<1>4. \A i, j \in Met : i < j => Before(o, At(seen[i]), At(seen[j]))
  BY DEF Walking, MetInOrder
<1>5. walk.at = "done" => stable \subseteq Range(seen)
  BY DEF Walking, WholeWhenDone
<1> HIDE DEF o
<1> QED BY <1>3, <1>4, <1>5 DEF MetOnceInTurn, Met, At, o

(* Whatever lands, leaves, is played or hidden between two pages or the    *)
(* two statements of one, and in whichever order, a work that keeps its    *)
(* card and its place is met once, in its turn, and none is missing once   *)
(* there is no next page (listing, the cursor): for every library, choice  *)
(* of filters and order, every page size, number of changes and length of  *)
(* the cursors, of which a too long one is refused in the middle.          *)
THEOREM NoneIsMissed == Spec => []MetOnceInTurn
<1>1. Init => Walking
  BY WalkingAtFirst
<1>2. Walking /\ [Next]_vars => Walking'
  BY WalkingStep
<1>3. Walking => MetOnceInTurn
  BY WalkingIsMet
<1> QED BY <1>1, <1>2, <1>3, PTL DEF Spec

=============================================================================
