---------------------------- MODULE CoversProofs ----------------------------
(***************************************************************************)
(* For any works, pictures and runs: no URL of a cover ever shows another  *)
(* picture, no work has half a cover, and what a row names is on disk as   *)
(* long as runs do not overlap and users delete nothing.                   *)
(*                                                                         *)
(* A row is only ever made above the highest id there has been, so what a  *)
(* browser keeps under an id is of the row that has it, or of one that is  *)
(* gone for good.                                                          *)
(***************************************************************************)
EXTENDS Covers, FiniteSetTheorems, TLAPS

Wanted == UNION {[S -> Pictures] : S \in SUBSET Works}

RunState ==
  [step : {"idle", "read", "fetched", "downloading", "recorded", "sweeping"},
   wanted : Wanted, missing : SUBSET Works, got : SUBSET Paths, kept : SUBSET Paths]

TaskState == [run : Runs \cup {None}, picture : Pictures, at : 1..2, written : BOOLEAN]

Types ==
  /\ anchored \subseteq Works
  /\ igdb \in [cover : [Works -> Pictures \cup {None}], dropped : SUBSET (Lacking \cup Droppable)]
  /\ cache \in [Works -> Pictures \cup {None, "unasked"}]
  /\ rows \subseteq [id : Nat, work : Works, path : Paths]
  /\ lastId \in 0..MaxRow
  /\ run \in [Runs -> RunState]
  /\ tasks \subseteq TaskState
  /\ browser \in [1..MaxRow -> Paths \cup {None}]

(* Ids are told apart, and none above the highest given was ever seen.     *)
IdsAreNew ==
  /\ \A x \in rows : x.id \in 1..lastId
  /\ \A x, y \in rows : x.id = y.id => x = y
  /\ \A i \in 1..MaxRow : i > lastId => browser[i] = None

(* What a run compares and downloads is what it wanted.                    *)
MissingIsWanted ==
  \A r \in Runs :
    /\ run[r].missing \subseteq DOMAIN run[r].wanted
    /\ run[r].step = "read" => run[r].missing = {}

Inv == Types /\ IdsAreNew /\ MissingIsWanted /\ SameUrlSamePicture /\ PairsWhole

-----------------------------------------------------------------------------
(* The works of a batch, each once.                                        *)
LEMMA OrderOfSet ==
  ASSUME NEW W \in SUBSET Works
  PROVE  /\ Cardinality(W) \in Nat
         /\ SetToSeq(W) \in [1..Cardinality(W) -> W]
         /\ \A w \in W : \E k \in 1..Cardinality(W) : SetToSeq(W)[k] = w
         /\ \A j, k \in 1..Cardinality(W) : SetToSeq(W)[j] = SetToSeq(W)[k] => j = k
<1> DEFINE n == Cardinality(W)
<1>1. IsFiniteSet(W) /\ n \in Nat
  BY FS_Subset, FS_CardinalityType, WorksAssumption
<1>2. PICK b : b \in Bijection(1..n, W)
  BY <1>1, FS_CardinalityType DEF ExistsBijection
<1>3. \E f \in [1..n -> W] : IsInjective(f)
  BY <1>2 DEF Bijection, Injection
<1>4. SetToSeq(W) \in [1..n -> W] /\ IsInjective(SetToSeq(W))
  BY <1>3 DEF SetToSeq
<1>5. \A j, k \in 1..n : SetToSeq(W)[j] = SetToSeq(W)[k] => j = k
  BY <1>4 DEF IsInjective
<1>6. Cardinality(1..n) = n
  BY <1>1, FS_Interval
<1>7. SetToSeq(W) \in Injection(1..n, W)
  BY <1>4 DEF Injection
<1>8. SetToSeq(W) \in Surjection(1..n, W)
  BY <1>1, <1>6, <1>7, FS_Injection
<1>9. \A w \in W : \E k \in 1..n : SetToSeq(W)[k] = w
  BY <1>8 DEF Surjection
<1>10. QED BY <1>1, <1>4, <1>5, <1>9

LEMMA RestIsState ==
  /\ Rest \in RunState /\ Rest.missing = {}
  /\ \A s \in {"idle", "read", "recorded"} :
       [Rest EXCEPT !.step = s] \in RunState /\ [Rest EXCEPT !.step = s].missing = {}
<1>1. [w \in {} |-> None] \in [{} -> Pictures]
  OBVIOUS
<1>2. [w \in {} |-> None] \in Wanted
  BY <1>1 DEF Wanted
<1>3. QED BY <1>2 DEF Rest, RunState

LEMMA FetchedIsWanted ==
  ASSUME Inv, NEW r \in Runs
  PROVE  /\ Fetched(r) \subseteq Works
         /\ \A w \in Fetched(r) : /\ run[r].wanted[w] \in Pictures
                                  /\ BothSizes(run[r].wanted[w]) \subseteq run[r].got
<1>1. /\ Fetched(r) \subseteq run[r].missing /\ run[r].missing \in SUBSET Works
      /\ \A w \in Fetched(r) : BothSizes(run[r].wanted[w]) \subseteq run[r].got
  BY DEF Inv, Types, RunState, Fetched
<1>2. run[r].wanted \in Wanted /\ Fetched(r) \subseteq DOMAIN run[r].wanted
  BY <1>1 DEF Inv, Types, RunState, MissingIsWanted
<1>3. \A w \in Fetched(r) : run[r].wanted[w] \in Pictures
  BY <1>2 DEF Wanted
<1>4. QED BY <1>1, <1>3

LEMMA SizesAre == Len(Sizes) = 2 /\ DOMAIN Sizes = 1..2
  BY DEF Sizes

LEMMA PathsAre ==
  /\ \A p \in Pictures, i \in 1..2 : Path(p, i) \in Paths
  /\ \A p : BothSizes(p) = {Path(p, 1), Path(p, 2)}
<1>1. \A p \in Pictures, i \in 1..2 : Path(p, i) \in Paths
  BY SizesAre DEF Paths
<1>2. \A p : BothSizes(p) = {Path(p, 1), Path(p, 2)}
  BY SizesAre DEF BothSizes
<1>3. QED BY <1>1, <1>2

(* One of the rows of a batch.                                             *)
Made(r, k, i) ==
  LET w == SetToSeq(Fetched(r))[k]
  IN Row(lastId + 2 * (k - 1) + i, w, Path(run[r].wanted[w], i))

(* The rows of a batch: two of each work, and each with an id of its own.  *)
LEMMA NewRows ==
  ASSUME Inv, NEW r \in Runs, lastId + 2 * Cardinality(Fetched(r)) <= MaxRow
  PROVE  LET N == New(r, Fetched(r), lastId)
             last == lastId + 2 * Cardinality(Fetched(r))
         IN /\ last \in 0..MaxRow /\ lastId <= last
            /\ \A x \in N : /\ x \in [id : Nat, work : Works, path : Paths]
                            /\ x.id \in (lastId + 1)..last /\ x.work \in Fetched(r)
            /\ \A x, y \in N : x.id = y.id => x = y
            /\ \A w \in Fetched(r) :
                 {x.path : x \in {y \in N : y.work = w}} = BothSizes(run[r].wanted[w])
<1> DEFINE W == Fetched(r)
           order == SetToSeq(W)
           n == Cardinality(W)
           wanted == run[r].wanted
           N == New(r, W, lastId)
<1>1. /\ W \subseteq Works /\ lastId \in Nat /\ MaxRow \in Nat
      /\ \A w \in W : wanted[w] \in Pictures /\ BothSizes(wanted[w]) \subseteq run[r].got
  BY BoundAssumption, FetchedIsWanted DEF Inv, Types
<1>2. /\ n \in Nat /\ order \in [1..n -> W]
      /\ \A w \in W : \E k \in 1..n : order[k] = w
      /\ \A j, k \in 1..n : order[j] = order[k] => j = k
  BY <1>1, OrderOfSet
<1>4. ASSUME NEW k \in 1..n, NEW i \in 1..2
      PROVE  /\ Made(r, k, i) = [id |-> lastId + 2 * (k - 1) + i, work |-> order[k],
                                 path |-> Path(wanted[order[k]], i)]
             /\ Path(wanted[order[k]], i) \in Paths /\ Path(wanted[order[k]], i) \in run[r].got
  <2>1. order[k] \in W
    BY <1>2
  <2>2. wanted[order[k]] \in Pictures /\ BothSizes(wanted[order[k]]) \subseteq run[r].got
    BY <1>1, <2>1
  <2>3. Path(wanted[order[k]], i) \in Paths /\ Path(wanted[order[k]], i) \in run[r].got
    BY <2>2, PathsAre
  <2>4. QED BY <2>3 DEF Made, Row
<1>5. N = {Made(r, k, i) : k \in 1..n, i \in 1..2}
  <2>1. DOMAIN order = 1..n
    BY <1>2
  <2>2. N = {x \in {Made(r, k, i) : k \in 1..n, i \in 1..2} : x.path \in run[r].got}
    <3>1. ASSUME NEW x
          PROVE  x \in N <=> /\ \E k \in DOMAIN order, i \in DOMAIN Sizes :
                                 x = Row(lastId + Len(Sizes) * (k - 1) + i, order[k],
                                         Path(wanted[order[k]], i))
                             /\ x.path \in run[r].got
      BY DEF New
    <3>2. ASSUME NEW k \in 1..n, NEW i \in 1..2
          PROVE  Made(r, k, i) = Row(lastId + 2 * (k - 1) + i, order[k], Path(wanted[order[k]], i))
      BY DEF Made
    <3>3. QED BY <2>1, <3>1, <3>2, SizesAre
  <2>3. \A k \in 1..n, i \in 1..2 : Made(r, k, i).path \in run[r].got
    BY <1>4
  <2>4. QED BY <2>2, <2>3
<1>6. \A k \in 1..n, i \in 1..2 : Made(r, k, i).id \in (lastId + 1)..(lastId + 2 * n) /\ Made(r, k, i).id \in Nat
  BY <1>1, <1>2, <1>4
<1>7. \A j, k \in 1..n, h, i \in 1..2 : Made(r, j, h).id = Made(r, k, i).id => j = k /\ h = i
  BY <1>1, <1>2, <1>4
<1>8. ASSUME NEW x \in N
      PROVE  /\ x \in [id : Nat, work : Works, path : Paths]
             /\ x.id \in (lastId + 1)..(lastId + 2 * n) /\ x.work \in W
  <2>1. PICK k \in 1..n, i \in 1..2 : x = Made(r, k, i)
    BY <1>5
  <2>2. Made(r, k, i).work \in W /\ W \subseteq Works
    <3>1. order[k] \in W /\ W \subseteq Works
      BY <1>1, <1>2
    <3>2. Made(r, k, i).work = order[k]
      BY <1>4
    <3>3. QED BY <3>1, <3>2
  <2>3. QED BY <1>4, <1>6, <2>1, <2>2
<1>9. \A x, y \in N : x.id = y.id => x = y
  BY <1>5, <1>7
<1>10. ASSUME NEW w \in W
       PROVE  {x.path : x \in {y \in N : y.work = w}} = BothSizes(wanted[w])
  <2>1. PICK k \in 1..n : order[k] = w
    BY <1>2
  <2>2. {y \in N : y.work = w} = {Made(r, k, i) : i \in 1..2}
    BY <1>2, <1>4, <1>5, <2>1
  <2>3. Made(r, k, 1).path = Path(wanted[w], 1) /\ Made(r, k, 2).path = Path(wanted[w], 2)
    BY <1>4, <2>1
  <2>4. {y \in N : y.work = w} = {Made(r, k, 1), Made(r, k, 2)}
    BY <2>2
  <2>5. QED BY <2>3, <2>4, PathsAre
<1>11. lastId + 2 * n \in 0..MaxRow /\ lastId <= lastId + 2 * n
  BY <1>1, <1>2
<1>12. QED BY <1>8, <1>9, <1>10, <1>11

-----------------------------------------------------------------------------
(* What a browser comes to hold once it has looked at everything.          *)
LEMMA LookedAt ==
  ASSUME NEW R, \A x, y \in R : x.id = y.id => x = y,
         \A x \in R : x.id \in 1..MaxRow,
         \A x \in R : browser[x.id] # None => browser[x.id] = x.path
  PROVE  /\ \A x \in R : Looked(R)[x.id] = x.path
         /\ \A i \in 1..MaxRow : Looked(R)[i] # None => browser[i] # None \/ \E x \in R : x.id = i
         /\ \A i \in 1..MaxRow :
              Looked(R)[i] = browser[i] \/ \E x \in R : Looked(R)[i] = x.path
<1>1. ASSUME NEW x \in R, browser[x.id] = None
      PROVE  (CHOOSE y \in R : y.id = x.id).path = x.path
  <2>1. (CHOOSE y \in R : y.id = x.id) = x
    OBVIOUS
  <2>2. QED BY <2>1
<1>2. \A x \in R : Looked(R)[x.id] = x.path
  BY <1>1 DEF Looked
<1>3. ASSUME NEW i \in 1..MaxRow
      PROVE  /\ Looked(R)[i] # None => browser[i] # None \/ \E x \in R : x.id = i
             /\ Looked(R)[i] = browser[i] \/ \E x \in R : Looked(R)[i] = x.path
  <2>1. CASE \E x \in R : x.id = i
    BY <1>2, <2>1
  <2>2. CASE ~ \E x \in R : x.id = i
    BY <2>2 DEF Looked
  <2>3. QED BY <2>1, <2>2
<1>4. QED BY <1>2, <1>3

LEMMA RecordKeeps == \A r \in Runs : Inv /\ Record(r) => Inv'
<1>. SUFFICES ASSUME Inv, NEW r \in Runs, Record(r) PROVE Inv'
  OBVIOUS
<1> DEFINE W == Fetched(r)
           N == New(r, W, lastId)
           L == Left(W)
           end == lastId + 2 * Cardinality(W)
<1>1. /\ end <= MaxRow /\ rows' = L \cup N /\ lastId' = end /\ browser' = Looked(rows')
      /\ run' = [run EXCEPT ![r] = [Rest EXCEPT !.step = "recorded"]]
      /\ UNCHANGED <<anchored, igdb, cache, tasks>>
  BY SizesAre DEF Record, LastGiven
<1>2. /\ end \in 0..MaxRow /\ lastId <= end
      /\ \A x \in N : /\ x \in [id : Nat, work : Works, path : Paths]
                      /\ x.id \in (lastId + 1)..end /\ x.work \in W
      /\ \A x, y \in N : x.id = y.id => x = y
      /\ \A w \in W : {x.path : x \in {y \in N : y.work = w}} = BothSizes(run[r].wanted[w])
  BY <1>1, NewRows
<1>3. L \subseteq rows /\ \A x \in L : x.work \notin W
  BY DEF Left
<1>4. /\ Types /\ IdsAreNew /\ lastId \in Nat /\ MaxRow \in Nat /\ lastId <= MaxRow
  BY BoundAssumption DEF Inv, Types
<1> HIDE DEF W, N, L, end
<1>5. \A x \in L : x.id \in 1..lastId
  BY <1>3, <1>4 DEF IdsAreNew
<1>6. \A x \in rows' : x.id \in 1..end /\ x.id \in 1..MaxRow
  BY <1>1, <1>2, <1>4, <1>5
<1>7. \A x, y \in rows' : x.id = y.id => x = y
  <2>1. SUFFICES ASSUME NEW x \in L, NEW y \in N PROVE x.id # y.id
    BY <1>1, <1>2, <1>3, <1>4 DEF IdsAreNew
  <2>2. x.id \in 1..lastId /\ y.id \in (lastId + 1)..end
    BY <1>2, <1>5
  <2>3. QED BY <1>4, <2>2
<1>8. \A x \in rows' : browser[x.id] # None => browser[x.id] = x.path
  <2>1. ASSUME NEW x \in L PROVE browser[x.id] = x.path
    BY <1>3 DEF Inv, SameUrlSamePicture
  <2>2. ASSUME NEW x \in N PROVE browser[x.id] = None
    <3>1. x.id \in 1..MaxRow /\ x.id > lastId
      BY <1>1, <1>2, <1>4, <1>6
    <3>2. QED BY <1>4, <3>1 DEF IdsAreNew
  <2>3. QED BY <1>1, <2>1, <2>2
<1>9. /\ SameUrlSamePicture'
      /\ \A i \in 1..MaxRow : browser'[i] # None => browser[i] # None \/ \E x \in rows' : x.id = i
      /\ \A i \in 1..MaxRow : browser'[i] = browser[i] \/ \E x \in rows' : browser'[i] = x.path
  <2>1. /\ \A x \in rows' : Looked(rows')[x.id] = x.path
        /\ \A i \in 1..MaxRow :
             Looked(rows')[i] # None => browser[i] # None \/ \E x \in rows' : x.id = i
        /\ \A i \in 1..MaxRow :
             Looked(rows')[i] = browser[i] \/ \E x \in rows' : Looked(rows')[i] = x.path
    BY <1>6, <1>7, <1>8, LookedAt
  <2>2. QED BY <1>1, <2>1 DEF SameUrlSamePicture
<1>10. IdsAreNew'
  <2>1. ASSUME NEW i \in 1..MaxRow, i > end PROVE browser'[i] = None
    <3>1. browser[i] = None
      BY <1>1, <1>2, <1>4, <2>1 DEF IdsAreNew
    <3>2. ~ \E x \in rows' : x.id = i
      BY <1>2, <1>4, <1>6, <2>1
    <3>3. QED BY <1>9, <3>1, <3>2
  <2>2. QED BY <1>1, <1>6, <1>7, <2>1 DEF IdsAreNew
<1>11. Types'
  <2>1. rows' \subseteq [id : Nat, work : Works, path : Paths]
    BY <1>1, <1>2, <1>3 DEF Inv, Types
  <2>2. browser' \in [1..MaxRow -> Paths \cup {None}]
    <3>1. browser' = [i \in 1..MaxRow |-> browser'[i]]
      BY <1>1 DEF Looked
    <3>2. \A i \in 1..MaxRow : browser'[i] \in Paths \cup {None}
      BY <1>4, <1>9, <2>1 DEF Types
    <3>3. QED BY <3>1, <3>2
  <2>3. run' \in [Runs -> RunState]
    BY <1>1, <1>4, RestIsState DEF Types
  <2>4. QED BY <1>1, <1>2, <2>1, <2>2, <2>3 DEF Inv, Types
<1>12. MissingIsWanted'
  <2>1. [Rest EXCEPT !.step = "recorded"].missing = {}
    BY RestIsState
  <2>2. QED BY <1>1, <1>4, <2>1 DEF Inv, Types, MissingIsWanted
<1>13. PairsWhole'
  <2>1. SUFFICES ASSUME NEW w \in Works, NamedPaths(w)' # {}
                 PROVE  \E p \in Pictures : NamedPaths(w)' = BothSizes(p)
    BY DEF PairsWhole
  <2>2. CASE w \in W
    <3>1. {y \in rows' : y.work = w} = {y \in N : y.work = w}
      BY <1>1, <1>3, <2>2
    <3>2. NamedPaths(w)' = BothSizes(run[r].wanted[w])
      BY <1>2, <2>2, <3>1 DEF NamedPaths
    <3>3. QED BY <2>2, <3>2, FetchedIsWanted DEF W
  <2>3. CASE w \notin W
    <3>1. {y \in rows' : y.work = w} = {y \in rows : y.work = w}
      BY <1>1, <1>2, <2>3 DEF Left, L
    <3>2. QED BY <2>1, <3>1 DEF NamedPaths, Inv, PairsWhole
  <2>4. QED BY <2>2, <2>3
<1>14. QED BY <1>9, <1>10, <1>11, <1>12, <1>13 DEF Inv

-----------------------------------------------------------------------------
(* Every other step leaves the rows as they are.                           *)
LEMMA RowsStay ==
  ASSUME Inv, UNCHANGED <<rows, lastId, browser>>, anchored' \subseteq Works,
         igdb' \in [cover : [Works -> Pictures \cup {None}], dropped : SUBSET (Lacking \cup Droppable)],
         cache' \in [Works -> Pictures \cup {None, "unasked"}],
         run' \in [Runs -> RunState], tasks' \subseteq TaskState, MissingIsWanted'
  PROVE  Inv'
<1>1. Types' /\ MissingIsWanted'
  BY DEF Inv, Types, MissingIsWanted
<1>2. IdsAreNew' /\ SameUrlSamePicture' /\ PairsWhole'
  BY DEF Inv, IdsAreNew, SameUrlSamePicture, PairsWhole, NamedPaths
<1>3. QED BY <1>1, <1>2 DEF Inv

LEMMA WorldKeeps ==
  /\ Inv /\ IgdbChanges => Inv'
  /\ \A path : Inv /\ UserDeletes(path) => Inv'
  /\ \A r \in Runs : Inv /\ Outlive(r) => Inv'
  /\ Inv /\ Die => Inv'
<1>1. ASSUME Inv, IgdbChanges PROVE Inv'
  <2>1. UNCHANGED <<rows, lastId, browser, anchored, cache, run, tasks>>
    BY <1>1 DEF IgdbChanges
  <2>2. igdb' \in [cover : [Works -> Pictures \cup {None}], dropped : SUBSET (Lacking \cup Droppable)]
    <3>1. ASSUME NEW w \in Works, NEW p \in Later[w], igdb' = [igdb EXCEPT !.cover[w] = p]
          PROVE  igdb' \in [cover : [Works -> Pictures \cup {None}], dropped : SUBSET (Lacking \cup Droppable)]
      <4>1. p \in Pictures \cup {None}
        BY CoverAssumption
      <4>2. [igdb.cover EXCEPT ![w] = p] \in [Works -> Pictures \cup {None}]
        BY <1>1, <4>1 DEF Inv, Types
      <4>3. QED BY <1>1, <3>1, <4>2 DEF Inv, Types
    <3>2. ASSUME NEW path \in Droppable, igdb' = [igdb EXCEPT !.dropped = @ \cup {path}]
          PROVE  igdb' \in [cover : [Works -> Pictures \cup {None}], dropped : SUBSET (Lacking \cup Droppable)]
      BY <1>1, <3>2 DEF Inv, Types
    <3>3. QED BY <1>1, <3>1, <3>2 DEF IgdbChanges, Changed
  <2>3. QED BY <1>1, <2>1, <2>2, RowsStay DEF Inv, Types, MissingIsWanted
<1>2. ASSUME Inv, NEW path, UserDeletes(path) PROVE Inv'
  BY <1>2, RowsStay DEF UserDeletes, Inv, Types, MissingIsWanted
<1>3. ASSUME Inv, NEW r \in Runs, Outlive(r) PROVE Inv'
  BY <1>3, RowsStay DEF Outlive, Inv, Types, MissingIsWanted
<1>4. ASSUME Inv, Die PROVE Inv'
  <2>1. /\ UNCHANGED <<rows, lastId, browser, anchored, igdb, cache>> /\ tasks' = {}
        /\ run' = [r \in Runs |-> Rest]
    BY <1>4 DEF Die
  <2>2. run' \in [Runs -> RunState] /\ MissingIsWanted'
    BY <2>1, RestIsState DEF MissingIsWanted, Rest
  <2>3. QED BY <1>4, <2>1, <2>2, RowsStay DEF Inv, Types
<1>5. QED BY <1>1, <1>2, <1>3, <1>4

LEMMA BeginKeeps == \A r \in Runs : \A more \in SUBSET (Works \ anchored) : Inv /\ Begin(r, more) => Inv'
<1>. SUFFICES ASSUME Inv, NEW r \in Runs, NEW more \in SUBSET (Works \ anchored), Begin(r, more)
              PROVE  Inv'
  OBVIOUS
<1>1. /\ UNCHANGED <<rows, lastId, browser, igdb, cache, tasks>>
      /\ anchored' = anchored \cup more
      /\ run' = [run EXCEPT ![r] = [Rest EXCEPT !.step = "read"]]
  BY DEF Begin
<1>2. run' \in [Runs -> RunState] /\ MissingIsWanted'
  BY <1>1, RestIsState DEF Inv, Types, MissingIsWanted
<1>3. QED BY <1>1, <1>2, RowsStay DEF Inv, Types

LEMMA FetchKeeps == \A r \in Runs : \A stale \in SUBSET Works : Inv /\ Fetch(r, stale) => Inv'
<1>. SUFFICES ASSUME Inv, NEW r \in Runs, NEW stale \in SUBSET Works, Fetch(r, stale)
              PROVE  Inv'
  OBVIOUS
<1> DEFINE asked == {w \in anchored : w \in stale \/ cache[w] = "unasked"}
           answers == [w \in Works |-> IF w \in asked THEN igdb.cover[w] ELSE cache[w]]
           named == {w \in anchored : answers[w] # None}
           wanted == [w \in named |-> answers[w]]
<1>1. /\ UNCHANGED <<rows, lastId, browser, igdb, anchored, tasks>> /\ cache' = answers
      /\ run' = [run EXCEPT ![r].step = "fetched", ![r].wanted = wanted]
  BY DEF Fetch
<1>2. named \in SUBSET Works
  BY DEF Inv, Types
<1>3. answers \in [Works -> Pictures \cup {None, "unasked"}]
  BY DEF Inv, Types
<1>4. ASSUME NEW w \in named PROVE answers[w] \in Pictures
  <2>1. w \in anchored /\ w \in Works /\ answers[w] # None
    BY <1>2
  <2>2. CASE cache[w] = "unasked" \/ w \in stale
    <3>1. answers[w] = igdb.cover[w]
      BY <2>1, <2>2
    <3>2. igdb.cover[w] \in Pictures \cup {None}
      BY <2>1 DEF Inv, Types
    <3>3. QED BY <2>1, <3>1, <3>2
  <2>3. CASE cache[w] # "unasked" /\ w \notin stale
    <3>1. answers[w] = cache[w]
      BY <2>1, <2>3
    <3>2. cache[w] \in Pictures \cup {None, "unasked"}
      BY <2>1 DEF Inv, Types
    <3>3. QED BY <2>1, <2>3, <3>1, <3>2
  <2>4. QED BY <2>2, <2>3
<1> HIDE DEF answers, named
<1>5. wanted \in [named -> Pictures]
  BY <1>4
<1>6. wanted \in Wanted
  BY <1>2, <1>5 DEF Wanted
<1> HIDE DEF wanted
<1>7. run' \in [Runs -> RunState]
  <2>1. run \in [Runs -> RunState] /\ run[r] \in RunState
    BY DEF Inv, Types
  <2>2. [run[r] EXCEPT !.step = "fetched", !.wanted = wanted] \in RunState
    BY <1>6, <2>1 DEF RunState
  <2>3. run' = [run EXCEPT ![r] = [run[r] EXCEPT !.step = "fetched", !.wanted = wanted]]
    BY <1>1, <2>1
  <2>4. QED BY <2>1, <2>2, <2>3
<1>8. MissingIsWanted'
  BY <1>1 DEF Fetch, Inv, Types, RunState, MissingIsWanted
<1>9. QED BY <1>1, <1>3, <1>7, <1>8, RowsStay DEF Inv, Types

LEMMA CompareKeeps == \A r \in Runs : Inv /\ Compare(r) => Inv'
<1>. SUFFICES ASSUME Inv, NEW r \in Runs, Compare(r) PROVE Inv'
  OBVIOUS
<1> DEFINE M == Missing(run[r].wanted)
<1>1. /\ UNCHANGED <<rows, lastId, browser, igdb, anchored, cache>>
      /\ run' = [run EXCEPT ![r].step = "downloading", ![r].missing = M]
      /\ tasks' = tasks \cup {Task(r, run[r].wanted[w], 1, FALSE) : w \in M}
  BY DEF Compare
<1>2. M \subseteq DOMAIN run[r].wanted
  BY DEF Missing
<1>3. run[r].wanted \in Wanted
  BY DEF Inv, Types, RunState
<1>4. M \in SUBSET Works /\ \A w \in M : run[r].wanted[w] \in Pictures
  BY <1>2, <1>3 DEF Wanted
<1> HIDE DEF M
<1>5. tasks' \subseteq TaskState
  <2>1. \A w \in M : Task(r, run[r].wanted[w], 1, FALSE) \in TaskState
    BY <1>4 DEF TaskState, Task
  <2>2. tasks \subseteq TaskState
    BY DEF Inv, Types
  <2>3. QED BY <1>1, <2>1, <2>2
<1>6. run' \in [Runs -> RunState]
  <2>1. run \in [Runs -> RunState] /\ run[r] \in RunState
    BY DEF Inv, Types
  <2>2. [run[r] EXCEPT !.step = "downloading", !.missing = M] \in RunState
    BY <1>4, <2>1 DEF RunState
  <2>3. run' = [run EXCEPT ![r] = [run[r] EXCEPT !.step = "downloading", !.missing = M]]
    BY <1>1, <2>1
  <2>4. QED BY <2>1, <2>2, <2>3
<1>7. MissingIsWanted'
  BY <1>1, <1>2 DEF Inv, Types, RunState, MissingIsWanted
<1>8. QED BY <1>1, <1>5, <1>6, <1>7, RowsStay DEF Inv, Types

(* A download that ends, with its run or without.                          *)
LEMMA FailKeeps ==
  ASSUME Inv, NEW r \in Runs \cup {None}, NEW T, T \subseteq TaskState, RunFails(r, T)
  PROVE  run' \in [Runs -> RunState] /\ tasks' \subseteq TaskState /\ MissingIsWanted'
<1>1. ASSUME NEW t \in TaskState PROVE [t EXCEPT !.run = None] \in TaskState
  BY DEF TaskState
<1>2. Abandoned(T, r) \subseteq TaskState
  BY <1>1 DEF Abandoned
<1>3. tasks' \subseteq TaskState
  BY <1>2 DEF RunFails
<1>4. run' = run \/ (r \in Runs /\ run' = [run EXCEPT ![r] = Rest])
  BY DEF RunFails
<1>5. run' \in [Runs -> RunState] /\ MissingIsWanted'
  <2>1. run \in [Runs -> RunState] /\ MissingIsWanted
    BY DEF Inv, Types
  <2>2. CASE run' = run
    BY <2>1, <2>2 DEF MissingIsWanted
  <2>3. CASE r \in Runs /\ run' = [run EXCEPT ![r] = Rest]
    <3>1. run' \in [Runs -> RunState]
      BY <2>1, <2>3, RestIsState
    <3>2. \A q \in Runs : run'[q] = run[q] \/ run'[q] = Rest
      BY <2>1, <2>3
    <3>3. Rest.missing = {}
      BY RestIsState
    <3> QED BY <2>1, <3>1, <3>2, <3>3 DEF MissingIsWanted
  <2> QED BY <1>4, <2>2, <2>3
<1>6. QED BY <1>3, <1>5

LEMMA DownloadKeeps ==
  \A t \in tasks : Inv /\ (Receive(t) \/ Rename(t) \/ DownloadFails(t)) => Inv'
<1>. SUFFICES ASSUME Inv, NEW t \in tasks, Receive(t) \/ Rename(t) \/ DownloadFails(t)
              PROVE  Inv'
  OBVIOUS
<1>1. t \in TaskState /\ Types /\ tasks \ {t} \subseteq TaskState
  BY DEF Inv, Types
<1>2. UNCHANGED <<rows, lastId, browser, igdb, anchored, cache>>
  BY DEF Receive, Rename, DownloadFails
<1>3. CASE Receive(t)
  <2>1. [t EXCEPT !.written = TRUE] \in TaskState
    BY <1>1 DEF TaskState
  <2>2. tasks' \subseteq TaskState /\ run' = run
    BY <1>1, <1>3, <2>1 DEF Receive
  <2>3. QED BY <1>1, <1>2, <2>2, RowsStay DEF Inv, Types, MissingIsWanted
<1>4. CASE RunFails(t.run, tasks \ {t})
  <2>1. t.run \in Runs \cup {None}
    BY <1>1 DEF TaskState
  <2>2. QED BY <1>1, <1>2, <1>4, <2>1, FailKeeps, RowsStay DEF Types
<1>5. CASE Rename(t) /\ ~RunFails(t.run, tasks \ {t})
  <2> DEFINE path == Path(t.picture, t.at)
  <2>1. /\ tasks' = (tasks \ {t}) \cup Onward(t)
        /\ run' = IF t.run = None THEN run ELSE [run EXCEPT ![t.run].got = @ \cup {path}]
    BY <1>5 DEF Rename
  <2>2. path \in Paths /\ t.run \in Runs \cup {None} /\ t.at \in 1..2 /\ t.picture \in Pictures
    BY <1>1, PathsAre DEF TaskState
  <2>3. Onward(t) \subseteq TaskState
    <3>1. CASE t.at = 2
      BY <3>1, SizesAre DEF Onward
    <3>2. CASE t.at = 1
      BY <2>2, <3>2, SizesAre DEF Onward, Task, TaskState
    <3>3. QED BY <2>2, <3>1, <3>2
  <2>4. tasks' \subseteq TaskState
    BY <1>1, <2>1, <2>3
  <2> HIDE DEF path
  <2>5. run' \in [Runs -> RunState]
    <3>1. CASE t.run = None
      BY <1>1, <2>1, <3>1 DEF Types
    <3>2. CASE t.run # None
      <4>1. t.run \in Runs /\ run[t.run] \in RunState /\ run \in [Runs -> RunState]
        BY <1>1, <2>2, <3>2 DEF Types
      <4>2. [run[t.run] EXCEPT !.got = @ \cup {path}] \in RunState
        BY <2>2, <4>1 DEF RunState
      <4>3. run' = [run EXCEPT ![t.run] = [run[t.run] EXCEPT !.got = @ \cup {path}]]
        BY <2>1, <3>2, <4>1
      <4>4. QED BY <4>1, <4>2, <4>3
    <3>3. QED BY <3>1, <3>2
  <2>6. MissingIsWanted'
    BY <1>1, <2>1, <2>2 DEF Inv, Types, RunState, MissingIsWanted
  <2>7. QED BY <1>1, <1>2, <2>4, <2>5, <2>6, RowsStay DEF Types
<1>6. QED BY <1>3, <1>4, <1>5 DEF DownloadFails

LEMMA SweepKeeps == \A r \in Runs : Inv /\ (SweepRead(r) \/ Sweep(r)) => Inv'
<1>. SUFFICES ASSUME Inv, NEW r \in Runs, SweepRead(r) \/ Sweep(r) PROVE Inv'
  OBVIOUS
<1>1. UNCHANGED <<rows, lastId, browser, igdb, anchored, cache, tasks>>
  BY DEF SweepRead, Sweep
<1>2. run' \in [Runs -> RunState] /\ MissingIsWanted'
  <2>1. CASE Sweep(r)
    BY <2>1, RestIsState DEF Sweep, Inv, Types, MissingIsWanted, Rest
  <2>2. CASE SweepRead(r)
    <3>1. Kept(rows) \subseteq Paths
      BY DEF Kept, Inv, Types
    <3>2. run' = [run EXCEPT ![r].step = "sweeping", ![r].kept = Kept(rows)]
      BY <2>2 DEF SweepRead
    <3>3. run \in [Runs -> RunState] /\ run[r] \in RunState
      BY DEF Inv, Types
    <3>4. [run[r] EXCEPT !.step = "sweeping", !.kept = Kept(rows)] \in RunState
      BY <3>1, <3>3 DEF RunState
    <3>5. run' = [run EXCEPT ![r] = [run[r] EXCEPT !.step = "sweeping", !.kept = Kept(rows)]]
      BY <3>2, <3>3
    <3>6. QED BY <3>3, <3>4, <3>5 DEF Inv, RunState, MissingIsWanted
  <2>3. QED BY <2>1, <2>2
<1>3. QED BY <1>1, <1>2, RowsStay DEF Inv, Types

LEMMA StartsInv == Init => Inv
<1>. SUFFICES ASSUME Init PROVE Inv
  OBVIOUS
<1>1. Types
  BY CoverAssumption, BoundAssumption, RestIsState DEF Init, Types
<1>2. IdsAreNew /\ SameUrlSamePicture /\ PairsWhole
  BY DEF Init, IdsAreNew, SameUrlSamePicture, PairsWhole, NamedPaths
<1>3. MissingIsWanted
  BY RestIsState DEF Init, MissingIsWanted
<1>4. QED BY <1>1, <1>2, <1>3 DEF Inv

LEMMA StepsKeepInv == Inv /\ [Next]_vars => Inv'
<1>. SUFFICES ASSUME Inv, [Next]_vars PROVE Inv'
  OBVIOUS
<1>1. CASE IgdbChanges \/ Die \/ \E path \in disk.files : UserDeletes(path)
  BY <1>1, WorldKeeps
<1>2. ASSUME NEW r \in Runs,
             \/ Compare(r) \/ Record(r) \/ SweepRead(r) \/ Sweep(r) \/ Outlive(r)
             \/ \E more \in SUBSET (Works \ anchored) : Begin(r, more)
             \/ \E stale \in SUBSET Works : Fetch(r, stale)
      PROVE  Inv'
  BY <1>2, CompareKeeps, RecordKeeps, SweepKeeps, WorldKeeps, BeginKeeps, FetchKeeps
<1>3. CASE \E t \in tasks : Receive(t) \/ Rename(t) \/ DownloadFails(t)
  BY <1>3, DownloadKeeps
<1>4. CASE UNCHANGED vars
  BY <1>4, RowsStay DEF vars, Inv, Types, MissingIsWanted
<1>5. QED BY <1>1, <1>2, <1>3, <1>4 DEF Next

(* Whatever runs overlapped, failed or died, a URL that once showed a      *)
(* picture never shows another.                                            *)
THEOREM UrlsKeepTheirPicture == Spec => []SameUrlSamePicture
<1>1. Inv => SameUrlSamePicture
  BY DEF Inv
<1>2. QED BY <1>1, StartsInv, StepsKeepInv, PTL DEF Spec

(* And a work is listed without a cover or with the two sizes of one.      *)
THEOREM CoversComeWhole == Spec => []PairsWhole
<1>1. Inv => PairsWhole
  BY DEF Inv
<1>2. QED BY <1>1, StartsInv, StepsKeepInv, PTL DEF Spec

-----------------------------------------------------------------------------
(* Files behind the rows.  What waits for a run belongs to one that is     *)
(* downloading, and what a run has got it forgets when it has recorded it. *)
Downloads ==
  /\ disk \in [files : SUBSET Paths, partial : SUBSET Paths]
  /\ holder \in Runs \cup {None}
  /\ \A t \in tasks : t.run # None => run[t.run].step = "downloading"
  /\ \A r \in Runs : run[r].step # "downloading" => run[r].got = {}

(* And as long as no run was taken for dead and no file deleted: one run   *)
(* at a time, so that what it got is still there when it records it, and   *)
(* what it read of the rows when it sweeps is what they name.              *)
Alone ==
  /\ \A r \in Runs : run[r].step # "idle" => holder = r
  /\ \A r \in Runs : run[r].got \subseteq disk.files
  /\ \A r \in Runs : run[r].step = "sweeping" => Kept(rows) \subseteq run[r].kept
  /\ Kept(rows) \subseteq disk.files

Served == Downloads /\ (~tainted => Alone)

LEMMA StartsServed == Init => Served
  BY DEF Init, Served, Downloads, Alone, Rest, Kept

(* A step that only adds files, and changes one run that stays or fails.   *)
LEMMA FilesAdded ==
  ASSUME Inv, Served, NEW r \in Runs \cup {None}, NEW T \in SUBSET TaskState,
         RunFails(r, T), \A t \in T : t.run # None => run[t.run].step = "downloading",
         r # None => run[r].step = "downloading",
         disk' \in [files : SUBSET Paths, partial : SUBSET Paths],
         disk.files \subseteq disk'.files, UNCHANGED <<rows, tainted>>
  PROVE  Served'
<1>1. Types /\ Downloads
  BY DEF Inv, Served
<1>2. \/ r = None /\ run' = run /\ holder' = holder /\ tasks' = T
      \/ /\ r \in Runs /\ run' = [run EXCEPT ![r] = Rest] /\ tasks' = Abandoned(T, r)
         /\ holder' = IF holder = r THEN None ELSE holder
  BY RunsAssumption DEF RunFails
<1>3. \A t \in tasks' : t.run = None \/ (t \in T /\ t.run # r)
  <2>1. ASSUME NEW t \in T PROVE [t EXCEPT !.run = None].run = None
    BY DEF TaskState
  <2>2. ASSUME r \in Runs, NEW t \in tasks' PROVE t.run = None \/ (t \in T /\ t.run # r)
    <3>1. tasks' = Abandoned(T, r)
      BY <1>2, <2>2, RunsAssumption
    <3>2. PICK u \in T : t = IF u.run = r THEN [u EXCEPT !.run = None] ELSE u
      BY <2>2, <3>1 DEF Abandoned
    <3>3. QED BY <2>1, <3>2
  <2>3. ASSUME r = None, NEW t \in tasks' PROVE t.run = None \/ (t \in T /\ t.run # r)
    BY <1>2, <2>3, RunsAssumption
  <2>4. QED BY <2>2, <2>3
<1>4. \A q \in Runs : run'[q] = run[q] \/ (q = r /\ run'[q] = Rest)
  BY <1>1, <1>2 DEF Types
<1>5. Rest.step = "idle" /\ Rest.got = {}
  BY DEF Rest
<1>6. Downloads'
  <2>1. holder' \in Runs \cup {None}
    BY <1>1, <1>2 DEF Downloads
  <2>2. \A t \in tasks' : t.run # None => run'[t.run].step = "downloading"
    <3>1. SUFFICES ASSUME NEW t \in tasks', t.run # None PROVE run'[t.run].step = "downloading"
      OBVIOUS
    <3>2. t \in T /\ t.run # r /\ t.run \in Runs
      BY <1>3, <3>1 DEF TaskState
    <3>3. QED BY <1>4, <3>1, <3>2
  <2>3. \A q \in Runs : run'[q].step # "downloading" => run'[q].got = {}
    BY <1>1, <1>4, <1>5 DEF Downloads
  <2>4. QED BY <2>1, <2>2, <2>3 DEF Downloads
<1>7. ~tainted => Alone'
  <2>1. SUFFICES ASSUME Alone PROVE Alone'
    BY DEF Served
  <2>2. ASSUME NEW q \in Runs, run'[q].step # "idle" PROVE holder' = q
    <3>1. run'[q] = run[q] /\ holder = q
      BY <1>4, <1>5, <2>1, <2>2 DEF Alone
    <3>2. CASE r = None
      BY <1>2, <3>1, <3>2, RunsAssumption
    <3>3. CASE r \in Runs
      <4>1. run' = [run EXCEPT ![r] = Rest] /\ holder' = IF holder = r THEN None ELSE holder
        BY <1>2, <3>3, RunsAssumption
      <4>2. q # r
        BY <1>1, <1>5, <2>2, <4>1 DEF Types
      <4>3. QED BY <3>1, <4>1, <4>2
    <3>4. QED BY <3>2, <3>3
  <2>3. QED BY <1>4, <1>5, <2>1, <2>2 DEF Alone
<1>8. QED BY <1>6, <1>7 DEF Served

LEMMA DownloadServed ==
  \A t \in tasks : Inv /\ Served /\ (Receive(t) \/ Rename(t) \/ DownloadFails(t)) => Served'
<1>. SUFFICES ASSUME Inv, Served, NEW t \in tasks, Receive(t) \/ Rename(t) \/ DownloadFails(t)
              PROVE  Served'
  OBVIOUS
<1>. DEFINE path == Path(t.picture, t.at)
<1>1. Types /\ Downloads /\ t \in TaskState
  BY DEF Inv, Served, Types
<1>2. path \in Paths /\ t.run \in Runs \cup {None} /\ t.at \in 1..2 /\ t.picture \in Pictures
  BY <1>1, PathsAre DEF TaskState
<1>3. t.run # None => run[t.run].step = "downloading"
  BY <1>1 DEF Downloads
<1>4. UNCHANGED <<rows, tainted>>
  BY DEF Receive, Rename, DownloadFails
<1>5. tasks \ {t} \in SUBSET TaskState /\ \A u \in tasks \ {t} : u.run # None => run[u.run].step = "downloading"
  BY <1>1 DEF Types, Downloads
<1>6. CASE Receive(t)
  <2>1. /\ \A u \in tasks' : \E v \in tasks : u.run = v.run
        /\ disk' = disk \/ disk' = [disk EXCEPT !.partial = @ \cup {path}]
        /\ UNCHANGED <<run, holder>>
    <3>1. [t EXCEPT !.written = TRUE].run = t.run
      BY <1>1 DEF TaskState
    <3>2. QED BY <1>6, <3>1 DEF Receive
  <2>2. disk' \in [files : SUBSET Paths, partial : SUBSET Paths] /\ disk'.files = disk.files
    BY <1>1, <1>2, <2>1 DEF Downloads
  <2>3. QED BY <1>1, <1>4, <2>1, <2>2 DEF Served, Downloads, Alone
<1>7. CASE RunFails(t.run, tasks \ {t}) /\ disk' = disk
  BY <1>1, <1>2, <1>3, <1>4, <1>5, <1>7, FilesAdded DEF Downloads
<1>8. CASE Rename(t) /\ path \in disk.partial
  <2>1. /\ disk' = [files |-> disk.files \cup {path}, partial |-> disk.partial \ {path}]
        /\ tasks' = (tasks \ {t}) \cup Onward(t)
        /\ run' = IF t.run = None THEN run ELSE [run EXCEPT ![t.run].got = @ \cup {path}]
        /\ holder' = holder
    BY <1>8 DEF Rename
  <2>2. disk' \in [files : SUBSET Paths, partial : SUBSET Paths] /\ disk'.files = disk.files \cup {path}
    BY <1>1, <1>2, <2>1 DEF Downloads
  <2>3. \A u \in Onward(t) : u.run = t.run
    BY DEF Onward, Task
  <2>4. \A q \in Runs : /\ run'[q].step = run[q].step /\ run'[q].kept = run[q].kept
                        /\ run'[q].got \subseteq run[q].got \cup {path}
                        /\ q # t.run => run'[q].got = run[q].got
    <3>1. CASE t.run = None
      BY <2>1, <3>1
    <3>2. CASE t.run # None
      <4>1. t.run \in Runs /\ run' = [run EXCEPT ![t.run] = [run[t.run] EXCEPT !.got = @ \cup {path}]]
        BY <1>1, <1>2, <2>1, <3>2 DEF Types
      <4>2. QED BY <1>1, <4>1 DEF Types, RunState
    <3>3. QED BY <3>1, <3>2
  <2>5. Downloads'
    <3>1. \A u \in tasks' : u.run # None => run'[u.run].step = "downloading"
      BY <1>1, <1>3, <2>1, <2>3, <2>4 DEF Downloads, Types, TaskState
    <3>2. \A q \in Runs : run'[q].step # "downloading" => run'[q].got = {}
      BY <1>1, <1>3, <2>4, RunsAssumption DEF Downloads
    <3>3. QED BY <1>1, <2>1, <2>2, <3>1, <3>2 DEF Downloads
  <2>6. ~tainted => Alone'
    BY <1>4, <2>1, <2>2, <2>4 DEF Served, Alone
  <2>7. QED BY <1>4, <2>5, <2>6 DEF Served
<1>9. QED BY <1>6, <1>7, <1>8 DEF Rename, DownloadFails

(* The steps of a run, one after the other.                                *)
LEMMA RunServed ==
  \A r \in Runs :
    /\ Inv /\ Served /\ (Compare(r) \/ Record(r) \/ SweepRead(r) \/ Sweep(r) \/ Outlive(r)) => Served'
    /\ \A more \in SUBSET (Works \ anchored) : Inv /\ Served /\ Begin(r, more) => Served'
    /\ \A stale \in SUBSET Works : Inv /\ Served /\ Fetch(r, stale) => Served'
<1>. SUFFICES ASSUME Inv, Served, NEW r \in Runs
              PROVE  /\ Compare(r) \/ Record(r) \/ SweepRead(r) \/ Sweep(r) \/ Outlive(r) => Served'
                     /\ \A more \in SUBSET (Works \ anchored) : Begin(r, more) => Served'
                     /\ \A stale \in SUBSET Works : Fetch(r, stale) => Served'
  OBVIOUS
<1>1. Types /\ Downloads /\ run[r] \in RunState /\ run \in [Runs -> RunState] /\ r # None
  BY RunsAssumption DEF Inv, Served, Types
<1>2. Rest.step = "idle" /\ Rest.got = {} /\ \A s : [Rest EXCEPT !.step = s].step = s /\ [Rest EXCEPT !.step = s].got = {}
  BY DEF Rest
<1>3. ASSUME NEW stale \in SUBSET Works, Fetch(r, stale) PROVE Served'
  <2>1. /\ run[r].step = "read" /\ UNCHANGED <<disk, rows, tasks, holder, tainted>>
        /\ \E f : run' = [run EXCEPT ![r].step = "fetched", ![r].wanted = f]
    BY <1>3 DEF Fetch
  <2>2. /\ run'[r].step = "fetched" /\ run'[r].got = run[r].got
        /\ \A q \in Runs \ {r} : run'[q] = run[q]
    BY <1>1, <2>1 DEF RunState
  <2>3. QED BY <1>1, <2>1, <2>2 DEF Served, Downloads, Alone, Types, TaskState
<1>4. ASSUME Compare(r) PROVE Served'
  <2> DEFINE M == Missing(run[r].wanted)
  <2>1. /\ run[r].step = "fetched" /\ UNCHANGED <<disk, rows, holder, tainted>>
        /\ run' = [run EXCEPT ![r].step = "downloading", ![r].missing = M]
        /\ tasks' = tasks \cup {Task(r, run[r].wanted[w], 1, FALSE) : w \in M}
    BY <1>4 DEF Compare
  <2> HIDE DEF M
  <2>6. \A t \in tasks' : t \in tasks \/ t.run = r
    BY <2>1 DEF Task
  <2>2. /\ run'[r].step = "downloading" /\ run'[r].got = run[r].got
        /\ \A q \in Runs \ {r} : run'[q] = run[q]
    BY <1>1, <2>1 DEF RunState
  <2>3. Downloads'
    <3>1. \A t \in tasks' : t.run # None => run'[t.run].step = "downloading"
      <4>1. SUFFICES ASSUME NEW t \in tasks, t.run # None PROVE run'[t.run].step = "downloading"
        BY <2>2, <2>6
      <4>2. t.run \in Runs /\ run[t.run].step = "downloading"
        BY <1>1, <4>1 DEF Downloads, Types, TaskState
      <4>3. QED BY <2>2, <4>2
    <3>2. QED BY <1>1, <2>1, <2>2, <3>1 DEF Downloads
  <2>4. ~tainted => Alone'
    BY <2>1, <2>2 DEF Served, Alone
  <2>5. QED BY <2>1, <2>3, <2>4 DEF Served
<1>5. ASSUME Record(r) PROVE Served'
  <2>1. /\ run[r].step = "downloading" /\ \A t \in tasks : t.run # r
        /\ UNCHANGED <<disk, tasks, holder, tainted>>
        /\ run' = [run EXCEPT ![r] = [Rest EXCEPT !.step = "recorded"]]
    BY <1>5 DEF Record
  <2>2. run'[r].step = "recorded" /\ run'[r].got = {} /\ \A q \in Runs \ {r} : run'[q] = run[q]
    BY <1>1, <1>2, <2>1
  <2>3. \A x \in rows' : x \in rows \/ x.path \in run[r].got
    BY <1>5 DEF Record, Left, New
  <2>4. Downloads'
    <3>1. \A t \in tasks : t.run # None => t.run \in Runs \ {r}
      BY <1>1, <2>1 DEF Types, TaskState
    <3>2. QED BY <1>1, <2>1, <2>2, <3>1 DEF Downloads
  <2>5. ~tainted => Alone'
    <3>1. SUFFICES ASSUME Alone PROVE Alone'
      BY DEF Served
    <3>2. holder = r /\ \A q \in Runs \ {r} : run[q].step = "idle"
      BY <2>1, <3>1 DEF Alone
    <3>3. Kept(rows)' \subseteq disk.files
      BY <2>3, <3>1 DEF Alone, Kept
    <3>4. QED BY <2>1, <2>2, <3>1, <3>2, <3>3 DEF Alone
  <2>6. QED BY <2>1, <2>4, <2>5 DEF Served
<1>6. ASSUME SweepRead(r) PROVE Served'
  <2>1. /\ run[r].step = "recorded" /\ UNCHANGED <<disk, rows, tasks, holder, tainted>>
        /\ run' = [run EXCEPT ![r].step = "sweeping", ![r].kept = Kept(rows)]
    BY <1>6 DEF SweepRead
  <2>2. /\ run'[r].step = "sweeping" /\ run'[r].got = run[r].got /\ run'[r].kept = Kept(rows)
        /\ \A q \in Runs \ {r} : run'[q] = run[q]
    <3>1. run' = [run EXCEPT ![r] = [run[r] EXCEPT !.step = "sweeping", !.kept = Kept(rows)]]
      BY <1>1, <2>1
    <3>2. QED BY <1>1, <3>1 DEF RunState
  <2>3. Kept(rows)' = Kept(rows)
    BY <2>1 DEF Kept
  <2>4. QED BY <1>1, <2>1, <2>2, <2>3 DEF Served, Downloads, Alone, Types, TaskState
<1>7. ASSUME Sweep(r) PROVE Served'
  <2>1. /\ run[r].step = "sweeping" /\ UNCHANGED <<rows, tasks, tainted>>
        /\ disk' = [files |-> disk.files \cap run[r].kept, partial |-> {}]
        /\ run' = [run EXCEPT ![r] = Rest]
        /\ holder' = IF holder = r THEN None ELSE holder
    BY <1>7 DEF Sweep, Swept
  <2>2. run'[r] = Rest /\ \A q \in Runs \ {r} : run'[q] = run[q]
    BY <1>1, <2>1
  <2>3. disk' \in [files : SUBSET Paths, partial : SUBSET Paths] /\ disk'.files = disk.files \cap run[r].kept
    BY <1>1, <2>1 DEF Downloads
  <2>4. Downloads'
    <3>1. \A t \in tasks : t.run # None => t.run \in Runs \ {r}
      BY <1>1, <2>1 DEF Downloads, Types, TaskState
    <3>2. \A q \in Runs : run'[q].step # "downloading" => run'[q].got = {}
      BY <1>1, <1>2, <2>2 DEF Downloads
    <3>3. holder' \in Runs \cup {None}
      BY <1>1, <2>1 DEF Downloads
    <3>4. QED BY <1>1, <2>1, <2>2, <2>3, <3>1, <3>2, <3>3 DEF Downloads
  <2>5. ~tainted => Alone'
    <3>1. SUFFICES ASSUME Alone PROVE Alone'
      BY DEF Served
    <3>2. holder = r /\ \A q \in Runs \ {r} : run[q].step = "idle"
      BY <2>1, <3>1 DEF Alone
    <3>3. \A q \in Runs : run'[q].step = "idle" /\ run'[q].got = {}
      BY <1>1, <1>2, <2>2, <3>2 DEF Downloads
    <3>4. Kept(rows)' \subseteq disk'.files
      BY <2>1, <2>3, <3>1 DEF Alone, Kept
    <3>5. QED BY <3>3, <3>4 DEF Alone
  <2>6. QED BY <2>1, <2>4, <2>5 DEF Served
<1>8. ASSUME Outlive(r) PROVE Served'
  BY <1>1, <1>8 DEF Outlive, Served, Downloads
<1>9. ASSUME NEW more \in SUBSET (Works \ anchored), Begin(r, more) PROVE Served'
  <2>1. /\ run[r].step = "idle" /\ holder = None /\ holder' = r
        /\ UNCHANGED <<disk, rows, tasks, tainted>>
        /\ run' = [run EXCEPT ![r] = [Rest EXCEPT !.step = "read"]]
    BY <1>9 DEF Begin
  <2>2. run'[r].step = "read" /\ run'[r].got = {} /\ \A q \in Runs \ {r} : run'[q] = run[q]
    BY <1>1, <1>2, <2>1
  <2>3. Downloads'
    <3>1. \A t \in tasks : t.run # None => t.run \in Runs \ {r}
      BY <1>1, <2>1 DEF Downloads, Types, TaskState
    <3>2. QED BY <1>1, <2>1, <2>2, <3>1 DEF Downloads
  <2>4. ~tainted => Alone'
    BY <2>1, <2>2, RunsAssumption DEF Served, Alone, Kept
  <2>5. QED BY <2>1, <2>3, <2>4 DEF Served
<1>10. QED BY <1>3, <1>4, <1>5, <1>6, <1>7, <1>8, <1>9

LEMMA WorldServed ==
  /\ Inv /\ Served /\ IgdbChanges => Served'
  /\ \A path : Inv /\ Served /\ UserDeletes(path) => Served'
  /\ Inv /\ Served /\ Die => Served'
<1>1. ASSUME Inv, Served, IgdbChanges PROVE Served'
  BY <1>1 DEF IgdbChanges, Served, Downloads, Alone, Kept
<1>2. ASSUME Inv, Served, NEW path, UserDeletes(path) PROVE Served'
  <2>1. disk' \in [files : SUBSET Paths, partial : SUBSET Paths]
    BY <1>2 DEF UserDeletes, Served, Downloads
  <2>2. QED BY <1>2, <2>1 DEF UserDeletes, Served, Downloads
<1>3. ASSUME Inv, Served, Die PROVE Served'
  <2>1. \A r \in Runs : run'[r].step = "idle" /\ run'[r].got = {}
    BY <1>3 DEF Die, Rest
  <2>2. tasks' = {} /\ holder' = None /\ UNCHANGED <<disk, rows, tainted>>
    BY <1>3 DEF Die
  <2>3. QED BY <1>3, <2>1, <2>2 DEF Served, Downloads, Alone, Kept
<1>4. QED BY <1>1, <1>2, <1>3

LEMMA StepsKeepServed == Inv /\ Served /\ [Next]_vars => Served'
<1>. SUFFICES ASSUME Inv, Served, [Next]_vars PROVE Served'
  OBVIOUS
<1>1. CASE IgdbChanges \/ Die \/ \E path \in disk.files : UserDeletes(path)
  BY <1>1, WorldServed
<1>2. ASSUME NEW r \in Runs,
             \/ Compare(r) \/ Record(r) \/ SweepRead(r) \/ Sweep(r) \/ Outlive(r)
             \/ \E more \in SUBSET (Works \ anchored) : Begin(r, more)
             \/ \E stale \in SUBSET Works : Fetch(r, stale)
      PROVE  Served'
  BY <1>2, RunServed
<1>3. CASE \E t \in tasks : Receive(t) \/ Rename(t) \/ DownloadFails(t)
  BY <1>3, DownloadServed
<1>4. CASE UNCHANGED vars
  BY <1>4 DEF vars, Served, Downloads, Alone, Kept
<1>5. QED BY <1>1, <1>2, <1>3, <1>4 DEF Next

(* Until a run is taken for dead or a user deletes a file, what a row      *)
(* names is on disk at every moment, between any two steps of a run that   *)
(* fails, dies or leaves downloads behind (covers.py _record, _sweep).     *)
THEOREM RowsAreServed == Spec => []FilesBehindRows
<1>1. Served => FilesBehindRows
  BY DEF Served, Alone, FilesBehindRows, Kept
<1>2. QED BY <1>1, StartsInv, StepsKeepInv, StartsServed, StepsKeepServed, PTL DEF Spec
=============================================================================
