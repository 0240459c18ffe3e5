---------------------------- MODULE CatalogueProofs ----------------------------
(***************************************************************************)
(* What is proved of the catalogue.                                        *)
(*                                                                         *)
(* Of Resolver, for any works, fields, sources and strategies: no flush    *)
(* breaks an index of field_provenance, what the user said stands, and     *)
(* between two transactions each column shows what its strategy decides of *)
(* its rows.                                                               *)
(*                                                                         *)
(* Of Matching, for any copies, games and runs, also runs that outlive     *)
(* their claim: a game and a store id have one work, nothing names a work  *)
(* that is gone, playtime is the sum of a work's copies, and what is       *)
(* anchored stays.                                                         *)
(***************************************************************************)
EXTENDS Resolver, Matching, FiniteSetTheorems, WellFoundedInduction, TLAPS

-----------------------------------------------------------------------------
(* IndexesHold of any set of rows.                                         *)
Indexed(R) ==
  \A r1, r2 \in R :
    r1 # r2 /\ Place(r1) = Place(r2) =>
      /\ r1.source # r2.source
      /\ ~(r1.effective /\ r2.effective)
      /\ Strategy[r1.field] = "single_source" => Manual \in {r1.source, r2.source}

(* Between the two flushes of `resolve`: the winners are rows, one of a    *)
(* field at most, and no other row of their fields is effective.           *)
ClearedForWinners ==
  /\ tx.winners \subseteq rows
  /\ \A r1 \in tx.winners, r2 \in rows :
       Place(r1) = Place(r2) /\ r1 # r2 => r2 \notin tx.winners /\ ~r2.effective

(* Between the flushes of a merge: of the rows of two works in one field   *)
(* none is from one source twice, or of two that may not both assert it,   *)
(* and the fields in play are all those the source has.                    *)
Folding ==
  LET s == tx.fold[1]
      t == tx.fold[2]
  IN /\ tx.fold \in Works \X Works \X SUBSET Fields /\ s # t
     /\ \A r \in rows : r.work = s => r.field \in tx.fold[3]
     /\ \A r1, r2 \in rows :
          r1.work = s /\ r2.work = t /\ r1.field = r2.field =>
            /\ r1.source # r2.source
            /\ Strategy[r1.field] = "single_source" => Manual \in {r1.source, r2.source}

Unmarked ==
  \A r \in rows :
    r.work \in {tx.fold[1], tx.fold[2]} /\ r.field \in tx.fold[3] => ~r.effective

Flushes ==
  /\ tx.step = "cleared" => ClearedForWinners
  /\ tx.step \in {"folded", "unmarked"} => Folding
  /\ tx.step = "unmarked" => Unmarked

(* What a transaction begins with and a rollback goes back to.             *)
Kept ==
  /\ kept.rows \subseteq Row /\ Indexed(kept.rows)
  /\ kept.works \subseteq Works
  /\ kept.clock \in 0..MaxWrites

Shape ==
  /\ works \subseteq Works
  /\ rows \subseteq Row
  /\ clock \in 0..MaxWrites
  /\ tx \in [step : {"idle", "recorded", "cleared", "resolved", "folded", "unmarked"},
             by : {"nobody", "user", "source", "merge"}, todo : SUBSET (Works \X Fields),
             winners : SUBSET Row, withdraw : SUBSET (Works \X Fields),
             fold : {<<>>} \cup (Works \X Works \X SUBSET Fields)]

Inv == Shape /\ Indexed(rows) /\ Flushes /\ Kept

-----------------------------------------------------------------------------
LEMMA StartsInv == Init => Inv
<1>. SUFFICES ASSUME Init PROVE Inv
  OBVIOUS
<1>1. Shape
  <2>1. tx = [step |-> "idle", by |-> "nobody", todo |-> {}, winners |-> {}, withdraw |-> {},
              fold |-> <<>>]
    BY DEF Init, Idle
  <2>2. works \subseteq Works /\ rows \subseteq Row /\ clock \in 0..MaxWrites
    BY BoundAssumption DEF Init
  <2>3. QED BY <2>1, <2>2 DEF Shape
<1>2. Indexed(rows) /\ Kept
  BY BoundAssumption DEF Init, Indexed, Kept
<1>3. Flushes
  BY DEF Init, Flushes, Idle
<1>4. QED BY <1>1, <1>2, <1>3 DEF Inv

(* Rows that are left out, or cleared, break no index.                     *)
LEMMA FewerAreIndexed ==
  ASSUME NEW R, NEW Q \in SUBSET R, Indexed(R)
  PROVE  Indexed(Q)
  BY DEF Indexed

LEMMA ClearingIsIndexed ==
  ASSUME NEW R \in SUBSET Row, NEW Q \in SUBSET R, Indexed(R)
  PROVE  LET C == {IF r \in Q THEN [r EXCEPT !.effective = FALSE] ELSE r : r \in R}
         IN  C \subseteq Row /\ Indexed(C)
<1>. DEFINE clear(r) == IF r \in Q THEN [r EXCEPT !.effective = FALSE] ELSE r
            C == {clear(r) : r \in R}
<1>1. ASSUME NEW r \in R
      PROVE  /\ clear(r) \in Row /\ Place(clear(r)) = Place(r)
             /\ clear(r).source = r.source /\ clear(r).field = r.field
             /\ clear(r).effective => r.effective
  BY DEF Row, Place
<1>2. Indexed(C)
  <2>1. SUFFICES ASSUME NEW q1 \in C, NEW q2 \in C, q1 # q2, Place(q1) = Place(q2)
                 PROVE  /\ q1.source # q2.source
                        /\ ~(q1.effective /\ q2.effective)
                        /\ Strategy[q1.field] = "single_source" => Manual \in {q1.source, q2.source}
    BY DEF Indexed
  <2>2. PICK r1 \in R, r2 \in R : q1 = clear(r1) /\ q2 = clear(r2)
    OBVIOUS
  <2>. HIDE DEF clear
  <2>3. r1 # r2 /\ Place(r1) = Place(r2)
    BY <1>1, <2>1, <2>2
  <2>4. QED BY <1>1, <2>2, <2>3 DEF Indexed
<1>3. QED BY <1>1, <1>2

(* A source's rows, put where no rival of it is.                           *)
LEMMA UpsertIsIndexed ==
  ASSUME Inv, NEW s \in Sources, NEW said, DOMAIN said \subseteq works \X Fields,
         \A wf \in DOMAIN said : said[wf] \in Values /\ ~Rivalled(wf, s), clock < MaxWrites
  PROVE  Upsert(s, said) \subseteq Row /\ Indexed(Upsert(s, said))
<1>. DEFINE own == {r \in rows : r.source = s /\ Place(r) \in DOMAIN said}
            row(wf) == [work |-> wf[1], field |-> wf[2], source |-> s, value |-> said[wf],
                        at |-> clock + 1,
                        effective |-> \E r \in own : Place(r) = wf /\ r.effective]
            new == {row(wf) : wf \in DOMAIN said}
<1>1. Upsert(s, said) = (rows \ own) \cup new
  BY DEF Upsert
<1>2. \A wf \in DOMAIN said : row(wf) \in Row /\ Place(row(wf)) = wf
  <2>1. clock + 1 \in 0..MaxWrites
    BY BoundAssumption DEF Inv, Shape
  <2>2. SUFFICES ASSUME NEW wf \in DOMAIN said
                 PROVE  row(wf) \in Row /\ Place(row(wf)) = wf
    OBVIOUS
  <2>3. wf[1] \in Works /\ wf[2] \in Fields /\ wf = <<wf[1], wf[2]>>
    BY DEF Inv, Shape
  <2>4. (\E r \in own : Place(r) = wf /\ r.effective) \in BOOLEAN
    OBVIOUS
  <2>5. QED BY <2>1, <2>3, <2>4 DEF Row, Place
<1>3. ASSUME NEW r1 \in rows \ own, NEW r2 \in new, Place(r1) = Place(r2)
      PROVE  /\ r1.source # r2.source
             /\ ~(r1.effective /\ r2.effective)
             /\ Strategy[r1.field] = "single_source" => Manual \in {r1.source, r2.source}
  <2>1. PICK wf \in DOMAIN said : r2 = row(wf)
    OBVIOUS
  <2>2. Place(r1) = wf /\ r2.source = s
    BY <1>2, <1>3, <2>1
  <2>3. r1.source # s
    BY <2>2
  <2>4. ~(r1.effective /\ r2.effective)
    BY <2>1, <2>2, <2>3 DEF Inv, Indexed
  <2>5. Strategy[r1.field] = "single_source" => Manual \in {r1.source, r2.source}
    BY <2>2, <2>3 DEF Rivalled, RowsOf, Place
  <2>6. QED BY <2>2, <2>3, <2>4, <2>5
<1>4. ASSUME NEW r1 \in new, NEW r2 \in new, Place(r1) = Place(r2)
      PROVE  r1 = r2
  <2>1. PICK wf1 \in DOMAIN said : r1 = row(wf1)
    OBVIOUS
  <2>2. PICK wf2 \in DOMAIN said : r2 = row(wf2)
    OBVIOUS
  <2>. HIDE DEF row
  <2>3. wf1 = wf2
    BY <1>2, <1>4, <2>1, <2>2
  <2>4. QED BY <2>1, <2>2, <2>3
<1>5. Indexed(rows \ own)
  BY FewerAreIndexed DEF Inv
<1>6. \A r \in new : r \in Row
  BY <1>2
<1>. HIDE DEF own, row, new
<1>7. Indexed((rows \ own) \cup new)
  <2>1. SUFFICES ASSUME NEW r1 \in (rows \ own) \cup new, NEW r2 \in (rows \ own) \cup new,
                        r1 # r2, Place(r1) = Place(r2)
                 PROVE  /\ r1.source # r2.source
                        /\ ~(r1.effective /\ r2.effective)
                        /\ Strategy[r1.field] = "single_source" => Manual \in {r1.source, r2.source}
    BY DEF Indexed
  <2>2. r1.field = r2.field
    BY <2>1 DEF Place
  <2>3. CASE r1 \in rows \ own /\ r2 \in rows \ own
    BY <1>5, <2>1, <2>3 DEF Indexed
  <2>4. CASE r1 \in rows \ own /\ r2 \in new
    BY <1>3, <2>1, <2>4
  <2>5. CASE r2 \in rows \ own /\ r1 \in new
    BY <1>3, <2>1, <2>2, <2>5
  <2>6. CASE r1 \in new /\ r2 \in new
    BY <1>4, <2>1, <2>6
  <2>7. QED BY <2>3, <2>4, <2>5, <2>6
<1>8. QED BY <1>1, <1>6, <1>7 DEF Inv, Shape

-----------------------------------------------------------------------------
(* record_entities by anyone.                                              *)
LEMMA RecordKeepsInv ==
  ASSUME Inv, NEW s \in Sources, NEW said, DOMAIN said \subseteq works \X Fields,
         \A wf \in DOMAIN said : said[wf] \in Values,
         NEW withdraw \in SUBSET (Works \X Fields), NEW by \in {"user", "source"},
         Record(s, said, withdraw, by)
  PROVE  Inv'
<1>1. rows' \subseteq Row /\ Indexed(rows')
  BY UpsertIsIndexed DEF Record
<1>2. tx' = [step |-> "recorded", by |-> by, todo |-> DOMAIN said, winners |-> {},
             withdraw |-> withdraw, fold |-> <<>>]
  BY DEF Record, Idle
<1>3. Shape'
  <2>1. clock' \in 0..MaxWrites /\ works' \subseteq Works
    BY BoundAssumption DEF Record, Inv, Shape
  <2>2. DOMAIN said \subseteq Works \X Fields
    BY DEF Inv, Shape
  <2>3. QED BY <1>1, <1>2, <2>1, <2>2 DEF Shape
<1>4. Flushes'
  BY <1>2 DEF Flushes
<1>5. Kept'
  BY DEF Record, Inv, Kept
<1>6. Indexed(rows)'
  BY <1>1 DEF Indexed, Place
<1>7. QED BY <1>3, <1>4, <1>5, <1>6 DEF Inv

(* The first flush of `resolve`.                                           *)
LEMMA ClearKeepsInv == Inv /\ Clear => Inv'
<1>. SUFFICES ASSUME Inv, Clear PROVE Inv'
  OBVIOUS
<1>1. PICK W \in SUBSET {r \in rows : Place(r) \in tx.todo} :
        /\ IsChoice(W)
        /\ rows' = Cleared(W)
        /\ tx' = [tx EXCEPT !.step = "cleared", !.winners = W, !.todo = {}]
  BY DEF Clear
<1>. DEFINE Q == {r \in rows : Place(r) \in tx.todo /\ r \notin W}
<1>2. rows' = {IF r \in Q THEN [r EXCEPT !.effective = FALSE] ELSE r : r \in rows}
  BY <1>1 DEF Cleared
<1>3. rows' \subseteq Row /\ Indexed(rows')
  <2>1. Q \in SUBSET rows /\ rows \in SUBSET Row /\ Indexed(rows)
    BY DEF Inv, Shape
  <2>. HIDE DEF Q
  <2>2. QED BY <1>2, <2>1, ClearingIsIndexed
<1>4. \A r1, r2 \in W : Place(r1) = Place(r2) => r1 = r2
  BY <1>1 DEF IsChoice
<1>5. ClearedForWinners'
  <2>1. tx'.winners = W
    BY <1>1 DEF Inv, Shape
  <2>2. W \subseteq rows'
    BY <1>1, <1>2
  <2>3. ASSUME NEW r1 \in W, NEW r2 \in rows', Place(r1) = Place(r2), r1 # r2
        PROVE  r2 \notin W /\ ~r2.effective
    <3>1. PICK r \in rows : r2 = IF r \in Q THEN [r EXCEPT !.effective = FALSE] ELSE r
      BY <1>2
    <3>2. r \in Row
      BY DEF Inv, Shape
    <3>3. Place(r) = Place(r1) /\ Place(r1) \in tx.todo
      BY <1>1, <2>3, <3>1, <3>2 DEF Place, Row
    <3>4. r2 \notin W
      BY <1>4, <2>3
    <3>5. r \in Q
      BY <3>1, <3>3, <3>4
    <3>6. QED BY <3>1, <3>2, <3>4, <3>5 DEF Row
  <2>4. QED BY <2>1, <2>2, <2>3 DEF ClearedForWinners, Place
<1>6. tx' \in [step : {"cleared"}, by : {"nobody", "user", "source", "merge"},
               todo : SUBSET (Works \X Fields), winners : SUBSET Row,
               withdraw : SUBSET (Works \X Fields),
               fold : {<<>>} \cup (Works \X Works \X SUBSET Fields)]
  BY <1>1 DEF Inv, Shape
<1>7. QED BY <1>3, <1>5, <1>6 DEF Clear, Inv, Shape, Flushes, Kept, Indexed, Place

(* The second, `_mark_effective`.                                          *)
LEMMA MarkKeepsInv == Inv /\ Mark => Inv'
<1>. SUFFICES ASSUME Inv, Mark PROVE Inv'
  OBVIOUS
<1>. DEFINE W == tx.winners
            marked(r) == [r EXCEPT !.effective = TRUE]
<1>1. rows' = (rows \ W) \cup {marked(r) : r \in W}
  BY DEF Mark
<1>2. /\ W \subseteq rows
      /\ \A r1 \in W, r2 \in rows : Place(r1) = Place(r2) /\ r1 # r2 => r2 \notin W /\ ~r2.effective
  BY DEF Mark, Inv, Flushes, ClearedForWinners
<1>3. ASSUME NEW r \in W
      PROVE  /\ marked(r) \in Row /\ Place(marked(r)) = Place(r)
             /\ marked(r).source = r.source /\ marked(r).field = r.field
  BY <1>2 DEF Inv, Shape, Row, Place
<1>. HIDE DEF marked
<1>4. rows' \subseteq Row
  BY <1>1, <1>3 DEF Inv, Shape
<1>5. Indexed(rows')
  <2>1. SUFFICES ASSUME NEW q1 \in rows', NEW q2 \in rows', q1 # q2, Place(q1) = Place(q2)
                 PROVE  /\ q1.source # q2.source
                        /\ ~(q1.effective /\ q2.effective)
                        /\ Strategy[q1.field] = "single_source" => Manual \in {q1.source, q2.source}
    BY DEF Indexed
  <2>2. CASE q1 \in rows \ W /\ q2 \in rows \ W
    BY <2>1, <2>2 DEF Inv, Indexed
  <2>3. ASSUME NEW r \in W, NEW q \in rows \ W, Place(marked(r)) = Place(q)
        PROVE  /\ marked(r).source # q.source /\ ~q.effective /\ marked(r).field = q.field
               /\ Strategy[q.field] = "single_source" => Manual \in {marked(r).source, q.source}
    <3>1. r \in rows /\ q \in rows /\ r # q /\ Place(r) = Place(q)
      BY <1>2, <1>3, <2>3
    <3>2. QED BY <1>2, <1>3, <3>1 DEF Inv, Indexed, Place
  <2>4. ASSUME NEW r1 \in W, NEW r2 \in W, Place(marked(r1)) = Place(marked(r2))
        PROVE  r1 = r2
    BY <1>2, <1>3, <2>4
  <2>5. QED BY <1>1, <2>1, <2>2, <2>3, <2>4
<1>6. tx' \in [step : {"resolved"}, by : {"nobody", "user", "source", "merge"},
               todo : SUBSET (Works \X Fields), winners : SUBSET Row,
               withdraw : SUBSET (Works \X Fields),
               fold : {<<>>} \cup (Works \X Works \X SUBSET Fields)]
  BY DEF Mark, Inv, Shape
<1>7. QED BY <1>4, <1>5, <1>6 DEF Mark, Inv, Shape, Flushes, Kept, Indexed, Place

(* A step that takes rows away, or none, and leaves the flushes of no      *)
(* resolve or merge behind it.                                             *)
LEMMA TakingAwayKeepsInv ==
  ASSUME Inv, rows' \subseteq rows, works' \subseteq Works, UNCHANGED kept,
         clock' \in 0..MaxWrites,
         tx' \in [step : {"idle", "recorded", "resolved"},
                 by : {"nobody", "user", "source", "merge"},
                 todo : SUBSET (Works \X Fields), winners : {{}},
                 withdraw : SUBSET (Works \X Fields),
                 fold : {<<>>} \cup (Works \X Works \X SUBSET Fields)]
  PROVE  Inv'
<1>1. Shape'
  BY DEF Inv, Shape
<1>2. Indexed(rows')
  BY FewerAreIndexed DEF Inv
<1>3. Flushes'
  BY DEF Flushes
<1>4. QED BY <1>1, <1>2, <1>3 DEF Inv, Kept, Indexed, Place

(* A merge's first flush: of two rows of one source the earlier goes.      *)
LEMMA FoldKeepsInv == \A s, t \in works : Inv /\ Fold(s, t) => Inv'
<1>. SUFFICES ASSUME NEW s \in works, NEW t \in works, Inv, Fold(s, t) PROVE Inv'
  OBVIOUS
<1>1. s # t /\ ~Conflict(s, t) /\ rows' = rows \ Losers(s, t)
  BY DEF Fold
<1>. DEFINE fields == {r.field : r \in {x \in rows : x.work = s}}
<1>2. fields \subseteq Fields
  BY DEF Inv, Shape, Row
<1>3. tx' = [step |-> "folded", by |-> "merge", todo |-> {}, winners |-> {}, withdraw |-> {},
             fold |-> <<s, t, fields>>]
  BY DEF Fold, Idle
<1>4. Shape'
  <2>1. s \in Works /\ t \in Works
    BY DEF Inv, Shape
  <2>2. rows' \subseteq Row /\ works' \subseteq Works /\ clock' \in 0..MaxWrites
    BY <1>1 DEF Fold, Inv, Shape
  <2>. HIDE DEF fields
  <2>3. QED BY <1>2, <1>3, <2>1, <2>2 DEF Shape
<1>5. Indexed(rows')
  BY <1>1, FewerAreIndexed DEF Inv
<1>6. Folding'
  <2>1. tx'.fold = <<s, t, fields>> /\ tx'.fold \in Works \X Works \X SUBSET Fields
    BY <1>2, <1>3 DEF Inv, Shape
  <2>2. \A r \in rows' : r.work = s => r.field \in fields
    BY <1>1
  <2>3. ASSUME NEW r1 \in rows', NEW r2 \in rows', r1.work = s, r2.work = t,
               r1.field = r2.field
        PROVE  /\ r1.source # r2.source
               /\ Strategy[r1.field] = "single_source" => Manual \in {r1.source, r2.source}
    <3>1. r1 \in rows /\ r2 \in rows /\ r1 \notin Losers(s, t) /\ r2 \notin Losers(s, t)
      BY <1>1
    <3>2. r1.at \in Nat /\ r2.at \in Nat
      BY <3>1, BoundAssumption DEF Inv, Shape, Row
    <3>3. r1.source # r2.source
      BY <2>3, <3>1, <3>2 DEF Losers, Collide
    <3>4. QED BY <1>1, <2>3, <3>1, <3>3 DEF Conflict
  <2>. HIDE DEF fields
  <2>4. QED BY <1>1, <2>1, <2>2, <2>3 DEF Folding
<1>7. Flushes'
  BY <1>3, <1>6 DEF Flushes
<1>8. QED BY <1>4, <1>5, <1>7 DEF Fold, Inv, Kept, Indexed, Place

(* Its second: the rows in play are marked no more.                        *)
LEMMA UnmarkKeepsInv == Inv /\ Unmark => Inv'
<1>. SUFFICES ASSUME Inv, Unmark PROVE Inv'
  OBVIOUS
<1>. DEFINE InPlay(r) == r.work \in {tx.fold[1], tx.fold[2]} /\ r.field \in tx.fold[3]
            Q == {r \in rows : InPlay(r)}
            unmark(r) == IF r \in Q THEN [r EXCEPT !.effective = FALSE] ELSE r
<1>1. rows' = {unmark(r) : r \in rows}
  BY DEF Unmark
<1>2. tx' \in [step : {"unmarked"}, by : {"nobody", "user", "source", "merge"},
               todo : SUBSET (Works \X Fields), winners : SUBSET Row,
               withdraw : SUBSET (Works \X Fields),
               fold : {<<>>} \cup (Works \X Works \X SUBSET Fields)]
      /\ tx'.fold = tx.fold
  BY DEF Unmark, Inv, Shape
<1>3. ASSUME NEW r \in rows
      PROVE  /\ unmark(r).work = r.work /\ unmark(r).field = r.field
             /\ unmark(r).source = r.source
             /\ InPlay(r) => ~unmark(r).effective
  BY DEF Inv, Shape, Row
<1>4. rows' \subseteq Row /\ Indexed(rows')
  <2>1. Q \in SUBSET rows /\ rows \in SUBSET Row /\ Indexed(rows)
    BY DEF Inv, Shape
  <2>2. rows' = {IF r \in Q THEN [r EXCEPT !.effective = FALSE] ELSE r : r \in rows}
    BY <1>1
  <2>. HIDE DEF Q
  <2>3. QED BY <2>1, <2>2, ClearingIsIndexed
<1>5. Folding
  BY DEF Unmark, Inv, Flushes
<1>. HIDE DEF unmark
<1>6. Unmarked'
  BY <1>1, <1>2, <1>3 DEF Unmarked
<1>7. Folding'
  BY <1>1, <1>2, <1>3, <1>5 DEF Folding
<1>8. QED BY <1>2, <1>4, <1>6, <1>7 DEF Unmark, Inv, Shape, Flushes, Kept, Indexed, Place

(* Its third: what was the source's is the target's, and no two rows of    *)
(* the two meet.                                                           *)
LEMMA MoveKeepsInv == Inv /\ MoveRows => Inv'
<1>. SUFFICES ASSUME Inv, MoveRows PROVE Inv'
  OBVIOUS
<1>. DEFINE s == tx.fold[1]
            t == tx.fold[2]
            moved(r) == IF r.work = s THEN [r EXCEPT !.work = t] ELSE r
            todo == {<<t, r.field>> : r \in {x \in rows : x.work \in {s, t}}}
<1>1. Folding /\ Unmarked
  BY DEF MoveRows, Inv, Flushes
<1>2. s \in Works /\ t \in Works /\ s # t
  BY <1>1 DEF Folding
<1>3. rows' = {moved(r) : r \in rows}
  BY DEF MoveRows
<1>4. tx' = [tx EXCEPT !.step = "recorded", !.fold = <<>>, !.todo = todo]
  BY DEF MoveRows
<1>5. todo \subseteq Works \X Fields
  BY <1>2 DEF Inv, Shape, Row
<1>6. ASSUME NEW r \in rows
      PROVE  /\ moved(r) \in Row /\ moved(r).field = r.field /\ moved(r).source = r.source
             /\ moved(r).effective = r.effective
             /\ moved(r).work = IF r.work = s THEN t ELSE r.work
  BY <1>2 DEF Inv, Shape, Row
<1>7. Shape'
  <2>. HIDE DEF todo, moved
  <2>1. tx' \in [step : {"recorded"}, by : {"nobody", "user", "source", "merge"},
                 todo : SUBSET (Works \X Fields), winners : SUBSET Row,
                 withdraw : SUBSET (Works \X Fields), fold : {<<>>}]
    BY <1>4, <1>5 DEF Inv, Shape
  <2>2. rows' \subseteq Row
    BY <1>3, <1>6
  <2>3. works' \subseteq Works /\ clock' \in 0..MaxWrites
    BY DEF MoveRows, Inv, Shape
  <2>4. QED BY <2>1, <2>2, <2>3 DEF Shape
<1>8. Indexed(rows')
  <2>1. SUFFICES ASSUME NEW q1 \in rows', NEW q2 \in rows', q1 # q2, Place(q1) = Place(q2)
                 PROVE  /\ q1.source # q2.source
                        /\ ~(q1.effective /\ q2.effective)
                        /\ Strategy[q1.field] = "single_source" => Manual \in {q1.source, q2.source}
    BY DEF Indexed
  <2>2. PICK r1 \in rows, r2 \in rows : q1 = moved(r1) /\ q2 = moved(r2)
    BY <1>3
  <2>. HIDE DEF moved
  <2>3. r1 # r2 /\ r1.field = r2.field /\ moved(r1).work = moved(r2).work
    BY <1>6, <2>1, <2>2 DEF Place
  <2>4. CASE r1.work = r2.work
    BY <1>6, <2>2, <2>3, <2>4 DEF Inv, Indexed, Place
  <2>5. ASSUME NEW a \in rows, NEW b \in rows, a.work = s, b.work = t, a.field = b.field
        PROVE  /\ a.source # b.source /\ ~a.effective /\ ~b.effective
               /\ Strategy[a.field] = "single_source" => Manual \in {a.source, b.source}
    BY <1>1, <2>5 DEF Folding, Unmarked
  <2>6. CASE r1.work = s /\ r2.work = t
    BY <1>6, <2>2, <2>3, <2>5, <2>6
  <2>7. CASE r1.work = t /\ r2.work = s
    BY <1>6, <2>2, <2>3, <2>5, <2>7
  <2>8. QED BY <1>6, <2>3, <2>4, <2>6, <2>7
<1>9. Flushes'
  BY <1>4 DEF Flushes, Inv, Shape
<1>10. QED BY <1>7, <1>8, <1>9 DEF MoveRows, Inv, Kept, Indexed, Place

-----------------------------------------------------------------------------
LEMMA StepsKeepInv == Inv /\ [Next]_vars => Inv'
<1>. SUFFICES ASSUME Inv, [Next]_vars PROVE Inv'
  OBVIOUS
<1>1. ASSUME NEW s \in Sources \ {Manual}, NEW P \in Places(s), NEW said \in [P -> Values],
             Report(s, said)
      PROVE  Inv'
  <2>1. DOMAIN said \subseteq works \X Fields /\ \A wf \in DOMAIN said : said[wf] \in Values
    BY SourceAssumption DEF Places
  <2>2. Record(s, said, {}, "source")
    BY <1>1 DEF Report
  <2>3. QED BY <2>1, <2>2, RecordKeepsInv
<1>2. ASSUME NEW w \in works, NEW F \in Forms, NEW said \in [F -> Figures], Edit(w, said)
      PROVE  Inv'
  <2>. DEFINE form == [wf \in {w} \X DOMAIN said |-> said[wf[2]]]
              empty == {w} \X (ManualFields \ DOMAIN said)
  <2>1. F \subseteq Fields
    BY FieldAssumption DEF Forms
  <2>2. DOMAIN form \subseteq works \X Fields /\ \A wf \in DOMAIN form : form[wf] \in Values
    BY <2>1 DEF Values
  <2>3. empty \in SUBSET (Works \X Fields)
    BY FieldAssumption DEF Inv, Shape
  <2>4. Record(Manual, form, empty, "user") /\ Manual \in Sources
    BY <1>2, SourceAssumption DEF Edit
  <2>. HIDE DEF form, empty
  <2>5. QED BY <2>2, <2>3, <2>4, RecordKeepsInv
<1>3. ASSUME NEW w \in works, Forget(w) PROVE Inv'
  <2>1. {w} \X ManualFields \subseteq Works \X Fields
    BY FieldAssumption DEF Inv, Shape
  <2>2. tx' = [step |-> "resolved", by |-> "user", todo |-> {}, winners |-> {},
               withdraw |-> {w} \X ManualFields, fold |-> <<>>]
    BY <1>3 DEF Forget, Idle
  <2>3. QED BY <1>3, <2>1, <2>2, TakingAwayKeepsInv DEF Forget, Inv, Shape
<1>4. ASSUME NEW w \in works, Delete(w) PROVE Inv'
  <2>1. tx' = [step |-> "resolved", by |-> "user", todo |-> {}, winners |-> {},
               withdraw |-> {}, fold |-> <<>>]
    BY <1>4 DEF Delete, Idle
  <2>2. QED BY <1>4, <2>1, TakingAwayKeepsInv DEF Delete, RowsWithout, Inv, Shape
<1>5. ASSUME NEW w \in Works, Create(w) PROVE Inv'
  <2>1. tx' = [step |-> "resolved", by |-> "source", todo |-> {}, winners |-> {},
               withdraw |-> {}, fold |-> <<>>]
    BY <1>5 DEF Create, Idle
  <2>2. QED BY <1>5, <2>1, TakingAwayKeepsInv DEF Create, Inv, Shape
<1>6. CASE Withdraw
  <2>1. PICK wf \in tx.withdraw :
          /\ rows' = rows \ Said(RowsOf(wf[1], wf[2]))
          /\ tx' = [tx EXCEPT !.step = "recorded", !.todo = {wf}, !.withdraw = @ \ {wf}]
    BY <1>6 DEF Withdraw
  <2>2. Shape'
    <3>1. wf \in Works \X Fields /\ tx.withdraw \ {wf} \subseteq Works \X Fields
      BY DEF Inv, Shape
    <3>2. tx' \in [step : {"recorded"}, by : {"nobody", "user", "source", "merge"},
                   todo : SUBSET (Works \X Fields), winners : SUBSET Row,
                   withdraw : SUBSET (Works \X Fields),
                   fold : {<<>>} \cup (Works \X Works \X SUBSET Fields)]
      BY <2>1, <3>1 DEF Inv, Shape
    <3>3. QED BY <1>6, <2>1, <3>2 DEF Withdraw, Inv, Shape
  <2>3. Indexed(rows')
    BY <2>1, FewerAreIndexed DEF Inv
  <2>4. Flushes'
    BY <2>1 DEF Flushes, Inv, Shape
  <2>5. QED BY <1>6, <2>2, <2>3, <2>4 DEF Withdraw, Inv, Kept, Indexed, Place
<1>7. CASE Commit
  BY <1>7 DEF Commit, Idle, Inv, Shape, Flushes, Kept, Indexed, Place
<1>8. CASE Rollback
  <2>1. tx' = [step |-> "idle", by |-> "nobody", todo |-> {}, winners |-> {},
               withdraw |-> {}, fold |-> <<>>]
    BY <1>8 DEF Rollback, Idle
  <2>2. QED BY <1>8, <2>1 DEF Rollback, Inv, Shape, Flushes, Kept, Indexed, Place
<1>9. CASE UNCHANGED vars
  BY <1>9 DEF vars, Inv, Shape, Flushes, ClearedForWinners, Folding, Unmarked, Kept, Indexed, Place
<1>10. QED
  BY <1>1, <1>2, <1>3, <1>4, <1>5, <1>6, <1>7, <1>8, <1>9, FoldKeepsInv, UnmarkKeepsInv,
     MoveKeepsInv, ClearKeepsInv, MarkKeepsInv DEF Next

(* No flush of a record, an edit, a resolve, a withdrawal or a merge is    *)
(* refused by an index of field_provenance, whatever was written before.   *)
THEOREM IndexesAlwaysHold == Spec => []IndexesHold
<1>1. Inv => IndexesHold
  BY DEF Inv, Indexed, IndexesHold
<1>2. QED BY StartsInv, StepsKeepInv, <1>1, PTL DEF Spec

-----------------------------------------------------------------------------
(* What the user says is dated, later than all before it, and of one work: *)
(* two of the user's rows on a field have different times.                 *)
Dated(R, now) ==
  /\ \A r \in R : r.at <= now
  /\ \A r1, r2 \in Said(R) : r1.field = r2.field /\ r1.at = r2.at => r1.work = r2.work

(* r2 says for the user what r says, or something said later.              *)
StandsFor(r2, r) == StillSaid(r, r2) /\ (r2.at = r.at => r2.value = r.value)

(* Where it is to be found: on its work, on the work that one became, or,  *)
(* while two are being merged, on the other of them.                       *)
FoundOn(r2, r) ==
  \/ r2.work = r.work
  \/ IF tx.step \in {"folded", "unmarked"}
     THEN \/ r.work = tx.fold[1] /\ r2.work = tx.fold[2]
          \/ r.work = tx.fold[2] /\ r2.work = tx.fold[1]
     ELSE r.work \notin works

Standing ==
  tx.by # "user" =>
    /\ tx.withdraw = {}
    /\ \A r \in Said(kept.rows) : \E r2 \in rows : StandsFor(r2, r) /\ FoundOn(r2, r)

SaidInv ==
  /\ Dated(rows, clock) /\ Dated(kept.rows, kept.clock)
  /\ tx.step = "idle" => rows = kept.rows /\ works = kept.works
  /\ Standing

LEMMA SaidStarts == Init => SaidInv
  BY DEF Init, Idle, SaidInv, Dated, Standing, Said

(* Fewer rows are dated as well.                                           *)
LEMMA FewerAreDated ==
  ASSUME NEW R, NEW Q \in SUBSET R, NEW now, Dated(R, now)
  PROVE  Dated(Q, now)
  BY DEF Dated, Said

(* A source's record leaves the user's rows as they are.                   *)
LEMMA ReportKeepsSaid ==
  ASSUME Inv, SaidInv, NEW s \in Sources \ {Manual}, NEW said,
         DOMAIN said \subseteq works \X Fields, Record(s, said, {}, "source")
  PROVE  SaidInv'
<1>. DEFINE own == {r \in rows : r.source = s /\ Place(r) \in DOMAIN said}
            new == {[work |-> wf[1], field |-> wf[2], source |-> s, value |-> said[wf],
                     at |-> clock + 1,
                     effective |-> \E r \in own : Place(r) = wf /\ r.effective] : wf \in DOMAIN said}
<1>1. rows' = (rows \ own) \cup new /\ clock' = clock + 1 /\ clock \in Nat
  BY BoundAssumption DEF Record, Upsert, Inv, Shape
<1>2. /\ \A r \in new : r.source = s /\ r.at = clock + 1
      /\ \A r \in own : r.source = s
  OBVIOUS
<1>3. \A r \in rows : r.at \in Nat
  BY BoundAssumption DEF Inv, Shape, Row
<1>. HIDE DEF own, new
<1>4. Said(rows') = Said(rows)
  BY <1>1, <1>2 DEF Said
<1>5. Dated(rows', clock')
  <2>1. \A r \in rows' : r.at <= clock'
    BY <1>1, <1>2, <1>3 DEF SaidInv, Dated
  <2>2. QED BY <1>4, <2>1 DEF SaidInv, Dated
<1>6. tx.step = "idle" /\ UNCHANGED <<kept, works>>
      /\ tx'.step = "recorded" /\ tx'.withdraw = {}
  BY DEF Record, Idle
<1>7. Standing'
  <2>1. ASSUME NEW r \in Said(kept.rows)
        PROVE  r \in rows' /\ StandsFor(r, r) /\ FoundOn(r, r)'
    <3>1. r \in rows' /\ r \in Said(rows) /\ r.at \in Nat
      BY <1>3, <1>4, <1>6 DEF SaidInv, Said
    <3>2. QED BY <3>1 DEF StandsFor, StillSaid, FoundOn, Said
  <2>2. QED BY <1>6, <2>1 DEF Standing, StandsFor, StillSaid
<1>8. Dated(rows, clock)' /\ Dated(kept.rows, kept.clock)'
  BY <1>5, <1>6 DEF SaidInv, Dated, Said
<1>9. QED BY <1>6, <1>7, <1>8 DEF SaidInv

(* The user's form is dated now, and is of one work.                       *)
LEMMA EditKeepsSaid ==
  ASSUME Inv, SaidInv, NEW w \in works, NEW said, NEW withdraw,
         DOMAIN said \subseteq {w} \X Fields, Record(Manual, said, withdraw, "user")
  PROVE  SaidInv'
<1>. DEFINE own == {r \in rows : r.source = Manual /\ Place(r) \in DOMAIN said}
            new == {[work |-> wf[1], field |-> wf[2], source |-> Manual, value |-> said[wf],
                     at |-> clock + 1,
                     effective |-> \E r \in own : Place(r) = wf /\ r.effective] : wf \in DOMAIN said}
<1>1. rows' = (rows \ own) \cup new /\ clock' = clock + 1 /\ clock \in Nat
  BY BoundAssumption DEF Record, Upsert, Inv, Shape
<1>2. \A r \in new : r.work = w /\ r.at = clock + 1
  OBVIOUS
<1>3. \A r \in rows : r.at \in Nat /\ r.at <= clock
  BY BoundAssumption DEF Inv, Shape, Row, SaidInv, Dated
<1>. HIDE DEF own, new
<1>4. Dated(rows', clock')
  <2>1. \A r \in rows' : r.at <= clock'
    BY <1>1, <1>2, <1>3
  <2>2. ASSUME NEW r1 \in Said(rows'), NEW r2 \in Said(rows'), r1.field = r2.field, r1.at = r2.at
        PROVE  r1.work = r2.work
    <3>1. CASE r1 \in new /\ r2 \in new
      BY <1>2, <3>1
    <3>2. CASE r1 \in rows /\ r2 \in rows
      BY <2>2, <3>2 DEF SaidInv, Dated, Said
    <3>3. QED BY <1>1, <1>2, <1>3, <2>2, <3>1, <3>2 DEF Said
  <2>3. QED BY <2>1, <2>2 DEF Dated
<1>5. UNCHANGED kept /\ tx'.step = "recorded" /\ tx'.by = "user"
  BY DEF Record, Idle
<1>6. QED BY <1>4, <1>5 DEF SaidInv, Dated, Said, Standing

(* A flush that only marks rows, or no longer marks them.                  *)
Alike(r, q) ==
  r.work = q.work /\ r.field = q.field /\ r.source = q.source /\ r.value = q.value /\ r.at = q.at

LEMMA MarkingKeepsSaid ==
  ASSUME SaidInv, UNCHANGED <<works, clock, kept>>,
         \A r \in rows' : \E q \in rows : Alike(r, q),
         \A q \in rows : \E r \in rows' : Alike(r, q),
         tx'.by = tx.by, tx'.withdraw = tx.withdraw, tx'.fold = tx.fold, tx'.step # "idle",
         tx'.step \in {"folded", "unmarked"} <=> tx.step \in {"folded", "unmarked"}
  PROVE  SaidInv'
<1>1. Dated(rows, clock)' /\ Dated(kept.rows, kept.clock)'
  <2>1. \A r \in rows' : r.at <= clock
    BY DEF SaidInv, Dated, Alike
  <2>2. ASSUME NEW r1 \in Said(rows'), NEW r2 \in Said(rows'), r1.field = r2.field, r1.at = r2.at
        PROVE  r1.work = r2.work
    <3>1. PICK q1 \in rows, q2 \in rows : Alike(r1, q1) /\ Alike(r2, q2)
      BY DEF Said
    <3>2. q1 \in Said(rows) /\ q2 \in Said(rows) /\ q1.field = q2.field /\ q1.at = q2.at
      BY <2>2, <3>1 DEF Said, Alike
    <3>3. QED BY <3>1, <3>2 DEF SaidInv, Dated, Alike
  <2>3. QED BY <2>1, <2>2 DEF SaidInv, Dated, Said
<1>2. Standing'
  <2>1. SUFFICES ASSUME tx.by # "user", NEW r \in Said(kept.rows)
                 PROVE  \E r2 \in rows' : StandsFor(r2, r) /\ FoundOn(r2, r)'
    BY DEF SaidInv, Standing, StandsFor, StillSaid, Said
  <2>2. PICK q \in rows : StandsFor(q, r) /\ FoundOn(q, r)
    BY <2>1 DEF SaidInv, Standing
  <2>3. PICK r2 \in rows' : Alike(r2, q)
    OBVIOUS
  <2>4. QED BY <2>2, <2>3 DEF StandsFor, StillSaid, FoundOn, Alike
<1>3. QED BY <1>1, <1>2 DEF SaidInv

LEMMA ClearKeepsSaid == Inv /\ SaidInv /\ Clear => SaidInv'
<1>. SUFFICES ASSUME Inv, SaidInv, Clear PROVE SaidInv'
  OBVIOUS
<1>1. PICK W \in SUBSET rows :
        /\ rows' = Cleared(W)
        /\ tx' = [tx EXCEPT !.step = "cleared", !.winners = W, !.todo = {}]
  BY DEF Clear
<1>. DEFINE clear(r) == IF Place(r) \in tx.todo /\ r \notin W
                        THEN [r EXCEPT !.effective = FALSE] ELSE r
<1>2. \A r \in rows : Alike(clear(r), r)
  BY DEF Inv, Shape, Row, Alike
<1>3. rows' = {clear(r) : r \in rows}
  BY <1>1 DEF Cleared
<1>. HIDE DEF clear
<1>4. /\ \A r \in rows' : \E q \in rows : Alike(r, q)
      /\ \A q \in rows : \E r \in rows' : Alike(r, q)
  BY <1>2, <1>3
<1>5. /\ tx'.by = tx.by /\ tx'.withdraw = tx.withdraw /\ tx'.fold = tx.fold
      /\ tx'.step = "cleared" /\ tx.step = "recorded"
  BY <1>1 DEF Clear, Inv, Shape
<1>6. QED BY <1>4, <1>5, MarkingKeepsSaid DEF Clear

LEMMA MarkKeepsSaid == Inv /\ SaidInv /\ Mark => SaidInv'
<1>. SUFFICES ASSUME Inv, SaidInv, Mark PROVE SaidInv'
  OBVIOUS
<1>1. tx.winners \subseteq rows
  BY DEF Mark, Inv, Flushes, ClearedForWinners
<1>2. \A r \in rows : Alike([r EXCEPT !.effective = TRUE], r) /\ Alike(r, r)
  BY DEF Inv, Shape, Row, Alike
<1>3. /\ \A r \in rows' : \E q \in rows : Alike(r, q)
      /\ \A q \in rows : \E r \in rows' : Alike(r, q)
  BY <1>1, <1>2 DEF Mark
<1>4. /\ tx'.by = tx.by /\ tx'.withdraw = tx.withdraw /\ tx'.fold = tx.fold
      /\ tx'.step = "resolved" /\ tx.step = "cleared"
  BY DEF Mark, Inv, Shape
<1>5. QED BY <1>3, <1>4, MarkingKeepsSaid DEF Mark

LEMMA UnmarkKeepsSaid == Inv /\ SaidInv /\ Unmark => SaidInv'
<1>. SUFFICES ASSUME Inv, SaidInv, Unmark PROVE SaidInv'
  OBVIOUS
<1>. DEFINE unmark(r) == IF r.work \in {tx.fold[1], tx.fold[2]} /\ r.field \in tx.fold[3]
                         THEN [r EXCEPT !.effective = FALSE] ELSE r
<1>1. \A r \in rows : Alike(unmark(r), r)
  BY DEF Inv, Shape, Row, Alike
<1>2. rows' = {unmark(r) : r \in rows}
  BY DEF Unmark
<1>. HIDE DEF unmark
<1>3. /\ \A r \in rows' : \E q \in rows : Alike(r, q)
      /\ \A q \in rows : \E r \in rows' : Alike(r, q)
  BY <1>1, <1>2
<1>4. /\ tx'.by = tx.by /\ tx'.withdraw = tx.withdraw /\ tx'.fold = tx.fold
      /\ tx'.step = "unmarked" /\ tx.step = "folded"
  BY DEF Unmark, Inv, Shape
<1>5. QED BY <1>3, <1>4, MarkingKeepsSaid DEF Unmark

(* Of two things the user said of two works that become one, what goes is  *)
(* the earlier, and what stays is not itself taken away.                   *)
LEMMA FoldKeepsSaid == \A s, t \in works : Inv /\ SaidInv /\ Fold(s, t) => SaidInv'
<1>. SUFFICES ASSUME NEW s \in works, NEW t \in works, Inv, SaidInv, Fold(s, t) PROVE SaidInv'
  OBVIOUS
<1>1. s # t /\ rows' = rows \ Losers(s, t) /\ UNCHANGED <<works, clock, kept>>
  BY DEF Fold
<1>2. /\ tx'.step = "folded" /\ tx'.withdraw = {}
      /\ tx'.fold[1] = s /\ tx'.fold[2] = t
      /\ tx.step = "idle"
  BY DEF Fold, Idle
<1>3. \A r \in rows : r.at \in Nat
  BY BoundAssumption DEF Inv, Shape, Row
<1>4. Dated(rows, clock)' /\ Dated(kept.rows, kept.clock)'
  BY <1>1, FewerAreDated DEF SaidInv, Dated, Said
<1>5. \A r1, r2 \in rows : r1.work = r2.work /\ Collide(r1, r2) => r1 = r2
  BY DEF Inv, Indexed, Place, Collide
<1>6. ASSUME NEW r \in Said(kept.rows)
      PROVE  \E r2 \in rows' : StandsFor(r2, r) /\ FoundOn(r2, r)'
  <2>1. r \in Said(rows) /\ r \in rows /\ r.source = Manual
    BY <1>2 DEF SaidInv, Said
  <2>2. CASE r \notin Losers(s, t)
    <3>1. r \in rows' /\ StandsFor(r, r) /\ FoundOn(r, r)'
      BY <1>1, <1>3, <2>1, <2>2 DEF StandsFor, StillSaid, FoundOn
    <3>2. QED BY <3>1
  <2>3. CASE r.work = s /\ \E r2 \in rows : r2.work = t /\ Collide(r, r2) /\ r2.at >= r.at
    <3>1. PICK r2 \in rows : r2.work = t /\ Collide(r, r2) /\ r2.at >= r.at
      BY <2>3
    <3>2. ASSUME NEW r3 \in rows, r3.work = s, Collide(r2, r3), r3.at > r2.at PROVE FALSE
      <4>1. r3 = r
        BY <1>5, <2>1, <2>3, <3>1, <3>2 DEF Collide
      <4>2. QED BY <1>3, <3>1, <3>2, <4>1
    <3>3. r2 \in rows'
      BY <1>1, <3>1, <3>2 DEF Losers
    <3>4. r2.at # r.at
      BY <1>1, <2>1, <2>3, <3>1 DEF SaidInv, Dated, Said, Collide
    <3>5. StandsFor(r2, r) /\ FoundOn(r2, r)'
      BY <1>2, <2>1, <2>3, <3>1, <3>4 DEF StandsFor, StillSaid, FoundOn, Collide
    <3>6. QED BY <3>3, <3>5
  <2>4. CASE r.work = t /\ \E r2 \in rows : r2.work = s /\ Collide(r, r2) /\ r2.at > r.at
    <3>1. PICK r2 \in rows : r2.work = s /\ Collide(r, r2) /\ r2.at > r.at
      BY <2>4
    <3>2. ASSUME NEW r3 \in rows, r3.work = t, Collide(r2, r3), r3.at >= r2.at PROVE FALSE
      <4>1. r3 = r
        BY <1>5, <2>1, <2>4, <3>1, <3>2 DEF Collide
      <4>2. QED BY <1>3, <3>1, <3>2, <4>1
    <3>3. r2 \in rows'
      BY <1>1, <3>1, <3>2 DEF Losers
    <3>4. r2.at # r.at /\ r2.at >= r.at
      BY <1>3, <2>1, <3>1
    <3>5. StandsFor(r2, r) /\ FoundOn(r2, r)'
      BY <1>2, <2>1, <2>4, <3>1, <3>4 DEF StandsFor, StillSaid, FoundOn, Collide
    <3>6. QED BY <3>3, <3>5
  <2>5. QED BY <2>1, <2>2, <2>3, <2>4 DEF Losers
<1>7. Standing'
  BY <1>1, <1>2, <1>6 DEF Standing
<1>8. QED BY <1>2, <1>4, <1>7 DEF SaidInv

(* The two have become one work.                                           *)
LEMMA MoveKeepsSaid == Inv /\ SaidInv /\ MoveRows => SaidInv'
<1>. SUFFICES ASSUME Inv, SaidInv, MoveRows PROVE SaidInv'
  OBVIOUS
<1>. DEFINE s == tx.fold[1]
            t == tx.fold[2]
            moved(r) == IF r.work = s THEN [r EXCEPT !.work = t] ELSE r
<1>1. rows' = {moved(r) : r \in rows} /\ works' = works \ {s} /\ UNCHANGED <<clock, kept>>
  BY DEF MoveRows
<1>2. ASSUME NEW r \in rows
      PROVE  /\ moved(r).field = r.field /\ moved(r).source = r.source
             /\ moved(r).at = r.at /\ moved(r).value = r.value
             /\ moved(r).work = IF r.work = s THEN t ELSE r.work
  BY DEF Inv, Shape, Row
<1>3. /\ tx.step = "unmarked" /\ tx'.step = "recorded"
      /\ tx'.by = tx.by /\ tx'.withdraw = tx.withdraw
  BY DEF MoveRows, Inv, Shape
<1>4. s # t
  BY <1>3 DEF Inv, Flushes, Folding
<1>. HIDE DEF moved, s, t
<1>5. Dated(rows, clock)' /\ Dated(kept.rows, kept.clock)'
  <2>1. \A r \in rows' : r.at <= clock
    BY <1>1, <1>2 DEF SaidInv, Dated
  <2>2. ASSUME NEW q1 \in Said(rows'), NEW q2 \in Said(rows'), q1.field = q2.field, q1.at = q2.at
        PROVE  q1.work = q2.work
    <3>1. PICK r1 \in rows, r2 \in rows : q1 = moved(r1) /\ q2 = moved(r2)
      BY <1>1 DEF Said
    <3>2. r1 \in Said(rows) /\ r2 \in Said(rows) /\ r1.field = r2.field /\ r1.at = r2.at
      BY <1>2, <2>2, <3>1 DEF Said
    <3>3. r1.work = r2.work
      BY <3>2 DEF SaidInv, Dated
    <3>4. QED BY <1>2, <3>1, <3>3
  <2>3. QED BY <1>1, <2>1, <2>2 DEF SaidInv, Dated, Said
<1>6. Standing'
  <2>1. SUFFICES ASSUME tx.by # "user", NEW r \in Said(kept.rows)
                 PROVE  \E r2 \in rows' : StandsFor(r2, r) /\ FoundOn(r2, r)'
    BY <1>1, <1>3 DEF SaidInv, Standing, StandsFor, StillSaid, Said
  <2>2. PICK q \in rows : StandsFor(q, r) /\ FoundOn(q, r)
    BY <2>1 DEF SaidInv, Standing
  <2>3. moved(q) \in rows' /\ StandsFor(moved(q), r)
    BY <1>1, <1>2, <2>2 DEF StandsFor, StillSaid
  <2>4. moved(q).work = r.work \/ r.work \notin works'
    BY <1>1, <1>2, <1>3, <1>4, <2>2 DEF FoundOn, s, t
  <2>5. QED BY <1>3, <2>3, <2>4 DEF FoundOn
<1>7. QED BY <1>3, <1>5, <1>6 DEF SaidInv

(* A transaction of the user's, or one that has written no row yet.        *)
LEMMA UsersOwnKeepsSaid ==
  ASSUME SaidInv, rows' \subseteq rows, UNCHANGED <<clock, kept>>,
         tx'.by = "user", tx'.step # "idle"
  PROVE  SaidInv'
<1>1. Dated(rows', clock)
  BY FewerAreDated DEF SaidInv
<1>2. QED BY <1>1 DEF SaidInv, Standing, Dated, Said

LEMMA SaidIsKept == Inv /\ SaidInv /\ [Next]_vars => SaidInv'
<1>. SUFFICES ASSUME Inv, SaidInv, [Next]_vars PROVE SaidInv'
  OBVIOUS
<1>1. ASSUME NEW s \in Sources \ {Manual}, NEW P \in Places(s), NEW said \in [P -> Values],
             Report(s, said)
      PROVE  SaidInv'
  <2>1. DOMAIN said \subseteq works \X Fields
    BY SourceAssumption DEF Places
  <2>2. QED BY <1>1, <2>1, ReportKeepsSaid DEF Report
<1>2. ASSUME NEW w \in works, NEW F \in Forms, NEW said \in [F -> Figures], Edit(w, said)
      PROVE  SaidInv'
  <2>. DEFINE form == [wf \in {w} \X DOMAIN said |-> said[wf[2]]]
              empty == {w} \X (ManualFields \ DOMAIN said)
  <2>1. DOMAIN form \subseteq {w} \X Fields
    BY FieldAssumption DEF Forms
  <2>2. Record(Manual, form, empty, "user")
    BY <1>2 DEF Edit
  <2>. HIDE DEF form, empty
  <2>3. QED BY <2>1, <2>2, EditKeepsSaid
<1>3. ASSUME NEW w \in works, Forget(w) PROVE SaidInv'
  BY <1>3, UsersOwnKeepsSaid DEF Forget, Idle
<1>4. ASSUME NEW w \in works, Delete(w) PROVE SaidInv'
  BY <1>4, UsersOwnKeepsSaid DEF Delete, Idle, RowsWithout
<1>5. ASSUME NEW w \in Works, Create(w) PROVE SaidInv'
  <2>1. tx.step = "idle" /\ tx'.step = "resolved" /\ tx'.withdraw = {}
    BY <1>5 DEF Create, Idle
  <2>2. UNCHANGED <<rows, clock, kept>> /\ rows = kept.rows
    BY <1>5, <2>1 DEF Create, SaidInv
  <2>3. ASSUME NEW r \in Said(rows) PROVE r \in rows /\ StandsFor(r, r) /\ FoundOn(r, r)'
    BY BoundAssumption DEF Said, StandsFor, StillSaid, FoundOn, Inv, Shape, Row
  <2>4. Standing'
    BY <2>1, <2>2, <2>3 DEF Standing, StandsFor, StillSaid
  <2>5. QED BY <2>1, <2>2, <2>4 DEF SaidInv, Dated, Said
<1>6. CASE Withdraw
  <2>1. PICK wf \in tx.withdraw :
          /\ rows' = rows \ Said(RowsOf(wf[1], wf[2]))
          /\ tx' = [tx EXCEPT !.step = "recorded", !.todo = {wf}, !.withdraw = @ \ {wf}]
    BY <1>6 DEF Withdraw
  <2>2. tx.by = "user"
    BY <2>1 DEF SaidInv, Standing
  <2>3. tx'.by = "user" /\ tx'.step = "recorded"
    BY <2>1, <2>2 DEF Inv, Shape
  <2>4. QED BY <1>6, <2>1, <2>3, UsersOwnKeepsSaid DEF Withdraw
<1>7. ASSUME Commit \/ Rollback PROVE SaidInv'
  <2>1. /\ rows' = kept'.rows /\ works' = kept'.works /\ clock' = kept'.clock
        /\ tx'.step = "idle" /\ tx'.withdraw = {}
        /\ Dated(rows', clock') /\ rows' \subseteq Row
    BY <1>7 DEF Commit, Rollback, Idle, SaidInv, Inv, Shape, Kept
  <2>2. ASSUME NEW r \in Said(rows') PROVE r \in rows' /\ StandsFor(r, r) /\ FoundOn(r, r)'
    BY <2>1, BoundAssumption DEF Said, StandsFor, StillSaid, FoundOn, Row
  <2>3. Standing'
    BY <2>1, <2>2 DEF Standing, Said, StandsFor, StillSaid
  <2>4. QED BY <2>1, <2>3 DEF SaidInv, Dated, Said
<1>8. CASE UNCHANGED vars
  BY <1>8 DEF vars, SaidInv, Dated, Said, Standing, StandsFor, StillSaid, FoundOn
<1>9. QED
  BY <1>1, <1>2, <1>3, <1>4, <1>5, <1>6, <1>7, <1>8, FoldKeepsSaid, UnmarkKeepsSaid,
     MoveKeepsSaid, ClearKeepsSaid, MarkKeepsSaid DEF Next

(* Rule 3, for every set of works, fields and sources and any number of    *)
(* writes: what the user said is taken back in the user's transactions     *)
(* only, and a merge leaves the later of two such statements.              *)
THEOREM UserAlwaysStands == Spec => UserStands
<1>. DEFINE Stands ==
       tx.by # "user" =>
         \A r \in Said(kept.rows) :
           \E r2 \in kept'.rows :
             /\ StillSaid(r, r2)
             /\ r2.at = r.at => r2.value = r.value
             /\ r2.work = r.work \/ r.work \notin kept'.works
<1>1. Inv /\ SaidInv /\ [Next]_vars => [Stands]_vars
  <2>1. SUFFICES ASSUME Inv, SaidInv, [Next]_vars, tx.by # "user", NEW r \in Said(kept.rows)
                 PROVE  \E r2 \in kept'.rows :
                          /\ StillSaid(r, r2)
                          /\ r2.at = r.at => r2.value = r.value
                          /\ r2.work = r.work \/ r.work \notin kept'.works
    OBVIOUS
  <2>2. CASE Commit
    <3>1. PICK r2 \in rows : StandsFor(r2, r) /\ FoundOn(r2, r)
      BY <2>1 DEF SaidInv, Standing
    <3>2. kept'.rows = rows /\ kept'.works = works /\ tx.step = "resolved"
      BY <2>2 DEF Commit
    <3>3. QED BY <3>1, <3>2 DEF StandsFor, FoundOn
  <2>3. CASE UNCHANGED kept
    <3>1. r \in kept'.rows /\ r \in Row /\ r.source = Manual
      BY <2>1, <2>3 DEF Said, Inv, Kept
    <3>2. r.at >= r.at
      BY <3>1, BoundAssumption DEF Row
    <3>3. QED BY <3>1, <3>2 DEF StillSaid
  <2>4. ASSUME ~Commit PROVE UNCHANGED kept
    <3>1. CASE \/ \E s \in Sources \ {Manual} :
                    \E P \in Places(s) : \E said \in [P -> Values] : Report(s, said)
               \/ \E w \in works, F \in Forms : \E said \in [F -> Figures] : Edit(w, said)
      <4>1. ASSUME NEW s, NEW said, NEW withdraw, NEW by, Record(s, said, withdraw, by)
            PROVE  UNCHANGED kept
        BY <4>1 DEF Record
      <4>2. \/ \E s \in Sources : \E said : Record(s, said, {}, "source")
            \/ \E said, withdraw : Record(Manual, said, withdraw, "user")
        BY <3>1 DEF Report, Edit
      <4>3. QED BY <4>1, <4>2
    <3>2. CASE \/ \E w \in works : Forget(w) \/ Delete(w)
               \/ \E w \in Works : Create(w)
               \/ \E s, t \in works : Fold(s, t)
      BY <3>2 DEF Forget, Delete, Create, Fold
    <3>3. CASE Unmark \/ MoveRows \/ Clear \/ Mark \/ Withdraw \/ Rollback \/ UNCHANGED vars
      BY <3>3 DEF Unmark, MoveRows, Clear, Mark, Withdraw, Rollback, vars
    <3>4. QED BY <2>1, <2>4, <3>1, <3>2, <3>3 DEF Next
  <2>5. QED BY <2>2, <2>3, <2>4
<1>2. QED
  BY StartsInv, StepsKeepInv, SaidStarts, SaidIsKept, <1>1, PTL DEF Spec, UserStands

-----------------------------------------------------------------------------
(* Columns and rows.  A place is settled when its column shows its one     *)
(* effective row, the best there is, or nothing where nothing is said.     *)
RowsAt(R, w, f) == {r \in R : r.work = w /\ r.field = f}

Best(e, P) ==
  /\ Said(P) # {} => e.source = Manual
  /\ Said(P) = {} =>
       \A r \in P :
         IF Strategy[e.field] = "max" THEN r.value # NoValue => r.value <= e.value
         ELSE Ladder[e.source] <= Ladder[r.source]

Silent(P, f) ==
  /\ \A r \in P : Strategy[f] = "max" /\ r.value = NoValue
  /\ Said(P) = {}

Settled(R, col, w, f) ==
  LET P == RowsAt(R, w, f)
  IN /\ (\A e \in P : ~e.effective) =>
          /\ col[w][f] \in {NoValue, Own}
          /\ Silent(P, f)
          /\ P # {} => col[w][f] = NoValue
     /\ \A e \in P : e.effective => col[w][f] = e.value /\ Best(e, P)

(* The places an open transaction has yet to decide: those to resolve, to  *)
(* mark, or of two works that become one.                                  *)
Pending(w, f) ==
  \/ tx.step = "recorded" /\ <<w, f>> \in tx.todo
  \/ tx.step = "cleared" /\ \E r \in tx.winners : r.work = w /\ r.field = f
  \/ tx.step \in {"folded", "unmarked"} /\ w \in {tx.fold[1], tx.fold[2]} /\ f \in tx.fold[3]

(* No row and no figure of a work there is not.                            *)
Gone(W, R, col) ==
  /\ \A r \in R : r.work \in W
  /\ \A w \in Works \ W, f \in Fields : col[w][f] = Own

Columns == [Works -> [Fields -> Values \cup {Own}]]

Decided(W, R, col) ==
  /\ col \in Columns
  /\ Gone(W, R, col)
  /\ \A w \in W, f \in Fields : Settled(R, col, w, f)

(* A winner is the best of its place and the column shows it already; in a *)
(* merge every field in play still has a row of one of the two.            *)
Underway ==
  /\ tx.todo \subseteq works \X Fields /\ tx.withdraw \subseteq works \X Fields
  /\ tx.step = "cleared" =>
       \A r \in tx.winners : column[r.work][r.field] = r.value /\ Best(r, RowsAt(rows, r.work, r.field))
  /\ tx.step \in {"folded", "unmarked"} =>
       /\ tx.withdraw = {} /\ tx.fold[1] \in works /\ tx.fold[2] \in works
       /\ \A f \in tx.fold[3] : \E r \in rows : r.work \in {tx.fold[1], tx.fold[2]} /\ r.field = f

DecidedInv ==
  /\ column \in Columns
  /\ Gone(works, rows, column)
  /\ \A w \in works, f \in Fields : Pending(w, f) \/ Settled(rows, column, w, f)
  /\ Underway
  /\ Decided(kept.works, kept.rows, kept.column)

-----------------------------------------------------------------------------
(* What `sorted` and `_greatest` find: a first where there is a row.       *)
LEMMA MinimalOne ==
  ASSUME NEW S, IsFiniteSet(S), S # {}, NEW rel,
         \A x \in S : <<x, x>> \notin rel,
         \A x, y, z \in S : <<x, y>> \in rel /\ <<y, z>> \in rel => <<x, z>> \in rel
  PROVE  \E x \in S : \A y \in S : <<y, x>> \notin rel
<1>. DEFINE below(x) == {y \in S : <<y, x>> \in rel}
            B == {below(x) : x \in S}
<1>1. B \subseteq FiniteSubsetsOf(S) /\ B # {}
  <2>1. \A x \in S : below(x) \in SUBSET S /\ IsFiniteSet(below(x))
    BY FS_Subset
  <2>. HIDE DEF below
  <2>2. QED BY <2>1 DEF FiniteSubsetsOf
<1>2. PICK b \in B : \A c \in B : <<c, b>> \notin StrictSubsetOrdering(S)
  BY <1>1, FS_StrictSubsetOrderingWellFounded, WFMin
<1>3. PICK x \in S : b = below(x)
  OBVIOUS
<1>4. ASSUME NEW y \in S, <<y, x>> \in rel PROVE FALSE
  <2>1. below(y) \subseteq below(x) /\ y \in below(x) /\ y \notin below(y)
    BY <1>4
  <2>2. <<below(y), below(x)>> \in StrictSubsetOrdering(S)
    BY <2>1 DEF StrictSubsetOrdering
  <2>3. QED BY <1>2, <1>3, <2>2
<1>5. QED BY <1>4

LEMMA BeforeIsAnOrder ==
  /\ \A r \in Row : ~Before(r, r)
  /\ \A r1, r2, r3 \in Row : Before(r1, r2) /\ Before(r2, r3) => Before(r1, r3)
<1>1. \A r \in Row : Ladder[r.source] \in Nat /\ Weight[r.source] \in Nat /\ r.at \in Nat
  BY SourceAssumption, BoundAssumption DEF Row
<1>2. QED BY <1>1 DEF Before

LEMMA FirstThere ==
  ASSUME NEW R \in SUBSET Row, IsFiniteSet(R), R # {}
  PROVE  First(R) # {}
<1>. DEFINE rel == {p \in R \X R : Before(p[1], p[2])}
<1>1. \A x, y \in R : <<x, y>> \in rel <=> Before(x, y)
  OBVIOUS
<1>. HIDE DEF rel
<1>2. /\ \A x \in R : <<x, x>> \notin rel
      /\ \A x, y, z \in R : <<x, y>> \in rel /\ <<y, z>> \in rel => <<x, z>> \in rel
  BY <1>1, BeforeIsAnOrder
<1>3. \E x \in R : \A y \in R : <<y, x>> \notin rel
  BY <1>2, MinimalOne
<1>4. QED BY <1>1, <1>3 DEF First

LEMMA GreatestThere ==
  ASSUME NEW R \in SUBSET Row, IsFiniteSet(R), \E r \in R : r.value # NoValue
  PROVE  Greatest(R) # {}
<1>. DEFINE numeric == {r \in R : r.value # NoValue}
            rel == {p \in numeric \X numeric : p[2].value < p[1].value}
            top == {r \in numeric : \A r2 \in numeric : r2.value <= r.value}
<1>1. \A r \in numeric : r.value \in Nat
  BY ValueAssumption DEF Row, Values
<1>2. IsFiniteSet(numeric) /\ numeric # {}
  BY FS_Subset
<1>3. \A x, y \in numeric : <<x, y>> \in rel <=> y.value < x.value
  OBVIOUS
<1>. HIDE DEF rel, numeric
<1>4. /\ \A x \in numeric : <<x, x>> \notin rel
      /\ \A x, y, z \in numeric : <<x, y>> \in rel /\ <<y, z>> \in rel => <<x, z>> \in rel
  BY <1>1, <1>3
<1>5. \E x \in numeric : \A y \in numeric : <<y, x>> \notin rel
  BY <1>2, <1>4, MinimalOne
<1>6. top # {}
  <2>1. PICK x \in numeric : \A y \in numeric : <<y, x>> \notin rel
    BY <1>5
  <2>2. ASSUME NEW y \in numeric PROVE y.value <= x.value
    <3>1. ~(x.value < y.value)
      BY <1>3, <2>1
    <3>2. QED BY <1>1, <3>1
  <2>3. QED BY <2>2
<1>7. top \in SUBSET Row /\ IsFiniteSet(top)
  BY <1>2, FS_Subset DEF numeric
<1>8. QED BY <1>6, <1>7, FirstThere DEF Greatest, numeric

(* One source has one row of a place, so there are finitely many.          *)
LEMMA PlaceIsFinite ==
  ASSUME NEW R \in SUBSET Row, \A r1, r2 \in R : r1 # r2 => r1.source # r2.source
  PROVE  IsFiniteSet(R)
<1>. DEFINE from == [r \in R |-> r.source]
<1>1. from \in Injection(R, Sources)
  BY DEF Injection, IsInjective, Row
<1>2. QED BY <1>1, SourceAssumption, FS_Injection

LEMMA CandidatesAreBest ==
  ASSUME NEW R \in SUBSET Row, NEW f \in Fields, NEW e \in Candidates(f, R), e.field = f
  PROVE  e \in R /\ Best(e, R)
<1>1. CASE Said(R) # {}
  BY <1>1 DEF Candidates, First, Said, Best
<1>2. CASE Said(R) = {} /\ Strategy[f] = "max"
  BY <1>2 DEF Candidates, Greatest, First, Best
<1>3. CASE Said(R) = {} /\ Strategy[f] # "max"
  <2>1. e \in R /\ \A r \in R : ~Before(r, e)
    BY <1>3 DEF Candidates, First
  <2>2. \A r \in R : Ladder[r.source] \in Nat
    BY SourceAssumption DEF Row
  <2>3. \A r \in R : Ladder[e.source] <= Ladder[r.source]
    BY <2>1, <2>2 DEF Before
  <2>4. QED BY <1>3, <2>1, <2>3 DEF Best
<1>4. QED BY <1>1, <1>2, <1>3

LEMMA NoCandidates ==
  ASSUME NEW R \in SUBSET Row, IsFiniteSet(R), NEW f \in Fields, Candidates(f, R) = {}
  PROVE  Silent(R, f)
<1>1. Said(R) = {}
  <2>1. Said(R) \in SUBSET Row /\ IsFiniteSet(Said(R))
    BY FS_Subset DEF Said
  <2>2. QED BY <2>1, FirstThere DEF Candidates
<1>2. CASE Strategy[f] = "max"
  BY <1>1, <1>2, GreatestThere DEF Candidates, Silent
<1>3. CASE Strategy[f] # "max"
  BY <1>1, <1>3, FirstThere DEF Candidates, Silent
<1>4. QED BY <1>1, <1>2, <1>3

(* What a flush that only marks rows does not change.                      *)
LEMMA AlikeAreAsGood ==
  ASSUME NEW P, NEW Q,
         \A r \in P : \E q \in Q : Alike(r, q), \A q \in Q : \E r \in P : Alike(r, q)
  PROVE  /\ \A e, d : Alike(e, d) /\ Best(d, Q) => Best(e, P)
         /\ \A f : Silent(Q, f) => Silent(P, f)
<1>1. Said(P) = {} <=> Said(Q) = {}
  BY DEF Said, Alike
<1>2. ASSUME NEW e, NEW d, Alike(e, d), Best(d, Q) PROVE Best(e, P)
  <2>1. CASE Said(P) # {}
    BY <1>1, <1>2, <2>1 DEF Best, Alike
  <2>2. CASE Said(P) = {}
    <3>1. ASSUME NEW r \in P
          PROVE  IF Strategy[e.field] = "max" THEN r.value # NoValue => r.value <= e.value
                 ELSE Ladder[e.source] <= Ladder[r.source]
      <4>1. PICK q \in Q : Alike(r, q)
        OBVIOUS
      <4>2. QED BY <1>1, <1>2, <2>2, <4>1 DEF Best, Alike
    <3>2. QED BY <2>2, <3>1 DEF Best
  <2>3. QED BY <2>1, <2>2
<1>3. ASSUME NEW f, Silent(Q, f) PROVE Silent(P, f)
  BY <1>1, <1>3 DEF Silent, Alike
<1>4. QED BY <1>2, <1>3

LEMMA SameIsSettled ==
  ASSUME NEW R, NEW Q, NEW col, NEW col2, NEW w, NEW f,
         RowsAt(R, w, f) = RowsAt(Q, w, f), col[w][f] = col2[w][f], Settled(R, col, w, f)
  PROVE  Settled(Q, col2, w, f)
  BY DEF Settled

LEMMA NextIsDecided ==
  ASSUME column' \in Columns, Gone(works', rows', column'),
         \A w \in works', f \in Fields : Pending(w, f)' \/ Settled(rows', column', w, f),
         Underway', Decided(kept'.works, kept'.rows, kept'.column)
  PROVE  DecidedInv'
  BY DEF DecidedInv, Columns, Gone, Settled, Silent, Best, RowsAt, Said, Decided

-----------------------------------------------------------------------------
(* The steps, one after the other.                                         *)
LEMMA DecidedStarts == Init => DecidedInv
<1>. SUFFICES ASSUME Init PROVE DecidedInv
  OBVIOUS
<1>1. column \in Columns /\ rows = {} /\ works = Works /\ \A w \in Works, f \in Fields : column[w][f] = Own
  BY DEF Init, Columns
<1>2. \A w \in works, f \in Fields : Settled(rows, column, w, f)
  BY <1>1 DEF Settled, RowsAt, Silent, Said
<1>3. Gone(works, rows, column) /\ Decided(kept.works, kept.rows, kept.column)
  BY <1>1, <1>2 DEF Init, Gone, Decided
<1>4. Underway
  BY DEF Init, Idle, Underway
<1>5. QED BY <1>1, <1>2, <1>3, <1>4 DEF DecidedInv

LEMMA RecordKeepsDecided ==
  ASSUME Inv, DecidedInv, NEW s, NEW said, DOMAIN said \subseteq works \X Fields,
         NEW withdraw \in SUBSET (works \X Fields), NEW by, Record(s, said, withdraw, by)
  PROVE  DecidedInv'
<1>. DEFINE own == {r \in rows : r.source = s /\ Place(r) \in DOMAIN said}
            row(wf) == [work |-> wf[1], field |-> wf[2], source |-> s, value |-> said[wf],
                        at |-> clock + 1,
                        effective |-> \E r \in own : Place(r) = wf /\ r.effective]
            new == {row(wf) : wf \in DOMAIN said}
<1>1. rows' = (rows \ own) \cup new /\ UNCHANGED <<works, column, kept>>
  BY DEF Record, Upsert
<1>2. tx.step = "idle" /\ tx'.step = "recorded" /\ tx'.todo = DOMAIN said /\ tx'.withdraw = withdraw
  BY DEF Record, Idle
<1>3. /\ \A r \in new : r.work \in works /\ <<r.work, r.field>> \in DOMAIN said
      /\ \A r \in own : <<r.work, r.field>> \in DOMAIN said
  BY DEF Place
<1>. HIDE DEF own, new
<1>4. Gone(works', rows', column')
  BY <1>1, <1>3 DEF DecidedInv, Gone
<1>5. ASSUME NEW w \in works, NEW f \in Fields, <<w, f>> \notin DOMAIN said
      PROVE  Settled(rows', column', w, f)
  <2>1. RowsAt(rows', w, f) = RowsAt(rows, w, f)
    BY <1>1, <1>3, <1>5 DEF RowsAt
  <2>2. Settled(rows, column, w, f)
    BY <1>2 DEF DecidedInv, Pending
  <2>3. QED BY <1>1, <2>1, <2>2, SameIsSettled
<1>6. \A w \in works', f \in Fields : Pending(w, f)' \/ Settled(rows', column', w, f)
  BY <1>1, <1>2, <1>5 DEF Pending
<1>7. Underway'
  BY <1>1, <1>2 DEF Underway
<1>8. QED BY <1>1, <1>4, <1>6, <1>7, NextIsDecided DEF DecidedInv

LEMMA ClearKeepsDecided == Inv /\ DecidedInv /\ Clear => DecidedInv'
<1>. SUFFICES ASSUME Inv, DecidedInv, Clear PROVE DecidedInv'
  OBVIOUS
<1>1. PICK W \in SUBSET {r \in rows : Place(r) \in tx.todo} :
        /\ IsChoice(W)
        /\ rows' = Cleared(W)
        /\ column' = [w \in Works |-> [f \in Fields |->
                        IF <<w, f>> \in tx.todo THEN ValueOf(W, <<w, f>>) ELSE column[w][f]]]
        /\ tx' = [tx EXCEPT !.step = "cleared", !.winners = W, !.todo = {}]
  BY DEF Clear
<1>. DEFINE clear(r) == IF Place(r) \in tx.todo /\ r \notin W THEN [r EXCEPT !.effective = FALSE] ELSE r
<1>2. /\ tx.step = "recorded" /\ UNCHANGED <<works, kept>> /\ works \subseteq Works
      /\ tx'.step = "cleared" /\ tx'.winners = W /\ tx'.todo = {} /\ tx'.withdraw = tx.withdraw
  BY <1>1 DEF Clear, Inv, Shape
<1>3. \A r \in rows : /\ Alike(clear(r), r) /\ r \in Row
                      /\ Place(r) \in tx.todo /\ r \notin W => ~clear(r).effective
                      /\ Place(r) \notin tx.todo \/ r \in W => clear(r) = r
  BY DEF Inv, Shape, Row, Alike
<1>4. rows' = {clear(r) : r \in rows}
  BY <1>1 DEF Cleared
<1>5. \A wf \in tx.todo : wf = <<wf[1], wf[2]>> /\ wf[1] \in works /\ wf[2] \in Fields
  BY DEF DecidedInv, Underway
<1>6. \A r \in W : r \in rows /\ <<r.work, r.field>> \in tx.todo
  BY DEF Place
<1>. HIDE DEF clear
<1>7. Gone(works', rows', column')
  BY <1>1, <1>2, <1>3, <1>4, <1>5 DEF DecidedInv, Gone, Alike
<1>8. \A w \in works, f \in Fields :
        /\ \A q \in RowsAt(rows', w, f) : \E r \in RowsAt(rows, w, f) : Alike(q, r) /\ q = clear(r)
        /\ \A r \in RowsAt(rows, w, f) : \E q \in RowsAt(rows', w, f) : Alike(q, r)
  BY <1>3, <1>4 DEF RowsAt, Alike
<1>9. ASSUME NEW w \in works, NEW f \in Fields, <<w, f>> \in tx.todo
      PROVE  /\ RowsAt(rows, w, f) \in SUBSET Row /\ IsFiniteSet(RowsAt(rows, w, f))
             /\ RowsOf(w, f) = RowsAt(rows, w, f)
             /\ \A r \in W : r.work = w /\ r.field = f => r \in Candidates(f, RowsOf(w, f))
             /\ (\A r \in W : ~(r.work = w /\ r.field = f)) => Candidates(f, RowsOf(w, f)) = {}
  <2>1. \A r1, r2 \in RowsAt(rows, w, f) : r1 # r2 => r1.source # r2.source
    BY DEF RowsAt, Inv, Indexed, Place
  <2>2. RowsAt(rows, w, f) \in SUBSET Row /\ IsFiniteSet(RowsAt(rows, w, f))
    BY <2>1, PlaceIsFinite DEF RowsAt, Inv, Shape
  <2>3. \A r \in W : Place(r) = <<w, f>> <=> r.work = w /\ r.field = f
    BY DEF Place
  <2>4. QED BY <1>1, <1>9, <2>2, <2>3 DEF IsChoice, RowsOf, RowsAt
<1>10. ASSUME NEW r \in W
       PROVE  column'[r.work][r.field] = r.value /\ Best(r, RowsAt(rows', r.work, r.field))
  <2>1. r.work \in works /\ r.field \in Fields /\ <<r.work, r.field>> \in tx.todo /\ r.work \in Works
    BY <1>2, <1>5, <1>6
  <2>2. ValueOf(W, <<r.work, r.field>>) = r.value
    <3>1. \A q \in W : Place(q) = <<r.work, r.field>> => q = r
      BY <1>1 DEF IsChoice, Place
    <3>2. QED BY <3>1 DEF ValueOf, Place
  <2>3. column'[r.work][r.field] = r.value
    BY <1>1, <2>1, <2>2
  <2>4. Best(r, RowsAt(rows, r.work, r.field))
    BY <1>9, <2>1, CandidatesAreBest
  <2>5. Alike(r, r)
    BY DEF Alike
  <2>. DEFINE P == RowsAt(rows', r.work, r.field)
              Q == RowsAt(rows, r.work, r.field)
  <2>6. /\ \A q \in P : \E d \in Q : Alike(q, d)
        /\ \A d \in Q : \E q \in P : Alike(q, d)
    BY <1>8, <2>1
  <2>. HIDE DEF P, Q
  <2>7. Best(r, P)
    BY <2>4, <2>5, <2>6, AlikeAreAsGood DEF Q
  <2>8. QED BY <2>3, <2>7 DEF P
<1>11. ASSUME NEW w \in works, NEW f \in Fields PROVE Pending(w, f)' \/ Settled(rows', column', w, f)
  <2>1. CASE <<w, f>> \notin tx.todo
    <3>1. Settled(rows, column, w, f)
      BY <1>2, <2>1 DEF DecidedInv, Pending
    <3>2. RowsAt(rows', w, f) = RowsAt(rows, w, f)
      <4>1. \A r \in rows : r.work = w /\ r.field = f => clear(r) = r
        BY <1>3, <2>1 DEF Place
      <4>2. \A r \in rows : clear(r).work = r.work /\ clear(r).field = r.field
        BY <1>3 DEF Alike
      <4>3. QED BY <1>4, <4>1, <4>2 DEF RowsAt
    <3>3. column'[w][f] = column[w][f]
      BY <1>1, <1>2, <2>1
    <3>4. QED BY <3>1, <3>2, <3>3, SameIsSettled
  <2>2. CASE <<w, f>> \in tx.todo /\ \E r \in W : r.work = w /\ r.field = f
    BY <1>2, <2>2 DEF Pending
  <2>3. CASE <<w, f>> \in tx.todo /\ \A r \in W : ~(r.work = w /\ r.field = f)
    <3>1. Silent(RowsAt(rows, w, f), f)
      BY <1>9, <2>3, NoCandidates
    <3>2. Silent(RowsAt(rows', w, f), f)
      BY <1>8, <3>1, AlikeAreAsGood
    <3>3. column'[w][f] = NoValue
      BY <1>1, <1>2, <2>3 DEF ValueOf, Place
    <3>4. \A q \in RowsAt(rows', w, f) : ~q.effective
      BY <1>3, <1>8, <2>3 DEF RowsAt, Place
    <3>5. QED BY <3>2, <3>3, <3>4 DEF Settled
  <2>4. QED BY <2>1, <2>2, <2>3
<1>12. column' \in Columns
  <2>1. ASSUME NEW w \in Works, NEW f \in Fields
        PROVE  (IF <<w, f>> \in tx.todo THEN ValueOf(W, <<w, f>>) ELSE column[w][f]) \in Values \cup {Own}
    <3>1. column[w][f] \in Values \cup {Own}
      BY DEF DecidedInv, Columns
    <3>2. ValueOf(W, <<w, f>>) \in Values
      BY <1>3 DEF ValueOf, Values, Row
    <3>3. QED BY <3>1, <3>2
  <2>2. QED BY <1>1, <2>1 DEF Columns
<1>13. Underway'
  BY <1>2, <1>10 DEF DecidedInv, Underway, Best, RowsAt, Said
<1>14. QED BY <1>2, <1>7, <1>11, <1>12, <1>13, NextIsDecided DEF DecidedInv

LEMMA MarkKeepsDecided == Inv /\ DecidedInv /\ Mark => DecidedInv'
<1>. SUFFICES ASSUME Inv, DecidedInv, Mark PROVE DecidedInv'
  OBVIOUS
<1>. DEFINE W == tx.winners
            marked(r) == [r EXCEPT !.effective = TRUE]
            mark(r) == IF r \in W THEN marked(r) ELSE r
<1>1. W \subseteq rows /\ UNCHANGED <<works, column, kept>>
      /\ \A r1 \in W, r2 \in rows : Place(r1) = Place(r2) /\ r1 # r2 => r2 \notin W /\ ~r2.effective
  BY DEF Mark, Inv, Flushes, ClearedForWinners
<1>2. \A r \in rows : Alike(mark(r), r) /\ (r \in W => mark(r).effective) /\ (r \notin W => mark(r) = r)
  BY DEF Inv, Shape, Row, Alike
<1>3. rows' = {mark(r) : r \in rows}
  BY <1>1 DEF Mark
<1>4. /\ tx.step = "cleared" /\ tx'.step = "resolved" /\ tx'.todo = tx.todo /\ tx'.withdraw = tx.withdraw
      /\ \A r \in W : column[r.work][r.field] = r.value /\ Best(r, RowsAt(rows, r.work, r.field))
  BY DEF Mark, Inv, Shape, DecidedInv, Underway
<1>. HIDE DEF mark, W
<1>5. Gone(works', rows', column')
  BY <1>1, <1>2, <1>3 DEF DecidedInv, Gone, Alike
<1>6. ASSUME NEW w \in works, NEW f \in Fields PROVE Settled(rows', column', w, f)
  <2>1. /\ \A q \in RowsAt(rows', w, f) : \E r \in RowsAt(rows, w, f) : Alike(q, r) /\ q = mark(r)
        /\ \A r \in RowsAt(rows, w, f) : \E q \in RowsAt(rows', w, f) : Alike(q, r)
    BY <1>2, <1>3 DEF RowsAt, Alike
  <2>2. CASE \E r \in W : r.work = w /\ r.field = f
    <3>1. PICK r \in W : r.work = w /\ r.field = f
      BY <2>2
    <3>2. r \in rows /\ mark(r) \in RowsAt(rows', w, f) /\ mark(r).effective /\ Alike(mark(r), r)
      BY <1>1, <1>2, <1>3, <3>1 DEF RowsAt, Alike
    <3>3. \A q \in RowsAt(rows', w, f) : q.effective => q = mark(r)
      <4>1. ASSUME NEW q \in RowsAt(rows', w, f), q.effective PROVE q = mark(r)
        <5>1. PICK p \in RowsAt(rows, w, f) : q = mark(p)
          BY <2>1
        <5>2. p \in rows /\ Place(p) = Place(r)
          BY <3>1 DEF RowsAt, Place
        <5>3. QED BY <1>1, <1>2, <4>1, <5>1, <5>2
      <4>2. QED BY <4>1
    <3>4. column'[w][f] = mark(r).value
      BY <1>1, <1>4, <3>1, <3>2 DEF Alike
    <3>5. Best(r, RowsAt(rows, w, f))
      BY <1>4, <3>1
    <3>6. Best(mark(r), RowsAt(rows', w, f))
      BY <2>1, <3>2, <3>5, AlikeAreAsGood
    <3>7. QED BY <3>2, <3>3, <3>4, <3>6 DEF Settled
  <2>3. CASE \A r \in W : ~(r.work = w /\ r.field = f)
    <3>1. Settled(rows, column, w, f)
      BY <1>4, <2>3 DEF DecidedInv, Pending, W
    <3>2. RowsAt(rows', w, f) = RowsAt(rows, w, f)
      BY <1>2, <1>3, <2>3 DEF RowsAt, Alike
    <3>3. QED BY <1>1, <3>1, <3>2, SameIsSettled
  <2>4. QED BY <2>2, <2>3
<1>7. Underway'
  BY <1>1, <1>4 DEF DecidedInv, Underway
<1>8. QED BY <1>1, <1>5, <1>6, <1>7, NextIsDecided DEF DecidedInv

(* A merge: the places in play wait for the resolve that ends it, and the  *)
(* others are as they were.                                                *)
LEMMA FoldKeepsDecided == \A s, t \in works : Inv /\ DecidedInv /\ Fold(s, t) => DecidedInv'
<1>. SUFFICES ASSUME NEW s \in works, NEW t \in works, Inv, DecidedInv, Fold(s, t) PROVE DecidedInv'
  OBVIOUS
<1>. DEFINE fields == {r.field : r \in {x \in rows : x.work = s}}
<1>1. s # t /\ rows' = rows \ Losers(s, t) /\ UNCHANGED <<works, column, kept>>
  BY DEF Fold
<1>2. /\ tx.step = "idle" /\ tx'.step = "folded" /\ tx'.todo = {} /\ tx'.withdraw = {}
      /\ tx'.fold[1] = s /\ tx'.fold[2] = t /\ tx'.fold[3] = fields
  BY DEF Fold, Idle
<1>3. \A r \in rows : r.at \in Nat
  BY BoundAssumption DEF Inv, Shape, Row
<1>4. \A r1, r2 \in rows : r1.work = r2.work /\ Collide(r1, r2) => r1 = r2
  BY DEF Inv, Indexed, Place, Collide
<1>5. \A r \in Losers(s, t) : r.work \in {s, t} /\ r.field \in fields
  BY DEF Losers, Collide
<1>6. ASSUME NEW f \in fields PROVE \E r \in rows' : r.work \in {s, t} /\ r.field = f
  <2>1. PICK r \in rows : r.work = s /\ r.field = f
    OBVIOUS
  <2>2. CASE r \notin Losers(s, t)
    BY <1>1, <2>1, <2>2
  <2>3. CASE r \in Losers(s, t)
    <3>1. PICK r2 \in rows : r2.work = t /\ Collide(r, r2) /\ r2.at >= r.at
      BY <1>1, <2>1, <2>3 DEF Losers
    <3>2. ASSUME NEW r3 \in rows, r3.work = s, Collide(r2, r3), r3.at > r2.at PROVE FALSE
      <4>1. r3 = r
        BY <1>4, <2>1, <3>1, <3>2 DEF Collide
      <4>2. QED BY <1>3, <3>1, <3>2, <4>1
    <3>3. r2 \in rows'
      BY <1>1, <3>1, <3>2 DEF Losers
    <3>4. QED BY <2>1, <3>1, <3>3 DEF Collide
  <2>4. QED BY <2>2, <2>3
<1>. HIDE DEF fields
<1>7. ASSUME NEW w \in works, NEW f \in Fields PROVE Pending(w, f)' \/ Settled(rows', column', w, f)
  <2>1. CASE w \in {s, t} /\ f \in fields
    BY <1>2, <2>1 DEF Pending
  <2>2. CASE ~(w \in {s, t} /\ f \in fields)
    <3>1. RowsAt(rows', w, f) = RowsAt(rows, w, f)
      BY <1>1, <1>5, <2>2 DEF RowsAt
    <3>2. Settled(rows, column, w, f)
      BY <1>2 DEF DecidedInv, Pending
    <3>3. QED BY <1>1, <3>1, <3>2, SameIsSettled
  <2>3. QED BY <2>1, <2>2
<1>8. Gone(works', rows', column')
  BY <1>1 DEF DecidedInv, Gone
<1>9. Underway'
  BY <1>1, <1>2, <1>6 DEF Underway
<1>10. QED BY <1>1, <1>7, <1>8, <1>9, NextIsDecided DEF DecidedInv

LEMMA UnmarkKeepsDecided == Inv /\ DecidedInv /\ Unmark => DecidedInv'
<1>. SUFFICES ASSUME Inv, DecidedInv, Unmark PROVE DecidedInv'
  OBVIOUS
<1>. DEFINE unmark(r) == IF r.work \in {tx.fold[1], tx.fold[2]} /\ r.field \in tx.fold[3]
                         THEN [r EXCEPT !.effective = FALSE] ELSE r
<1>1. /\ tx.step = "folded" /\ tx'.step = "unmarked" /\ tx'.fold = tx.fold
      /\ tx'.todo = tx.todo /\ tx'.withdraw = tx.withdraw /\ UNCHANGED <<works, column, kept>>
  BY DEF Unmark, Inv, Shape
<1>2. \A r \in rows : /\ unmark(r).work = r.work /\ unmark(r).field = r.field
                      /\ ~(r.work \in {tx.fold[1], tx.fold[2]} /\ r.field \in tx.fold[3]) => unmark(r) = r
  BY DEF Inv, Shape, Row
<1>3. rows' = {unmark(r) : r \in rows}
  BY DEF Unmark
<1>. HIDE DEF unmark
<1>4. ASSUME NEW w \in works, NEW f \in Fields PROVE Pending(w, f)' \/ Settled(rows', column', w, f)
  <2>1. CASE w \in {tx.fold[1], tx.fold[2]} /\ f \in tx.fold[3]
    BY <1>1, <2>1 DEF Pending
  <2>2. CASE ~(w \in {tx.fold[1], tx.fold[2]} /\ f \in tx.fold[3])
    <3>1. RowsAt(rows', w, f) = RowsAt(rows, w, f)
      BY <1>2, <1>3, <2>2 DEF RowsAt
    <3>2. Settled(rows, column, w, f)
      BY <1>1, <2>2 DEF DecidedInv, Pending
    <3>3. QED BY <1>1, <3>1, <3>2, SameIsSettled
  <2>3. QED BY <2>1, <2>2
<1>5. Gone(works', rows', column')
  BY <1>1, <1>2, <1>3 DEF DecidedInv, Gone
<1>6. Underway'
  BY <1>1, <1>2, <1>3 DEF DecidedInv, Underway
<1>7. QED BY <1>1, <1>4, <1>5, <1>6, NextIsDecided DEF DecidedInv

LEMMA MoveKeepsDecided == Inv /\ DecidedInv /\ MoveRows => DecidedInv'
<1>. SUFFICES ASSUME Inv, DecidedInv, MoveRows PROVE DecidedInv'
  OBVIOUS
<1>. DEFINE s == tx.fold[1]
            t == tx.fold[2]
            moved(r) == IF r.work = s THEN [r EXCEPT !.work = t] ELSE r
            todo == {<<t, r.field>> : r \in {x \in rows : x.work \in {s, t}}}
<1>1. /\ rows' = {moved(r) : r \in rows} /\ works' = works \ {s} /\ UNCHANGED kept
      /\ column' = [column EXCEPT ![s] = [f \in Fields |-> Own]]
      /\ tx.step = "unmarked"
  BY DEF MoveRows
<1>2. tx'.step = "recorded" /\ tx'.todo = todo /\ tx'.withdraw = tx.withdraw
  BY DEF MoveRows, Inv, Shape
<1>3. /\ s \in works /\ t \in works /\ s # t /\ works \subseteq Works /\ tx.withdraw = {}
      /\ \A f \in tx.fold[3] : \E r \in rows : r.work \in {s, t} /\ r.field = f
      /\ \A r \in rows : r.field \in Fields
  BY <1>1 DEF Inv, Shape, Row, Flushes, Folding, DecidedInv, Underway
<1>4. \A r \in rows : /\ moved(r).field = r.field
                      /\ moved(r).work = IF r.work = s THEN t ELSE r.work
                      /\ r.work # s => moved(r) = r
  BY DEF Inv, Shape, Row
<1>5. column' \in Columns /\ column'[s] = [f \in Fields |-> Own]
      /\ \A w \in Works \ {s} : column'[w] = column[w]
  BY <1>1, <1>3 DEF DecidedInv, Columns
<1>6. \A r \in rows : r.work \in {s, t} => <<t, r.field>> \in todo
  OBVIOUS
<1>7. todo \subseteq (works \ {s}) \X Fields
  BY <1>3
<1>. HIDE DEF moved, todo
<1>8. Gone(works', rows', column')
  BY <1>1, <1>3, <1>4, <1>5 DEF DecidedInv, Gone
<1>9. ASSUME NEW w \in works \ {s}, NEW f \in Fields
      PROVE  Pending(w, f)' \/ Settled(rows', column', w, f)
  <2>1. column'[w] = column[w]
    BY <1>3, <1>5
  <2>2. CASE w # t
    <3>1. RowsAt(rows', w, f) = RowsAt(rows, w, f)
      BY <1>1, <1>4, <2>2 DEF RowsAt
    <3>2. Settled(rows, column, w, f)
      BY <1>1, <2>2 DEF DecidedInv, Pending
    <3>3. QED BY <2>1, <3>1, <3>2, SameIsSettled
  <2>3. CASE w = t /\ \E r \in rows : r.work \in {s, t} /\ r.field = f
    BY <1>2, <1>6, <2>3 DEF Pending
  <2>4. CASE w = t /\ \A r \in rows : ~(r.work \in {s, t} /\ r.field = f)
    <3>1. RowsAt(rows', t, f) = {} /\ RowsAt(rows, t, f) = {}
      BY <1>1, <1>4, <2>4 DEF RowsAt
    <3>2. Settled(rows, column, t, f)
      BY <1>1, <1>3, <2>4 DEF DecidedInv, Pending
    <3>3. column'[t][f] = column[t][f] /\ RowsAt(rows, t, f) = RowsAt(rows', t, f)
      BY <2>1, <2>4, <3>1
    <3>4. Settled(rows', column', t, f)
      BY <3>2, <3>3, SameIsSettled
    <3>5. QED BY <2>4, <3>4
  <2>5. QED BY <2>2, <2>3, <2>4
<1>10. Underway'
  BY <1>1, <1>2, <1>3, <1>7 DEF Underway
<1>11. QED BY <1>1, <1>5, <1>8, <1>9, <1>10, NextIsDecided DEF DecidedInv

(* Nothing is pending where a transaction is about to go on or to end.     *)
LEMMA AllSettled ==
  ASSUME DecidedInv, tx.step \in {"idle", "resolved"}
  PROVE  Decided(works, rows, column)
  BY DEF DecidedInv, Decided, Pending

(* What these steps leave is settled again, and nothing is left to do.     *)
LEMMA NothingPending ==
  ASSUME Decided(works', rows', column'), Decided(kept'.works, kept'.rows, kept'.column),
         tx'.step \in {"idle", "resolved"}, tx'.todo = {}, tx'.withdraw \subseteq works' \X Fields
  PROVE  DecidedInv'
<1>1. Underway'
  BY DEF Underway
<1>2. QED BY <1>1, NextIsDecided DEF Decided

LEMMA WorksKeepDecided ==
  ASSUME Inv, DecidedInv
  PROVE  /\ \A w \in works : Forget(w) \/ Delete(w) => DecidedInv'
         /\ \A w \in Works : Create(w) => DecidedInv'
<1>1. ASSUME NEW w \in works, Forget(w) PROVE DecidedInv'
  <2>1. tx.step = "idle" /\ tx'.step = "resolved" /\ tx'.todo = {} /\ tx'.withdraw = {w} \X ManualFields
    BY <1>1 DEF Forget, Idle
  <2>2. UNCHANGED <<works, rows, column, kept>> /\ {w} \X ManualFields \subseteq works \X Fields
    BY <1>1, FieldAssumption DEF Forget
  <2>3. QED BY <2>1, <2>2, AllSettled, NothingPending DEF DecidedInv
<1>2. ASSUME NEW w \in works, Delete(w) PROVE DecidedInv'
  <2>1. tx.step = "idle" /\ tx'.step = "resolved" /\ tx'.todo = {} /\ tx'.withdraw = {}
    BY <1>2 DEF Delete, Idle
  <2>2. /\ rows' = {r \in rows : r.work # w} /\ works' = works \ {w} /\ UNCHANGED kept
        /\ column' = [column EXCEPT ![w] = [f \in Fields |-> Own]] /\ works \subseteq Works
    BY <1>2 DEF Delete, RowsWithout, Inv, Shape
  <2>3. column' \in Columns /\ column'[w] = [f \in Fields |-> Own]
        /\ \A v \in Works \ {w} : column'[v] = column[v]
    BY <2>2 DEF DecidedInv, Columns
  <2>4. ASSUME NEW v \in works \ {w}, NEW f \in Fields PROVE Settled(rows', column', v, f)
    <3>1. RowsAt(rows', v, f) = RowsAt(rows, v, f)
      BY <2>2, <2>4 DEF RowsAt
    <3>2. Settled(rows, column, v, f)
      BY <2>1, AllSettled DEF Decided
    <3>3. column'[v][f] = column[v][f]
      BY <2>2, <2>3
    <3>4. QED BY <3>1, <3>2, <3>3, SameIsSettled
  <2>5. Gone(works', rows', column')
    BY <2>2, <2>3 DEF DecidedInv, Gone
  <2>6. Decided(works', rows', column')
    BY <2>2, <2>3, <2>4, <2>5 DEF Decided
  <2>7. QED BY <2>1, <2>2, <2>6, NothingPending DEF DecidedInv
<1>3. ASSUME NEW w \in Works, Create(w) PROVE DecidedInv'
  <2>1. tx.step = "idle" /\ tx'.step = "resolved" /\ tx'.todo = {} /\ tx'.withdraw = {}
    BY <1>3 DEF Create, Idle
  <2>2. w \notin works /\ works' = works \cup {w} /\ UNCHANGED <<rows, column, kept>>
    BY <1>3 DEF Create
  <2>3. Decided(works, rows, column)
    BY <2>1, AllSettled
  <2>4. ASSUME NEW f \in Fields PROVE Settled(rows', column', w, f)
    BY <2>2, <2>3 DEF Decided, Gone, Settled, RowsAt, Silent, Said
  <2>5. Decided(works', rows', column')
    BY <2>2, <2>3, <2>4 DEF Decided, Gone
  <2>6. QED BY <2>1, <2>2, <2>5, NothingPending DEF DecidedInv
<1>4. QED BY <1>1, <1>2, <1>3

LEMMA EndsKeepDecided == Inv /\ DecidedInv /\ (Withdraw \/ Commit \/ Rollback) => DecidedInv'
<1>. SUFFICES ASSUME Inv, DecidedInv, Withdraw \/ Commit \/ Rollback PROVE DecidedInv'
  OBVIOUS
<1>1. CASE Withdraw
  <2>1. PICK wf \in tx.withdraw :
          /\ rows' = rows \ Said(RowsOf(wf[1], wf[2]))
          /\ tx' = [tx EXCEPT !.step = "recorded", !.todo = {wf}, !.withdraw = @ \ {wf}]
    BY <1>1 DEF Withdraw
  <2>2. /\ tx.step = "resolved" /\ UNCHANGED <<works, column, kept>>
        /\ tx'.step = "recorded" /\ tx'.todo = {wf} /\ tx'.withdraw = tx.withdraw \ {wf}
    BY <1>1, <2>1 DEF Withdraw, Inv, Shape
  <2>3. wf = <<wf[1], wf[2]>> /\ wf \in works \X Fields /\ tx.withdraw \subseteq works \X Fields
    BY DEF DecidedInv, Underway
  <2>4. ASSUME NEW w \in works, NEW f \in Fields PROVE Pending(w, f)' \/ Settled(rows', column', w, f)
    <3>1. CASE <<w, f>> = wf
      BY <2>2, <3>1 DEF Pending
    <3>2. CASE <<w, f>> # wf
      <4>1. RowsAt(rows', w, f) = RowsAt(rows, w, f)
        BY <2>1, <2>3, <3>2 DEF RowsAt, RowsOf, Said
      <4>2. Settled(rows, column, w, f)
        BY <2>2, AllSettled DEF Decided
      <4>3. QED BY <2>2, <4>1, <4>2, SameIsSettled
    <3>3. QED BY <3>1, <3>2
  <2>5. Gone(works', rows', column') /\ Underway'
    BY <2>1, <2>2, <2>3 DEF DecidedInv, Gone, Underway
  <2>6. QED BY <2>2, <2>4, <2>5, NextIsDecided DEF DecidedInv
<1>2. CASE Commit
  <2>1. /\ tx.step = "resolved" /\ UNCHANGED <<works, rows, column>>
        /\ kept'.works = works /\ kept'.rows = rows /\ kept'.column = column
        /\ tx'.step = "idle" /\ tx'.todo = {} /\ tx'.withdraw = {}
    BY <1>2 DEF Commit, Idle
  <2>2. QED BY <2>1, AllSettled, NothingPending
<1>3. CASE Rollback
  <2>1. /\ works' = kept.works /\ rows' = kept.rows /\ column' = kept.column /\ UNCHANGED kept
        /\ tx'.step = "idle" /\ tx'.todo = {} /\ tx'.withdraw = {}
    BY <1>3 DEF Rollback, Idle
  <2>2. QED BY <2>1, NothingPending DEF DecidedInv
<1>4. QED BY <1>1, <1>2, <1>3

LEMMA StepsKeepDecided == Inv /\ DecidedInv /\ [Next]_vars => DecidedInv'
<1>. SUFFICES ASSUME Inv, DecidedInv, [Next]_vars PROVE DecidedInv'
  OBVIOUS
<1>1. ASSUME NEW s \in Sources \ {Manual}, NEW P \in Places(s), NEW said \in [P -> Values],
             Report(s, said)
      PROVE  DecidedInv'
  <2>1. DOMAIN said \subseteq works \X Fields
    BY SourceAssumption DEF Places
  <2>2. QED BY <1>1, <2>1, RecordKeepsDecided DEF Report
<1>2. ASSUME NEW w \in works, NEW F \in Forms, NEW said \in [F -> Figures], Edit(w, said)
      PROVE  DecidedInv'
  <2>. DEFINE form == [wf \in {w} \X DOMAIN said |-> said[wf[2]]]
              empty == {w} \X (ManualFields \ DOMAIN said)
  <2>1. DOMAIN form \subseteq works \X Fields /\ empty \in SUBSET (works \X Fields)
    BY FieldAssumption DEF Forms
  <2>2. Record(Manual, form, empty, "user")
    BY <1>2 DEF Edit
  <2>. HIDE DEF form, empty
  <2>3. QED BY <2>1, <2>2, RecordKeepsDecided
<1>3. CASE UNCHANGED vars
  BY <1>3 DEF vars, DecidedInv, Columns, Gone, Settled, Silent, Best, RowsAt, Said, Decided,
              Pending, Underway
<1>4. QED
  BY <1>1, <1>2, <1>3, FoldKeepsDecided, UnmarkKeepsDecided, MoveKeepsDecided, ClearKeepsDecided,
     MarkKeepsDecided, WorksKeepDecided, EndsKeepDecided DEF Next

(* Between transactions every column of every work is a cache of what the  *)
(* ladder, the weights and the dates decide of its rows, whoever wrote,    *)
(* withdrew, deleted or merged and whatever was rolled back (resolve,      *)
(* _fold_provenance and _resolve_all, _withdraw).                          *)
THEOREM ColumnsAreAlwaysDecided == Spec => []ColumnsAreDecided
<1>1. DecidedInv => ColumnsAreDecided
  <2>1. SUFFICES ASSUME DecidedInv, tx = Idle, NEW w \in works, NEW f \in Fields
                 PROVE  LET R == RowsOf(w, f)
                            E == {r \in R : r.effective}
                        IN /\ E = {} => /\ column[w][f] \in {NoValue, Own}
                                        /\ \A r \in R : Strategy[f] = "max" /\ r.value = NoValue
                                        /\ R # {} => column[w][f] = NoValue
                           /\ \A e \in E :
                                /\ column[w][f] = e.value
                                /\ Said(R) # {} => e.source = Manual
                                /\ Said(R) = {} =>
                                     \A r \in R :
                                       IF Strategy[f] = "max"
                                       THEN r.value # NoValue => r.value <= e.value
                                       ELSE Ladder[e.source] <= Ladder[r.source]
    BY DEF ColumnsAreDecided
  <2>2. Settled(rows, column, w, f)
    BY <2>1, AllSettled DEF Idle, Decided
  <2>3. RowsOf(w, f) = RowsAt(rows, w, f) /\ \A r \in RowsOf(w, f) : r.field = f
    BY DEF RowsOf, RowsAt
  <2>4. QED BY <2>2, <2>3 DEF Settled, Silent, Best
<1>2. QED
  BY StartsInv, StepsKeepInv, DecidedStarts, StepsKeepDecided, <1>1, PTL DEF Spec

-----------------------------------------------------------------------------
(* The links: an edition is its copy's own, a copy leads to a work there   *)
(* is, and only a copy that leads somewhere is live or vouched for.        *)
Links(d) ==
  /\ \A c \in Copies : d.edition[c] = d.link[c]
  /\ \A c \in Copies : d.link[c] # 0 => d.link[c] \in d.works
  /\ d.live \subseteq Held(d)
  /\ \A c \in d.vouched : d.link[c] # 0 /\ Lib[c] # "manual"

(* The add-ons: a claim and its column agree, and lead to another work,    *)
(* one that a copy from a library keeps there.                             *)
Family(d) ==
  \A w \in Ids :
    /\ d.parent[w] = d.claim[w] /\ d.parent[w] # w
    /\ d.parent[w] # 0 =>
         d.parent[w] \in d.works /\ \E c \in Copies : Lib[c] # "manual" /\ d.link[c] = d.parent[w]

(* The rows of external_id: of works there are, one owner of each value,   *)
(* and a work has one of IGDB's when it is anchored and only then.         *)
Register(d) ==
  /\ \A x \in d.external : x.work \in d.works
  /\ \A x, y \in d.external : x.namespace = y.namespace /\ x.value = y.value => x.work = y.work
  /\ \A x \in d.external : x.namespace = "igdb" => IsMatched(d, x.work)
  /\ \A w \in Ids : IsMatched(d, w) => External("igdb", d.anchor[w], w) \in d.external

(* Nothing is left at an id that is free.                                  *)
Tidy(d) ==
  \A w \in Ids :
    w \notin d.works =>
      d.parent[w] = 0 /\ d.spoke[w] = None /\ d.anchor[w] = None /\ d.total[w] = {}

(* An unmatched work is the stub of one copy.                              *)
Stubs(d) ==
  \A w \in d.works :
    ~IsMatched(d, w) =>
      /\ On(d, w) # {}
      /\ \A c, e \in Copies : d.link[c] = w /\ d.link[e] = w => c = e

Sound(d) ==
  d \in Database /\ Links(d) /\ Family(d) /\ Register(d) /\ Tidy(d) /\ Stubs(d)

Summed(d) == \A w \in d.works : d.total[w] = Played(d, w)

(* What holds besides as long as no run outlives its claim.                *)
Exact(d) ==
  /\ \A x \in d.external : x.namespace = "igdb" => d.anchor[x.work] = x.value
  /\ \A c \in Copies : d.link[c] # 0 => d.anchor[d.link[c]] \in {None, Game[c]}
  /\ \A c \in d.vouched : d.anchor[d.link[c]] = Game[c]
  /\ \A w \in Ids : IsMatched(d, w) => \E c \in Copies : Lib[c] # "manual" /\ d.link[c] = w

(* What a run keeps between its transactions: the answers are of copies    *)
(* that libraries list, and the works to be given appids are anchored.     *)
Asked(r) ==
  \A i \in 1..Len(igdb[r].targets) :
    LET c == igdb[r].targets[i][1]
    IN Lib[c] # "manual" /\ c \in DOMAIN igdb[r].found /\ igdb[r].found[c] \in {None, Game[c]}
Promised(r) ==
  \A w \in DOMAIN igdb[r].wanted : w \in db.works /\ IsMatched(db, w) /\ igdb[r].wanted[w] \in Games

(* And, as long as none outlives its claim, the claim, and the stubs that  *)
(* it has asked about.                                                     *)
Claimed(r) ==
  /\ igdb[r].step # "idle" => holder = r
  /\ \A i \in 1..Len(igdb[r].targets) :
       LET p == igdb[r].targets[i] IN db.link[p[1]] = p[2] /\ db.anchor[p[2]] = None

-----------------------------------------------------------------------------
(* What an operation that anchors nothing may do.                          *)
Calm(d, e) ==
  /\ e.anchor = d.anchor /\ e.vouched = d.vouched
  /\ \A x \in e.external : x.namespace = "igdb" => x \in d.external
  /\ \A w \in d.works : IsMatched(d, w) => w \in e.works
  /\ \A c \in Copies :
       IF d.link[c] = 0 THEN e.link[c] \notin d.works
       ELSE e.link[c] = d.link[c] \/ (Lib[c] = "manual" /\ e.link[c] = 0)

LEMMA CopiesAre ==
  /\ IsFiniteSet(Copies) /\ None \notin Copies
  /\ Turn \in [Copies -> Nat] /\ \A c, e \in Copies : Turn[c] = Turn[e] => c = e
  /\ \A c \in Copies : Base[c] # None => Base[c] \in Copies /\ Lib[Base[c]] = Lib[c]
BY CopyAssumption

LEMMA IdsAre ==
  /\ MaxId \in Nat
  /\ \A w \in Ids : w \in Nat /\ w # 0 /\ w \in 0..MaxId
  /\ 0 \notin Ids /\ \A w \in 0..MaxId : w # 0 => w \in Ids
BY MaxAssumption DEF Ids

LEMMA ADatabase ==
  ASSUME NEW d \in Database
  PROVE  /\ d.works \subseteq Ids /\ d.external \subseteq ExternalIds
         /\ d.link \in [Copies -> 0..MaxId] /\ d.edition \in [Copies -> 0..MaxId]
         /\ d.live \subseteq Copies /\ d.kept \subseteq Copies /\ d.vouched \subseteq Copies
         /\ d.total \in [Ids -> SUBSET Copies] /\ d.anchor \in [Ids -> Games \cup {None}]
         /\ d.parent \in [Ids -> 0..MaxId] /\ d.claim \in [Ids -> 0..MaxId]
         /\ d.spoke \in [Ids -> Copies \cup {None}]
BY DEF Database

LEMMA NoneIsNoGame == None \notin Games
BY DEF Games

LEMMA CalmIsExact ==
  ASSUME NEW d \in Database, NEW e \in Database, Sound(d), Exact(d), Sound(e), Calm(d, e)
  PROVE  Exact(e)
<1>0. /\ d.link \in [Copies -> 0..MaxId] /\ e.link \in [Copies -> 0..MaxId]
      /\ d.anchor \in [Ids -> Games \cup {None}] /\ e.anchor = d.anchor /\ e.vouched = d.vouched
      /\ d.vouched \subseteq Copies
  BY ADatabase DEF Calm
<1>1. \A x \in e.external : x.namespace = "igdb" => e.anchor[x.work] = x.value
  BY DEF Calm, Exact
<1>2. ASSUME NEW c \in Copies, e.link[c] # 0 PROVE e.anchor[e.link[c]] \in {None, Game[c]}
  <2>1. CASE d.link[c] = 0
    <3>1. e.link[c] \in Ids /\ e.link[c] \notin d.works
      BY <1>0, <1>2, <2>1, IdsAre DEF Calm
    <3> QED BY <3>1, <1>0 DEF Sound, Tidy
  <2>2. CASE d.link[c] # 0
    BY <1>0, <1>2, <2>2 DEF Calm, Exact
  <2> QED BY <2>1, <2>2
<1>3. ASSUME NEW c \in e.vouched PROVE e.anchor[e.link[c]] = Game[c]
  BY <1>0, <1>3 DEF Sound, Links, Calm, Exact
<1>4. ASSUME NEW w \in Ids, IsMatched(e, w)
      PROVE  \E c \in Copies : Lib[c] # "manual" /\ e.link[c] = w
  <2>1. PICK c \in Copies : Lib[c] # "manual" /\ d.link[c] = w
    BY <1>0, <1>4 DEF IsMatched, Exact
  <2> QED BY <2>1, IdsAre DEF Calm
<1> QED BY <1>1, <1>2, <1>3, <1>4 DEF Exact

-----------------------------------------------------------------------------
(* Numbers and ids.                                                        *)
LEMMA LeastOf ==
  ASSUME NEW S \in SUBSET Nat, S # {}
  PROVE  \E n \in S : \A m \in S : n <= m
<1> DEFINE D == {1..n : n \in S}
<1>1. D \subseteq FiniteSubsetsOf(Nat) /\ D # {}
  <2>1. \A n \in S : 1..n \subseteq Nat /\ IsFiniteSet(1..n)
    BY FS_Interval
  <2> QED BY <2>1 DEF FiniteSubsetsOf
<1>2. PICK x \in D : \A y \in D : <<y, x>> \notin StrictSubsetOrdering(Nat)
  BY <1>1, FS_StrictSubsetOrderingWellFounded, WFMin
<1>3. PICK n \in S : x = 1..n
  OBVIOUS
<1>4. ASSUME NEW m \in S, m < n PROVE FALSE
  <2>1. 1..m \subseteq 1..n /\ n \in 1..n /\ n \notin 1..m
    BY <1>4
  <2>2. <<1..m, 1..n>> \in StrictSubsetOrdering(Nat)
    BY <2>1 DEF StrictSubsetOrdering
  <2> QED BY <1>2, <1>3, <2>2
<1> QED BY <1>4

LEMMA GreatestOf ==
  ASSUME NEW S \in SUBSET Ids, S # {}
  PROVE  \E n \in S : \A m \in S : n >= m
<1> DEFINE B == {n \in Nat : \A m \in S : m <= n}
<1>1. S \subseteq Nat /\ B \subseteq Nat /\ MaxId \in B
  BY MaxAssumption DEF Ids
<1>2. PICK n \in B : \A k \in B : n <= k
  BY <1>1, LeastOf
<1>3. ASSUME n \notin S PROVE FALSE
  <2>1. \A m \in S : m <= n - 1
    BY <1>1, <1>2, <1>3
  <2>2. n # 0
    BY <1>2, IdsAre
  <2>3. n - 1 \in B
    BY <1>2, <2>1, <2>2
  <2> QED BY <1>2, <2>3
<1> QED BY <1>1, <1>2, <1>3

LEMMA NextIdIs ==
  ASSUME NEW d \in Database
  PROVE  NextId(d) \in Nat \ {0} /\ \A w \in d.works : w < NextId(d)
<1>1. CASE d.works = {}
  BY <1>1 DEF NextId
<1>2. CASE d.works # {}
  <2>1. PICK n \in d.works : \A m \in d.works : n >= m
    BY <1>2, ADatabase, GreatestOf
  <2>2. Max(d.works) \in d.works /\ \A m \in d.works : Max(d.works) >= m
    BY <2>1 DEF Max
  <2>3. \A w \in d.works : w \in Nat
    BY ADatabase, IdsAre
  <2> QED BY <1>2, <2>2, <2>3 DEF NextId
<1> QED BY <1>1, <1>2

LEMMA StubIdIs ==
  ASSUME NEW d \in Database, NEW C \in SUBSET Copies
  PROVE  /\ \A c \in C : StubId(d, C, c) \in Nat /\ StubId(d, C, c) # 0 /\ StubId(d, C, c) \notin d.works
         /\ \A c, e \in C : StubId(d, C, c) = StubId(d, C, e) => c = e
<1> DEFINE Ahead(c) == {x \in C : Turn[x] < Turn[c]}
<1>1. IsFiniteSet(C)
  BY CopiesAre, FS_Subset
<1>2. \A c \in C : IsFiniteSet(Ahead(c)) /\ Cardinality(Ahead(c)) \in Nat
  BY <1>1, FS_Subset, FS_CardinalityType
<1>3. \A c \in C : StubId(d, C, c) = NextId(d) + Cardinality(Ahead(c))
  BY DEF StubId
<1>4. ASSUME NEW c \in C, NEW e \in C, Turn[c] < Turn[e]
      PROVE  Cardinality(Ahead(c)) < Cardinality(Ahead(e))
  <2>1. Ahead(c) \subseteq Ahead(e) /\ c \in Ahead(e) /\ c \notin Ahead(c)
    BY <1>4, CopiesAre
  <2>2. Cardinality(Ahead(c)) <= Cardinality(Ahead(e)) /\ Cardinality(Ahead(c)) # Cardinality(Ahead(e))
    BY <1>2, <2>1, FS_Subset
  <2> HIDE DEF Ahead
  <2>3. Cardinality(Ahead(c)) \in Nat /\ Cardinality(Ahead(e)) \in Nat
    BY <1>2
  <2> QED BY <2>2, <2>3
<1>5. \A c \in C : StubId(d, C, c) \in Nat /\ StubId(d, C, c) # 0 /\ StubId(d, C, c) \notin d.works
  <2> HIDE DEF Ahead
  <2>1. \A w \in d.works : w \in Nat
    BY ADatabase, IdsAre
  <2> QED BY <1>2, <1>3, <2>1, NextIdIs
<1>6. ASSUME NEW c \in C, NEW e \in C, StubId(d, C, c) = StubId(d, C, e) PROVE c = e
  <2> HIDE DEF Ahead
  <2>1. Cardinality(Ahead(c)) = Cardinality(Ahead(e))
    BY <1>2, <1>3, <1>6, NextIdIs
  <2>2. ~ Turn[c] < Turn[e] /\ ~ Turn[e] < Turn[c]
    BY <1>2, <1>4, <2>1
  <2> QED BY <2>2, CopiesAre
<1> QED BY <1>5, <1>6

LEMMA StubbedIs ==
  ASSUME NEW d \in Database, NEW C \in SUBSET Copies, NEW e, e = Stubbed(d, C)
  PROVE  /\ e.works = d.works \cup {StubId(d, C, c) : c \in C}
         /\ \A c \in Copies : e.link[c] = (IF c \in C THEN StubId(d, C, c) ELSE d.link[c])
         /\ \A c \in Copies : e.edition[c] = (IF c \in C THEN StubId(d, C, c) ELSE d.edition[c])
         /\ e.live = d.live \cup C
         /\ e.kept = d.kept /\ e.vouched = d.vouched /\ e.total = d.total /\ e.anchor = d.anchor
         /\ e.parent = d.parent /\ e.claim = d.claim /\ e.spoke = d.spoke /\ e.external = d.external
         /\ e.works \subseteq Ids => e \in Database
<1>1. /\ e.works = d.works \cup {StubId(d, C, c) : c \in C}
      /\ e.link = [c \in Copies |-> IF c \in C THEN StubId(d, C, c) ELSE d.link[c]]
      /\ e.edition = [c \in Copies |-> IF c \in C THEN StubId(d, C, c) ELSE d.edition[c]]
      /\ e.live = d.live \cup C
      /\ e.kept = d.kept /\ e.vouched = d.vouched /\ e.total = d.total /\ e.anchor = d.anchor
      /\ e.parent = d.parent /\ e.claim = d.claim /\ e.spoke = d.spoke /\ e.external = d.external
  BY DEF Stubbed, Database
<1>2. ASSUME e.works \subseteq Ids PROVE e \in Database
  <2>1. \A c \in C : StubId(d, C, c) \in 0..MaxId
    BY <1>1, <1>2, IdsAre
  <2>2. e.link \in [Copies -> 0..MaxId] /\ e.edition \in [Copies -> 0..MaxId]
    BY <1>1, <2>1, ADatabase
  <2>3. e = [d EXCEPT !.works = e.works, !.link = e.link, !.edition = e.edition, !.live = e.live]
    BY DEF Stubbed, Database
  <2> QED BY <1>1, <1>2, <2>2, <2>3 DEF Database
<1> QED BY <1>1, <1>2

LEMMA StubbedStands ==
  ASSUME NEW d \in Database, Sound(d), NEW C \in SUBSET Copies, \A c \in C : d.link[c] = 0,
         NEW e, e = Stubbed(d, C), e.works \subseteq Ids
  PROVE  Sound(e) /\ Calm(d, e)
<1>0. /\ e.works = d.works \cup {StubId(d, C, c) : c \in C}
      /\ \A c \in Copies : e.link[c] = (IF c \in C THEN StubId(d, C, c) ELSE d.link[c])
      /\ \A c \in Copies : e.edition[c] = (IF c \in C THEN StubId(d, C, c) ELSE d.edition[c])
      /\ e.live = d.live \cup C
      /\ e.kept = d.kept /\ e.vouched = d.vouched /\ e.total = d.total /\ e.anchor = d.anchor
      /\ e.parent = d.parent /\ e.claim = d.claim /\ e.spoke = d.spoke /\ e.external = d.external
      /\ e.works \subseteq Ids => e \in Database
  BY StubbedIs
<1>1. e \in Database
  BY <1>0
<1>2. \A c \in Copies : e.link[c] = (IF c \in C THEN StubId(d, C, c) ELSE d.link[c])
  BY <1>0
<1>a. /\ \A c \in C : StubId(d, C, c) \in Nat /\ StubId(d, C, c) # 0 /\ StubId(d, C, c) \notin d.works
      /\ \A c, x \in C : StubId(d, C, c) = StubId(d, C, x) => c = x
  BY StubIdIs
<1> USE <1>0, <1>a
<1>3. Links(e)
  <2>1. \A c \in Copies : e.edition[c] = e.link[c]
    BY <1>2 DEF Sound, Links
  <2>2. \A c \in Copies : e.link[c] # 0 => e.link[c] \in e.works
    BY <1>2 DEF Sound, Links
  <2>3. e.live \subseteq Held(e)
    BY <1>2 DEF Sound, Links, Held
  <2>4. \A c \in e.vouched : e.link[c] # 0 /\ Lib[c] # "manual"
    BY <1>2, ADatabase DEF Sound, Links
  <2> QED BY <2>1, <2>2, <2>3, <2>4 DEF Links
<1>4. Family(e)
  BY <1>2 DEF Sound, Family
<1>5. Register(e)
  BY DEF Sound, Register, IsMatched
<1>6. Tidy(e)
  BY DEF Sound, Tidy
<1>7. Stubs(e)
  <2> SUFFICES ASSUME NEW w \in e.works, ~IsMatched(e, w)
               PROVE  /\ On(e, w) # {}
                      /\ \A c, x \in Copies : e.link[c] = w /\ e.link[x] = w => c = x
    BY DEF Stubs
  <2>1. CASE w \in d.works
    <3>1. \A c \in Copies : e.link[c] = w <=> d.link[c] = w
      BY <1>2, <2>1, ADatabase, IdsAre
    <3>2. ~IsMatched(d, w)
      BY DEF IsMatched
    <3> QED BY <2>1, <3>1, <3>2 DEF Sound, Stubs, On
  <2>2. CASE w \notin d.works
    <3>1. \A c \in Copies : e.link[c] = w => c \in C /\ StubId(d, C, c) = w
      <4>1. w # 0
        BY <1>1, ADatabase, IdsAre
      <4> QED BY <1>2, <2>2, <4>1 DEF Sound, Links
    <3>2. PICK c \in C : StubId(d, C, c) = w
      BY <2>2
    <3>3. e.link[c] = w
      BY <1>2, <3>2
    <3> QED BY <3>1, <3>3 DEF On
  <2> QED BY <2>1, <2>2
<1>8. Calm(d, e)
  <2>1. \A c \in Copies : IF d.link[c] = 0 THEN e.link[c] \notin d.works
                          ELSE e.link[c] = d.link[c] \/ (Lib[c] = "manual" /\ e.link[c] = 0)
    <3>1. 0 \notin d.works
      BY ADatabase, IdsAre
    <3> QED BY <1>2, <3>1
  <2> QED BY <2>1 DEF Calm
<1> QED BY <1>1, <1>3, <1>4, <1>5, <1>6, <1>7, <1>8 DEF Sound

-----------------------------------------------------------------------------
(* A landing.                                                              *)
LEMMA LastOfIs ==
  ASSUME NEW C \in SUBSET Copies, NEW link, NEW w, \E c \in C : link[c] = w
  PROVE  LastOf(C, link, w) \in C /\ link[LastOf(C, link, w)] = w
<1> DEFINE S == {c \in C : link[c] = w}
           Above(c) == {x \in S : Turn[c] < Turn[x]}
           Sizes == {Cardinality(Above(c)) : c \in S}
<1>1. S \subseteq Copies /\ IsFiniteSet(S) /\ S # {}
  BY CopiesAre, FS_Subset
<1>2. \A c \in S : IsFiniteSet(Above(c)) /\ Cardinality(Above(c)) \in Nat
  BY <1>1, FS_Subset, FS_CardinalityType
<1>3. PICK c \in S : \A x \in S : Cardinality(Above(c)) <= Cardinality(Above(x))
  <2> HIDE DEF Above, S
  <2>1. Sizes \subseteq Nat /\ Sizes # {}
    BY <1>1, <1>2
  <2>2. PICK n \in Sizes : \A k \in Sizes : n <= k
    BY <2>1, LeastOf
  <2> QED BY <2>2
<1>4. ASSUME NEW x \in S, Turn[c] < Turn[x] PROVE FALSE
  <2>1. Above(x) \subseteq Above(c) /\ x \in Above(c) /\ x \notin Above(x)
    BY <1>1, <1>4, CopiesAre
  <2>2. Cardinality(Above(x)) <= Cardinality(Above(c)) /\ Cardinality(Above(x)) # Cardinality(Above(c))
    BY <1>2, <2>1, FS_Subset
  <2> HIDE DEF Above, S
  <2>3. Cardinality(Above(x)) \in Nat /\ Cardinality(Above(c)) \in Nat
    BY <1>2
  <2> QED BY <1>3, <2>2, <2>3
<1>5. c \in C /\ link[c] = w /\ \A e \in C : link[e] = w => Turn[e] <= Turn[c]
  BY <1>4, CopiesAre
<1> QED BY <1>5 DEF LastOf

LEMMA HeardIs ==
  ASSUME NEW C \in SUBSET Copies, NEW f, NEW link, NEW said, NEW w \in Ids
  PROVE  \/ Heard(f, C, link, said)[w] = f[w]
         \/ \E c \in C : link[c] = w /\ Heard(f, C, link, said)[w] = said[c]
<1>1. CASE \E c \in C : link[c] = w
  <2>1. Heard(f, C, link, said)[w] = said[LastOf(C, link, w)]
    BY <1>1 DEF Heard
  <2> QED BY <1>1, <2>1, LastOfIs
<1>2. CASE ~ \E c \in C : link[c] = w
  BY <1>2 DEF Heard
<1> QED BY <1>1, <1>2

(* An operation that moves no copy and touches no anchor.                  *)
LEMMA StaysStanding ==
  ASSUME NEW d \in Database, Sound(d), NEW e \in Database,
         e.works = d.works, e.link = d.link, e.edition = d.edition, e.anchor = d.anchor,
         e.vouched = d.vouched, e.external = d.external,
         e.live \subseteq Held(d), Family(e), Tidy(e)
  PROVE  Sound(e) /\ Calm(d, e)
<1>1. Links(e)
  BY DEF Sound, Links, Held
<1>2. Register(e) /\ Stubs(e)
  BY DEF Sound, Register, Stubs, IsMatched, On
<1>3. Calm(d, e)
  <2>1. 0 \notin d.works
    BY ADatabase, IdsAre
  <2> QED BY <2>1 DEF Calm
<1> QED BY <1>1, <1>2, <1>3 DEF Sound

LEMMA ClassifiedStands ==
  ASSUME NEW d \in Database, Sound(d), NEW C \in SUBSET Held(d), NEW e, e = Classified(d, C)
  PROVE  /\ Sound(e) /\ Calm(d, e)
         /\ e.works = d.works /\ e.link = d.link /\ e.live = d.live /\ e.total = d.total
         /\ e.kept = d.kept
<1> DEFINE told == {c \in C : Lib[c] # "steam"}
           said == [c \in told |-> c]
           spoke == Heard(d.spoke, told, d.link, said)
<1>1. told \subseteq Copies /\ C \subseteq Copies
  BY DEF Held
<1>2. \A w \in Ids : \/ spoke[w] = d.spoke[w]
                     \/ \E c \in told : d.link[c] = w /\ spoke[w] = c
  <2>1. \A c \in told : said[c] = c
    OBVIOUS
  <2> HIDE DEF said
  <2> HIDE DEF told
  <2>2. ASSUME NEW w \in Ids
        PROVE  \/ spoke[w] = d.spoke[w]
               \/ \E c \in told : d.link[c] = w /\ spoke[w] = said[c]
    BY <1>1, HeardIs
  <2> QED BY <2>1, <2>2
<1>3. spoke \in [Ids -> Copies \cup {None}]
  <2>1. spoke = [w \in Ids |-> spoke[w]]
    BY DEF Heard
  <2> HIDE DEF spoke
  <2> QED BY <1>1, <1>2, <2>1, ADatabase
<1>4. e = [d EXCEPT !.spoke = spoke]
  BY DEF Classified
<1> HIDE DEF spoke
<1>5. e \in Database /\ e.spoke = spoke
  BY <1>3, <1>4 DEF Database
<1>6. /\ e.works = d.works /\ e.link = d.link /\ e.edition = d.edition /\ e.anchor = d.anchor
      /\ e.vouched = d.vouched /\ e.external = d.external /\ e.live = d.live /\ e.kept = d.kept
      /\ e.parent = d.parent /\ e.claim = d.claim /\ e.total = d.total
  BY <1>4 DEF Database
<1>7. Family(e)
  BY <1>6 DEF Sound, Family
<1>8. Tidy(e)
  <2> SUFFICES ASSUME NEW w \in Ids, w \notin d.works PROVE e.spoke[w] = None
    BY <1>6 DEF Sound, Tidy
  <2>1. ~ \E c \in told : d.link[c] = w
    BY <1>1, IdsAre DEF Sound, Links
  <2> QED BY <1>2, <1>5, <2>1 DEF Sound, Tidy
<1>9. e.live \subseteq Held(d)
  BY <1>6 DEF Sound, Links
<1> QED BY <1>5, <1>6, <1>7, <1>8, <1>9, StaysStanding

LEMMA ParentedStands ==
  ASSUME NEW d \in Database, Sound(d), NEW C \in SUBSET Held(d), \A c \in C : Lib[c] # "manual",
         NEW e, e = Parented(d, C)
  PROVE  /\ Sound(e) /\ Calm(d, e)
         /\ e.works = d.works /\ e.link = d.link /\ e.live = d.live /\ e.total = d.total
         /\ e.kept = d.kept
<1> DEFINE addons == {c \in C : Kind[c] = "dlc"}
           parents == [c \in addons |-> ParentOf(d, c)]
           claim == Heard(d.claim, addons, d.link, parents)
           parent == Heard(d.parent, addons, d.link, parents)
<1>1. addons \subseteq Copies /\ C \subseteq Copies
  BY DEF Held
<1>2. \A c \in addons : parents[c] = ParentOf(d, c)
  OBVIOUS
<1>3. ASSUME NEW c \in addons
      PROVE  /\ parents[c] \in 0..MaxId /\ parents[c] # d.link[c]
             /\ parents[c] # 0 =>
                  /\ parents[c] \in d.works
                  /\ \E x \in Copies : Lib[x] # "manual" /\ d.link[x] = parents[c]
  <2>0. d.link[c] # 0 /\ 0 \in 0..MaxId
    BY MaxAssumption DEF Held
  <2>1. CASE Base[c] = None
    BY <1>2, <2>0, <2>1 DEF ParentOf
  <2>2. CASE Base[c] # None
    <3>1. Base[c] \in Copies /\ Lib[Base[c]] # "manual"
      BY <1>1, <2>2, CopiesAre
    <3>2. d.link[Base[c]] \in 0..MaxId
      BY <3>1, ADatabase
    <3>3. parents[c] = IF d.link[Base[c]] = d.link[c] THEN 0 ELSE d.link[Base[c]]
      BY <1>2, <2>2 DEF ParentOf
    <3> QED BY <2>0, <3>1, <3>2, <3>3 DEF Sound, Links
  <2> QED BY <2>1, <2>2
<1> HIDE DEF parents
<1>4. \A w \in Ids : \/ claim[w] = d.claim[w] /\ parent[w] = d.parent[w]
                     \/ \E c \in addons : d.link[c] = w /\ claim[w] = parents[c] /\ parent[w] = parents[c]
  <2> SUFFICES ASSUME NEW w \in Ids
               PROVE  \/ claim[w] = d.claim[w] /\ parent[w] = d.parent[w]
                      \/ \E c \in addons : d.link[c] = w /\ claim[w] = parents[c] /\ parent[w] = parents[c]
    OBVIOUS
  <2>1. CASE \E c \in addons : d.link[c] = w
    <3> DEFINE l == LastOf(addons, d.link, w)
    <3>1. l \in addons /\ d.link[l] = w
      BY <1>1, <2>1, LastOfIs
    <3>2. claim[w] = parents[l] /\ parent[w] = parents[l]
      BY <2>1 DEF Heard
    <3> QED BY <3>1, <3>2
  <2>2. CASE ~ \E c \in addons : d.link[c] = w
    BY <2>2 DEF Heard
  <2> QED BY <2>1, <2>2
<1>5. claim = [w \in Ids |-> claim[w]] /\ parent = [w \in Ids |-> parent[w]]
  BY DEF Heard
<1>6. e = [d EXCEPT !.claim = claim, !.parent = parent]
  BY DEF Parented, parents
<1> HIDE DEF claim, parent
<1>7. claim \in [Ids -> 0..MaxId] /\ parent \in [Ids -> 0..MaxId]
  BY <1>3, <1>4, <1>5, ADatabase
<1>8. e \in Database /\ e.claim = claim /\ e.parent = parent
  BY <1>6, <1>7 DEF Database
<1>9. /\ e.works = d.works /\ e.link = d.link /\ e.edition = d.edition /\ e.anchor = d.anchor
      /\ e.vouched = d.vouched /\ e.external = d.external /\ e.live = d.live /\ e.kept = d.kept
      /\ e.spoke = d.spoke /\ e.total = d.total
  BY <1>6 DEF Database
<1>10. Family(e)
  BY <1>3, <1>4, <1>8, <1>9 DEF Sound, Family
<1>11. Tidy(e)
  <2> SUFFICES ASSUME NEW w \in Ids, w \notin d.works PROVE e.parent[w] = 0
    BY <1>9 DEF Sound, Tidy
  <2>1. ~ \E c \in addons : d.link[c] = w
    BY <1>1, IdsAre DEF Sound, Links
  <2> QED BY <1>4, <1>8, <2>1 DEF Sound, Tidy
<1>12. e.live \subseteq Held(d)
  BY <1>9 DEF Sound, Links
<1> QED BY <1>8, <1>9, <1>10, <1>11, <1>12, StaysStanding

LEMMA SweptStands ==
  ASSUME NEW d \in Database, Sound(d), NEW lib, NEW C, NEW e, e = Swept(d, lib, C)
  PROVE  /\ Sound(e) /\ Calm(d, e)
         /\ e.works = d.works /\ e.link = d.link /\ e.total = d.total
         /\ e.live = {c \in d.live : Lib[c] = lib => c \in C \cup d.kept}
<1>1. e = [d EXCEPT !.live = {c \in d.live : Lib[c] = lib => c \in C \cup d.kept}]
  BY DEF Swept
<1>2. e \in Database /\ e.live = {c \in d.live : Lib[c] = lib => c \in C \cup d.kept}
  BY <1>1 DEF Database
<1>3. /\ e.works = d.works /\ e.link = d.link /\ e.edition = d.edition /\ e.anchor = d.anchor
      /\ e.vouched = d.vouched /\ e.external = d.external /\ e.spoke = d.spoke
      /\ e.parent = d.parent /\ e.claim = d.claim /\ e.total = d.total
  BY <1>1 DEF Database
<1>4. e.live \subseteq Held(d) /\ Family(e) /\ Tidy(e)
  BY <1>2, <1>3 DEF Sound, Links, Family, Tidy
<1> QED BY <1>2, <1>3, <1>4, StaysStanding

LEMMA NoneOnAFreeId ==
  ASSUME NEW d \in Database, Sound(d), NEW w \in Ids, w \notin d.works
  PROVE  On(d, w) = {} /\ Played(d, w) = {}
BY IdsAre DEF Sound, Links, On, Played

LEMMA AggregatedStands ==
  ASSUME NEW d \in Database, Sound(d), NEW W, NEW e, e = Aggregated(d, W)
  PROVE  /\ Sound(e) /\ Calm(d, e)
         /\ e.works = d.works /\ e.link = d.link /\ e.live = d.live
         /\ \A w \in Ids : e.total[w] = IF w \in W THEN Played(d, w) ELSE d.total[w]
<1> DEFINE total == [w \in Ids |-> IF w \in W THEN Played(d, w) ELSE d.total[w]]
<1>1. e = [d EXCEPT !.total = total]
  BY DEF Aggregated
<1>2. total \in [Ids -> SUBSET Copies]
  <2>1. \A w \in Ids : Played(d, w) \subseteq Copies
    BY DEF Played, On
  <2> QED BY <2>1, ADatabase
<1>3. \A w \in Ids : total[w] = IF w \in W THEN Played(d, w) ELSE d.total[w]
  OBVIOUS
<1> HIDE DEF total
<1>4. e \in Database /\ e.total = total
  BY <1>1, <1>2 DEF Database
<1>5. /\ e.works = d.works /\ e.link = d.link /\ e.edition = d.edition /\ e.anchor = d.anchor
      /\ e.vouched = d.vouched /\ e.external = d.external /\ e.spoke = d.spoke
      /\ e.parent = d.parent /\ e.claim = d.claim /\ e.live = d.live
  BY <1>1 DEF Database
<1>6. Family(e) /\ e.live \subseteq Held(d)
  BY <1>5 DEF Sound, Links, Family
<1>7. Tidy(e)
  BY <1>3, <1>4, <1>5, NoneOnAFreeId DEF Sound, Tidy
<1> QED BY <1>3, <1>4, <1>5, <1>6, <1>7, StaysStanding

(* Summing again the works whose copies moved is enough.                   *)
LEMMA SummedAgain ==
  ASSUME NEW d \in Database, Summed(d), NEW e \in Database, Sound(e), NEW W,
         \A w \in e.works : w \notin W => w \in d.works /\ e.total[w] = d.total[w],
         \A c \in Copies : e.link[c] \in e.works \ W =>
           d.link[c] = e.link[c] /\ (c \in d.live <=> c \in e.live),
         \A c \in Copies : d.link[c] \in e.works \ W => d.link[c] = e.link[c],
         NEW f, f = Aggregated(e, W)
  PROVE  Summed(f)
<1>1. /\ f.works = e.works /\ f.link = e.link /\ f.live = e.live
      /\ \A w \in Ids : f.total[w] = IF w \in W THEN Played(e, w) ELSE e.total[w]
  BY AggregatedStands
<1> SUFFICES ASSUME NEW w \in e.works PROVE f.total[w] = Played(f, w)
  BY <1>1 DEF Summed
<1>2. Played(f, w) = Played(e, w) /\ w \in Ids
  BY <1>1, ADatabase DEF Played, On
<1>3. CASE w \in W
  BY <1>1, <1>2, <1>3
<1>4. CASE w \notin W
  <2>1. Played(e, w) = Played(d, w)
    BY <1>4 DEF Played, On
  <2> QED BY <1>1, <1>2, <1>4, <2>1 DEF Summed
<1> QED BY <1>3, <1>4

LEMMA CalmIsTransitive ==
  ASSUME NEW d \in Database, NEW e \in Database, NEW f \in Database,
         Sound(d), Sound(e), Calm(d, e), Calm(e, f), d.works \subseteq e.works,
         \A c \in Copies : d.link[c] # 0 => e.link[c] # 0
  PROVE  Calm(d, f)
<1>1. f.anchor = d.anchor /\ f.vouched = d.vouched
  BY DEF Calm
<1>2. \A x \in f.external : x.namespace = "igdb" => x \in d.external
  BY DEF Calm
<1>3. \A w \in d.works : IsMatched(d, w) => w \in f.works
  BY DEF Calm, IsMatched
<1>4. ASSUME NEW c \in Copies
      PROVE  IF d.link[c] = 0 THEN f.link[c] \notin d.works
             ELSE f.link[c] = d.link[c] \/ (Lib[c] = "manual" /\ f.link[c] = 0)
  <2>1. 0 \notin d.works /\ 0 \notin e.works
    BY ADatabase, IdsAre
  <2>2. CASE d.link[c] = 0
    BY <2>1, <2>2 DEF Calm
  <2>3. CASE d.link[c] # 0
    BY <2>1, <2>3 DEF Calm
  <2> QED BY <2>2, <2>3
<1> QED BY <1>1, <1>2, <1>3, <1>4 DEF Calm

LEMMA LandedStands ==
  ASSUME NEW d \in Database, Sound(d), Summed(d), NEW lib, lib # "manual",
         NEW C \in SUBSET {c \in Copies : Lib[c] = lib},
         NEW e, e = Landed(d, lib, C), e.works \subseteq Ids
  PROVE  Sound(e) /\ Summed(e) /\ Calm(d, e)
<1> DEFINE seen == [d EXCEPT !.live = d.live \cup (C \cap Held(d))]
           stubs == Stubbed(seen, C \ Held(d))
           named == Classified(stubs, C)
           told == Parented(named, C)
           swept == Swept(told, lib, C)
           W == {swept.link[c] : c \in C \cup (told.live \ swept.live)}
<1>1. e = Aggregated(swept, W)
  BY DEF Landed
<1>2. C \subseteq Copies /\ \A c \in C : Lib[c] # "manual"
  OBVIOUS
<1>3. /\ seen \in Database /\ Sound(seen) /\ Calm(d, seen)
      /\ seen.works = d.works /\ seen.link = d.link /\ seen.total = d.total
      /\ seen.live = d.live \cup (C \cap Held(d))
  <2>1. seen \in Database /\ seen.live = d.live \cup (C \cap Held(d))
    BY <1>2 DEF Database
  <2>2. /\ seen.works = d.works /\ seen.link = d.link /\ seen.edition = d.edition
        /\ seen.anchor = d.anchor /\ seen.vouched = d.vouched /\ seen.external = d.external
        /\ seen.spoke = d.spoke /\ seen.parent = d.parent /\ seen.claim = d.claim
        /\ seen.total = d.total
    BY DEF Database
  <2> HIDE DEF seen
  <2>3. Family(seen) /\ Tidy(seen) /\ seen.live \subseteq Held(d)
    BY <2>1, <2>2 DEF Sound, Family, Tidy, Links
  <2> QED BY <2>1, <2>2, <2>3, StaysStanding
<1> HIDE DEF seen
<1>4. /\ stubs.works = seen.works \cup {StubId(seen, C \ Held(d), c) : c \in C \ Held(d)}
      /\ \A c \in Copies : stubs.link[c] = IF c \in C \ Held(d) THEN StubId(seen, C \ Held(d), c) ELSE seen.link[c]
      /\ stubs.live = seen.live \cup (C \ Held(d))
      /\ stubs.total = seen.total
      /\ stubs.works \subseteq Ids => stubs \in Database
  <2> DEFINE fresh == C \ Held(d)
  <2>1. fresh \in SUBSET Copies
    BY <1>2
  <2> HIDE DEF fresh
  <2>2. /\ Stubbed(seen, fresh).works = seen.works \cup {StubId(seen, fresh, c) : c \in fresh}
        /\ \A c \in Copies : Stubbed(seen, fresh).link[c] = IF c \in fresh THEN StubId(seen, fresh, c) ELSE seen.link[c]
        /\ Stubbed(seen, fresh).live = seen.live \cup fresh
        /\ Stubbed(seen, fresh).total = seen.total
        /\ Stubbed(seen, fresh).works \subseteq Ids => Stubbed(seen, fresh) \in Database
    BY <1>3, <2>1, StubbedIs
  <2> QED BY <2>2 DEF fresh
<1>5. e.works = stubs.works
  <2>1. stubs = [seen EXCEPT !.works = stubs.works, !.link = stubs.link, !.edition = stubs.edition,
                             !.live = stubs.live]
    BY <1>3 DEF Stubbed, Database
  <2>2. PICK x : named = [stubs EXCEPT !.spoke = x]
    BY DEF Classified
  <2>3. PICK y, z : told = [named EXCEPT !.claim = y, !.parent = z]
    BY DEF Parented
  <2>4. PICK u : swept = [told EXCEPT !.live = u]
    BY DEF Swept
  <2>5. PICK v : e = [swept EXCEPT !.total = v]
    BY <1>1 DEF Aggregated
  <2> HIDE DEF stubs, named, told, swept
  <2> QED BY <1>3, <2>1, <2>2, <2>3, <2>4, <2>5 DEF Database
<1>6. /\ stubs \in Database /\ Sound(stubs) /\ Calm(seen, stubs)
  <2> DEFINE fresh == C \ Held(d)
  <2>1. fresh \in SUBSET Copies /\ \A c \in fresh : seen.link[c] = 0
    BY <1>2, <1>3 DEF Held
  <2>2. stubs = Stubbed(seen, fresh)
    OBVIOUS
  <2> HIDE DEF fresh, stubs
  <2> QED BY <1>3, <1>4, <1>5, <2>1, <2>2, StubbedStands
<1>7. \A c \in Copies : stubs.link[c] = IF c \in C \ Held(d) THEN stubs.link[c] ELSE d.link[c]
  BY <1>3, <1>4
<1>8. C \subseteq Held(stubs) /\ \A c \in C \ Held(d) : stubs.link[c] \notin d.works
  <2> DEFINE fresh == C \ Held(d)
  <2>1. fresh \in SUBSET Copies
    BY <1>2
  <2> HIDE DEF fresh
  <2>2. \A c \in fresh : StubId(seen, fresh, c) # 0 /\ StubId(seen, fresh, c) \notin seen.works
    BY <1>3, <2>1, StubIdIs
  <2>3. \A c \in C : stubs.link[c] # 0
    BY <1>2, <1>3, <1>4, <2>2 DEF fresh, Held
  <2> HIDE DEF stubs
  <2>4. C \subseteq Held(stubs)
    BY <1>2, <2>3 DEF Held
  <2> QED BY <1>2, <1>3, <1>4, <2>2, <2>4 DEF fresh
<1>9. d.works \subseteq stubs.works
  BY <1>3, <1>4
<1>10. \A w \in stubs.works : w \in d.works \/ \E c \in C : stubs.link[c] = w
  BY <1>2, <1>3, <1>4
<1>11. stubs.live = d.live \cup C /\ stubs.total = d.total
  BY <1>3, <1>4
<1> HIDE DEF stubs
<1>12. /\ named \in Database /\ Sound(named) /\ Calm(stubs, named)
       /\ named.works = stubs.works /\ named.link = stubs.link /\ named.live = stubs.live
       /\ named.total = stubs.total
  <2>1. Sound(named) => named \in Database
    BY DEF Sound
  <2> HIDE DEF named
  <2> QED BY <1>6, <1>8, <2>1, ClassifiedStands DEF named
<1> HIDE DEF named
<1>13. /\ told \in Database /\ Sound(told) /\ Calm(named, told)
       /\ told.works = stubs.works /\ told.link = stubs.link /\ told.live = stubs.live
       /\ told.total = stubs.total
  <2>1. Sound(told) => told \in Database
    BY DEF Sound
  <2>2. C \subseteq Held(named)
    BY <1>8, <1>12 DEF Held
  <2> HIDE DEF told
  <2> QED BY <1>2, <1>12, <2>1, <2>2, ParentedStands DEF told
<1> HIDE DEF told
<1>14. /\ swept \in Database /\ Sound(swept) /\ Calm(told, swept)
       /\ swept.works = stubs.works /\ swept.link = stubs.link
       /\ swept.live \subseteq told.live /\ swept.total = stubs.total
  <2>1. Sound(swept) => swept \in Database
    BY DEF Sound
  <2> HIDE DEF swept
  <2> QED BY <1>13, <2>1, SweptStands DEF swept
<1>15. W = {stubs.link[c] : c \in C \cup (told.live \ swept.live)}
  BY <1>14
<1> HIDE DEF swept
<1>16. /\ e \in Database /\ Sound(e) /\ Calm(swept, e) /\ e.works = stubs.works /\ e.link = stubs.link
  <2>1. Sound(e) => e \in Database
    BY DEF Sound
  <2> HIDE DEF W
  <2> QED BY <1>1, <1>14, <2>1, AggregatedStands
<1>17. Calm(d, e)
  <2>1. \A c \in Copies : d.link[c] # 0 => stubs.link[c] # 0
    BY <1>2, <1>7, <1>8 DEF Held
  <2>2. Calm(d, stubs)
    BY <1>3, <1>6, CalmIsTransitive
  <2>3. Calm(d, named)
    BY <1>6, <1>9, <1>12, <2>1, <2>2, CalmIsTransitive
  <2>4. Calm(d, told)
    BY <1>9, <1>12, <1>13, <2>1, <2>3, CalmIsTransitive
  <2>5. Calm(d, swept)
    BY <1>9, <1>13, <1>14, <2>1, <2>4, CalmIsTransitive
  <2> QED BY <1>9, <1>14, <1>16, <2>1, <2>5, CalmIsTransitive
<1>18. Summed(e)
  <2>1. \A w \in swept.works : w \notin W => w \in d.works /\ swept.total[w] = d.total[w]
    BY <1>10, <1>11, <1>14, <1>15
  <2>2. \A c \in Copies : swept.link[c] \in swept.works \ W =>
          d.link[c] = swept.link[c] /\ (c \in d.live <=> c \in swept.live)
    BY <1>7, <1>11, <1>13, <1>14, <1>15
  <2>3. \A c \in Copies : d.link[c] \in swept.works \ W => d.link[c] = swept.link[c]
    <3>1. 0 \notin swept.works
      BY <1>14, ADatabase, IdsAre
    <3> QED BY <1>7, <1>14, <3>1 DEF Held
  <2> HIDE DEF W
  <2> QED BY <1>1, <1>14, <2>1, <2>2, <2>3, SummedAgain
<1> QED BY <1>16, <1>17, <1>18

-----------------------------------------------------------------------------
(* The user's requests, and what the steps record.                         *)
LEMMA RestoredStands ==
  ASSUME NEW d \in Database, Sound(d), Summed(d), NEW c \in Held(d), NEW e,
         e = Aggregated([d EXCEPT !.live = @ \cup {c}, !.kept = @ \cup {c}], {d.link[c]})
  PROVE  Sound(e) /\ Summed(e) /\ Calm(d, e)
<1> DEFINE back == [d EXCEPT !.live = d.live \cup {c}, !.kept = d.kept \cup {c}]
<1>0. c \in Copies
  BY DEF Held
<1>1. back \in Database /\ back.live = d.live \cup {c}
  BY <1>0 DEF Database
<1>2. /\ back.works = d.works /\ back.link = d.link /\ back.edition = d.edition
      /\ back.anchor = d.anchor /\ back.vouched = d.vouched /\ back.external = d.external
      /\ back.spoke = d.spoke /\ back.parent = d.parent /\ back.claim = d.claim
      /\ back.total = d.total
  BY DEF Database
<1>3. e = Aggregated(back, {d.link[c]})
  OBVIOUS
<1> HIDE DEF back
<1>4. Sound(back) /\ Calm(d, back)
  <2>1. Family(back) /\ Tidy(back) /\ back.live \subseteq Held(d)
    BY <1>1, <1>2 DEF Sound, Family, Tidy, Links
  <2> QED BY <1>1, <1>2, <2>1, StaysStanding
<1>5. Sound(e) /\ Calm(back, e) /\ e \in Database
  <2>1. Sound(e) => e \in Database
    BY DEF Sound
  <2> QED BY <1>1, <1>3, <1>4, <2>1, AggregatedStands
<1>6. Calm(d, e)
  BY <1>1, <1>2, <1>4, <1>5, CalmIsTransitive
<1>7. Summed(e)
  <2> DEFINE W == {d.link[c]}
  <2>1. \A w \in back.works : w \notin W => w \in d.works /\ back.total[w] = d.total[w]
    BY <1>2
  <2>2. \A x \in Copies : back.link[x] \in back.works \ W =>
          d.link[x] = back.link[x] /\ (x \in d.live <=> x \in back.live)
    BY <1>1, <1>2
  <2>3. \A x \in Copies : d.link[x] \in back.works \ W => d.link[x] = back.link[x]
    BY <1>2
  <2> HIDE DEF W
  <2>4. e = Aggregated(back, W)
    BY <1>3 DEF W
  <2> QED BY <1>1, <1>4, <2>1, <2>2, <2>3, <2>4, SummedAgain
<1> QED BY <1>5, <1>6, <1>7

LEMMA LetGoStands ==
  ASSUME NEW d \in Database, Sound(d), Summed(d), NEW c, NEW e,
         e = [d EXCEPT !.kept = @ \ {c}]
  PROVE  Sound(e) /\ Summed(e) /\ Calm(d, e)
<1>1. e \in Database
  BY DEF Database
<1>2. /\ e.works = d.works /\ e.link = d.link /\ e.edition = d.edition /\ e.live = d.live
      /\ e.anchor = d.anchor /\ e.vouched = d.vouched /\ e.external = d.external
      /\ e.spoke = d.spoke /\ e.parent = d.parent /\ e.claim = d.claim /\ e.total = d.total
  BY DEF Database
<1>3. Family(e) /\ Tidy(e) /\ e.live \subseteq Held(d)
  BY <1>2 DEF Sound, Family, Tidy, Links
<1>4. Summed(e)
  BY <1>2 DEF Summed, Played, On
<1> QED BY <1>1, <1>2, <1>3, <1>4, StaysStanding

LEMMA EnteredStands ==
  ASSUME NEW d \in Database, Sound(d), Summed(d), NEW c \in Copies, c \notin Held(d),
         Lib[c] = "manual", NEW e, e = Stubbed(d, {c}), e.works \subseteq Ids
  PROVE  Sound(e) /\ Summed(e) /\ Calm(d, e)
<1> DEFINE C == {c}
<1>1. C \in SUBSET Copies /\ \A x \in C : d.link[x] = 0
  BY DEF Held
<1>2. e = Stubbed(d, C)
  OBVIOUS
<1>3. \A x \in Copies : x \in C <=> x = c
  OBVIOUS
<1> HIDE DEF C
<1>4. Sound(e) /\ Calm(d, e)
  BY <1>1, <1>2, StubbedStands
<1>5. /\ e.works = d.works \cup {StubId(d, C, x) : x \in C}
      /\ \A x \in Copies : e.link[x] = (IF x \in C THEN StubId(d, C, x) ELSE d.link[x])
      /\ \A x \in Copies : e.edition[x] = (IF x \in C THEN StubId(d, C, x) ELSE d.edition[x])
      /\ e.live = d.live \cup C
      /\ e.kept = d.kept /\ e.vouched = d.vouched /\ e.total = d.total /\ e.anchor = d.anchor
      /\ e.parent = d.parent /\ e.claim = d.claim /\ e.spoke = d.spoke /\ e.external = d.external
      /\ e.works \subseteq Ids => e \in Database
  BY <1>1, <1>2, StubbedIs
<1>6. \A x \in C : StubId(d, C, x) \notin d.works
  BY <1>1, StubIdIs
<1>7. Summed(e)
  <2> SUFFICES ASSUME NEW w \in e.works PROVE e.total[w] = Played(e, w)
    BY DEF Summed
  <2>1. w \in Ids /\ d.total[w] = Played(d, w)
    <3>1. w \in Ids
      OBVIOUS
    <3>2. CASE w \in d.works
      BY <3>1, <3>2 DEF Summed
    <3>3. CASE w \notin d.works
      BY <3>1, <3>3, NoneOnAFreeId DEF Sound, Tidy
    <3> QED BY <3>1, <3>2, <3>3
  <2>2. ASSUME NEW x \in Copies, Lib[x] # "manual"
        PROVE  (e.link[x] = w <=> d.link[x] = w) /\ (x \in e.live <=> x \in d.live)
    BY <1>3, <1>5, <2>2
  <2>3. Played(e, w) = Played(d, w)
    BY <2>2 DEF Played, On
  <2> QED BY <1>5, <2>1, <2>3
<1> QED BY <1>4, <1>7

(* The works of W and what is theirs are gone.                             *)
IsWithout(d, W, e) ==
  /\ e.works = d.works \ W /\ e.link = d.link /\ e.edition = d.edition /\ e.live = d.live
  /\ e.kept = d.kept /\ e.vouched = d.vouched /\ e.anchor = d.anchor
  /\ e.external = {x \in d.external : x.work \notin W}
  /\ \A w \in Ids : w \in W => e.total[w] = {} /\ e.parent[w] = 0 /\ e.claim[w] = 0 /\ e.spoke[w] = None
  /\ \A w \in Ids : w \notin W => /\ e.total[w] = d.total[w] /\ e.parent[w] = d.parent[w]
                                  /\ e.claim[w] = d.claim[w] /\ e.spoke[w] = d.spoke[w]

LEMMA DeletedIs ==
  ASSUME NEW d \in Database, NEW W, NEW e, e = Deleted(d, W)
  PROVE  /\ e \in Database
         /\ IsWithout(d, W, e)
<1> DEFINE total == Without(d.total, W, {})
           parent == Without(d.parent, W, 0)
           claim == Without(d.claim, W, 0)
           spoke == Without(d.spoke, W, None)
           external == {x \in d.external : x.work \notin W}
<1>1. e = [d EXCEPT !.works = d.works \ W, !.total = total, !.parent = parent, !.claim = claim,
                    !.spoke = spoke, !.external = external]
  BY DEF Deleted
<1>2. /\ total \in [Ids -> SUBSET Copies] /\ parent \in [Ids -> 0..MaxId]
      /\ claim \in [Ids -> 0..MaxId] /\ spoke \in [Ids -> Copies \cup {None}]
      /\ external \in SUBSET ExternalIds
  <2>1. 0 \in 0..MaxId
    BY MaxAssumption
  <2> QED BY <2>1, ADatabase DEF Without
<1>3. /\ \A w \in Ids : w \in W => total[w] = {} /\ parent[w] = 0 /\ claim[w] = 0 /\ spoke[w] = None
      /\ \A w \in Ids : w \notin W => /\ total[w] = d.total[w] /\ parent[w] = d.parent[w]
                                      /\ claim[w] = d.claim[w] /\ spoke[w] = d.spoke[w]
  BY DEF Without
<1> HIDE DEF total, parent, claim, spoke
<1>4. /\ e.works = d.works \ W /\ e.link = d.link /\ e.edition = d.edition /\ e.live = d.live
      /\ e.kept = d.kept /\ e.vouched = d.vouched /\ e.anchor = d.anchor /\ e.external = external
      /\ e.total = total /\ e.parent = parent /\ e.claim = claim /\ e.spoke = spoke
  BY <1>1 DEF Database
<1>5. e \in Database
  <2> DEFINE half == [d EXCEPT !.works = d.works \ W, !.total = total, !.parent = parent]
  <2>1. half \in Database
    BY <1>2 DEF Database
  <2>2. e = [half EXCEPT !.claim = claim, !.spoke = spoke, !.external = external]
    BY <1>1 DEF Database
  <2> HIDE DEF half, external
  <2> QED BY <1>2, <2>1, <2>2 DEF Database
<1> QED BY <1>3, <1>4, <1>5 DEF IsWithout

(* A copy is gone, and W with it: its stub, or nothing.                    *)
IsShortOf(d, c, W, e) ==
  /\ e.works = d.works \ W /\ e.live = d.live \ {c} /\ e.vouched = d.vouched /\ e.anchor = d.anchor
  /\ e.external = {x \in d.external : x.work \notin W}
  /\ \A x \in Copies : e.link[x] = (IF x = c THEN 0 ELSE d.link[x])
  /\ \A x \in Copies : e.edition[x] = (IF x = c THEN 0 ELSE d.edition[x])
  /\ \A v \in Ids : v \in W => e.total[v] = {} /\ e.parent[v] = 0 /\ e.claim[v] = 0 /\ e.spoke[v] = None
  /\ \A v \in Ids : v \notin W => /\ e.total[v] = d.total[v] /\ e.parent[v] = d.parent[v]
                                  /\ e.claim[v] = d.claim[v] /\ e.spoke[v] = d.spoke[v]

LEMMA WithoutACopy ==
  ASSUME NEW d \in Database, Sound(d), Summed(d), NEW c \in Copies, Lib[c] = "manual",
         NEW w \in d.works, d.link[c] = w, NEW W \in SUBSET {w},
         w \in W => ~IsMatched(d, w) /\ (\A x \in Copies : x # c => d.link[x] # w) /\ Children(d, w) = {},
         w \notin W => IsMatched(d, w) \/ \E x \in Copies : x # c /\ d.link[x] = w,
         NEW e \in Database, IsShortOf(d, c, W, e)
  PROVE  Sound(e) /\ Summed(e) /\ Calm(d, e)
<1> USE DEF IsShortOf
<1>0. d.works \subseteq Ids /\ w \in Ids /\ w # 0 /\ 0 \notin d.works
  BY ADatabase, IdsAre
<1>7. Links(e)
  <2>1. \A x \in Copies : e.edition[x] = e.link[x]
    BY DEF Sound, Links
  <2>2. \A x \in Copies : e.link[x] # 0 => e.link[x] \in e.works
    BY DEF Sound, Links
  <2>3. e.live \subseteq Held(e)
    BY DEF Sound, Links, Held
  <2>4. \A x \in e.vouched : e.link[x] # 0 /\ Lib[x] # "manual"
    BY ADatabase DEF Sound, Links
  <2> QED BY <2>1, <2>2, <2>3, <2>4 DEF Links
<1>8. Family(e)
  <2> SUFFICES ASSUME NEW v \in Ids, v \notin W
               PROVE  /\ e.parent[v] = e.claim[v] /\ e.parent[v] # v
                      /\ e.parent[v] # 0 =>
                           /\ e.parent[v] \in e.works
                           /\ \E x \in Copies : Lib[x] # "manual" /\ e.link[x] = e.parent[v]
    BY IdsAre DEF Family
  <2>1. e.parent[v] = d.parent[v] /\ e.claim[v] = d.claim[v]
    OBVIOUS
  <2>2. d.parent[v] \in W => FALSE
    BY <1>0 DEF Sound, Tidy, Children
  <2>3. d.parent[v] = d.claim[v] /\ d.parent[v] # v
    BY DEF Sound, Family
  <2>4. ASSUME d.parent[v] # 0
        PROVE  /\ d.parent[v] \in e.works
               /\ \E x \in Copies : Lib[x] # "manual" /\ e.link[x] = d.parent[v]
    <3>1. PICK x \in Copies : Lib[x] # "manual" /\ d.link[x] = d.parent[v]
      BY <2>4 DEF Sound, Family
    <3>2. d.parent[v] \in d.works
      BY <2>4 DEF Sound, Family
    <3> QED BY <2>2, <3>1, <3>2
  <2> QED BY <2>1, <2>3, <2>4
<1>9. Register(e)
  <2>1. \A x \in e.external : x \in d.external /\ x.work \notin W
    OBVIOUS
  <2>2. \A x \in e.external : x.work \in e.works
    BY <2>1 DEF Sound, Register
  <2>3. \A x, y \in e.external : x.namespace = y.namespace /\ x.value = y.value => x.work = y.work
    BY <2>1 DEF Sound, Register
  <2>4. \A x \in e.external : x.namespace = "igdb" => IsMatched(e, x.work)
    BY <2>1 DEF Sound, Register, IsMatched
  <2>5. ASSUME NEW v \in Ids, IsMatched(e, v) PROVE External("igdb", e.anchor[v], v) \in e.external
    <3>1. External("igdb", d.anchor[v], v) \in d.external /\ v \notin W
      BY <2>5 DEF Sound, Register, IsMatched
    <3>2. External("igdb", d.anchor[v], v).work = v
      BY DEF External
    <3> QED BY <3>1, <3>2
  <2> QED BY <2>2, <2>3, <2>4, <2>5 DEF Register
<1>10. Tidy(e)
  <2> SUFFICES ASSUME NEW v \in Ids, v \notin e.works
               PROVE  e.parent[v] = 0 /\ e.spoke[v] = None /\ e.anchor[v] = None /\ e.total[v] = {}
    BY DEF Tidy
  <2>1. CASE v \in W
    BY <2>1 DEF IsMatched
  <2>2. CASE v \notin W
    BY <2>2 DEF Sound, Tidy
  <2> QED BY <2>1, <2>2
<1>11. Stubs(e)
  <2> SUFFICES ASSUME NEW v \in e.works, ~IsMatched(e, v)
               PROVE  /\ \E x \in Copies : e.link[x] = v
                      /\ \A x, y \in Copies : e.link[x] = v /\ e.link[y] = v => x = y
    BY DEF Stubs, On
  <2>1. v \in d.works /\ v \notin W /\ v # 0 /\ ~IsMatched(d, v)
    BY <1>0 DEF IsMatched
  <2>2. \E x \in Copies : d.link[x] = v
    BY <2>1 DEF Sound, Stubs, On
  <2>3. \E x \in Copies : x # c /\ d.link[x] = v
    BY <2>1, <2>2
  <2>4. \A x, y \in Copies : d.link[x] = v /\ d.link[y] = v => x = y
    BY <2>1 DEF Sound, Stubs
  <2> QED BY <2>1, <2>3, <2>4
<1>12. Summed(e)
  <2> SUFFICES ASSUME NEW v \in e.works PROVE e.total[v] = Played(e, v)
    BY DEF Summed
  <2>1. v \in d.works /\ v \notin W /\ v \in Ids /\ v # 0
    BY <1>0
  <2>2. Played(e, v) = Played(d, v)
    BY <2>1 DEF Played, On
  <2> QED BY <2>1, <2>2 DEF Summed
<1>13. Calm(d, e)
  <2>2. \A v \in d.works : IsMatched(d, v) => v \in e.works
    OBVIOUS
  <2>3. \A x \in Copies : IF d.link[x] = 0 THEN e.link[x] \notin d.works
                          ELSE e.link[x] = d.link[x] \/ (Lib[x] = "manual" /\ e.link[x] = 0)
    BY <1>0
  <2> QED BY <2>2, <2>3 DEF Calm
<1> QED BY <1>7, <1>8, <1>9, <1>10, <1>11, <1>12, <1>13 DEF Sound

LEMMA TakenBackStands ==
  ASSUME NEW d \in Database, Sound(d), Summed(d), NEW c \in Held(d), Lib[c] = "manual",
         NEW gone, gone = [d EXCEPT !.link[c] = 0, !.edition[c] = 0, !.live = @ \ {c}],
         NEW missed \in BOOLEAN,
         missed <=> (IsMatched(gone, d.link[c]) \/ On(gone, d.link[c]) # {} \/ Children(gone, d.link[c]) # {}),
         NEW e, e = IF missed THEN gone ELSE Deleted(gone, {d.link[c]})
  PROVE  Sound(e) /\ Summed(e) /\ Calm(d, e)
<1>0. c \in Copies /\ d.link[c] \in Ids /\ d.link[c] \in d.works /\ 0 \in 0..MaxId
  BY ADatabase, IdsAre, MaxAssumption DEF Held, Sound, Links
<1>1. /\ gone \in Database
      /\ \A x \in Copies : gone.link[x] = (IF x = c THEN 0 ELSE d.link[x])
      /\ \A x \in Copies : gone.edition[x] = (IF x = c THEN 0 ELSE d.edition[x])
      /\ gone.live = d.live \ {c}
  BY <1>0 DEF Database
<1>2. /\ gone.works = d.works /\ gone.anchor = d.anchor /\ gone.vouched = d.vouched
      /\ gone.external = d.external /\ gone.total = d.total /\ gone.parent = d.parent
      /\ gone.claim = d.claim /\ gone.spoke = d.spoke
  BY DEF Database
<1>3. PICK w \in d.works : w = d.link[c]
  BY <1>0
<1>4. ~missed => ~IsMatched(d, w) /\ (\A x \in Copies : x # c => d.link[x] # w) /\ Children(d, w) = {}
  BY <1>0, <1>1, <1>2, <1>3 DEF IsMatched, On, Children
<1>5. missed => IsMatched(d, w) \/ \E x \in Copies : x # c /\ d.link[x] = w
  <2> SUFFICES ASSUME missed, ~IsMatched(d, w), \A x \in Copies : x # c => d.link[x] # w PROVE FALSE
    OBVIOUS
  <2>1. ~IsMatched(gone, w) /\ On(gone, w) = {}
    <3>1. \A x \in Copies : gone.link[x] # w
      BY <1>0, <1>1, <1>3, IdsAre
    <3> QED BY <1>2, <3>1 DEF IsMatched, On
  <2>2. PICK x \in d.works : d.parent[x] = w
    BY <1>2, <1>3, <2>1 DEF Children
  <2>3. PICK y \in Copies : Lib[y] # "manual" /\ d.link[y] = w
    BY <1>0, <1>3, <2>2, ADatabase, IdsAre DEF Sound, Family
  <2> QED BY <2>3
<1>6. CASE missed
  <2>1. gone.works = d.works \ {} /\ gone.external = {x \in d.external : x.work \notin {}}
    BY <1>2
  <2>2. IsShortOf(d, c, {}, gone)
    BY <1>1, <1>2, <2>1 DEF IsShortOf
  <2>3. Sound(gone) /\ Summed(gone) /\ Calm(d, gone)
    BY <1>0, <1>1, <1>3, <1>5, <1>6, <2>2, WithoutACopy
  <2> QED BY <1>6, <2>3
<1>7. CASE ~missed
  <2> DEFINE W == {w}
             del == Deleted(gone, W)
  <2>1. e = del /\ W \in SUBSET {w} /\ w \in W
    BY <1>3, <1>7
  <2> HIDE DEF W
  <2>2. del \in Database /\ IsWithout(gone, W, del)
    BY <1>1, DeletedIs
  <2> HIDE DEF del
  <2>3. IsShortOf(d, c, W, del)
    BY <1>1, <1>2, <2>2 DEF IsWithout, IsShortOf
  <2>4. Sound(del) /\ Summed(del) /\ Calm(d, del)
    BY <1>0, <1>3, <1>4, <1>7, <2>1, <2>2, <2>3, WithoutACopy
  <2> QED BY <2>1, <2>4
<1> QED BY <1>6, <1>7

LEMMA NoOrphans ==
  ASSUME NEW d \in Database, Sound(d), Summed(d), NEW W \in SUBSET Orphans(d),
         NEW e, e = Deleted(d, W)
  PROVE  Sound(e) /\ Summed(e) /\ Calm(d, e)
<1>1. W = {}
  BY DEF Orphans, Sound, Stubs
<1>2. e \in Database /\ IsWithout(d, {}, e)
  BY <1>1, DeletedIs
<1>3. /\ e.works = d.works /\ e.link = d.link /\ e.edition = d.edition /\ e.live = d.live
      /\ e.anchor = d.anchor /\ e.vouched = d.vouched /\ e.external = d.external
      /\ \A w \in Ids : /\ e.total[w] = d.total[w] /\ e.parent[w] = d.parent[w]
                        /\ e.claim[w] = d.claim[w] /\ e.spoke[w] = d.spoke[w]
  BY <1>2 DEF IsWithout
<1>4. Family(e) /\ Tidy(e) /\ e.live \subseteq Held(d)
  BY <1>3 DEF Sound, Family, Tidy, Links
<1>5. Summed(e)
  BY <1>3, ADatabase DEF Summed, Played, On
<1> QED BY <1>2, <1>3, <1>4, <1>5, StaysStanding

LEMMA RecordedStands ==
  ASSUME NEW d \in Database, Sound(d), Summed(d), NEW f, NEW own \in Owners(d, f),
         \A w \in DOMAIN f : w \in d.works /\ f[w] \in Games,
         NEW e, e = Recorded(d, own)
  PROVE  Sound(e) /\ Summed(e) /\ Calm(d, e)
<1> DEFINE fresh == {External("steam", a, own[a]) : a \in DOMAIN own}
<1>1. \A a \in DOMAIN own : own[a] \in DOMAIN f /\ a \in Appids[f[own[a]]] /\ a \in NewAppids(d, f)
  BY DEF Owners
<1>2. \A a \in DOMAIN own : own[a] \in d.works /\ a \in ExternalValues
  BY <1>1 DEF ExternalValues
<1>3. \A x \in fresh : \E a \in DOMAIN own : x = External("steam", a, own[a])
  OBVIOUS
<1>4. \A x \in fresh : /\ x.namespace = "steam" /\ x.value \in DOMAIN own /\ x.work = own[x.value]
                       /\ x \in ExternalIds
  <2>1. \A a \in DOMAIN own : own[a] \in Ids
    BY <1>2, ADatabase
  <2> QED BY <1>2, <1>3, <2>1 DEF External, ExternalIds
<1>5. \A x \in d.external : x.namespace = "steam" => x.value \notin DOMAIN own
  BY <1>1 DEF NewAppids
<1>6. e = [d EXCEPT !.external = d.external \cup fresh]
  BY DEF Recorded
<1> HIDE DEF fresh
<1>7. e \in Database /\ e.external = d.external \cup fresh
  BY <1>4, <1>6 DEF Database
<1>8. /\ e.works = d.works /\ e.link = d.link /\ e.edition = d.edition /\ e.live = d.live
      /\ e.anchor = d.anchor /\ e.vouched = d.vouched /\ e.spoke = d.spoke
      /\ e.parent = d.parent /\ e.claim = d.claim /\ e.total = d.total
  BY <1>6 DEF Database
<1>9. Links(e) /\ Family(e) /\ Tidy(e) /\ Stubs(e)
  BY <1>8 DEF Sound, Links, Family, Tidy, Stubs, Held, IsMatched, On
<1>10. Register(e)
  <2>1. \A x \in e.external : x.work \in e.works
    BY <1>2, <1>4, <1>7, <1>8 DEF Sound, Register
  <2>2. \A x, y \in e.external : x.namespace = y.namespace /\ x.value = y.value => x.work = y.work
    BY <1>4, <1>5, <1>7 DEF Sound, Register
  <2>3. \A x \in e.external : x.namespace = "igdb" => x \in d.external
    BY <1>4, <1>7
  <2>4. \A x \in e.external : x.namespace = "igdb" => IsMatched(e, x.work)
    BY <1>8, <2>3 DEF Sound, Register, IsMatched
  <2>5. \A w \in Ids : IsMatched(e, w) => External("igdb", e.anchor[w], w) \in e.external
    BY <1>7, <1>8 DEF Sound, Register, IsMatched
  <2> QED BY <2>1, <2>2, <2>4, <2>5 DEF Register
<1>11. Summed(e)
  BY <1>8 DEF Summed, Played, On
<1>12. Calm(d, e)
  <2>1. 0 \notin d.works /\ \A x \in e.external : x.namespace = "igdb" => x \in d.external
    BY <1>4, <1>7, ADatabase, IdsAre
  <2> QED BY <1>8, <2>1 DEF Calm
<1> QED BY <1>7, <1>9, <1>10, <1>11, <1>12 DEF Sound

LEMMA ToldStands ==
  ASSUME NEW d \in Database, Sound(d), Summed(d), NEW C \in SUBSET Copies, NEW T,
         \A c \in C : T[c] \in d.works,
         NEW e, e = [d EXCEPT !.spoke = Heard(@, C, T, [c \in C |-> c])]
  PROVE  Sound(e) /\ Summed(e) /\ Calm(d, e)
<1> DEFINE said == [c \in C |-> c]
           spoke == Heard(d.spoke, C, T, said)
<1>1. ASSUME NEW w \in Ids
      PROVE  spoke[w] = d.spoke[w] \/ \E c \in C : T[c] = w /\ spoke[w] = c
  <2>1. \A c \in C : said[c] = c
    OBVIOUS
  <2> HIDE DEF said
  <2> QED BY <2>1, HeardIs
<1>2. spoke \in [Ids -> Copies \cup {None}]
  <2>1. spoke = [w \in Ids |-> spoke[w]]
    BY DEF Heard
  <2> HIDE DEF spoke
  <2> QED BY <1>1, <2>1, ADatabase
<1>3. e = [d EXCEPT !.spoke = spoke]
  OBVIOUS
<1> HIDE DEF spoke
<1>4. e \in Database /\ e.spoke = spoke
  BY <1>2, <1>3 DEF Database
<1>5. /\ e.works = d.works /\ e.link = d.link /\ e.edition = d.edition /\ e.anchor = d.anchor
      /\ e.vouched = d.vouched /\ e.external = d.external /\ e.live = d.live
      /\ e.parent = d.parent /\ e.claim = d.claim /\ e.total = d.total
  BY <1>3 DEF Database
<1>6. Family(e) /\ e.live \subseteq Held(d)
  BY <1>5 DEF Sound, Family, Links
<1>7. Tidy(e)
  <2> SUFFICES ASSUME NEW w \in Ids, w \notin d.works PROVE e.spoke[w] = None
    BY <1>5 DEF Sound, Tidy
  <2>1. ~ \E c \in C : T[c] = w
    OBVIOUS
  <2> QED BY <1>1, <1>4, <2>1 DEF Sound, Tidy
<1>8. Summed(e)
  BY <1>5 DEF Summed, Played, On
<1> QED BY <1>4, <1>5, <1>6, <1>7, <1>8, StaysStanding

-----------------------------------------------------------------------------
(* A merge.                                                                *)
(* The parent of a target: its own, or the one its source brings.          *)
FoldedParent(d, s, t) ==
  LET own == IF d.parent[t] = s THEN 0 ELSE d.parent[t]
  IN IF own # 0 THEN own ELSE IF d.parent[s] = t THEN 0 ELSE d.parent[s]

IsFolded(d, s, t, e) ==
  /\ e.works = d.works \ {s} /\ e.live = d.live /\ e.vouched = d.vouched /\ e.anchor = d.anchor
  /\ \A c \in Copies : e.link[c] = (IF d.link[c] = s THEN t ELSE d.link[c])
  /\ \A c \in Copies : e.edition[c] = (IF d.edition[c] = s THEN t ELSE d.edition[c])
  /\ e.parent[s] = 0 /\ e.claim[s] = 0 /\ e.spoke[s] = None /\ e.total[s] = {}
  /\ e.parent[t] = FoldedParent(d, s, t) /\ e.claim[t] = FoldedParent(d, s, t)
  /\ \A w \in Ids \ {s, t} :
       /\ e.parent[w] = (IF d.parent[w] = s THEN t ELSE d.parent[w]) /\ e.claim[w] = e.parent[w]
       /\ e.spoke[w] = d.spoke[w] /\ e.total[w] = d.total[w]
  /\ e.total[t] = Played(e, t)
  /\ \A y \in e.external : \E x \in d.external :
       /\ y.namespace = x.namespace /\ y.value = x.value
       /\ y.work = (IF x.work = s THEN t ELSE x.work)
  /\ \A x \in d.external : x.work # s => x \in e.external

LEMMA ParentedTwice ==
  ASSUME NEW d \in Database, Sound(d), NEW s \in d.works, NEW t \in d.works, s # t,
         NEW e, e = Adopted(Repointed(d, s, t), s, t)
  PROVE  /\ e \in Database
         /\ e.works = d.works /\ e.link = d.link /\ e.edition = d.edition /\ e.live = d.live
         /\ e.vouched = d.vouched /\ e.anchor = d.anchor /\ e.spoke = d.spoke
         /\ e.total = d.total /\ e.external = d.external
         /\ e.parent[t] = FoldedParent(d, s, t)
         /\ FoldedParent(d, s, t) = (IF e.claim[t] # 0 THEN e.claim[t] ELSE e.claim[s])
         /\ \A w \in Ids \ {s, t} :
              /\ e.parent[w] = (IF d.parent[w] = s THEN t ELSE d.parent[w])
              /\ e.claim[w] = e.parent[w]
<1> DEFINE rep == Repointed(d, s, t)
           claim == [w \in Ids |-> IF w = t THEN (IF d.claim[t] = s THEN 0 ELSE d.claim[t])
                                   ELSE IF w = s THEN (IF d.claim[s] = t THEN 0 ELSE d.claim[s])
                                   ELSE IF d.claim[w] = s /\ w \in Children(d, s) THEN t ELSE d.claim[w]]
           own == IF d.parent[t] = s THEN 0 ELSE d.parent[t]
           parent == [w \in Ids |-> IF w = t THEN (IF own = 0 /\ d.parent[s] # t THEN d.parent[s] ELSE own)
                                    ELSE IF d.parent[w] = s THEN t ELSE d.parent[w]]
<1>0. s \in Ids /\ t \in Ids /\ s # 0 /\ t # 0 /\ 0 \in 0..MaxId /\ s \in 0..MaxId /\ t \in 0..MaxId
  BY ADatabase, IdsAre, MaxAssumption
<1>1. rep = [d EXCEPT !.claim = claim]
  BY DEF Repointed
<1>2. claim \in [Ids -> 0..MaxId] /\ parent \in [Ids -> 0..MaxId]
  BY <1>0, ADatabase
<1>3. \A w \in Ids : d.parent[w] = d.claim[w] /\ d.parent[w] # w
  BY DEF Sound, Family
<1>4. \A w \in Ids : d.claim[w] = s => w \in Children(d, s)
  BY <1>0, <1>3 DEF Sound, Tidy, Children
<1>5. /\ claim[t] = own
      /\ claim[s] = IF d.parent[s] = t THEN 0 ELSE d.parent[s]
      /\ \A w \in Ids \ {s, t} : claim[w] = IF d.parent[w] = s THEN t ELSE d.parent[w]
  BY <1>0, <1>3, <1>4
<1>6. /\ parent[t] = (IF own = 0 /\ d.parent[s] # t THEN d.parent[s] ELSE own)
      /\ \A w \in Ids \ {s, t} : parent[w] = IF d.parent[w] = s THEN t ELSE d.parent[w]
  BY <1>0
<1>7. own = IF d.parent[t] = s THEN 0 ELSE d.parent[t]
  OBVIOUS
<1> HIDE DEF claim
<1>8. rep \in Database /\ rep.claim = claim
  BY <1>1, <1>2 DEF Database
<1>9. /\ rep.works = d.works /\ rep.link = d.link /\ rep.edition = d.edition /\ rep.live = d.live
      /\ rep.vouched = d.vouched /\ rep.anchor = d.anchor /\ rep.spoke = d.spoke
      /\ rep.total = d.total /\ rep.external = d.external /\ rep.parent = d.parent
  BY <1>1 DEF Database
<1>10. e = [rep EXCEPT !.parent = parent]
  BY <1>9 DEF Adopted
<1> HIDE DEF rep, parent, own
<1>11. e \in Database /\ e.parent = parent
  BY <1>2, <1>8, <1>10 DEF Database
<1>12. /\ e.works = d.works /\ e.link = d.link /\ e.edition = d.edition /\ e.live = d.live
       /\ e.vouched = d.vouched /\ e.anchor = d.anchor /\ e.spoke = d.spoke
       /\ e.total = d.total /\ e.external = d.external /\ e.claim = claim
  BY <1>8, <1>9, <1>10 DEF Database
<1>13. FoldedParent(d, s, t) = IF own # 0 THEN own ELSE IF d.parent[s] = t THEN 0 ELSE d.parent[s]
  BY <1>7 DEF FoldedParent
<1> QED BY <1>5, <1>6, <1>11, <1>12, <1>13

LEMMA FoldedIs ==
  ASSUME NEW d \in Database, Sound(d), NEW s \in d.works, NEW t \in d.works, s # t,
         NEW newer \in BOOLEAN, NEW e, e = Folded(d, s, t, newer)
  PROVE  e \in Database /\ IsFolded(d, s, t, e)
<1> DEFINE a == Adopted(Repointed(d, s, t), s, t)
           claimed == IF a.claim[t] # 0 THEN a.claim[t] ELSE a.claim[s]
           edition == Moved(a.edition, s, t)
           link == Moved(a.link, s, t)
           spoke == [a.spoke EXCEPT ![t] = Spoken(a, s, t, newer)]
           claim == [a.claim EXCEPT ![t] = claimed]
           external == {IF x.work = s THEN [x EXCEPT !.work = t] ELSE x : x \in a.external}
           moved == [a EXCEPT !.edition = edition, !.link = link, !.spoke = spoke, !.claim = claim,
                              !.external = external]
           del == Deleted(moved, {s})
<1>0. s \in Ids /\ t \in Ids /\ s # 0 /\ t # 0 /\ 0 \in 0..MaxId /\ s \in 0..MaxId /\ t \in 0..MaxId
  BY ADatabase, IdsAre, MaxAssumption
<1>1. /\ a \in Database
      /\ a.works = d.works /\ a.link = d.link /\ a.edition = d.edition /\ a.live = d.live
      /\ a.vouched = d.vouched /\ a.anchor = d.anchor /\ a.spoke = d.spoke
      /\ a.total = d.total /\ a.external = d.external
      /\ a.parent[t] = FoldedParent(d, s, t)
      /\ FoldedParent(d, s, t) = claimed
      /\ \A w \in Ids \ {s, t} :
           /\ a.parent[w] = (IF d.parent[w] = s THEN t ELSE d.parent[w])
           /\ a.claim[w] = a.parent[w]
  BY ParentedTwice
<1>2. e = Aggregated(del, {t})
  BY DEF Folded, TotalStays, Spoken
<1> HIDE DEF a
<1>3. /\ a.link \in [Copies -> 0..MaxId] /\ a.edition \in [Copies -> 0..MaxId]
      /\ a.spoke \in [Ids -> Copies \cup {None}] /\ a.claim \in [Ids -> 0..MaxId]
      /\ a.external \subseteq ExternalIds
  BY <1>1, ADatabase
<1>4. /\ link \in [Copies -> 0..MaxId] /\ edition \in [Copies -> 0..MaxId]
      /\ \A c \in Copies : link[c] = (IF a.link[c] = s THEN t ELSE a.link[c])
      /\ \A c \in Copies : edition[c] = (IF a.edition[c] = s THEN t ELSE a.edition[c])
  BY <1>0, <1>3 DEF Moved
<1>5. /\ spoke \in [Ids -> Copies \cup {None}]
      /\ \A w \in Ids \ {s, t} : spoke[w] = a.spoke[w]
  BY <1>0, <1>3 DEF Spoken
<1>6. /\ claim \in [Ids -> 0..MaxId] /\ claim[t] = claimed
      /\ \A w \in Ids \ {s, t} : claim[w] = a.claim[w]
  BY <1>0, <1>3
<1>7. /\ external \in SUBSET ExternalIds
      /\ \A y \in external : \E x \in a.external :
           /\ y.namespace = x.namespace /\ y.value = x.value
           /\ y.work = (IF x.work = s THEN t ELSE x.work)
      /\ \A x \in a.external : x.work # s => x \in external
  BY <1>0, <1>3 DEF ExternalIds
<1> HIDE DEF link, edition, spoke, claim, external, claimed
<1>8. /\ moved \in Database /\ moved.link = link /\ moved.edition = edition /\ moved.spoke = spoke
      /\ moved.claim = claim /\ moved.external = external
  <2> DEFINE half == [a EXCEPT !.edition = edition, !.link = link]
  <2>1. half \in Database
    BY <1>1, <1>4 DEF Database
  <2>2. moved = [half EXCEPT !.spoke = spoke, !.claim = claim, !.external = external]
    BY <1>1 DEF Database
  <2>3. moved.link = link /\ moved.edition = edition /\ moved.spoke = spoke
        /\ moved.claim = claim /\ moved.external = external
    BY <1>1 DEF Database
  <2> HIDE DEF half, moved
  <2> QED BY <1>5, <1>6, <1>7, <2>1, <2>2, <2>3 DEF Database
<1>9. /\ moved.works = a.works /\ moved.live = a.live /\ moved.vouched = a.vouched
      /\ moved.anchor = a.anchor /\ moved.parent = a.parent /\ moved.total = a.total
  BY <1>1 DEF Database
<1> HIDE DEF moved
<1>10. del \in Database /\ IsWithout(moved, {s}, del)
  BY <1>8, DeletedIs
<1> HIDE DEF del
<1> DEFINE total == [w \in Ids |-> IF w \in {t} THEN Played(del, w) ELSE del.total[w]]
<1>11. e = [del EXCEPT !.total = total]
  BY <1>2 DEF Aggregated
<1>12. total \in [Ids -> SUBSET Copies]
  <2>1. \A w \in Ids : Played(del, w) \subseteq Copies
    BY DEF Played, On
  <2> QED BY <1>10, <2>1, ADatabase
<1>13. total[t] = Played(del, t) /\ \A w \in Ids \ {t} : total[w] = del.total[w]
  BY <1>0
<1> HIDE DEF total
<1>14. /\ e \in Database
       /\ e.works = del.works /\ e.link = del.link /\ e.edition = del.edition /\ e.live = del.live
       /\ e.vouched = del.vouched /\ e.anchor = del.anchor /\ e.spoke = del.spoke
       /\ e.parent = del.parent /\ e.claim = del.claim /\ e.external = del.external
       /\ e.total = total
  BY <1>10, <1>11, <1>12 DEF Database
<1>15. Played(e, t) = Played(del, t)
  BY <1>14 DEF Played, On
<1>16. /\ e.works = d.works \ {s} /\ e.live = d.live /\ e.vouched = d.vouched /\ e.anchor = d.anchor
       /\ \A c \in Copies : e.link[c] = (IF d.link[c] = s THEN t ELSE d.link[c])
       /\ \A c \in Copies : e.edition[c] = (IF d.edition[c] = s THEN t ELSE d.edition[c])
  BY <1>1, <1>4, <1>8, <1>9, <1>10, <1>14 DEF IsWithout
<1>17. /\ e.parent[s] = 0 /\ e.claim[s] = 0 /\ e.spoke[s] = None /\ e.total[s] = {}
  BY <1>0, <1>10, <1>13, <1>14 DEF IsWithout
<1>18. /\ e.parent[t] = FoldedParent(d, s, t) /\ e.claim[t] = FoldedParent(d, s, t)
       /\ e.total[t] = Played(e, t)
  BY <1>0, <1>1, <1>6, <1>8, <1>9, <1>10, <1>13, <1>14, <1>15 DEF IsWithout
<1>19. \A w \in Ids \ {s, t} :
         /\ e.parent[w] = (IF d.parent[w] = s THEN t ELSE d.parent[w]) /\ e.claim[w] = e.parent[w]
         /\ e.spoke[w] = d.spoke[w] /\ e.total[w] = d.total[w]
  BY <1>0, <1>1, <1>5, <1>6, <1>8, <1>9, <1>10, <1>13, <1>14 DEF IsWithout
<1>20. e.external = {y \in external : y.work \notin {s}}
  BY <1>8, <1>10, <1>14 DEF IsWithout
<1>21. /\ \A y \in e.external : \E x \in d.external :
            /\ y.namespace = x.namespace /\ y.value = x.value
            /\ y.work = (IF x.work = s THEN t ELSE x.work)
       /\ \A x \in d.external : x.work # s => x \in e.external
  BY <1>1, <1>7, <1>20
<1> QED BY <1>14, <1>16, <1>17, <1>18, <1>19, <1>21 DEF IsFolded

LEMMA FoldedStands ==
  ASSUME NEW d \in Database, Sound(d), Summed(d), NEW s \in d.works, NEW t \in d.works, s # t,
         ~IsMatched(d, s), IsMatched(d, t),
         NEW e \in Database, IsFolded(d, s, t, e)
  PROVE  Sound(e) /\ Summed(e)
<1> USE DEF IsFolded
<1>0. s \in Ids /\ t \in Ids /\ s # 0 /\ t # 0 /\ 0 \notin d.works
  BY ADatabase, IdsAre
<1>1. Links(e)
  <2>1. \A c \in Copies : e.edition[c] = e.link[c]
    BY DEF Sound, Links
  <2>2. \A c \in Copies : e.link[c] # 0 => e.link[c] \in e.works
    BY <1>0 DEF Sound, Links
  <2>3. e.live \subseteq Held(e)
    BY <1>0 DEF Sound, Links, Held
  <2>4. \A x \in e.vouched : e.link[x] # 0 /\ Lib[x] # "manual"
    BY <1>0, ADatabase DEF Sound, Links
  <2> QED BY <2>1, <2>2, <2>3, <2>4 DEF Links
<1>2. \A w \in Ids : /\ d.parent[w] = d.claim[w] /\ d.parent[w] # w
                     /\ d.parent[w] # 0 =>
                          /\ d.parent[w] \in d.works
                          /\ \E c \in Copies : Lib[c] # "manual" /\ d.link[c] = d.parent[w]
  BY DEF Sound, Family
<1>3. ASSUME NEW w \in Ids
      PROVE  /\ e.parent[w] = e.claim[w] /\ e.parent[w] # w
             /\ \/ e.parent[w] = 0
                \/ e.parent[w] = t /\ \E v \in Ids : d.parent[v] = s
                \/ e.parent[w] # s /\ \E v \in Ids : d.parent[v] = e.parent[w]
  <2>1. CASE w = s
    BY <1>0, <2>1
  <2>2. CASE w = t
    <3>1. e.parent[t] = FoldedParent(d, s, t) /\ e.claim[t] = FoldedParent(d, s, t)
      OBVIOUS
    <3> QED BY <1>0, <1>2, <2>2, <3>1 DEF FoldedParent
  <2>3. CASE w \notin {s, t}
    BY <1>0, <1>2, <2>3
  <2> QED BY <2>1, <2>2, <2>3
<1>4. Family(e)
  <2> SUFFICES ASSUME NEW w \in Ids, e.parent[w] # 0
               PROVE  /\ e.parent[w] \in e.works
                      /\ \E c \in Copies : Lib[c] # "manual" /\ e.link[c] = e.parent[w]
    BY <1>3 DEF Family
  <2>1. CASE e.parent[w] = t /\ \E v \in Ids : d.parent[v] = s
    <3>1. \E c \in Copies : Lib[c] # "manual" /\ d.link[c] = s
      BY <1>0, <1>2, <2>1
    <3> QED BY <2>1, <3>1
  <2>2. CASE e.parent[w] # s /\ \E v \in Ids : d.parent[v] = e.parent[w]
    <3>1. e.parent[w] \in d.works /\ \E c \in Copies : Lib[c] # "manual" /\ d.link[c] = e.parent[w]
      BY <1>2, <2>2
    <3> QED BY <2>2, <3>1
  <2> QED BY <1>3, <2>1, <2>2
<1>5. Register(e)
  <2>1. \A y \in e.external : y.work \in e.works
    BY DEF Sound, Register
  <2>2. \A x, y \in e.external : x.namespace = y.namespace /\ x.value = y.value => x.work = y.work
    BY DEF Sound, Register
  <2>3. \A y \in e.external : y.namespace = "igdb" => IsMatched(e, y.work)
    BY DEF Sound, Register, IsMatched
  <2>4. ASSUME NEW w \in Ids, IsMatched(e, w) PROVE External("igdb", e.anchor[w], w) \in e.external
    <3>1. External("igdb", d.anchor[w], w) \in d.external /\ w # s
      BY <2>4 DEF Sound, Register, IsMatched
    <3>2. External("igdb", d.anchor[w], w).work = w
      BY DEF External
    <3> QED BY <3>1, <3>2
  <2> QED BY <2>1, <2>2, <2>3, <2>4 DEF Register
<1>6. Tidy(e)
  <2> SUFFICES ASSUME NEW w \in Ids, w \notin e.works
               PROVE  e.parent[w] = 0 /\ e.spoke[w] = None /\ e.anchor[w] = None /\ e.total[w] = {}
    BY DEF Tidy
  <2>1. CASE w = s
    BY <2>1 DEF IsMatched
  <2>2. CASE w # s
    BY <1>0, <2>2 DEF Sound, Tidy
  <2> QED BY <2>1, <2>2
<1>7. Stubs(e)
  <2> SUFFICES ASSUME NEW v \in e.works, ~IsMatched(e, v)
               PROVE  /\ \E x \in Copies : e.link[x] = v
                      /\ \A x, y \in Copies : e.link[x] = v /\ e.link[y] = v => x = y
    BY DEF Stubs, On
  <2>1. v \in d.works /\ v # s /\ v # t /\ ~IsMatched(d, v)
    BY DEF IsMatched
  <2>2. /\ \E x \in Copies : d.link[x] = v
        /\ \A x, y \in Copies : d.link[x] = v /\ d.link[y] = v => x = y
    BY <2>1 DEF Sound, Stubs, On
  <2> QED BY <2>1, <2>2
<1>8. Summed(e)
  <2> SUFFICES ASSUME NEW v \in e.works, v # t PROVE e.total[v] = Played(e, v)
    BY DEF Summed
  <2>1. v \in d.works /\ v \in Ids /\ v # s
    BY ADatabase
  <2>2. Played(e, v) = Played(d, v)
    BY <2>1 DEF Played, On
  <2> QED BY <2>1, <2>2 DEF Summed
<1> QED BY <1>1, <1>4, <1>5, <1>6, <1>7, <1>8 DEF Sound

-----------------------------------------------------------------------------
(* The igdb step's transaction, one target after another.                  *)
(* What is anchored stays so, with the copies it has, and no copy is lost. *)
Grows(d, e) ==
  /\ \A c \in Copies : d.link[c] # 0 <=> e.link[c] # 0
  /\ \A w \in d.works :
       IsMatched(d, w) =>
         /\ w \in e.works /\ IsMatched(e, w)
         /\ \A c \in Copies : d.link[c] = w => e.link[c] = w
SameGames(d, e) == \A w \in d.works : IsMatched(d, w) => e.anchor[w] = d.anchor[w]

LEMMA GrowsOn ==
  ASSUME NEW d, NEW e, NEW f, Grows(d, e), Grows(e, f)
  PROVE  Grows(d, f)
<1>1. \A c \in Copies : d.link[c] # 0 <=> f.link[c] # 0
  BY DEF Grows
<1>2. \A w \in d.works :
        IsMatched(d, w) => /\ w \in f.works /\ IsMatched(f, w)
                           /\ \A c \in Copies : d.link[c] = w => f.link[c] = w
  BY DEF Grows
<1> QED BY <1>1, <1>2 DEF Grows

LEMMA VouchedStands ==
  ASSUME NEW d \in Database, Sound(d), Summed(d), NEW c \in Copies, Lib[c] # "manual",
         NEW w \in Ids, NEW e, e = Vouch(d, c, w)
  PROVE  /\ e \in Database /\ Sound(e) /\ Summed(e)
         /\ e.works = d.works /\ e.link = d.link /\ e.anchor = d.anchor /\ e.external = d.external
         /\ \A x \in e.vouched : x \in d.vouched \/ (x \in Copies /\ d.link[x] = w)
<1> DEFINE led == LedHere(d, c, w)
<1>1. e = [d EXCEPT !.vouched = d.vouched \cup led]
  BY DEF Vouch
<1>2. led \subseteq Copies /\ \A x \in led : d.link[x] = w /\ Lib[x] # "manual"
  BY DEF LedHere, On
<1> HIDE DEF led
<1>3. e \in Database /\ e.vouched = d.vouched \cup led
  BY <1>1, <1>2 DEF Database
<1>4. /\ e.works = d.works /\ e.link = d.link /\ e.edition = d.edition /\ e.live = d.live
      /\ e.anchor = d.anchor /\ e.spoke = d.spoke /\ e.external = d.external
      /\ e.parent = d.parent /\ e.claim = d.claim /\ e.total = d.total
  BY <1>1 DEF Database
<1>5. Links(e)
  BY <1>2, <1>3, <1>4, IdsAre DEF Sound, Links, Held
<1>6. Family(e) /\ Register(e) /\ Tidy(e) /\ Stubs(e)
  BY <1>4 DEF Sound, Family, Register, Tidy, Stubs, IsMatched, On
<1>7. Summed(e)
  BY <1>4 DEF Summed, Played, On
<1>8. \A x \in e.vouched : x \in d.vouched \/ (x \in Copies /\ d.link[x] = w)
  BY <1>2, <1>3
<1> QED BY <1>3, <1>4, <1>5, <1>6, <1>7, <1>8 DEF Sound

LEMMA AnchorOneStands ==
  ASSUME NEW d \in Database, Sound(d), Summed(d), NEW c \in Copies, Lib[c] # "manual",
         NEW w \in d.works, NEW g \in Games, Holder(d, g) = {},
         NEW e, e = AnchorOne(d, c, w, g)
  PROVE  /\ e \in Database /\ Sound(e) /\ Summed(e) /\ Grows(d, e)
         /\ e.link = d.link /\ \A v \in Ids : v # w => e.anchor[v] = d.anchor[v]
         /\ Exact(d) /\ d.link[c] = w /\ d.anchor[w] = None /\ Game[c] = g =>
              Exact(e) /\ SameGames(d, e)
<1> DEFINE row == External("igdb", g, w)
           held == [d EXCEPT !.external = d.external \cup {row}, !.anchor[w] = g]
<1>0. w \in Ids /\ w # 0 /\ g # None
  BY ADatabase, IdsAre, NoneIsNoGame
<1>1. row \in ExternalIds /\ row.namespace = "igdb" /\ row.value = g /\ row.work = w
  BY <1>0 DEF External, ExternalIds, ExternalValues
<1>2. e = Vouch(held, c, w)
  BY DEF AnchorOne
<1> HIDE DEF row
<1>3. /\ held \in Database /\ held.external = d.external \cup {row}
      /\ \A v \in Ids : held.anchor[v] = IF v = w THEN g ELSE d.anchor[v]
  BY <1>0, <1>1 DEF Database
<1>4. /\ held.works = d.works /\ held.link = d.link /\ held.edition = d.edition /\ held.live = d.live
      /\ held.vouched = d.vouched /\ held.spoke = d.spoke /\ held.parent = d.parent
      /\ held.claim = d.claim /\ held.total = d.total
  BY DEF Database
<1> HIDE DEF held
<1>5. \A x \in d.external : x.namespace = "igdb" => x.value # g
  BY DEF Holder
<1>6. Links(held) /\ Family(held)
  BY <1>4 DEF Sound, Links, Family, Held
<1>7. Register(held)
  <2>1. \A x \in held.external : x.work \in held.works
    BY <1>1, <1>3, <1>4 DEF Sound, Register
  <2>2. \A x, y \in held.external : x.namespace = y.namespace /\ x.value = y.value => x.work = y.work
    BY <1>1, <1>3, <1>5 DEF Sound, Register
  <2>3. \A x \in held.external : x.namespace = "igdb" => IsMatched(held, x.work)
    BY <1>0, <1>1, <1>3, ADatabase DEF Sound, Register, IsMatched
  <2>4. \A v \in Ids : IsMatched(held, v) => External("igdb", held.anchor[v], v) \in held.external
    BY <1>3 DEF Sound, Register, IsMatched, row
  <2> QED BY <2>1, <2>2, <2>3, <2>4 DEF Register
<1>8. Tidy(held)
  BY <1>3, <1>4 DEF Sound, Tidy
<1>9. Stubs(held)
  <2> SUFFICES ASSUME NEW v \in held.works, ~IsMatched(held, v)
               PROVE  /\ On(held, v) # {}
                      /\ \A x, y \in Copies : held.link[x] = v /\ held.link[y] = v => x = y
    BY DEF Stubs
  <2>1. v \in d.works /\ ~IsMatched(d, v)
    BY <1>0, <1>3, <1>4, ADatabase DEF IsMatched
  <2> QED BY <1>4, <2>1 DEF Sound, Stubs, On
<1>10. Summed(held)
  BY <1>4 DEF Summed, Played, On
<1>11. /\ e \in Database /\ Sound(e) /\ Summed(e)
       /\ e.works = held.works /\ e.link = held.link /\ e.anchor = held.anchor /\ e.external = held.external
       /\ \A x \in e.vouched : x \in held.vouched \/ (x \in Copies /\ held.link[x] = w)
  <2>1. Sound(held)
    BY <1>3, <1>6, <1>7, <1>8, <1>9 DEF Sound
  <2> QED BY <1>0, <1>2, <1>3, <1>10, <2>1, VouchedStands
<1>12. Grows(d, e)
  BY <1>0, <1>3, <1>4, <1>11, ADatabase DEF Grows, IsMatched
<1>13. ASSUME Exact(d), d.link[c] = w, d.anchor[w] = None, Game[c] = g
       PROVE  Exact(e) /\ SameGames(d, e)
  <2>1. \A x \in Copies : d.link[x] = w => x = c
    BY <1>13 DEF Sound, Stubs, IsMatched
  <2>2. \A x \in d.external : x.namespace = "igdb" => x.work # w
    BY <1>13 DEF Sound, Register, IsMatched
  <2>3. d.link \in [Copies -> 0..MaxId] /\ d.external \subseteq ExternalIds
    BY ADatabase
  <2>4. \A x \in e.external : x.namespace = "igdb" => e.anchor[x.work] = x.value
    BY <1>0, <1>1, <1>3, <1>11, <1>13, <2>2, <2>3 DEF Exact, ExternalIds
  <2>5. \A x \in Copies : e.link[x] # 0 => e.anchor[e.link[x]] \in {None, Game[x]}
    BY <1>3, <1>4, <1>11, <1>13, <2>1, <2>3, IdsAre DEF Exact
  <2>6. \A x \in e.vouched : e.anchor[e.link[x]] = Game[x]
    <3> SUFFICES ASSUME NEW x \in e.vouched PROVE e.anchor[e.link[x]] = Game[x]
      OBVIOUS
    <3>1. CASE x = c
      BY <1>0, <1>3, <1>4, <1>11, <1>13, <3>1
    <3>2. CASE x # c
      <4>1. x \in d.vouched /\ x \in Copies /\ d.link[x] # 0
        BY <1>4, <1>11, <2>1, <3>2, ADatabase DEF Sound, Links
      <4>2. d.link[x] # w /\ d.link[x] \in Ids
        BY <2>1, <2>3, <3>2, <4>1, IdsAre
      <4> QED BY <1>3, <1>4, <1>11, <1>13, <4>1, <4>2 DEF Exact
    <3> QED BY <3>1, <3>2
  <2>7. \A v \in Ids : IsMatched(e, v) => \E x \in Copies : Lib[x] # "manual" /\ e.link[x] = v
    BY <1>3, <1>4, <1>11, <1>13 DEF Exact, IsMatched
  <2>8. SameGames(d, e)
    BY <1>3, <1>11, <1>13, ADatabase DEF SameGames, IsMatched
  <2> QED BY <2>4, <2>5, <2>6, <2>7, <2>8 DEF Exact
<1> QED BY <1>3, <1>4, <1>11, <1>12, <1>13

LEMMA MergedOneStands ==
  ASSUME NEW d \in Database, Sound(d), Summed(d), NEW c \in Copies, Lib[c] # "manual",
         NEW g \in Games, NEW w, NEW t \in Holder(d, g), Mergeable(d, w, t), NEW newer \in BOOLEAN,
         NEW e, e = Vouch(Folded(d, w, t, newer), c, t)
  PROVE  /\ e \in Database /\ Sound(e) /\ Summed(e) /\ Grows(d, e)
         /\ e.anchor = d.anchor /\ \A x \in Copies : d.link[x] # w => e.link[x] = d.link[x]
         /\ Exact(d) /\ d.link[c] = w /\ Game[c] = g => Exact(e) /\ SameGames(d, e)
<1> DEFINE one == Folded(d, w, t, newer)
<1>0. /\ w \in d.works /\ t \in d.works /\ w # t /\ ~IsMatched(d, w)
      /\ w \in Ids /\ t \in Ids /\ w # 0 /\ t # 0
  BY ADatabase, IdsAre DEF Mergeable
<1>1. PICK row \in d.external : row.namespace = "igdb" /\ row.value = g /\ row.work = t
  BY DEF Holder
<1>2. IsMatched(d, t)
  BY <1>1 DEF Sound, Register
<1>3. one \in Database /\ IsFolded(d, w, t, one)
  BY <1>0, FoldedIs
<1> HIDE DEF one
<1>4. Sound(one) /\ Summed(one)
  BY <1>0, <1>2, <1>3, FoldedStands
<1>5. /\ e \in Database /\ Sound(e) /\ Summed(e)
      /\ e.works = one.works /\ e.link = one.link /\ e.anchor = one.anchor /\ e.external = one.external
      /\ \A x \in e.vouched : x \in one.vouched \/ (x \in Copies /\ one.link[x] = t)
  BY <1>0, <1>3, <1>4, VouchedStands DEF one
<1>6. /\ e.works = d.works \ {w} /\ e.anchor = d.anchor /\ one.vouched = d.vouched
      /\ \A x \in Copies : e.link[x] = (IF d.link[x] = w THEN t ELSE d.link[x])
      /\ \A y \in e.external : \E x \in d.external :
           y.namespace = x.namespace /\ y.value = x.value /\ y.work = (IF x.work = w THEN t ELSE x.work)
  BY <1>3, <1>5 DEF IsFolded
<1>7. Grows(d, e)
  BY <1>0, <1>6 DEF Grows, IsMatched
<1>8. ASSUME Exact(d), d.link[c] = w, Game[c] = g PROVE Exact(e) /\ SameGames(d, e)
  <2>1. d.anchor[t] = g
    BY <1>1, <1>8 DEF Exact
  <2>2. \A x \in Copies : d.link[x] = w => x = c
    BY <1>0, <1>8 DEF Sound, Stubs
  <2>3. \A y \in e.external : y.namespace = "igdb" => e.anchor[y.work] = y.value
    BY <1>0, <1>6, <1>8 DEF Exact, Sound, Register
  <2>4. \A x \in Copies : e.link[x] # 0 => e.anchor[e.link[x]] \in {None, Game[x]}
    BY <1>6, <1>8, <2>1, <2>2 DEF Exact
  <2>5. \A x \in e.vouched : e.anchor[e.link[x]] = Game[x]
    <3> SUFFICES ASSUME NEW x \in e.vouched PROVE e.anchor[e.link[x]] = Game[x]
      OBVIOUS
    <3>1. d.vouched \subseteq Copies
      BY ADatabase
    <3>2. CASE x \in d.vouched
      BY <1>5, <1>6, <1>8, <2>1, <2>2, <3>1, <3>2 DEF Exact
    <3>3. CASE x \in Copies /\ e.link[x] = t
      <4>1. e.anchor[t] = g /\ g # None
        BY <1>2, <1>6, <2>1 DEF IsMatched
      <4> QED BY <1>0, <2>4, <3>3, <4>1
    <3> QED BY <1>5, <1>6, <3>2, <3>3
  <2>6. ASSUME NEW v \in Ids, IsMatched(e, v)
        PROVE  \E x \in Copies : Lib[x] # "manual" /\ e.link[x] = v
    <3>1. IsMatched(d, v) /\ v # w
      BY <1>0, <1>6, <2>6 DEF IsMatched
    <3>2. PICK x \in Copies : Lib[x] # "manual" /\ d.link[x] = v
      BY <1>8, <3>1 DEF Exact
    <3> QED BY <1>6, <3>1, <3>2
  <2>7. SameGames(d, e)
    BY <1>6 DEF SameGames
  <2> QED BY <2>3, <2>4, <2>5, <2>6, <2>7 DEF Exact
<1> QED BY <1>5, <1>6, <1>7, <1>8

(* One after another: what holds of the transaction at each target, and    *)
(* what holds besides as long as the run has its claim.                    *)
Accumulated == [db : Database, settled : SUBSET Ids, failed : BOOLEAN]
InTransaction(d, acc) ==
  acc \in Accumulated /\ Sound(acc.db) /\ Summed(acc.db) /\ Grows(d, acc.db)
OnTrack(d, acc, T) ==
  /\ Exact(acc.db) /\ SameGames(d, acc.db)
  /\ \A i \in 1..Len(T) :
       T[i][2] \notin acc.settled =>
         acc.db.link[T[i][1]] = T[i][2] /\ acc.db.anchor[T[i][2]] = None

LEMMA SettlesOne ==
  ASSUME NEW d, NEW acc, InTransaction(d, acc), NEW T \in Seq(Copies \X Ids), NEW k \in 1..Len(T),
         NEW found, NEW newer \in BOOLEAN,
         Lib[T[k][1]] # "manual", found[T[k][1]] \in {None, Game[T[k][1]]},
         NEW next, next = Settle(acc, T[k], found, newer)
  PROVE  InTransaction(d, next) /\ (OnTrack(d, acc, T) => OnTrack(d, next, T))
<1> DEFINE c == T[k][1]
           w == T[k][2]
           g == found[c]
           H == Holder(acc.db, g)
           t == CHOOSE t \in H : TRUE
           one == AnchorOne(acc.db, c, w, g)
           two == Vouch(Folded(acc.db, w, t, newer), c, t)
<1>0. /\ c \in Copies /\ w \in Ids /\ Lib[c] # "manual" /\ g \in {None, Game[c]}
      /\ \A i \in 1..Len(T) : T[i][1] \in Copies /\ T[i][2] \in Ids
  OBVIOUS
<1>1. acc.db \in Database /\ acc.settled \subseteq Ids /\ Sound(acc.db) /\ Summed(acc.db) /\ Grows(d, acc.db)
  BY DEF InTransaction, Accumulated
<1>2. g # None => g \in Games /\ Game[c] = g
  BY <1>0 DEF Games
<1>3. next = (IF g = None \/ w \in acc.settled \/ acc.failed THEN acc
              ELSE IF H = {} /\ w \in acc.db.works
                   THEN [acc EXCEPT !.db = one, !.settled = @ \cup {w}]
              ELSE IF H # {} /\ Mergeable(acc.db, w, t)
                   THEN IF c \in Conflicting THEN acc
                        ELSE [acc EXCEPT !.db = two, !.settled = @ \cup {w}]
              ELSE [acc EXCEPT !.failed = TRUE])
  BY DEF Settle
<1> HIDE DEF c, w, g, H, t, one, two
<1>4. CASE next = acc
  BY <1>4
<1>5. CASE g # None /\ w \notin acc.settled /\ H = {} /\ w \in acc.db.works
           /\ next = [acc EXCEPT !.db = one, !.settled = @ \cup {w}]
  <2>1. /\ one \in Database /\ Sound(one) /\ Summed(one) /\ Grows(acc.db, one)
        /\ one.link = acc.db.link /\ \A v \in Ids : v # w => one.anchor[v] = acc.db.anchor[v]
        /\ Exact(acc.db) /\ acc.db.link[c] = w /\ acc.db.anchor[w] = None /\ Game[c] = g =>
             Exact(one) /\ SameGames(acc.db, one)
    BY <1>0, <1>1, <1>2, <1>5, AnchorOneStands DEF H, one
  <2>2. next \in Accumulated /\ next.db = one /\ next.settled = acc.settled \cup {w}
    <3>1. acc \in Accumulated /\ acc.settled \cup {w} \in SUBSET Ids /\ one \in Database
      BY <1>0, <1>1, <2>1 DEF InTransaction
    <3>2. next = [acc EXCEPT !.db = one, !.settled = acc.settled \cup {w}]
      BY <1>5
    <3> QED BY <3>1, <3>2 DEF Accumulated
  <2>3. Grows(d, one)
    BY <1>1, <2>1, GrowsOn
  <2>4. ASSUME OnTrack(d, acc, T) PROVE OnTrack(d, next, T)
    <3>0. w \notin acc.settled => acc.db.link[c] = w /\ acc.db.anchor[w] = None
      BY <2>4 DEF OnTrack, c, w
    <3>1. acc.db.link[c] = w /\ acc.db.anchor[w] = None /\ Exact(acc.db) /\ SameGames(d, acc.db)
      BY <1>5, <2>4, <3>0 DEF OnTrack
    <3>2. Exact(one) /\ SameGames(acc.db, one)
      BY <1>2, <1>5, <2>1, <3>1
    <3>3. SameGames(d, one)
      BY <1>1, <3>1, <3>2 DEF SameGames, Grows
    <3>4. ASSUME NEW i \in 1..Len(T), T[i][2] \notin next.settled
          PROVE  one.link[T[i][1]] = T[i][2] /\ one.anchor[T[i][2]] = None
      BY <1>0, <2>1, <2>2, <2>4, <3>4 DEF OnTrack
    <3> QED BY <2>2, <3>2, <3>3, <3>4 DEF OnTrack
  <2> QED BY <2>1, <2>2, <2>3, <2>4 DEF InTransaction
<1>6. CASE g # None /\ w \notin acc.settled /\ H # {} /\ Mergeable(acc.db, w, t)
           /\ next = [acc EXCEPT !.db = two, !.settled = @ \cup {w}]
  <2>0. t \in Holder(acc.db, g)
    BY <1>6 DEF H, t
  <2>1. /\ two \in Database /\ Sound(two) /\ Summed(two) /\ Grows(acc.db, two)
        /\ two.anchor = acc.db.anchor /\ \A x \in Copies : acc.db.link[x] # w => two.link[x] = acc.db.link[x]
        /\ Exact(acc.db) /\ acc.db.link[c] = w /\ Game[c] = g => Exact(two) /\ SameGames(acc.db, two)
    BY <1>0, <1>1, <1>2, <1>6, <2>0, MergedOneStands DEF two
  <2>2. next \in Accumulated /\ next.db = two /\ next.settled = acc.settled \cup {w}
    <3>1. acc \in Accumulated /\ acc.settled \cup {w} \in SUBSET Ids /\ two \in Database
      BY <1>0, <1>1, <2>1 DEF InTransaction
    <3>2. next = [acc EXCEPT !.db = two, !.settled = acc.settled \cup {w}]
      BY <1>6
    <3> QED BY <3>1, <3>2 DEF Accumulated
  <2>3. Grows(d, two)
    BY <1>1, <2>1, GrowsOn
  <2>4. ASSUME OnTrack(d, acc, T) PROVE OnTrack(d, next, T)
    <3>0. w \notin acc.settled => acc.db.link[c] = w
      BY <2>4 DEF OnTrack, c, w
    <3>1. acc.db.link[c] = w /\ Exact(acc.db) /\ SameGames(d, acc.db)
      BY <1>6, <2>4, <3>0 DEF OnTrack
    <3>2. Exact(two) /\ SameGames(acc.db, two)
      BY <1>2, <1>6, <2>1, <3>1
    <3>3. SameGames(d, two)
      BY <1>1, <3>1, <3>2 DEF SameGames, Grows
    <3>4. ASSUME NEW i \in 1..Len(T), T[i][2] \notin next.settled
          PROVE  two.link[T[i][1]] = T[i][2] /\ two.anchor[T[i][2]] = None
      <4>1. acc.db.link[T[i][1]] = T[i][2] /\ acc.db.anchor[T[i][2]] = None /\ T[i][2] # w
        BY <2>2, <2>4, <3>4 DEF OnTrack
      <4> QED BY <1>0, <2>1, <4>1
    <3> QED BY <2>2, <3>2, <3>3, <3>4 DEF OnTrack
  <2> QED BY <2>1, <2>2, <2>3, <2>4 DEF InTransaction
<1>7. CASE next = [acc EXCEPT !.failed = TRUE]
  <2>1. next \in Accumulated /\ next.db = acc.db /\ next.settled = acc.settled
    BY <1>7 DEF Accumulated, InTransaction
  <2> QED BY <1>1, <2>1 DEF InTransaction, OnTrack
<1> QED BY <1>3, <1>4, <1>5, <1>6, <1>7

(* The recursion has its function.                                         *)
LEMMA AnchoredIs ==
  ASSUME NEW r, NEW newer, Len(igdb[r].targets) \in Nat
  PROVE  \E acc :
           /\ acc[0] = [db |-> db, settled |-> {}, failed |-> FALSE]
           /\ \A n \in 1..Len(igdb[r].targets) :
                acc[n] = Settle(acc[n - 1], igdb[r].targets[n], igdb[r].found, newer)
           /\ Anchored(r, newer) = acc[Len(igdb[r].targets)]
<1> DEFINE T == igdb[r].targets
           start == [db |-> db, settled |-> {}, failed |-> FALSE]
           Next1(x, n) == Settle(x, T[n], igdb[r].found, newer)
           Runs1(f, k) == f = [n \in 0..k |-> IF n = 0 THEN start ELSE Next1(f[n - 1], n)]
           Bad == {k \in Nat : ~\E f : Runs1(f, k)}
<1>1. Anchored(r, newer) = (CHOOSE f : Runs1(f, Len(T)))[Len(T)]
  BY DEF Anchored
<1> HIDE DEF start, Next1
<1>2. Bad = {}
  <2> SUFFICES ASSUME Bad # {} PROVE FALSE
    OBVIOUS
  <2>1. PICK k \in Bad : \A j \in Bad : k <= j
    BY LeastOf
  <2>0. Bad \subseteq Nat
    OBVIOUS
  <2>2. CASE k = 0
    <3> DEFINE f == [n \in 0..0 |-> start]
    <3>1. f = [n \in 0..0 |-> IF n = 0 THEN start ELSE Next1(f[n - 1], n)]
      OBVIOUS
    <3> QED BY <2>2, <3>1
  <2>3. CASE k # 0
    <3>0. k \in Nat /\ k - 1 \in Nat /\ k - 1 \notin Bad
      <4> HIDE DEF Bad
      <4> QED BY <2>0, <2>1, <2>3
    <3>1. k \in Nat /\ k - 1 \in Nat /\ \E f : Runs1(f, k - 1)
      BY <3>0
    <3>2. PICK f : Runs1(f, k - 1)
      BY <3>1
    <3> DEFINE h == [n \in 0..k |-> IF n = k THEN Next1(f[k - 1], k) ELSE f[n]]
    <3>3. \A n \in 0..(k - 1) : f[n] = IF n = 0 THEN start ELSE Next1(f[n - 1], n)
      BY <3>2
    <3>4. \A n \in 0..k : h[n] = IF n = 0 THEN start ELSE Next1(h[n - 1], n)
      <4> SUFFICES ASSUME NEW n \in 0..k PROVE h[n] = IF n = 0 THEN start ELSE Next1(h[n - 1], n)
        OBVIOUS
      <4>1. CASE n = k
        <5>1. h[n - 1] = f[n - 1]
          BY <3>1, <4>1
        <5> QED BY <2>3, <4>1, <5>1
      <4>2. CASE n # k /\ n # 0
        <5>1. n \in 0..(k - 1) /\ n - 1 \in 0..k /\ n - 1 # k
          BY <3>1, <4>2
        <5>2. h[n] = f[n] /\ h[n - 1] = f[n - 1]
          BY <4>2, <5>1
        <5> QED BY <3>3, <4>2, <5>1, <5>2
      <4>3. CASE n # k /\ n = 0
        BY <3>1, <3>3, <4>3
      <4> QED BY <4>1, <4>2, <4>3
    <3>5. h = [n \in 0..k |-> IF n = 0 THEN start ELSE Next1(h[n - 1], n)]
      BY <3>4
    <3> QED BY <3>5
  <2> QED BY <2>2, <2>3
<1>3. \E f : Runs1(f, Len(T))
  BY <1>2
<1>4. PICK f : Runs1(f, Len(T)) /\ Anchored(r, newer) = f[Len(T)]
  BY <1>1, <1>3
<1>5. /\ f[0] = start
      /\ \A n \in 1..Len(T) : f[n] = Next1(f[n - 1], n)
  BY <1>4
<1> QED BY <1>4, <1>5 DEF start, Next1

LEMMA AnchoredStands ==
  ASSUME NEW r \in Runs, NEW newer \in BOOLEAN, db \in Database, Sound(db), Summed(db),
         igdb[r].targets \in Seq(Copies \X Ids), Asked(r)
  PROVE  /\ InTransaction(db, Anchored(r, newer))
         /\ Exact(db) /\ Claimed(r) => OnTrack(db, Anchored(r, newer), igdb[r].targets)
<1>1. PICK acc :
        /\ acc[0] = [db |-> db, settled |-> {}, failed |-> FALSE]
        /\ \A n \in 1..Len(igdb[r].targets) :
             acc[n] = Settle(acc[n - 1], igdb[r].targets[n], igdb[r].found, newer)
        /\ Anchored(r, newer) = acc[Len(igdb[r].targets)]
  <2>1. Len(igdb[r].targets) \in Nat
    OBVIOUS
  <2> QED BY <2>1, AnchoredIs
<1> DEFINE T == igdb[r].targets
           Fine(a) == InTransaction(db, a) /\ (Exact(db) /\ Claimed(r) => OnTrack(db, a, T))
<1> DEFINE Bad == {n \in 0..Len(T) : ~Fine(acc[n])}
<1>2. Fine(acc[0])
  <2>1. acc[0] \in Accumulated /\ acc[0].db = db /\ acc[0].settled = {}
    BY <1>1 DEF Accumulated
  <2>2. Grows(db, db)
    BY DEF Grows
  <2>3. SameGames(db, db)
    BY DEF SameGames
  <2>4. InTransaction(db, acc[0])
    BY <2>1, <2>2 DEF InTransaction
  <2>5. Exact(db) /\ Claimed(r) => OnTrack(db, acc[0], T)
    BY <2>1, <2>3 DEF OnTrack, Claimed
  <2> QED BY <2>4, <2>5
<1>3. ASSUME NEW n \in 1..Len(T), Fine(acc[n - 1]) PROVE Fine(acc[n])
  <2>1. Lib[T[n][1]] # "manual" /\ igdb[r].found[T[n][1]] \in {None, Game[T[n][1]]}
    BY DEF Asked
  <2>2. acc[n] = Settle(acc[n - 1], T[n], igdb[r].found, newer)
    BY <1>1
  <2>3. /\ InTransaction(db, acc[n])
        /\ OnTrack(db, acc[n - 1], T) => OnTrack(db, acc[n], T)
    BY <1>3, <2>1, <2>2, SettlesOne
  <2> QED BY <1>3, <2>3
<1> HIDE DEF Fine
<1>4. Bad = {}
  <2> SUFFICES ASSUME Bad # {} PROVE FALSE
    OBVIOUS
  <2>0. Bad \subseteq Nat
    OBVIOUS
  <2> HIDE DEF Bad
  <2>1. PICK n \in Bad : \A m \in Bad : n <= m
    BY <2>0, LeastOf
  <2> USE DEF Bad
  <2>2. n # 0 /\ n \in 1..Len(T)
    BY <1>2
  <2>3. n - 1 \in 0..Len(T) /\ n - 1 \notin Bad
    BY <2>1, <2>2
  <2> QED BY <1>3, <2>2, <2>3
<1>5. Fine(acc[Len(T)])
  BY <1>4
<1> QED BY <1>1, <1>5 DEF Fine

-----------------------------------------------------------------------------
(* The inductive invariant: the database stands, the runs have asked and   *)
(* read what it still bears out, and the rest is true of it until a run    *)
(* outlives its claim.                                                     *)
Run ==
  [step : {"idle", "read", "fetched", "anchored", "collected", "wanted"}, at : 1..3,
   targets : Seq(Copies \X Ids), found : UNION {[C -> Games \cup {None}] : C \in SUBSET Copies},
   wanted : UNION {[W -> Games] : W \in SUBSET Ids}]
Reading == {Unread} \cup [step : {"fetched"}, targets : UNION {[C -> Ids] : C \in SUBSET Copies}]

MatchingShape ==
  /\ igdb \in [Runs -> Run]
  /\ \A r \in Runs : igdb[r].step # "fetched" => igdb[r].targets = <<>>
  /\ holder \in Runs \cup {None}
  /\ store \in Reading
  /\ outlived \in BOOLEAN
  /\ edits \in 0..MaxEdits /\ lost \in 0..MaxLost

MatchingInv ==
  /\ MatchingShape
  /\ Sound(db) /\ Summed(db)
  /\ \A r \in Runs : Asked(r) /\ Promised(r)
  /\ ~outlived => Exact(db) /\ \A r \in Runs : Claimed(r)

LEMMA RestIs ==
  /\ Rest.step = "idle" /\ Rest.targets = <<>> /\ Rest.wanted = <<>>
  /\ \A step \in {"idle", "read", "anchored"}, at \in 1..3 :
       LET x == [Rest EXCEPT !.step = step, !.at = at]
       IN x \in Run /\ x.step = step /\ x.targets = <<>> /\ x.wanted = <<>>
  /\ LET x == [Rest EXCEPT !.step = "read"]
     IN x \in Run /\ x.step = "read" /\ x.targets = <<>> /\ x.wanted = <<>>
  /\ Rest \in Run
<1>1. <<>> \in UNION {[C -> Games \cup {None}] : C \in SUBSET Copies}
  <2>1. <<>> \in [{} -> Games \cup {None}]
    OBVIOUS
  <2> QED BY <2>1
<1>2. <<>> \in UNION {[W -> Games] : W \in SUBSET Ids}
  <2>1. <<>> \in [{} -> Games]
    OBVIOUS
  <2> QED BY <2>1
<1>3. <<>> \in Seq(Copies \X Ids)
  OBVIOUS
<1> DEFINE F == UNION {[C -> Games \cup {None}] : C \in SUBSET Copies}
           W == UNION {[I -> Games] : I \in SUBSET Ids}
           T == Seq(Copies \X Ids)
           rest(step, at) ==
             [step |-> step, at |-> at, targets |-> <<>>, found |-> <<>>, wanted |-> <<>>]
<1>0. \A step \in {"idle", "read", "anchored"}, at \in 1..3 : rest(step, at) \in Run
  <2>1. Run = [step : {"idle", "read", "fetched", "anchored", "collected", "wanted"},
               at : 1..3, targets : T, found : F, wanted : W]
    BY DEF Run
  <2>2. <<>> \in F /\ <<>> \in W /\ <<>> \in T
    BY <1>1, <1>2, <1>3
  <2> HIDE DEF F, W, T
  <2> QED BY <2>1, <2>2
<1>4. ASSUME NEW step \in {"idle", "read", "anchored"}, NEW at \in 1..3, NEW x,
             x = [Rest EXCEPT !.step = step, !.at = at]
      PROVE  x \in Run /\ x.step = step /\ x.targets = <<>> /\ x.wanted = <<>>
  <2>1. x = rest(step, at)
    BY <1>4 DEF Rest
  <2>2. x \in Run
    BY <1>0, <2>1
  <2> QED BY <2>1, <2>2
<1>5. Rest.step = "idle" /\ Rest.targets = <<>> /\ Rest.wanted = <<>>
  BY DEF Rest
<1>6. Rest \in Run
  <2>1. Rest = rest("idle", 1)
    BY DEF Rest
  <2> HIDE DEF rest
  <2> QED BY <1>0, <2>1
<1>7. ASSUME NEW x, x = [Rest EXCEPT !.step = "read"]
      PROVE  x \in Run /\ x.step = "read" /\ x.targets = <<>> /\ x.wanted = <<>>
  <2>1. x = rest("read", 1)
    BY <1>7 DEF Rest
  <2>2. x \in Run
    <3> HIDE DEF rest
    <3> QED BY <1>0, <2>1
  <2> QED BY <2>1, <2>2
<1> QED BY <1>4, <1>5, <1>6, <1>7

LEMMA CalmIsReflexive ==
  ASSUME NEW d \in Database
  PROVE  Calm(d, d)
<1>1. 0 \notin d.works
  BY ADatabase, IdsAre
<1> QED BY <1>1 DEF Calm

(* A step that leaves the runs alone.                                      *)
Quiet == Sound(db') /\ Summed(db') /\ Calm(db, db')

LEMMA CalmStep ==
  ASSUME MatchingInv, Quiet,
         UNCHANGED <<igdb, holder, outlived>>, store' \in Reading,
         edits' \in 0..MaxEdits, lost' \in 0..MaxLost
  PROVE  MatchingInv'
<1>0. /\ db \in Database /\ db' \in Database
      /\ Sound(db') /\ Summed(db') /\ Calm(db, db')
  BY DEF MatchingInv, Quiet, Sound
<1>1. MatchingShape'
  BY DEF MatchingInv, MatchingShape
<1>2. ASSUME NEW r \in Runs PROVE Asked(r)' /\ Promised(r)'
  <2>1. Asked(r)'
    BY DEF MatchingInv, Asked
  <2>2. Promised(r)'
    BY <1>0 DEF MatchingInv, Promised, Calm, IsMatched
  <2> QED BY <2>1, <2>2
<1>3. ASSUME ~outlived' PROVE Exact(db') /\ \A r \in Runs : Claimed(r)'
  <2>1. Exact(db')
    BY <1>0, <1>3, CalmIsExact DEF MatchingInv
  <2>2. ASSUME NEW r \in Runs PROVE Claimed(r)'
    <3>1. Claimed(r) /\ Asked(r) /\ igdb[r].targets \in Seq(Copies \X Ids)
      BY <1>3 DEF MatchingInv, MatchingShape, Run
    <3>2. ASSUME NEW i \in 1..Len(igdb[r].targets)
          PROVE  LET p == igdb[r].targets[i] IN db'.link[p[1]] = p[2] /\ db'.anchor[p[2]] = None
      <4>1. igdb[r].targets[i][1] \in Copies /\ igdb[r].targets[i][2] \in Ids
        BY <3>1
      <4>2. igdb[r].targets[i][2] # 0
        BY <4>1, IdsAre
      <4> QED BY <1>0, <3>1, <4>1, <4>2 DEF Claimed, Asked, Calm
    <3> QED BY <3>1, <3>2 DEF Claimed
  <2> QED BY <2>1, <2>2
<1> QED BY <1>0, <1>1, <1>2, <1>3 DEF MatchingInv

(* A step that sets one run onward, or ends it, with nothing to anchor.    *)
SetsOn(r, x) ==
  /\ igdb' = [igdb EXCEPT ![r] = x]
  /\ x \in Run /\ x.step # "fetched" /\ x.targets = <<>>
  /\ \A w \in DOMAIN x.wanted : w \in db.works /\ IsMatched(db, w) /\ x.wanted[w] \in Games
  /\ holder' \in Runs \cup {None}
  /\ ~outlived => /\ x.step # "idle" => holder' = r
                  /\ \A q \in Runs : q # r /\ igdb[q].step # "idle" => holder' = q

LEMMA RunStep ==
  ASSUME MatchingInv, Quiet, NEW r \in Runs, NEW x, SetsOn(r, x),
         UNCHANGED <<store, outlived, edits>>, lost' \in 0..MaxLost
  PROVE  MatchingInv'
<1>0. /\ db \in Database /\ db' \in Database /\ igdb \in [Runs -> Run]
      /\ Sound(db') /\ Summed(db') /\ Calm(db, db')
  BY DEF MatchingInv, Quiet, Sound, MatchingShape
<1>a. /\ igdb' = [igdb EXCEPT ![r] = x]
      /\ x \in Run /\ x.step # "fetched" /\ x.targets = <<>>
      /\ \A w \in DOMAIN x.wanted : w \in db.works /\ IsMatched(db, w) /\ x.wanted[w] \in Games
      /\ holder' \in Runs \cup {None}
      /\ ~outlived => /\ x.step # "idle" => holder' = r
                      /\ \A q \in Runs : q # r /\ igdb[q].step # "idle" => holder' = q
  BY DEF SetsOn
<1>1. igdb'[r] = x /\ \A q \in Runs : q # r => igdb'[q] = igdb[q]
  BY <1>0, <1>a
<1>2. MatchingShape'
  <2>1. igdb' \in [Runs -> Run]
    BY <1>0, <1>a
  <2>2. \A q \in Runs : igdb'[q].step # "fetched" => igdb'[q].targets = <<>>
    BY <1>1, <1>a DEF MatchingInv, MatchingShape
  <2> QED BY <2>1, <2>2, <1>a DEF MatchingInv, MatchingShape
<1>3. ASSUME NEW q \in Runs PROVE Asked(q)' /\ Promised(q)'
  <2>1. CASE q = r
    <3>1. Asked(q)'
      BY <1>1, <1>a, <2>1 DEF Asked
    <3>2. Promised(q)'
      BY <1>0, <1>1, <1>a, <2>1 DEF Promised, Calm, IsMatched
    <3> QED BY <3>1, <3>2
  <2>2. CASE q # r
    <3>1. Asked(q)'
      BY <1>1, <2>2 DEF MatchingInv, Asked
    <3>2. Promised(q)'
      BY <1>0, <1>1, <2>2 DEF MatchingInv, Promised, Calm, IsMatched
    <3> QED BY <3>1, <3>2
  <2> QED BY <2>1, <2>2
<1>4. ASSUME ~outlived' PROVE Exact(db') /\ \A q \in Runs : Claimed(q)'
  <2>1. Exact(db')
    BY <1>0, <1>4, CalmIsExact DEF MatchingInv
  <2>2. ASSUME NEW q \in Runs PROVE Claimed(q)'
    <3>1. CASE q = r
      BY <1>1, <1>a, <1>4, <3>1 DEF Claimed
    <3>2. CASE q # r
      <4>1. Claimed(q) /\ Asked(q) /\ igdb[q].targets \in Seq(Copies \X Ids)
        BY <1>0, <1>4 DEF MatchingInv, Run
      <4>2. ASSUME NEW i \in 1..Len(igdb[q].targets)
            PROVE  LET p == igdb[q].targets[i] IN db'.link[p[1]] = p[2] /\ db'.anchor[p[2]] = None
        <5>1. igdb[q].targets[i][1] \in Copies /\ igdb[q].targets[i][2] \in Ids
          BY <4>1
        <5>2. igdb[q].targets[i][2] # 0
          BY <5>1, IdsAre
        <5> QED BY <1>0, <4>1, <5>1, <5>2 DEF Claimed, Asked, Calm
      <4> QED BY <1>1, <1>a, <1>4, <3>2, <4>1, <4>2 DEF Claimed
    <3> QED BY <3>1, <3>2
  <2> QED BY <2>1, <2>2
<1> QED BY <1>0, <1>2, <1>3, <1>4 DEF MatchingInv

(* What Ended, Release and Onward come to.                                 *)
LEMMA OnwardIs ==
  ASSUME MatchingInv, NEW r \in Runs, igdb[r].step # "idle", (Ended(r) /\ Release(r)) \/ Onward(r)
  PROVE  \E x : SetsOn(r, x)
<1>0. /\ igdb[r] \in Run /\ holder \in Runs \cup {None} /\ None \notin Runs
      /\ ~outlived => \A q \in Runs : igdb[q].step # "idle" => holder = q
  BY RunsAssumption DEF MatchingInv, MatchingShape, Claimed
<1>1. CASE Ended(r) /\ Release(r)
  <2>1. igdb' = [igdb EXCEPT ![r] = Rest] /\ holder' \in Runs \cup {None}
    BY <1>0, <1>1 DEF Ended, Release
  <2>2. Rest \in Run /\ Rest.step = "idle" /\ Rest.targets = <<>> /\ Rest.wanted = <<>>
    BY RestIs
  <2>3. ~outlived => \A q \in Runs : q # r /\ igdb[q].step # "idle" => holder' = q
    BY <1>0, <1>1 DEF Release
  <2>4. DOMAIN Rest.wanted = {}
    BY <2>2
  <2>5. SetsOn(r, Rest)
    BY <2>1, <2>2, <2>3, <2>4 DEF SetsOn
  <2> QED BY <2>5
<1>2. CASE igdb[r].at < Len(Chain) /\ UNCHANGED holder
           /\ igdb' = [igdb EXCEPT ![r] = [Rest EXCEPT !.step = "read", !.at = igdb[r].at + 1]]
  <2>1. igdb[r].at + 1 \in 1..3
    BY <1>0, <1>2 DEF Run, Chain
  <2> DEFINE x == [Rest EXCEPT !.step = "read", !.at = igdb[r].at + 1]
  <2>2. x \in Run /\ x.step = "read" /\ x.targets = <<>> /\ x.wanted = <<>>
    BY <2>1, RestIs
  <2>3. igdb' = [igdb EXCEPT ![r] = x]
    BY <1>2
  <2> HIDE DEF x
  <2>4. DOMAIN x.wanted = {}
    BY <2>2
  <2>5. SetsOn(r, x)
    BY <1>0, <1>2, <2>2, <2>3, <2>4 DEF SetsOn
  <2> QED BY <2>5
<1> QED BY <1>1, <1>2 DEF Onward

-----------------------------------------------------------------------------
(* The steps.                                                              *)
Stays ==
  \A w \in db.works :
    IsMatched(db, w) =>
      /\ w \in db'.works /\ IsMatched(db', w)
      /\ outlived' \/ db'.anchor[w] = db.anchor[w]
      /\ On(db, w) \cap Held(db') \subseteq On(db', w)

LEMMA CalmStays ==
  ASSUME MatchingInv, Calm(db, db')
  PROVE  Stays
<1>1. 0 \notin db.works
  BY ADatabase, IdsAre DEF MatchingInv, Sound
<1> QED BY <1>1 DEF Stays, Calm, IsMatched, On, Held

LEMMA BoundsAre ==
  ASSUME MatchingInv
  PROVE  /\ db \in Database /\ Sound(db) /\ Summed(db) /\ Calm(db, db) /\ store \in Reading
         /\ holder \in Runs \cup {None} /\ igdb \in [Runs -> Run] /\ outlived \in BOOLEAN
         /\ edits \in 0..MaxEdits /\ lost \in 0..MaxLost
         /\ edits < MaxEdits => edits + 1 \in 0..MaxEdits
         /\ lost < MaxLost => lost + 1 \in 0..MaxLost
<1>1. db \in Database /\ Sound(db) /\ Summed(db)
  BY DEF MatchingInv, Sound
<1>2. Calm(db, db)
  BY <1>1, CalmIsReflexive
<1>3. MaxEdits \in Nat /\ MaxLost \in Nat
  BY MaxAssumption
<1> QED BY <1>1, <1>2, <1>3 DEF MatchingInv, MatchingShape

LEMMA LandSteps ==
  ASSUME MatchingInv, NEW lib \in Libraries, NEW listed \in Listings \cap SUBSET Of(lib), Land(lib, listed)
  PROVE  MatchingInv' /\ Stays
<1>1. Sound(db') /\ Summed(db') /\ Calm(db, db')
  <2>1. lib # "manual" /\ listed \in SUBSET {c \in Copies : Lib[c] = lib}
    BY DEF Libraries, Of
  <2>2. db' = Landed(db, lib, listed) /\ db'.works \subseteq Ids
    BY DEF Land
  <2> QED BY <2>1, <2>2, BoundsAre, LandedStands
<1>2. db' \in Database
  BY <1>1 DEF Sound
<1>3. MatchingInv'
  BY <1>1, <1>2, BoundsAre, CalmStep DEF Land, Quiet
<1> QED BY <1>1, <1>3, CalmStays

LEMMA CopySteps ==
  ASSUME MatchingInv, NEW c \in Copies, Restore(c) \/ LetGo(c) \/ Enter(c) \/ TakeBack(c)
  PROVE  MatchingInv' /\ Stays
<1>1. Sound(db') /\ Summed(db') /\ Calm(db, db')
  <2>1. CASE Restore(c)
    <3>1. c \in Held(db)
          /\ db' = Aggregated([db EXCEPT !.live = @ \cup {c}, !.kept = @ \cup {c}], {db.link[c]})
      BY <2>1 DEF Restore
    <3> QED BY <3>1, BoundsAre, RestoredStands
  <2>2. CASE LetGo(c)
    <3>1. db' = [db EXCEPT !.kept = @ \ {c}]
      BY <2>2 DEF LetGo
    <3> QED BY <3>1, BoundsAre, LetGoStands
  <2>3. CASE Enter(c)
    <3>1. c \notin Held(db) /\ Lib[c] = "manual" /\ db' = Stubbed(db, {c}) /\ db'.works \subseteq Ids
      BY <2>3 DEF Enter
    <3> QED BY <3>1, BoundsAre, EnteredStands
  <2>4. CASE TakeBack(c)
    <3> DEFINE gone == [db EXCEPT !.link[c] = 0, !.edition[c] = 0, !.live = @ \ {c}]
               missed == \/ IsMatched(gone, db.link[c]) \/ On(gone, db.link[c]) # {}
                         \/ Children(gone, db.link[c]) # {}
    <3>1. c \in Held(db) /\ Lib[c] = "manual"
          /\ db' = IF missed THEN gone ELSE Deleted(gone, {db.link[c]})
      BY <2>4 DEF TakeBack
    <3>2. missed \in BOOLEAN
          /\ missed <=> (IsMatched(gone, db.link[c]) \/ On(gone, db.link[c]) # {} \/ Children(gone, db.link[c]) # {})
      OBVIOUS
    <3>3. gone = [db EXCEPT !.link[c] = 0, !.edition[c] = 0, !.live = @ \ {c}]
      OBVIOUS
    <3> HIDE DEF gone, missed
    <3>4. PICK isMissed \in BOOLEAN : isMissed <=> missed
      BY <3>2
    <3>5. db' = IF isMissed THEN gone ELSE Deleted(gone, {db.link[c]})
      BY <3>1, <3>4
    <3> QED BY <3>1, <3>2, <3>3, <3>4, <3>5, BoundsAre, TakenBackStands
  <2> QED BY <2>1, <2>2, <2>3, <2>4
<1>2. db' \in Database
  BY <1>1 DEF Sound
<1>3. edits' \in 0..MaxEdits /\ UNCHANGED <<igdb, holder, outlived, store, lost>>
  BY BoundsAre DEF Restore, LetGo, Enter, TakeBack
<1>4. MatchingInv'
  BY <1>1, <1>2, <1>3, BoundsAre, CalmStep DEF Quiet
<1> QED BY <1>1, <1>4, CalmStays

LEMMA StoreSteps ==
  ASSUME MatchingInv, StoreRead \/ \E known \in Filings : StoreRecord(known)
  PROVE  MatchingInv' /\ Stays
<1>1. CASE StoreRead
  <2> DEFINE C == {x \in Held(db) : Lib[x] = "steam"}
             T == [c \in C |-> db.link[c]]
  <2>1. T \in [C -> Ids] /\ C \in SUBSET Copies
    BY BoundsAre, ADatabase, IdsAre DEF Held
  <2>2. store' \in Reading
    <3>1. store' = [step |-> "fetched", targets |-> T]
      BY <1>1 DEF StoreRead
    <3> HIDE DEF T, C
    <3> QED BY <2>1, <3>1 DEF Reading
  <2>3. UNCHANGED <<db, igdb, holder, outlived, edits, lost>>
    BY <1>1 DEF StoreRead
  <2>4. Calm(db, db')
    BY <2>3, BoundsAre
  <2>5. MatchingInv'
    BY <2>2, <2>3, <2>4, BoundsAre, CalmStep DEF Quiet
  <2> QED BY <2>4, <2>5, CalmStays
<1>2. ASSUME NEW known \in Filings, StoreRecord(known)
      PROVE  MatchingInv' /\ Stays
  <2> DEFINE T == store.targets
             told == known \cap DOMAIN T
             spoken == [db EXCEPT !.spoke = Heard(@, told, T, [c \in told |-> c])]
  <2>1. told \in SUBSET Copies
    <3>1. store.step = "fetched"
      BY <1>2 DEF StoreRecord
    <3>2. store \in [step : {"fetched"}, targets : UNION {[C -> Ids] : C \in SUBSET Copies}]
      BY <3>1, BoundsAre DEF Reading, Unread
    <3>3. PICK C \in SUBSET Copies : T \in [C -> Ids]
      BY <3>2
    <3> QED BY <3>3
  <2>2. /\ db' = IF {T[c] : c \in told} \subseteq db.works THEN spoken ELSE db
        /\ store' = Unread /\ UNCHANGED <<igdb, holder, outlived, edits, lost>>
    BY <1>2 DEF StoreRecord
  <2>3. Sound(db') /\ Summed(db') /\ Calm(db, db')
    <3>1. CASE {T[c] : c \in told} \subseteq db.works
      <4>1. \A c \in told : T[c] \in db.works
        BY <3>1
      <4>2. db' = [db EXCEPT !.spoke = Heard(@, told, T, [c \in told |-> c])]
        BY <2>2, <3>1
      <4> HIDE DEF told, T
      <4> QED BY <2>1, <4>1, <4>2, BoundsAre, ToldStands
    <3>2. CASE ~({T[c] : c \in told} \subseteq db.works)
      BY <2>2, <3>2, BoundsAre
    <3> QED BY <3>1, <3>2
  <2>4. db' \in Database /\ store' \in Reading
    BY <2>2, <2>3 DEF Sound, Reading
  <2>5. MatchingInv'
    BY <2>2, <2>3, <2>4, BoundsAre, CalmStep DEF Quiet
  <2> QED BY <2>3, <2>5, CalmStays
<1> QED BY <1>1, <1>2

LEMMA BeginSteps ==
  ASSUME MatchingInv, NEW r \in Runs, Begin(r)
  PROVE  MatchingInv' /\ Stays
<1> DEFINE x == [Rest EXCEPT !.step = "read"]
<1>1. x \in Run /\ x.step = "read" /\ x.targets = <<>> /\ x.wanted = <<>>
  BY RestIs
<1>2. igdb' = [igdb EXCEPT ![r] = x] /\ holder' = r /\ holder = None /\ UNCHANGED <<db, store, outlived, edits, lost>>
  BY DEF Begin
<1> HIDE DEF x
<1>3. ~outlived => \A q \in Runs : q # r /\ igdb[q].step # "idle" => holder' = q
  BY <1>2, RunsAssumption DEF MatchingInv, Claimed
<1>4. Calm(db, db') /\ db' \in Database /\ Sound(db') /\ Summed(db')
  BY <1>2, BoundsAre
<1>5. SetsOn(r, x)
  <2>1. DOMAIN x.wanted = {}
    BY <1>1
  <2> QED BY <1>1, <1>2, <1>3, <2>1 DEF SetsOn
<1>6. MatchingInv'
  BY <1>2, <1>4, <1>5, BoundsAre, RunStep DEF Quiet
<1> QED BY <1>4, <1>6, CalmStays

(* A step that ends the run or sets it onward.                             *)
LEMMA OnwardSteps ==
  ASSUME MatchingInv, Quiet, NEW r \in Runs, igdb[r].step # "idle", (Ended(r) /\ Release(r)) \/ Onward(r),
         UNCHANGED <<store, outlived, edits>>, lost' \in 0..MaxLost
  PROVE  MatchingInv'
<1>1. PICK x : SetsOn(r, x)
  BY OnwardIs
<1> QED BY <1>1, RunStep

(* A step within the run.                                                  *)
LEMMA WithinSteps ==
  ASSUME MatchingInv, Quiet, NEW r \in Runs, igdb[r].step \notin {"idle", "fetched"},
         NEW x \in Run, igdb' = [igdb EXCEPT ![r] = x], x.step # "fetched", x.targets = igdb[r].targets,
         \A w \in DOMAIN x.wanted : w \in db.works /\ IsMatched(db, w) /\ x.wanted[w] \in Games,
         UNCHANGED <<holder, store, outlived, edits, lost>>
  PROVE  MatchingInv'
<1>1. x.targets = <<>>
  BY DEF MatchingInv, MatchingShape
<1>2. ~outlived => (x.step # "idle" => holder' = r)
                     /\ \A q \in Runs : q # r /\ igdb[q].step # "idle" => holder' = q
  BY DEF MatchingInv, Claimed
<1>3. SetsOn(r, x)
  BY <1>1, <1>2, BoundsAre DEF SetsOn
<1> QED BY <1>3, BoundsAre, RunStep

LEMMA CollectSteps ==
  ASSUME MatchingInv, NEW r \in Runs, Collect(r)
  PROVE  MatchingInv' /\ Stays
<1>1. Sound(db') /\ Summed(db') /\ Calm(db, db')
  <2>1. PICK missed \in SUBSET Orphans(db) : db' = Deleted(db, Orphans(db) \ missed)
    BY DEF Collect
  <2>2. Orphans(db) \ missed \in SUBSET Orphans(db)
    OBVIOUS
  <2> QED BY <2>1, <2>2, BoundsAre, NoOrphans
<1>2. igdb[r].step = "anchored" /\ UNCHANGED <<store, outlived, edits, lost>>
  BY DEF Collect
<1>3. CASE Onward(r)
  BY <1>1, <1>2, <1>3, BoundsAre, OnwardSteps, CalmStays DEF Quiet
<1>4. CASE igdb' = [igdb EXCEPT ![r].step = "collected"] /\ UNCHANGED holder
  <2> DEFINE x == [igdb[r] EXCEPT !.step = "collected"]
  <2>1. igdb[r] \in Run
    BY BoundsAre
  <2>2. x \in Run /\ x.step = "collected" /\ x.targets = igdb[r].targets /\ x.wanted = igdb[r].wanted
    BY <2>1 DEF Run
  <2>3. igdb' = [igdb EXCEPT ![r] = x]
    BY <1>4
  <2> HIDE DEF x
  <2>4. \A w \in DOMAIN x.wanted : w \in db.works /\ IsMatched(db, w) /\ x.wanted[w] \in Games
    BY <2>2 DEF MatchingInv, Promised
  <2>5. MatchingInv'
    BY <1>1, <1>2, <1>4, <2>2, <2>3, <2>4, WithinSteps DEF Quiet
  <2> QED BY <1>1, <2>5, CalmStays
<1> QED BY <1>3, <1>4 DEF Collect

LEMMA WantSteps ==
  ASSUME MatchingInv, NEW r \in Runs, Want(r)
  PROVE  MatchingInv' /\ Stays
<1>1. UNCHANGED <<db, store, outlived, edits, lost>> /\ igdb[r].step \in {"anchored", "collected"}
  BY DEF Want
<1>2. Sound(db') /\ Summed(db') /\ Calm(db, db')
  BY <1>1, BoundsAre
<1>3. CASE Onward(r)
  BY <1>1, <1>2, <1>3, BoundsAre, OnwardSteps, CalmStays DEF Quiet
<1>4. ASSUME NEW f \in WantedGames(db), UNCHANGED holder,
             igdb' = [igdb EXCEPT ![r].step = "wanted", ![r].wanted = f]
      PROVE  MatchingInv' /\ Stays
  <2> DEFINE x == [igdb[r] EXCEPT !.step = "wanted", !.wanted = f]
  <2>1. igdb[r] \in Run /\ f \in [Wanted(db) -> Games]
    BY BoundsAre DEF WantedGames
  <2>2. Wanted(db) \in SUBSET Ids
    BY BoundsAre, ADatabase DEF Wanted, ExternalIds
  <2>3. f \in UNION {[W -> Games] : W \in SUBSET Ids}
    BY <2>1, <2>2
  <2>4. x \in Run /\ x.step = "wanted" /\ x.targets = igdb[r].targets /\ x.wanted = f
    BY <2>1, <2>3 DEF Run
  <2>5. igdb' = [igdb EXCEPT ![r] = x]
    BY <1>4, <2>1, BoundsAre DEF Run
  <2>6. ASSUME NEW w \in DOMAIN f PROVE w \in db.works /\ IsMatched(db, w) /\ f[w] \in Games
    <3>1. w \in Wanted(db) /\ f[w] \in Games
      BY <2>1
    <3>2. External("igdb", f[w], w) \in db.external
      BY <3>1 DEF WantedGames
    <3>3. External("igdb", f[w], w).namespace = "igdb" /\ External("igdb", f[w], w).work = w
      BY DEF External
    <3> QED BY <3>1, <3>2, <3>3 DEF MatchingInv, Sound, Register
  <2> HIDE DEF x
  <2>7. MatchingInv'
    BY <1>1, <1>2, <1>4, <2>4, <2>5, <2>6, WithinSteps DEF Quiet
  <2> QED BY <1>2, <2>7, CalmStays
<1> QED BY <1>3, <1>4 DEF Want

LEMMA RecordSteps ==
  ASSUME MatchingInv, NEW r \in Runs, RecordAppids(r)
  PROVE  MatchingInv' /\ Stays
<1>1. PICK own \in Owners(db, igdb[r].wanted) : db' = Recorded(db, own)
  BY DEF RecordAppids
<1>2. \A w \in DOMAIN igdb[r].wanted : w \in db.works /\ igdb[r].wanted[w] \in Games
  BY DEF MatchingInv, Promised
<1>3. Sound(db') /\ Summed(db') /\ Calm(db, db')
  BY <1>1, <1>2, BoundsAre, RecordedStands
<1>4. MatchingInv'
  BY <1>3, BoundsAre, OnwardSteps DEF RecordAppids, Quiet
<1> QED BY <1>3, <1>4, CalmStays

LEMMA FailSteps ==
  ASSUME MatchingInv, NEW r \in Runs, Fail(r)
  PROVE  MatchingInv' /\ Stays
<1>1. igdb[r].step # "idle" /\ Ended(r) /\ Release(r) /\ lost' \in 0..MaxLost
      /\ UNCHANGED <<db, store, outlived, edits>>
  BY BoundsAre DEF Fail
<1>2. Sound(db') /\ Summed(db') /\ Calm(db, db')
  BY <1>1, BoundsAre
<1>3. MatchingInv'
  BY <1>1, <1>2, OnwardSteps DEF Quiet
<1> QED BY <1>2, <1>3, CalmStays

LEMMA OutliveSteps ==
  ASSUME MatchingInv, NEW r \in Runs, Outlive(r)
  PROVE  MatchingInv' /\ Stays
<1>1. /\ holder' = None /\ outlived' = TRUE /\ lost' \in 0..MaxLost
      /\ UNCHANGED <<db, igdb, store, edits>>
  BY BoundsAre DEF Outlive
<1>2. Calm(db, db')
  BY <1>1, BoundsAre
<1>3. MatchingShape'
  BY <1>1 DEF MatchingInv, MatchingShape
<1>4. \A q \in Runs : Asked(q)' /\ Promised(q)'
  BY <1>1 DEF MatchingInv, Asked, Promised
<1>5. MatchingInv'
  BY <1>1, <1>3, <1>4, BoundsAre DEF MatchingInv
<1> QED BY <1>2, <1>5, CalmStays

LEMMA ReadSteps ==
  ASSUME MatchingInv, NEW r \in Runs, NEW known \in Filings, Read(r, known)
  PROVE  MatchingInv' /\ Stays
<1> DEFINE lib == LibAt(r)
           C == Unmatched(db, lib)
           x(T, found) == [igdb[r] EXCEPT !.step = "fetched", !.targets = T, !.found = found]
<1>0. igdb[r] \in Run /\ igdb[r].step = "read" /\ UNCHANGED <<db, holder, store, outlived, edits, lost>>
  BY BoundsAre DEF Read
<1>1. Calm(db, db')
  BY <1>0, BoundsAre
<1>2. lib # "manual"
  BY <1>0 DEF LibAt, Chain, Run
<1>3. PICK T \in Targets(db, lib) :
        igdb' = [igdb EXCEPT ![r].step = "fetched", ![r].targets = T,
                             ![r].found = Answers(lib, {T[i][1] : i \in DOMAIN T}, known)]
  BY DEF Read
<1> DEFINE D == {T[i][1] : i \in DOMAIN T}
           found == Answers(lib, D, known)
<1>4. /\ C \subseteq Copies
      /\ \A c \in C : Lib[c] = lib /\ db.link[c] \in Ids /\ db.anchor[db.link[c]] = None
  BY BoundsAre, ADatabase, IdsAre DEF Unmatched, Held, IsMatched
<1>5. Cardinality(C) \in Nat
  BY <1>4, CopiesAre, FS_Subset, FS_CardinalityType
<1>6. T \in [1..Cardinality(C) -> {<<c, db.link[c]>> : c \in C}]
  BY DEF Targets
<1> HIDE DEF C
<1>7. /\ T \in Seq(Copies \X Ids) /\ DOMAIN T = 1..Len(T)
      /\ \A i \in 1..Len(T) : T[i][1] \in C /\ T[i][2] = db.link[T[i][1]]
  <2>1. {<<c, db.link[c]>> : c \in C} \subseteq Copies \X Ids
    BY <1>4
  <2>2. T \in [1..Cardinality(C) -> Copies \X Ids]
    BY <1>6, <2>1
  <2>3. \A i \in 1..Cardinality(C) : T[i][1] \in C /\ T[i][2] = db.link[T[i][1]]
    BY <1>6
  <2>4. T \in Seq(Copies \X Ids) /\ Len(T) = Cardinality(C)
    BY <1>5, <2>2
  <2> QED BY <1>6, <2>3, <2>4
<1>8. D \subseteq Copies /\ \A i \in 1..Len(T) : T[i][1] \in D
  BY <1>4, <1>7
<1> HIDE DEF D
<1>9. /\ found \in UNION {[B -> Games \cup {None}] : B \in SUBSET Copies} /\ DOMAIN found = D
      /\ \A c \in D : found[c] \in {None, Game[c]}
  <2>1. \A c \in Copies : Titled(c, D) => Game[c] = BaseGame[Namespace[c]]
    BY CopyAssumption DEF Titled
  <2>2. found = [c \in D |-> IF AskedAs(c) \notin known THEN None
                             ELSE IF lib # "epic" THEN Game[c]
                             ELSE IF Titled(c, D) THEN BaseGame[Namespace[c]] ELSE None]
    BY DEF Answers
  <2> HIDE DEF found, lib
  <2>3. \A c \in D : found[c] \in {None, Game[c]}
    BY <1>8, <2>1, <2>2
  <2>4. \A c \in D : Game[c] \in Games \cup {None}
    BY <1>8 DEF Games
  <2>5. found \in [D -> Games \cup {None}]
    BY <2>2, <2>3, <2>4
  <2>6. DOMAIN found = D
    BY <2>2
  <2> QED BY <1>8, <2>3, <2>5, <2>6
<1> HIDE DEF found
<1> DEFINE next == x(T, found)
<1>10. igdb' = [igdb EXCEPT ![r] = next]
  BY <1>0, <1>3, BoundsAre DEF Run, found, D
<1>11. next \in Run /\ next.step = "fetched" /\ next.targets = T /\ next.found = found
       /\ next.wanted = igdb[r].wanted
  <2>1. next = [igdb[r] EXCEPT !.step = "fetched", !.targets = T, !.found = found]
    OBVIOUS
  <2> HIDE DEF next
  <2> QED BY <1>0, <1>7, <1>9, <2>1 DEF Run
<1> HIDE DEF next
<1>12. igdb'[r] = next /\ \A q \in Runs : q # r => igdb'[q] = igdb[q]
  BY <1>10, BoundsAre
<1>13. MatchingShape'
  <2>1. igdb' \in [Runs -> Run]
    BY <1>10, <1>11, BoundsAre
  <2> QED BY <1>0, <1>11, <1>12, <2>1 DEF MatchingInv, MatchingShape
<1>14. ASSUME NEW q \in Runs PROVE Asked(q)' /\ Promised(q)'
  <2>1. CASE q = r
    <3>1. Asked(q)'
      BY <1>2, <1>4, <1>7, <1>8, <1>9, <1>11, <1>12, <2>1 DEF Asked
    <3>2. Promised(q)'
      BY <1>0, <1>11, <1>12, <2>1 DEF MatchingInv, Promised
    <3> QED BY <3>1, <3>2
  <2>2. CASE q # r
    BY <1>0, <1>12, <2>2 DEF MatchingInv, Asked, Promised
  <2> QED BY <2>1, <2>2
<1>15. ASSUME ~outlived', NEW q \in Runs PROVE Claimed(q)'
  <2>1. CASE q = r
    <3>1. holder = r
      BY <1>0, <1>15 DEF MatchingInv, Claimed
    <3> QED BY <1>0, <1>4, <1>7, <1>11, <1>12, <2>1, <3>1 DEF Claimed
  <2>2. CASE q # r
    BY <1>0, <1>12, <1>15, <2>2 DEF MatchingInv, Claimed
  <2> QED BY <2>1, <2>2
<1>16. MatchingInv'
  BY <1>0, <1>13, <1>14, <1>15 DEF MatchingInv
<1> QED BY <1>1, <1>16, CalmStays

LEMMA AnchorSteps ==
  ASSUME MatchingInv, NEW r \in Runs, Anchor(r)
  PROVE  MatchingInv' /\ Stays
<1>0. igdb[r].step = "fetched" /\ UNCHANGED <<store, outlived, edits, lost>> /\ igdb[r] \in Run
  BY BoundsAre DEF Anchor
<1>1. PICK newer \in BOOLEAN :
        IF Anchored(r, newer).failed
        THEN Ended(r) /\ Release(r) /\ UNCHANGED db
        ELSE /\ db' = Anchored(r, newer).db
             /\ igdb' = [igdb EXCEPT ![r] = [Rest EXCEPT !.step = "anchored", !.at = igdb[r].at]]
             /\ UNCHANGED holder
  BY DEF Anchor
<1> DEFINE a == Anchored(r, newer)
           T == igdb[r].targets
           x == [Rest EXCEPT !.step = "anchored", !.at = igdb[r].at]
<1>2. CASE Ended(r) /\ Release(r) /\ UNCHANGED db
  <2>1. Quiet
    BY <1>2, BoundsAre DEF Quiet
  <2>2. MatchingInv'
    BY <1>0, <1>2, <2>1, BoundsAre, OnwardSteps
  <2> QED BY <2>1, <2>2, CalmStays DEF Quiet
<1>3. CASE db' = a.db /\ igdb' = [igdb EXCEPT ![r] = x] /\ UNCHANGED holder
  <2>1. InTransaction(db, a) /\ (Exact(db) /\ Claimed(r) => OnTrack(db, a, T))
    <3>1. igdb[r].targets \in Seq(Copies \X Ids) /\ Asked(r)
      BY <1>0 DEF Run, MatchingInv
    <3> QED BY <3>1, BoundsAre, AnchoredStands
  <2> HIDE DEF a
  <2>2. Sound(db') /\ Summed(db') /\ Grows(db, db')
    BY <1>3, <2>1 DEF InTransaction
  <2>3. ~outlived => Exact(db') /\ SameGames(db, db')
    BY <1>3, <2>1 DEF OnTrack, MatchingInv
  <2>4. x \in Run /\ x.step = "anchored" /\ x.targets = <<>> /\ x.wanted = <<>>
    <3>1. igdb[r].at \in 1..3
      BY <1>0 DEF Run
    <3> QED BY <3>1, RestIs
  <2>5. igdb' = [igdb EXCEPT ![r] = x]
    BY <1>3
  <2> HIDE DEF x
  <2>6. igdb'[r] = x /\ \A q \in Runs : q # r => igdb'[q] = igdb[q]
    BY <2>5, BoundsAre
  <2>7. MatchingShape'
    <3>1. igdb' \in [Runs -> Run]
      BY <2>4, <2>5, BoundsAre
    <3> QED BY <1>0, <1>3, <2>4, <2>6, <3>1 DEF MatchingInv, MatchingShape
  <2>8. ASSUME NEW q \in Runs PROVE Asked(q)' /\ Promised(q)'
    <3>1. CASE q = r
      <4>1. Len(x.targets) = 0 /\ DOMAIN x.wanted = {}
        BY <2>4
      <4> QED BY <2>6, <3>1, <4>1 DEF Asked, Promised
    <3>2. CASE q # r
      <4>1. Asked(q)'
        BY <2>6, <3>2 DEF MatchingInv, Asked
      <4>2. Promised(q)'
        BY <2>2, <2>6, <3>2 DEF MatchingInv, Promised, Grows
      <4> QED BY <4>1, <4>2
    <3> QED BY <3>1, <3>2
  <2>9. ASSUME ~outlived', NEW q \in Runs PROVE Claimed(q)'
    <3>1. holder = r
      BY <1>0, <2>9 DEF MatchingInv, Claimed
    <3>2. CASE q = r
      <4>1. Len(x.targets) = 0
        BY <2>4
      <4> QED BY <1>3, <2>6, <3>1, <3>2, <4>1 DEF Claimed
    <3>3. CASE q # r
      <4>1. igdb[q].step = "idle"
        BY <1>0, <2>9, <3>1, <3>3 DEF MatchingInv, Claimed
      <4>2. Len(igdb[q].targets) = 0
        BY <4>1 DEF MatchingInv, MatchingShape
      <4> QED BY <2>6, <3>3, <4>1, <4>2 DEF Claimed
    <3> QED BY <3>2, <3>3
  <2>10. MatchingInv'
    BY <1>0, <2>2, <2>3, <2>7, <2>8, <2>9 DEF MatchingInv
  <2>11. Stays
    BY <1>0, <2>2, <2>3 DEF Stays, Grows, SameGames, On
  <2> QED BY <2>10, <2>11
<1> QED BY <1>1, <1>2, <1>3

LEMMA StartsMatchingInv == MatchingInit => MatchingInv
<1> SUFFICES ASSUME MatchingInit PROVE MatchingInv
  OBVIOUS
<1>1. db = Empty /\ igdb = [r \in Runs |-> Rest] /\ holder = None /\ store = Unread
      /\ outlived = FALSE /\ edits = 0 /\ lost = 0
  BY DEF MatchingInit
<1>2. /\ db.works = {} /\ db.live = {} /\ db.vouched = {} /\ db.external = {}
      /\ \A c \in Copies : db.link[c] = 0 /\ db.edition[c] = 0
      /\ \A w \in Ids : /\ db.total[w] = {} /\ db.anchor[w] = None /\ db.parent[w] = 0
                        /\ db.claim[w] = 0 /\ db.spoke[w] = None
  BY <1>1 DEF Empty
<1>3. db \in Database
  <2>1. 0 \in 0..MaxId
    BY MaxAssumption
  <2> QED BY <1>1, <2>1 DEF Empty, Database
<1>4. Links(db) /\ Family(db) /\ Register(db) /\ Tidy(db) /\ Stubs(db)
  <2>1. Links(db)
    BY <1>2 DEF Links
  <2>2. Family(db)
    BY <1>2, IdsAre DEF Family
  <2>3. Register(db) /\ Tidy(db) /\ Stubs(db)
    BY <1>2 DEF Register, Tidy, Stubs, IsMatched
  <2> QED BY <2>1, <2>2, <2>3
<1>5. Sound(db) /\ Summed(db)
  BY <1>2, <1>3, <1>4 DEF Sound, Summed
<1>6. MatchingShape
  <2>1. 0 \in 0..MaxEdits /\ 0 \in 0..MaxLost
    BY MaxAssumption
  <2> QED BY <1>1, <2>1, RestIs DEF MatchingShape, Reading
<1>7. ASSUME NEW r \in Runs PROVE Asked(r) /\ Promised(r) /\ Claimed(r)
  <2>1. igdb[r].step = "idle" /\ Len(igdb[r].targets) = 0 /\ DOMAIN igdb[r].wanted = {}
    BY <1>1, RestIs
  <2> QED BY <2>1 DEF Asked, Promised, Claimed
<1>8. Exact(db)
  BY <1>2 DEF Exact, IsMatched
<1> QED BY <1>5, <1>6, <1>7, <1>8 DEF MatchingInv

LEMMA KeepsMatchingInv == MatchingInv /\ [MatchingNext]_matchingVars => MatchingInv' /\ (MatchingNext => Stays)
<1> SUFFICES ASSUME MatchingInv, [MatchingNext]_matchingVars PROVE MatchingInv' /\ (MatchingNext => Stays)
  OBVIOUS
<1>1. ASSUME UNCHANGED matchingVars PROVE MatchingInv' /\ Stays
  <2>1. /\ UNCHANGED <<igdb, holder, outlived, store, edits, lost>> /\ db' = db
    BY <1>1 DEF matchingVars
  <2>2. Quiet
    BY <2>1, BoundsAre DEF Quiet
  <2>3. MatchingInv'
    BY <2>1, <2>2, BoundsAre, CalmStep
  <2> QED BY <2>2, <2>3, CalmStays DEF Quiet
<1>2. ASSUME NEW lib \in Libraries, NEW listed \in Listings \cap SUBSET Of(lib), Land(lib, listed)
      PROVE  MatchingInv' /\ Stays
  BY <1>2, LandSteps
<1>3. ASSUME NEW c \in Copies, Restore(c) \/ LetGo(c) \/ Enter(c) \/ TakeBack(c)
      PROVE  MatchingInv' /\ Stays
  BY <1>3, CopySteps
<1>4. ASSUME NEW r \in Runs, Begin(r) \/ Anchor(r) \/ Collect(r) \/ Want(r) \/ RecordAppids(r)
                             \/ Fail(r) \/ Outlive(r) \/ \E known \in Filings : Read(r, known)
      PROVE  MatchingInv' /\ Stays
  BY <1>4, BeginSteps, AnchorSteps, CollectSteps, WantSteps, RecordSteps, FailSteps, OutliveSteps, ReadSteps
<1>5. ASSUME StoreRead \/ \E known \in Filings : StoreRecord(known)
      PROVE  MatchingInv' /\ Stays
  BY <1>5, StoreSteps
<1> QED BY <1>1, <1>2, <1>3, <1>4, <1>5 DEF MatchingNext

LEMMA AlwaysMatchingInv == MatchingSpec => []MatchingInv
BY StartsMatchingInv, KeepsMatchingInv, PTL DEF MatchingSpec

-----------------------------------------------------------------------------
(* The types of the state.                                                 *)
THEOREM MatchingIsTyped == MatchingSpec => []MatchingTypeOK
<1>1. ASSUME MatchingInv PROVE MatchingTypeOK
  <2>1. ASSUME NEW r \in Runs
        PROVE  /\ igdb[r].step \in {"idle", "read", "fetched", "anchored", "collected", "wanted"}
               /\ igdb[r].targets \in Seq(Copies \X Ids)
    BY <1>1, BoundsAre DEF Run
  <2>2. store.step \in {"idle", "fetched"}
    BY <1>1, BoundsAre DEF Reading, Unread
  <2> QED BY <1>1, <2>1, <2>2, BoundsAre DEF MatchingTypeOK
<1> QED BY <1>1, AlwaysMatchingInv, PTL

(* However landings, manual entries and runs interleave, also runs that    *)
(* outlived their claim: no two works have one game or one store id, and a *)
(* work with an igdb row is matched.                                       *)
THEOREM GamesHaveOneWork == MatchingSpec => []OneWorkPerGame
<1>1. ASSUME MatchingInv PROVE OneWorkPerGame
  <2>1. Register(db) /\ (~outlived => Exact(db))
    BY <1>1 DEF MatchingInv, Sound
  <2> QED BY <2>1 DEF Register, Exact, OneWorkPerGame
<1> QED BY <1>1, AlwaysMatchingInv, PTL

(* No merge, deletion or reused id leaves a link, an edition, a parent, a  *)
(* claim or an external id behind, or a work that no copy is on.           *)
THEOREM NothingIsLeftDangling == MatchingSpec => []NothingDangles
<1>1. ASSUME MatchingInv PROVE NothingDangles
  <2>1. /\ Links(db) /\ Family(db) /\ Register(db) /\ Tidy(db) /\ Stubs(db)
        /\ ~outlived => Exact(db)
    BY <1>1 DEF MatchingInv, Sound
  <2>2. \A c \in Held(db) : db.link[c] \in db.works /\ db.edition[c] = db.link[c]
    BY <2>1 DEF Links, Held
  <2>3. \A x \in db.external : x.work \in db.works
    BY <2>1 DEF Register
  <2>4. ASSUME NEW w \in Ids
        PROVE  /\ db.parent[w] = db.claim[w] /\ db.parent[w] \in (db.works \cup {0}) \ {w}
               /\ IF w \in db.works THEN On(db, w) # {} \/ (outlived /\ IsMatched(db, w))
                  ELSE db.parent[w] = 0 /\ db.spoke[w] = None /\ db.anchor[w] = None
    <3>1. db.parent[w] = db.claim[w] /\ db.parent[w] \in (db.works \cup {0}) \ {w}
      BY <2>1 DEF Family
    <3>2. ASSUME w \in db.works, ~IsMatched(db, w) PROVE On(db, w) # {}
      BY <2>1, <3>2 DEF Stubs
    <3>3. ASSUME w \in db.works, IsMatched(db, w), ~outlived PROVE On(db, w) # {}
      BY <2>1, <3>3 DEF Exact, On
    <3>4. w \notin db.works => db.parent[w] = 0 /\ db.spoke[w] = None /\ db.anchor[w] = None
      BY <2>1 DEF Tidy
    <3> QED BY <1>1, <3>1, <3>2, <3>3, <3>4, BoundsAre
  <2> QED BY <2>2, <2>3, <2>4 DEF NothingDangles
<1> QED BY <1>1, AlwaysMatchingInv, PTL

(* A work's playtime is at all times that of its own copies not removed.   *)
THEOREM PlaytimeIsAlwaysTheSum == MatchingSpec => []PlaytimeIsTheSum
<1>1. MatchingInv => PlaytimeIsTheSum
  BY DEF MatchingInv, Summed, PlaytimeIsTheSum
<1> QED BY <1>1, AlwaysMatchingInv, PTL

(* While claims hold, a copy is on a work of its own game or on one that   *)
(* is not anchored, and it is vouched for only where its id leads.         *)
THEOREM AnchorsAreTheCopies == MatchingSpec => []AnchorsAreRight
<1>1. ASSUME MatchingInv PROVE AnchorsAreRight
  <2>1. db.vouched \subseteq Copies /\ Links(db)
    BY <1>1, BoundsAre, ADatabase DEF Sound
  <2> QED BY <1>1, <2>1 DEF MatchingInv, Exact, Links, AnchorsAreRight, Held
<1> QED BY <1>1, AlwaysMatchingInv, PTL

(* No step takes a work that is anchored away, unmatches it or moves a     *)
(* copy off it, and none changes its game while claims hold.               *)
THEOREM AnchoredStays == MatchingSpec => AnchorsStay
<1>1. MatchingInv /\ [MatchingNext]_matchingVars => [Stays]_matchingVars
  BY KeepsMatchingInv
<1>2. Stays <=> \A w \in db.works :
                  IsMatched(db, w) =>
                    /\ w \in db'.works /\ IsMatched(db', w)
                    /\ outlived' \/ db'.anchor[w] = db.anchor[w]
                    /\ On(db, w) \cap Held(db') \subseteq On(db', w)
  BY DEF Stays
<1> QED BY <1>1, <1>2, AlwaysMatchingInv, PTL DEF AnchorsStay, MatchingSpec

=============================================================================
