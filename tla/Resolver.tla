------------------------------ MODULE Resolver ------------------------------
(***************************************************************************)
(* Provenance and the resolver (ludarium/resolver.py): every source writes *)
(* a row of field_provenance for what it says of a field of a work, and    *)
(* `resolve` decides which row the work's column shows.  Two partial       *)
(* unique indexes guard the rows, and are checked at every flush; so each  *)
(* flush of a transaction is a step.  Writing transactions are BEGIN       *)
(* IMMEDIATE: one at a time, and what is committed is `kept`.              *)
(***************************************************************************)
EXTENDS Naturals, FiniteSets

CONSTANTS
  Works,         \* ids of works
  Fields,        \* fields of a work that are resolved
  Strategy,      \* the STRATEGIES: "single_source", "precedence" or "max"
  Sources,       \* source_refs
  States,        \* the fields each source has something to say of
  Manual,        \* the one whose source_kind is manual: the user
  Ladder,        \* the rank of a source's kind, highest first
  Weight,        \* precedence_weight of a source's provider
  ManualFields,  \* WORK_FIELDS of api/manual.py: what the user's form has
  Optional,      \* those of them the form may leave empty
  Figures,       \* values a source may give, numbers so that "max" can compare
  NoValue,       \* null: a source that says nothing, a column without a value
  Own,           \* what a column holds that no source stands behind: a stub's
  MaxWrites,     \* bound: transactions that write provenance
  MaxAsserted    \* bound: fields of works asserted by one record_entities

ASSUME SourceAssumption ==
  /\ IsFiniteSet(Sources) /\ Manual \in Sources
  /\ States \in [Sources -> SUBSET Fields]
  /\ Ladder \in [Sources -> Nat] /\ Weight \in [Sources -> Nat]
  /\ \A s \in Sources \ {Manual} : Ladder[Manual] < Ladder[s]
ASSUME FieldAssumption ==
  /\ Strategy \in [Fields -> {"single_source", "precedence", "max"}]
  /\ ManualFields \subseteq Fields /\ Optional \subseteq ManualFields
ASSUME ValueAssumption ==
  Figures \subseteq Nat /\ NoValue \notin Nat /\ Own \notin Figures \cup {NoValue}
ASSUME BoundAssumption == MaxWrites \in Nat /\ MaxAsserted \in Nat

Values == Figures \cup {NoValue}

VARIABLES
  works,   \* the works there are
  rows,    \* field_provenance, as the open transaction has it
  column,  \* the columns of each work
  tx,      \* the open transaction: where it is and what it has to do
  clock,   \* utcnow(), once per record
  kept     \* works, rows and columns as last committed

vars == <<works, rows, column, tx, clock, kept>>

Row == [work : Works, field : Fields, source : Sources,
        value : Values, at : 0..MaxWrites, effective : BOOLEAN]

Idle == [step |-> "idle", by |-> "nobody", todo |-> {}, winners |-> {},
         withdraw |-> {}, fold |-> <<>>]

TypeOK ==
  /\ works \subseteq Works
  /\ rows \subseteq Row
  /\ column \in [Works -> [Fields -> Values \cup {Own}]]
  /\ tx.step \in {"idle", "recorded", "cleared", "resolved", "folded", "unmarked"}
  /\ tx.by \in {"nobody", "user", "source", "merge"}
  /\ tx.todo \subseteq Works \X Fields
  /\ tx.withdraw \subseteq Works \X ManualFields
  /\ tx.winners \subseteq rows
  /\ clock \in 0..MaxWrites
  /\ \A r \in rows : r.work \in works

-----------------------------------------------------------------------------
RowsOf(w, f) == {r \in rows : r.work = w /\ r.field = f}
Place(r) == <<r.work, r.field>>
Said(R) == {r \in R : r.source = Manual}

\* Bug: the newest first, whoever it is from.
NewestFirst(r1, r2) == r1.at > r2.at

(* `_ordered`: the ladder, then the weight, then the newest.               *)
Before(r1, r2) ==
  \/ Ladder[r1.source] < Ladder[r2.source]
  \/ /\ Ladder[r1.source] = Ladder[r2.source]
     /\ \/ Weight[r1.source] > Weight[r2.source]
        \/ Weight[r1.source] = Weight[r2.source] /\ r1.at > r2.at

(* The rows `sorted` may put first: equals keep the order they were read   *)
(* in, which is the database's.                                            *)
First(R) == {r \in R : \A r2 \in R : ~Before(r2, r)}

(* `_greatest`, the ladder on ties; none where no row has a number.        *)
Greatest(R) ==
  LET numeric == {r \in R : r.value # NoValue}
  IN First({r \in numeric : \A r2 \in numeric : r2.value <= r.value})

(* The strategy is asked about the sources; the user came before it.       *)
Candidates(f, R) ==
  IF Said(R) # {} THEN First(Said(R))
  ELSE IF Strategy[f] = "max" THEN Greatest(R) ELSE First(R)

(* `_only` raises where two sources assert a field only one may.           *)
Decidable(f, R) ==
  Strategy[f] = "single_source" /\ Said(R) = {} => Cardinality(R) <= 1

(* `_decide`: one row for every field that has candidates.                 *)
IsChoice(W) ==
  /\ \A wf \in tx.todo :
       LET R == RowsOf(wf[1], wf[2])
       IN /\ Decidable(wf[2], R)
          /\ (\E r \in W : Place(r) = wf) <=> Candidates(wf[2], R) # {}
          /\ \A r \in W : Place(r) = wf => r \in Candidates(wf[2], R)
  /\ \A r \in W : Place(r) \in tx.todo
  /\ \A r1, r2 \in W : Place(r1) = Place(r2) => r1 = r2

ValueOf(W, wf) ==
  IF \E r \in W : Place(r) = wf THEN (CHOOSE r \in W : Place(r) = wf).value ELSE NoValue

-----------------------------------------------------------------------------
(* The writes, one flush each.                                             *)

(* `_check_sole_source` would refuse the write.                            *)
Rivalled(wf, s) ==
  /\ Strategy[wf[2]] = "single_source" /\ s # Manual
  /\ \E r \in RowsOf(wf[1], wf[2]) : r.source \notin {s, Manual}

(* A source's own row is updated in place and keeps its flag.              *)
Upsert(s, said) ==
  LET own == {r \in rows : r.source = s /\ Place(r) \in DOMAIN said}
  IN (rows \ own) \cup
     {[work |-> wf[1], field |-> wf[2], source |-> s, value |-> said[wf],
       at |-> clock + 1,
       effective |-> \E r \in own : Place(r) = wf /\ r.effective] : wf \in DOMAIN said}

(* record_entities: everything a source says, of several works, at once.   *)
Record(s, said, withdraw, by) ==
  /\ tx = Idle
  /\ clock < MaxWrites
  /\ \A wf \in DOMAIN said : ~Rivalled(wf, s)
  /\ rows' = Upsert(s, said)
  /\ clock' = clock + 1
  /\ tx' = [Idle EXCEPT !.step = "recorded", !.by = by, !.todo = DOMAIN said,
                        !.withdraw = withdraw]
  /\ UNCHANGED <<works, column, kept>>

(* resolve, first flush: the columns, and the old winners cleared.         *)
\* Bug: the old winner keeps its flag until the new one has it.
KeepOldWinner(W) == rows
Cleared(W) ==
  {IF Place(r) \in tx.todo /\ r \notin W THEN [r EXCEPT !.effective = FALSE] ELSE r : r \in rows}

Clear ==
  /\ tx.step = "recorded"
  /\ \E W \in SUBSET {r \in rows : Place(r) \in tx.todo} :
       /\ IsChoice(W)
       /\ rows' = Cleared(W)
       /\ column' = [w \in Works |-> [f \in Fields |->
                       IF <<w, f>> \in tx.todo THEN ValueOf(W, <<w, f>>) ELSE column[w][f]]]
       /\ tx' = [tx EXCEPT !.step = "cleared", !.winners = W, !.todo = {}]
  /\ UNCHANGED <<works, clock, kept>>

(* Second flush, `_mark_effective`.                                        *)
Mark ==
  /\ tx.step = "cleared"
  /\ rows' = (rows \ tx.winners) \cup {[r EXCEPT !.effective = TRUE] : r \in tx.winners}
  /\ tx' = [tx EXCEPT !.step = "resolved", !.winners = {}]
  /\ UNCHANGED <<works, column, clock, kept>>

(* `_withdraw`: the user's row is deleted and the field resolved; where    *)
(* nobody else asserts it the column is null.                              *)
Withdraw ==
  /\ tx.step = "resolved"
  /\ \E wf \in tx.withdraw :
       /\ rows' = rows \ Said(RowsOf(wf[1], wf[2]))
       /\ tx' = [tx EXCEPT !.step = "recorded", !.todo = {wf}, !.withdraw = @ \ {wf}]
  /\ UNCHANGED <<works, column, clock, kept>>

Commit ==
  /\ tx.step = "resolved" /\ tx.withdraw = {}
  /\ kept' = [works |-> works, rows |-> rows, column |-> column, clock |-> clock]
  /\ tx' = Idle
  /\ UNCHANGED <<works, rows, column, clock>>

(* An exception, a cancellation, or the process: nothing of it is left.    *)
Rollback ==
  /\ tx # Idle
  /\ works' = kept.works /\ rows' = kept.rows /\ column' = kept.column
  /\ clock' = kept.clock
  /\ tx' = Idle
  /\ UNCHANGED kept

-----------------------------------------------------------------------------
(* Who writes.                                                             *)

(* A run of a provider.                                                    *)
Report(s, said) ==
  /\ s # Manual
  /\ Record(s, said, {}, "source")

(* The user's form, `_write`: what it says, and what it leaves empty.      *)
Edit(w, said) ==
  /\ w \in works
  /\ Record(Manual, [wf \in {w} \X DOMAIN said |-> said[wf[2]]],
            {w} \X (ManualFields \ DOMAIN said), "user")

(* An entry is deleted and its work stays, `_forget`.                      *)
Forget(w) ==
  /\ tx = Idle /\ w \in works
  /\ tx' = [Idle EXCEPT !.step = "resolved", !.by = "user", !.withdraw = {w} \X ManualFields]
  /\ UNCHANGED <<works, rows, column, clock, kept>>

(* An entry is deleted and its work with it, `delete_works`.               *)
RowsWithout(w) == {r \in rows : r.work # w}

Delete(w) ==
  /\ tx = Idle /\ w \in works
  /\ rows' = RowsWithout(w)
  /\ works' = works \ {w}
  /\ column' = [column EXCEPT ![w] = [f \in Fields |-> Own]]
  /\ tx' = [Idle EXCEPT !.step = "resolved", !.by = "user"]
  /\ UNCHANGED <<clock, kept>>

(* create_stubs: a work under an id that may have been another's.          *)
Create(w) ==
  /\ tx = Idle /\ w \notin works
  /\ works' = works \cup {w}
  /\ tx' = [Idle EXCEPT !.step = "resolved", !.by = "source"]
  /\ UNCHANGED <<rows, column, clock, kept>>

-----------------------------------------------------------------------------
(* merge_work, for the provenance of the two works.                        *)

(* `_check_sole_source` of merging.py: a field only one source may assert, *)
(* and each of the two has it from another.                                *)
Conflict(s, t) ==
  \E r1 \in rows, r2 \in rows :
    /\ r1.work = s /\ r2.work = t /\ r1.field = r2.field
    /\ Strategy[r1.field] = "single_source"
    /\ Manual \notin {r1.source, r2.source} /\ r1.source # r2.source

(* One source's two statements about a field: the later one stands, the    *)
(* target's if they are as old.                                            *)
Collide(r1, r2) == r1.field = r2.field /\ r1.source = r2.source
\* Bug: the target's always stands.
TargetStands(s, t) ==
  {r \in rows : r.work = s /\ \E r2 \in rows : r2.work = t /\ Collide(r, r2)}
Losers(s, t) ==
  {r \in rows : r.work = s /\ \E r2 \in rows : r2.work = t /\ Collide(r, r2) /\ r2.at >= r.at}
  \cup
  {r \in rows : r.work = t /\ \E r2 \in rows : r2.work = s /\ Collide(r, r2) /\ r2.at > r.at}

(* `_fold_provenance`, first flush: the losers go.                         *)
Fold(s, t) ==
  /\ tx = Idle
  /\ s \in works /\ t \in works \ {s}
  /\ ~Conflict(s, t)
  /\ rows' = rows \ Losers(s, t)
  /\ tx' = [Idle EXCEPT !.step = "folded", !.by = "merge",
                        !.fold = <<s, t, {r.field : r \in {x \in rows : x.work = s}}>>]
  /\ UNCHANGED <<works, column, clock, kept>>

(* Second flush: no row in play is effective.                              *)
Unmark ==
  /\ tx.step = "folded"
  /\ rows' = {IF r.work \in {tx.fold[1], tx.fold[2]} /\ r.field \in tx.fold[3]
               THEN [r EXCEPT !.effective = FALSE] ELSE r : r \in rows}
  /\ tx' = [tx EXCEPT !.step = "unmarked"]
  /\ UNCHANGED <<works, column, clock, kept>>

(* Third: the source's rows are the target's, the source is deleted and    *)
(* every field of the target is resolved (`_resolve_all`).                 *)
MoveRows ==
  /\ tx.step = "unmarked"
  /\ LET s == tx.fold[1]
         t == tx.fold[2]
     IN /\ rows' = {IF r.work = s THEN [r EXCEPT !.work = t] ELSE r : r \in rows}
        /\ works' = works \ {s}
        /\ column' = [column EXCEPT ![s] = [f \in Fields |-> Own]]
        /\ tx' = [tx EXCEPT !.step = "recorded", !.fold = <<>>,
                            !.todo = {<<t, r.field>> : r \in {x \in rows : x.work \in {s, t}}}]
  /\ UNCHANGED <<clock, kept>>

-----------------------------------------------------------------------------
Init ==
  /\ works = Works
  /\ rows = {}
  /\ column = [w \in Works |-> [f \in Fields |-> Own]]
  /\ tx = Idle
  /\ clock = 0
  /\ kept = [works |-> works, rows |-> rows, column |-> column, clock |-> clock]

(* What a source may say in one call, and the user in one form.            *)
Places(s) == {P \in SUBSET (works \X States[s]) : P # {} /\ Cardinality(P) <= MaxAsserted}
Forms == {F \in SUBSET ManualFields : ManualFields \ Optional \subseteq F}

Next ==
  \/ \E s \in Sources \ {Manual} :
       \E P \in Places(s) : \E said \in [P -> Values] : Report(s, said)
  \/ \E w \in works, F \in Forms : \E said \in [F -> Figures] : Edit(w, said)
  \/ \E w \in works : Forget(w)
  \/ \E w \in works : Delete(w)
  \/ \E w \in Works : Create(w)
  \/ \E s, t \in works : Fold(s, t)
  \/ Unmark
  \/ MoveRows
  \/ Clear
  \/ Mark
  \/ Withdraw
  \/ Commit
  \/ Rollback

Spec == Init /\ [][Next]_vars

-----------------------------------------------------------------------------
(* No flush, of any transaction, breaks an index of field_provenance: one  *)
(* row per source and field, one effective row per field, one source of a  *)
(* single_source field beside the user (ADR-0017).                         *)
IndexesHold ==
  \A r1, r2 \in rows :
    r1 # r2 /\ Place(r1) = Place(r2) =>
      /\ r1.source # r2.source
      /\ ~(r1.effective /\ r2.effective)
      /\ Strategy[r1.field] = "single_source" => Manual \in {r1.source, r2.source}

(* Between transactions a column is a cache of the decision: the value of  *)
(* the one effective row, the user's if the user said anything (rule 3),   *)
(* else of the highest kind of source or the greatest figure; with no      *)
(* effective row it is null or the stub's own, and no figure outlives the  *)
(* row that stood behind it.                                               *)
ColumnsAreDecided ==
  tx = Idle =>
    \A w \in works, f \in Fields :
      LET R == RowsOf(w, f)
          E == {r \in R : r.effective}
      IN /\ E = {} => /\ column[w][f] \in {NoValue, Own}
                      /\ \A r \in R : Strategy[f] = "max" /\ r.value = NoValue
                      /\ R # {} => column[w][f] = NoValue
         /\ \A e \in E :
              /\ column[w][f] = e.value
              /\ Said(R) # {} => e.source = Manual
              /\ Said(R) = {} =>
                   \A r \in R :
                     IF Strategy[f] = "max"
                     THEN r.value # NoValue => r.value <= e.value
                     ELSE Ladder[e.source] <= Ladder[r.source]

(* Rule 3: what the user said of a field is taken back by the user only.   *)
(* A source's transaction leaves it, and a merge leaves it or the later of *)
(* two things the user said, on the work the two have become.              *)
StillSaid(r, r2) == r2.source = Manual /\ r2.field = r.field /\ r2.at >= r.at
UserStands ==
  [][tx.by # "user" =>
       \A r \in Said(kept.rows) :
         \E r2 \in kept'.rows :
           /\ StillSaid(r, r2)
           /\ r2.at = r.at => r2.value = r.value
           /\ r2.work = r.work \/ r.work \notin kept'.works]_vars
=============================================================================
