---------------------------- MODULE MCWorkMerge ----------------------------
(* Small instance of WorkMerge for TLC, and what its undos give back.      *)
EXTENDS WorkMerge, TLC

VARIABLE first   \* history: the works that had a row of state to begin with

Init == MergeInit /\ first = {w \in Works : play[w] # "none"}

(* MergeNext, one disjunct for each operation.                             *)
Next ==
  \/ \E s, t \in works : Merge(s, t) /\ UNCHANGED first
  \/ \E i \in DOMAIN trail, r \in Works : Undo(i, r) /\ UNCHANGED first
  \/ \E w \in Works : Request(w) /\ UNCHANGED first
  \/ \E w \in Works : NewWork(w) /\ UNCHANGED first
  \/ \E W \in (SUBSET works) \ {{}} : Delete(W) /\ UNCHANGED first
  \/ Renumber /\ UNCHANGED mergeVars /\ UNCHANGED first
  \/ CommitAll /\ UNCHANGED first
  \/ RollbackAll /\ UNCHANGED first

Spec == Init /\ [][Next]_<<vars, first>>

Interchangeable == Permutations(Works \ Anchored)

(* With nothing else done, merges that were all undone, in any order       *)
(* undo_merge allows, leave a row of state to exactly the works that had   *)
(* one: no undo takes another work's row along, nor drops one (rule 3, the *)
(* reason `_folded_since` gives for refusing).                             *)
RowsComeBack ==
  /\ pass = "idle" /\ edits = 0
  /\ \A i \in DOMAIN trail : trail[i].undone /\ trail[i].restored = trail[i].source
  => {w \in Works : play[w] # "none"} = first
=============================================================================
