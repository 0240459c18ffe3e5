----------------------------- MODULE WorkMerge -----------------------------
(***************************************************************************)
(* Folding one work into another and undoing it (ludarium/merging.py), for *)
(* the part of a work that is the user's: its status and its place in the  *)
(* queue.  `merge_work` deletes the source and writes a row of match_audit *)
(* with what the undo needs; `undo_merge` brings the source back under a   *)
(* new id, which may be one a deleted work had.                            *)
(*                                                                         *)
(* The matcher commits several merges at once.  Here each is a transaction *)
(* of its own: a crash undoes fewer of them, and the states it leaves are  *)
(* the same.                                                               *)
(***************************************************************************)
EXTENDS PlayQueue, Sequences

CONSTANTS
  Anchored,   \* works that carry an IGDB id: never a source, never deleted
  MaxMerges,  \* bound: merges recorded
  MaxEdits    \* bound: other operations: updates, moves, new and deleted works

ASSUME MergeAssumption ==
  Anchored \subseteq Works /\ MaxMerges \in Nat /\ MaxEdits \in Nat

VARIABLES
  works,   \* the works there are
  trail,   \* the `merged` rows of match_audit, oldest first
  edits,   \* other operations so far
  kept     \* works and trail as last committed

mergeVars == <<works, trail, edits, kept>>
vars == <<queueVars, mergeVars>>

-----------------------------------------------------------------------------
(* What the undo needs of the user's state: how the source's row went, and *)
(* the row; target_before is a function from the fields the merge changed  *)
(* to what they were.                                                      *)
NoBefore == [f \in {} |-> 0]

(* A user field at its default takes the source's value.                   *)
Filled(s, t) ==
  IF play[t] = "not_started" /\ play[s] # "not_started" THEN play[s] ELSE play[t]

\* Bug: the merge does not remember the place the target had.
PlayOnly(s, t) ==
  IF Filled(s, t) # play[t] THEN [f \in {"play"} |-> play[t]] ELSE NoBefore

TakesPlace(s, t) ==
  /\ place[s] # 0
  /\ Filled(s, t) = "queued"
  /\ place[t] = 0 \/ place[s] < place[t]

Before(s, t) ==
  LET filled == IF Filled(s, t) # play[t] THEN {"play"} ELSE {}
      moved  == IF TakesPlace(s, t) THEN {"place"} ELSE {}
  IN [f \in filled \cup moved |-> IF f = "play" THEN play[t] ELSE place[t]]

\* Bug: the source's row of state is not deleted.
KeepsSourceRow(s, t) == [play EXCEPT ![t] = Filled(s, t)]
Folded(s, t) == [play EXCEPT ![s] = "none", ![t] = Filled(s, t)]

(* The places before `arrange`: the source's is free, and a target that    *)
(* joins the queue waits past its end.                                     *)
Freed(s, t) ==
  LET gone == [place EXCEPT ![s] = 0]
  IN IF TakesPlace(s, t) /\ place[t] = 0
     THEN [gone EXCEPT ![t] = FreePosition(gone)]
     ELSE gone

MergedOrder(s, t) ==
  IF TakesPlace(s, t)
  THEN InsertAt(ClosedUp(Without(place, {s, t})), t, place[s])
  ELSE ClosedUp(Freed(s, t))

(* `_merge_states`: no row, a row moved whole, or two rows made one.       *)
MergeStates(s, t) ==
  \/ /\ play[s] = "none"
     /\ Write(play, place)
  \/ /\ play[s] # "none" /\ play[t] = "none"
     /\ Write([play EXCEPT ![s] = "none", ![t] = play[s]],
              [place EXCEPT ![s] = 0, ![t] = place[s]])
  \/ /\ play[s] # "none" /\ play[t] # "none"
     /\ place[s] = 0
     /\ Write(Folded(s, t), place)
  \/ /\ play[s] # "none" /\ play[t] # "none"
     /\ place[s] # 0
     /\ Rearrange(Folded(s, t), Freed(s, t), MergedOrder(s, t),
                  IF TakesPlace(s, t) THEN {t} ELSE {})

(* What the `merged` row holds.                                            *)
Recorded(s, t) ==
  [source |-> s, work |-> t, restored |-> s, undone |-> FALSE,
   moved |-> play[s] # "none" /\ play[t] = "none",
   merged |-> play[s] # "none" /\ play[t] # "none",
   play |-> play[s], place |-> place[s],
   before |-> IF play[s] # "none" /\ play[t] # "none"
              THEN Before(s, t) ELSE NoBefore,
   audits |-> {i \in DOMAIN trail : trail[i].work = s}]

(* The rows in `ids` that name `from` name `to`.                           *)
Repoint(tr, ids, from, to) ==
  [i \in DOMAIN tr |->
     IF i \in ids /\ tr[i].work = from THEN [tr[i] EXCEPT !.work = to] ELSE tr[i]]

(* merge_work: refused for an anchored source.                             *)
Merge(s, t) ==
  /\ pass = "idle"
  /\ s \in works \ Anchored
  /\ t \in works \ {s}
  /\ Len(trail) < MaxMerges
  /\ MergeStates(s, t)
  /\ trail' = Append(Repoint(trail, DOMAIN trail, s, t), Recorded(s, t))
  /\ works' = works \ {s}
  /\ UNCHANGED <<saved, edits, kept>>

-----------------------------------------------------------------------------
\* Bug: nobody asks.
FoldedNever(i) == FALSE
(* `_folded_since`: a merge that folded the target away still stands.      *)
FoldedSince(i) ==
  \E j \in DOMAIN trail :
    j > i /\ trail[j].work = trail[i].work /\ i \in trail[j].audits /\ ~trail[j].undone

PlayBefore(e, t) == IF "play" \in DOMAIN e.before THEN e.before["play"] ELSE play[t]
PlaceBefore(e, t) == IF "place" \in DOMAIN e.before THEN e.before["place"] ELSE place[t]

(* The target goes back to a place of its own: it is still queued, and not *)
(* where it was.                                                           *)
GoesBack(e, t) ==
  /\ play[t] # "none"
  /\ PlayBefore(e, t) = "queued"
  /\ PlaceBefore(e, t) \notin {0, place[t]}

Unfolded(e, t, r) ==
  [play EXCEPT ![r] = e.play,
               ![t] = IF play[t] = "none" THEN "none" ELSE PlayBefore(e, t)]

(* The places before `arrange`: the restored row waits past the end of the *)
(* queue, and a target that is no longer queued has none.                  *)
Parked(e, t, r) ==
  [place EXCEPT ![r] = IF e.place = 0 THEN 0 ELSE FreePosition(place),
                ![t] = IF play[t] # "none" /\ PlayBefore(e, t) # "queued" THEN 0 ELSE @]

UndoPlaced(e, t, r) ==
  (IF e.place # 0 THEN {r} ELSE {}) \cup (IF GoesBack(e, t) THEN {t} ELSE {})

(* The placed works enter in the order of their places, the restored one   *)
(* first where they are the same.                                          *)
UndoneOrder(e, t, r) ==
  LET rest == ClosedUp(Without(Parked(e, t, r), UndoPlaced(e, t, r)))
      back == PlaceBefore(e, t)
  IN IF e.place = 0
     THEN IF GoesBack(e, t) THEN InsertAt(rest, t, back) ELSE rest
     ELSE IF ~GoesBack(e, t)
     THEN InsertAt(rest, r, e.place)
     ELSE IF e.place <= back
     THEN InsertAt(InsertAt(rest, r, e.place), t, back)
     ELSE InsertAt(InsertAt(rest, t, back), r, e.place)

(* `_unmerge_states`.                                                      *)
UnmergeStates(e, t, r) ==
  \/ /\ e.moved
     /\ Write([play EXCEPT ![r] = play[t], ![t] = "none"],
              [place EXCEPT ![r] = place[t], ![t] = 0])
  \/ /\ e.merged
     /\ Rearrange(Unfolded(e, t, r), Parked(e, t, r),
                  UndoneOrder(e, t, r), UndoPlaced(e, t, r))
  \/ /\ ~e.moved /\ ~e.merged
     /\ Write(play, place)

(* undo_merge: once, not while a later merge of its target stands, and     *)
(* only if the target is there.  `restored` is the `unmerged` row's work.  *)
Undo(i, r) ==
  LET e == trail[i]
  IN /\ pass = "idle"
     /\ ~e.undone
     /\ ~FoldedSince(i)
     /\ e.work \in works
     /\ r \in Works \ works
     /\ UnmergeStates(e, e.work, r)
     /\ trail' = [Repoint(trail, e.audits, e.work, r) EXCEPT
                    ![i].undone = TRUE, ![i].restored = r]
     /\ works' = works \cup {r}
     /\ UNCHANGED <<saved, edits, kept>>

Edit == edits < MaxEdits /\ edits' = edits + 1

(* A request of the user's.                                                *)
Request(w) ==
  /\ w \in works
  /\ Update(w)
  /\ Edit /\ UNCHANGED <<works, trail, kept>>

(* create_stubs: a copy no work holds gets a work and a row of state.      *)
NewWork(w) ==
  /\ pass = "idle"
  /\ w \notin works
  /\ works' = works \cup {w}
  /\ Write([play EXCEPT ![w] = "not_started"], place)
  /\ Edit /\ UNCHANGED <<trail, saved, kept>>

(* A manual entry's work, or orphaned stubs: no anchored work goes.        *)
Delete(W) ==
  /\ W \subseteq works \ Anchored
  /\ Drop(W)
  /\ works' = works \ W
  /\ Edit /\ UNCHANGED <<trail, kept>>

-----------------------------------------------------------------------------
MergeInit ==
  /\ QueueInit
  /\ works = Works
  /\ trail = <<>>
  /\ edits = 0
  /\ kept = [works |-> works, trail |-> trail]

CommitAll ==
  /\ Commit
  /\ kept' = [works |-> works, trail |-> trail]
  /\ UNCHANGED <<works, trail, edits>>

RollbackAll ==
  /\ Rollback
  /\ works' = kept.works
  /\ trail' = kept.trail
  /\ UNCHANGED <<edits, kept>>

Matching ==
  \/ \E s, t \in works : Merge(s, t)
  \/ \E i \in DOMAIN trail, r \in Works : Undo(i, r)

MergeNext ==
  \/ Matching
  \/ \E w \in Works : Request(w)
  \/ \E w \in Works : NewWork(w)
  \/ \E W \in (SUBSET works) \ {{}} : Delete(W)
  \/ Renumber /\ UNCHANGED mergeVars
  \/ CommitAll
  \/ RollbackAll

MergeSpec == MergeInit /\ [][MergeNext]_vars

-----------------------------------------------------------------------------
TypeOK ==
  /\ QueueTypeOK
  /\ works \in SUBSET Works
  /\ edits \in 0..MaxEdits
  /\ \A i \in DOMAIN trail :
       /\ trail[i].source \in Works /\ trail[i].work \in Works
       /\ trail[i].audits \subseteq 1..i - 1

(* A work that is gone leaves no state behind for the next work to be      *)
(* given its id.                                                           *)
GoneIsGone == \A w \in Works \ works : play[w] = "none" /\ place[w] = 0

(* A merge undone with nothing done in between puts both works back where  *)
(* they were, and every other one too (ADR-0033), whatever id the source   *)
(* comes back under.                                                       *)
UndoPutsBothBack ==
  pass = "written" /\ Len(trail) = Len(kept.trail) + 1 =>
    LET e == trail[Len(trail)]
        t == e.work
    IN \A r \in Works \ works :
         LET back == IF e.merged THEN UndoneOrder(e, t, r)
                     ELSE IF e.moved THEN [place EXCEPT ![r] = place[t], ![t] = 0]
                     ELSE place
             again == IF e.merged THEN Unfolded(e, t, r)
                      ELSE IF e.moved THEN [play EXCEPT ![r] = play[t], ![t] = "none"]
                      ELSE play
         IN /\ \A w \in works : back[w] = saved.place[w] /\ again[w] = saved.play[w]
            /\ back[r] = saved.place[e.source]
            /\ again[r] = saved.play[e.source]
=============================================================================
