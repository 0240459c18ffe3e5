---------------------------- MODULE MCResolver ----------------------------
(* Small instance of Resolver: two sources on one rung of the ladder, a    *)
(* metadata provider below them, and the user.                             *)
EXTENDS Resolver, TLC

CONSTANTS w1, w2, title, item_kind, minutes, manual, epic, store, igdb

MCStrategy ==
  (title :> "single_source") @@ (item_kind :> "precedence") @@ (minutes :> "max")

(* SourceKind's order: manual, platform_api, local_agent, metadata.        *)
MCLadder == (manual :> 0) @@ (epic :> 1) @@ (store :> 1) @@ (igdb :> 3)

(* The default of provider.precedence_weight, which the seed never changes.*)
MCWeight == [s \in Sources |-> 100]

(* Title is single_source; a second source that asserts it is refused.     *)
MCStates ==
  (manual :> {item_kind}) @@ (epic :> {item_kind, minutes, title}) @@ (store :> {item_kind})
    @@ (igdb :> {item_kind, title})

Symmetry == Permutations(Works)
=============================================================================
