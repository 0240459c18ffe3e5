---------------------------- MODULE MCEnrichment ----------------------------
(* Enrichment on a small instance: two tasks, an item of each kind.        *)
EXTENDS Enrichment

CONSTANTS steam, epic  \* the items

Interchangeable == Permutations(Tasks)

(* RAWG has never heard of the Epic game.                                  *)
KnowsAllButOne ==
  [s \in {"steam_store", "igdb", "rawg"} |-> IF s = "rawg" THEN {steam} ELSE {steam, epic}]
=============================================================================
