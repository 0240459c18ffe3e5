----------------------------- MODULE MCListing -----------------------------
(* Small instance of Listing: a game, its add-on, and two works whose      *)
(* titles fold to one key.                                                 *)
EXTENDS Listing, TLC

MCKey == <<2, 1, 3, 3>>
MCParent == [w \in Works |-> IF w = 1 THEN 2 ELSE Null]
MCStarts ==
  {[w \in Works |-> IF w = 4 THEN Null ELSE [hidden |-> w = h, minutes |-> IF w = 1 THEN 1 ELSE 0]] : h \in 0..2}
(* Cursors that just fit, and one at a title of 156 letters.               *)
MCCursorLength == [w \in Works |-> IF w = 1 THEN MaxCursor + 4 ELSE MaxCursor]
MCFilters ==
  {[hidden |-> "exclude", addons |-> "fold", wanted |-> Works],
   [hidden |-> "include", addons |-> "separate", wanted |-> {1, 3, 4}]}
=============================================================================
