---------------------------- MODULE MCCovers ----------------------------
(* Small instance of Covers: two works that share a picture, until IGDB     *)
(* has another for the first.                                              *)
EXTENDS Covers, TLC

CONSTANTS w1, w2, p1, p2, p3, r1, r2

MCFirst == [x \in Works |-> p1]
MCLater == [x \in Works |-> IF x = w1 THEN {p2, p3} ELSE {}]
MCLacking == {Path(p3, 2)}
MCDroppable == {Path(p1, 2)}
=============================================================================
