---------------------------- MODULE ListingOrder ----------------------------
(***************************************************************************)
(* The orders a library can be listed in and the keyset each pages on      *)
(* (ludarium/sorting.py).  A row's position is the value the order         *)
(* compares, its title's key and its id; ORDER BY and the cursor's         *)
(* predicate are two expressions in the code, and two operators here.      *)
(***************************************************************************)
EXTENDS Integers

CONSTANT Null    \* a value that is not known

Orders == [sort : {"title", "playtime"}, direction : {"asc", "desc"}]
Positions == [value : Int \cup {Null}, key : Int, id : Int]

ASSUME NullAssumption == Null \notin Int /\ Null \notin Positions

(* (sort_key, id) compared as one tuple.                                   *)
KeyBelow(p, q) == p.key < q.key \/ (p.key = q.key /\ p.id < q.id)

Ahead(o, v, w) == IF o.direction = "asc" THEN v < w ELSE w < v

(* What ORDER BY puts first: the title's order turns as a whole, any other *)
(* lists the unknown last and breaks ties A to Z in both directions.       *)
Before(o, p, q) ==
  IF o.sort = "title"
  THEN IF o.direction = "asc" THEN KeyBelow(p, q) ELSE KeyBelow(q, p)
  ELSE \/ p.value # Null /\ q.value = Null
       \/ p.value # Null /\ q.value # Null /\ Ahead(o, p.value, q.value)
       \/ p.value = q.value /\ KeyBelow(p, q)

(* A plausible mistake, for a mutant of PROJECT.json: no tie-break.        *)
AfterValue(o, p, at) ==
  IF o.sort = "title" \/ at.value = Null
  THEN IF o.direction = "asc" THEN KeyBelow(at, p) ELSE KeyBelow(p, at)
  ELSE p.value = Null \/ (p.value # Null /\ Ahead(o, at.value, p.value))

(* Every row p past the position `at` of a cursor.                         *)
After(o, p, at) ==
  CASE o.sort = "title" -> IF o.direction = "asc" THEN KeyBelow(at, p) ELSE KeyBelow(p, at)
    [] o.sort # "title" /\ at.value = Null -> p.value = Null /\ KeyBelow(at, p)
    [] OTHER -> \/ p.value = Null
                \/ p.value # Null /\ Ahead(o, at.value, p.value)
                \/ p.value = at.value /\ KeyBelow(at, p)
=============================================================================
