------------------------------ MODULE Listing ------------------------------
(***************************************************************************)
(* The listing of a library (GET /works): which works have a card under a  *)
(* choice of filters, and a client that walks the pages by cursor while    *)
(* syncs and the user change the library between two pages, and between    *)
(* the two statements that read one.                                       *)
(***************************************************************************)
EXTENDS ListingOrder, Sequences, FiniteSets, SequencesExt

CONSTANTS
  Works,        \* ids
  Key,          \* the sort key of each title
  Parent,       \* the game each add-on belongs to, as the platform has it
  Starts,       \* what is kept of the user's state of each work at first
  Filters,      \* the filters a client may ask with
  Limit,        \* how many works a page holds
  CursorLength, \* of the cursor at each work: its whole key, escaped, in base64
  MaxCursor,    \* what the API takes of one, 256 characters
  MaxMinutes,   \* bound: minutes played
  MaxChanges    \* bound: changes of the library during the walk

ASSUME WorksAssumption == Works \subseteq Int /\ IsFiniteSet(Works) /\ Key \in [Works -> Int]
ASSUME LimitAssumption == Limit \in Nat \ {0}
ASSUME CursorAssumption == MaxCursor \in Nat /\ CursorLength \in [Works -> Nat]
ASSUME ParentAssumption ==
  /\ Parent \in [Works -> Works \cup {Null}]
  /\ \A w \in Works : Parent[w] # Null => Parent[Parent[w]] = Null

States == [hidden : BOOLEAN, minutes : 0..MaxMinutes]

ASSUME StartsAssumption == MaxMinutes \in Nat /\ Starts \subseteq [Works -> States \cup {Null}]

VARIABLES
  owned,     \* the works a live copy reaches
  state,     \* user_work_state: a row or Null for each work
  walk,      \* the client's request, its cursor and the rows its page read
  seen,      \* the works of the pages so far
  stable,    \* the works listed since the walk began, in the same place
  changes

vars == <<owned, state, walk, seen, stable, changes>>

(***************************************************************************)
(* Which works have a card.                                                *)
(***************************************************************************)
IsHidden(w) == state[w] # Null /\ state[w].hidden

Shown(w, hidden) == hidden = "include" \/ (IsHidden(w) <=> hidden = "only")

(* Plausible mistakes, for the mutants of PROJECT.json.                    *)
FoldedAnyway(w, c) ==                       \* under a game the view does not show
  c.addons = "fold" /\ Parent[w] # Null /\ Parent[w] \in owned

Folded(w, c) ==
  /\ c.addons = "fold" /\ Parent[w] # Null
  /\ Parent[w] \in owned /\ Shown(Parent[w], c.hidden)

(* A search or a kind, met by the work or by an add-on folded under it.    *)
Wanted(w, c) ==
  w \in c.wanted \/ (c.addons = "fold" /\ \E x \in owned \cap c.wanted : Parent[x] = w)

Listed(c) == {w \in owned : Wanted(w, c) /\ Shown(w, c.hidden) /\ ~Folded(w, c)}

(***************************************************************************)
(* The page.                                                               *)
(***************************************************************************)
(* A work without a state row has no playtime to order by.                 *)
ValueOf(o, w) == IF o.sort = "title" \/ state[w] = Null THEN Null ELSE state[w].minutes

Position(o, w) == [value |-> ValueOf(o, w), key |-> Key[w], id |-> w]

(* The one sequence of them that ORDER BY allows.                          *)
InOrder(o, places) ==
  CHOOSE s \in [1..Cardinality(places) -> places] :
    \A i, j \in DOMAIN s : i < j => Before(o, s[i], s[j])

Past(o, cursor, places) ==
  {p \in places : cursor = Null \/ After(o, p, cursor)}

Rows(o, c, cursor) == InOrder(o, Past(o, cursor, {Position(o, w) : w \in Listed(c)}))

LastKept(rows, kept) == IF kept = <<>> THEN Null ELSE kept[Len(kept)]

(* From the last row read, whether or not it was kept.                     *)
NextCursor(rows, kept) == rows[Len(rows)]

(* A cursor names the order it is a position in, and carries the key of    *)
(* the row, however long; a query string holds one of bounded length.  The *)
(* few characters that its order, value and id differ by are left out.     *)
Fits(cursor) == CursorLength[cursor.id] <= MaxCursor
Accepts(order, cursor, asked) == Fits(cursor) /\ asked = order

(***************************************************************************)
(* The client.                                                             *)
(***************************************************************************)
Start(o, c) ==
  /\ walk.at = "idle"
  /\ walk' = [walk EXCEPT !.at = "asked", !.order = o, !.choice = c]
  /\ stable' = Listed(c)
  /\ UNCHANGED <<owned, state, seen, changes>>

(* One more row than asked for tells whether there is a next page.         *)
Read ==
  /\ walk.at = "asked"
  /\ LET found == Rows(walk.order, walk.choice, walk.cursor)
     IN walk' = [walk EXCEPT !.at = "read", !.more = Len(found) > Limit,
                             !.rows = IF Len(found) > Limit THEN SubSeq(found, 1, Limit) ELSE found]
  /\ UNCHANGED <<owned, state, seen, stable, changes>>

(* The copies of the page are a statement of their own: a work that lost   *)
(* its last one between the two is dropped from the page, whose other rows *)
(* stay in the order they were read in.                                    *)
Answer ==
  /\ walk.at = "read"
  /\ LET kept == InOrder(walk.order, {p \in Range(walk.rows) : p.id \in owned})
     IN /\ seen' = seen \o [i \in DOMAIN kept |-> kept[i].id]
        /\ walk' = [walk EXCEPT !.at = IF walk.more /\ NextCursor(walk.rows, kept) # Null
                                       THEN "page" ELSE "done",
                                !.cursor = IF walk.more THEN NextCursor(walk.rows, kept) ELSE Null,
                                !.rows = <<>>]
  /\ UNCHANGED <<owned, state, stable, changes>>

(* The cursor sent with the order it was issued under, or with another.    *)
(* Refused, it leads nowhere: the client has no other.                     *)
Follow(o) ==
  /\ walk.at = "page"
  /\ walk' = [walk EXCEPT !.at = IF Accepts(walk.order, walk.cursor, o) THEN "asked" ELSE "refused",
                          !.order = IF Accepts(walk.order, walk.cursor, o) THEN o ELSE @]
  /\ UNCHANGED <<owned, state, seen, stable, changes>>

(***************************************************************************)
(* The library meanwhile.                                                  *)
(***************************************************************************)
Fresh == [hidden |-> FALSE, minutes |-> 0]
Row(w) == IF state[w] = Null THEN Fresh ELSE state[w]

Stands(w) ==
  w \in Listed(walk.choice)' /\ Position(walk.order, w)' = Position(walk.order, w)

Change ==
  /\ walk.at \notin {"idle", "done", "refused"} /\ changes < MaxChanges
  /\ changes' = changes + 1
  /\ UNCHANGED <<walk, seen>>
  /\ stable' = {w \in stable : Stands(w)}

(* A sync lands a copy, which makes the work's state if it has none.       *)
Land(w) ==
  /\ w \notin owned
  /\ owned' = owned \cup {w}
  /\ state' = [state EXCEPT ![w] = Row(w)]
  /\ Change

Withdraw(w) ==
  /\ w \in owned
  /\ owned' = owned \ {w}
  /\ UNCHANGED state
  /\ Change

Played(w) ==
  /\ w \in owned /\ state[w] # Null /\ state[w].minutes < MaxMinutes
  /\ state' = [state EXCEPT ![w].minutes = @ + 1]
  /\ UNCHANGED owned
  /\ Change

SetHidden(w) ==
  /\ w \in owned
  /\ state' = [state EXCEPT ![w] = [Row(w) EXCEPT !.hidden = ~@]]
  /\ UNCHANGED owned
  /\ Change

Init ==
  /\ owned \in SUBSET Works /\ state \in Starts
  /\ walk = [at |-> "idle", order |-> CHOOSE o \in Orders : TRUE, choice |-> CHOOSE c \in Filters : TRUE,
             cursor |-> Null, rows |-> <<>>, more |-> FALSE]
  /\ seen = <<>> /\ stable = {} /\ changes = 0

Page == Read \/ Answer \/ \E o \in Orders : Follow(o)

Next ==
  \/ \E o \in Orders, c \in Filters : Start(o, c)
  \/ Page
  \/ \E w \in Works : Land(w) \/ Withdraw(w) \/ Played(w) \/ SetHidden(w)

Spec == Init /\ [][Next]_vars

(***************************************************************************)
(* Properties.                                                             *)
(***************************************************************************)
TypeOK ==
  /\ owned \subseteq Works /\ state \in [Works -> States \cup {Null}]
  /\ walk.at \in {"idle", "asked", "read", "page", "done", "refused"}
  /\ walk.order \in Orders /\ walk.cursor \in Positions \cup {Null}
  /\ stable \subseteq owned /\ changes \in 0..MaxChanges

(* Whatever else lands, leaves, is played or hidden between two pages or   *)
(* between the statements of one, a work that kept its card and its place  *)
(* since the walk began is met once, in its turn, and none is missing once *)
(* there is no next page: no page repeats, skips or is the last too early  *)
(* (listing's cursor).  A walk that is refused, for a cursor that this API *)
(* issued but does not fit, has met what was before it and no more.        *)
MetOnceInTurn ==
  LET met == {i \in DOMAIN seen : seen[i] \in stable}
      Behind(w, v) == Before(walk.order, Position(walk.order, w), Position(walk.order, v))
  IN /\ \A i, j \in met : i < j => Behind(seen[i], seen[j])
     /\ \A i \in met, w \in stable : Behind(w, seen[i]) => w \in Range(seen)
     /\ walk.at = "done" => stable \subseteq Range(seen)

(* Under each choice of hidden works, an owned work it shows can be found  *)
(* by its name: on its own card or, folded, on its game's, however the     *)
(* two were hidden, removed and restored (filters._on_addons,              *)
(* through_addons).                                                        *)
EveryOwnedFound ==
  \A hidden \in {"exclude", "include", "only"}, w \in owned :
    Shown(w, hidden) =>
      LET cards == Listed([hidden |-> hidden, addons |-> "fold", wanted |-> {w}])
      IN cards # {} /\ cards \subseteq {w, Parent[w]}
=============================================================================
