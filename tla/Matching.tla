------------------------------ MODULE Matching ------------------------------
(***************************************************************************)
(* Stubs, anchors and what an id is worth (ludarium/matching.py, with the  *)
(* part of sync.py, classification.py, merging.py and api/manual.py that   *)
(* makes, names and deletes works).  Every copy lands on a stub of its     *)
(* own; the igdb run anchors a stub to the game IGDB files its store id    *)
(* under, or folds it into the work that holds the game.  A run reads its  *)
(* targets, asks, and writes in another transaction; SQLite hands the      *)
(* highest id out again as soon as the row that had it is gone.            *)
(***************************************************************************)
EXTENDS Naturals, Sequences, FiniteSets, FiniteSetsExt

CONSTANTS
  Copies,     \* every copy there may be
  Turn,       \* the order a library lists them in, and the rows' own
  Lib,        \* the library a copy is in: "steam", "epic", "gog" or "manual"
  Kind,       \* what its platform says it is: "game" or "dlc"
  Base,       \* the copy its parent_item_id names, of the same library
  Game,       \* the IGDB game a copy is of
  Namespace,  \* of an Epic copy
  BaseGame,   \* the IGDB game of a namespace's base offers
  Named,      \* Epic copies titled as a base offer of their namespace is
  Conflicting, \* copies whose work a merge refuses: see Settle
  Appids,     \* the Steam appids IGDB files under a game
  Listings,   \* bound: what a library may list, sets of copies
  Filings,    \* bound: what IGDB and the store may answer for, store ids and namespaces
  None,
  Runs,       \* tasks that run the igdb step
  MaxId,      \* bound: the highest id a work is given
  MaxEdits,   \* bound: landings and requests of the user
  MaxLost     \* bound: runs that end early or outlive their claim

Games == {Game[c] : c \in Copies} \ {None}
Ids == 1..MaxId

ASSUME CopyAssumption ==
  /\ IsFiniteSet(Copies) /\ None \notin Copies
  /\ Turn \in [Copies -> Nat] /\ \A c, e \in Copies : Turn[c] = Turn[e] => c = e
  /\ \A c \in Copies : Base[c] # None => Base[c] \in Copies /\ Kind[c] = "dlc" /\ Lib[Base[c]] = Lib[c]
  /\ \A c \in Named : Lib[c] = "epic" /\ Game[c] = BaseGame[Namespace[c]]
ASSUME RunsAssumption == None \notin Runs
ASSUME MaxAssumption == {MaxId, MaxEdits, MaxLost} \subseteq Nat

VARIABLES
  db,      \* what is committed
  igdb,    \* each igdb run: what it does next and what it has read
  holder,  \* the run that has the claim of the igdb provider
  store,   \* the steam_store run, of another chain: its targets, when it has read
  outlived, \* whether a run went on after its claim was taken
  edits, lost

matchingVars == <<db, igdb, holder, store, outlived, edits, lost>>

(* works are the ids there are; link and edition the work a copy's primary *)
(* link and its edition lead to, 0 before it lands; live the copies not    *)
(* removed, kept those restored; total the copies playtime_minutes is the  *)
(* sum of; anchor is igdb_id; parent the column, claim the row behind it;  *)
(* spoke whose item_kind a work shows; external the rows of external_id.   *)
Empty ==
  [works |-> {}, link |-> [c \in Copies |-> 0], edition |-> [c \in Copies |-> 0],
   live |-> {}, kept |-> {}, vouched |-> {},
   total |-> [w \in Ids |-> {}], anchor |-> [w \in Ids |-> None],
   parent |-> [w \in Ids |-> 0], claim |-> [w \in Ids |-> 0],
   spoke |-> [w \in Ids |-> None], external |-> {}]

ExternalValues == Games \cup UNION {Appids[g] : g \in Games}
ExternalIds == [namespace : {"igdb", "steam"}, value : ExternalValues, work : Ids]
External(ns, v, w) == [namespace |-> ns, value |-> v, work |-> w]

Database ==
  [works : SUBSET Ids, link : [Copies -> 0..MaxId], edition : [Copies -> 0..MaxId],
   live : SUBSET Copies, kept : SUBSET Copies, vouched : SUBSET Copies,
   total : [Ids -> SUBSET Copies], anchor : [Ids -> Games \cup {None}],
   parent : [Ids -> 0..MaxId], claim : [Ids -> 0..MaxId],
   spoke : [Ids -> Copies \cup {None}],
   external : SUBSET ExternalIds]

Rest == [step |-> "idle", at |-> 1, targets |-> <<>>, found |-> <<>>, wanted |-> <<>>]
Unread == [step |-> "idle", targets |-> <<>>]

MatchingTypeOK ==
  /\ db \in Database
  /\ \A r \in Runs :
       /\ igdb[r].step \in {"idle", "read", "fetched", "anchored", "collected", "wanted"}
       /\ igdb[r].targets \in Seq(Copies \X Ids)
  /\ holder \in Runs \cup {None}
  /\ store.step \in {"idle", "fetched"}
  /\ outlived \in BOOLEAN
  /\ edits \in 0..MaxEdits /\ lost \in 0..MaxLost

-----------------------------------------------------------------------------
(* Reading a state of the database.                                        *)
Held(d) == {c \in Copies : d.link[c] # 0}
On(d, w) == {c \in Copies : d.link[c] = w}
Children(d, w) == {x \in d.works : d.parent[x] = w}
IsMatched(d, w) == d.anchor[w] # None
KindOf(d, w) == IF d.spoke[w] = None THEN "unknown" ELSE Kind[d.spoke[w]]

\* resolve_work_aggregates_many; a copy the user entered has no playtime
Played(d, w) == {c \in On(d, w) \cap d.live : Lib[c] # "manual"}
Aggregated(d, W) ==
  [d EXCEPT !.total = [w \in Ids |-> IF w \in W THEN Played(d, w) ELSE @[w]]]

(* INTEGER PRIMARY KEY without AUTOINCREMENT: one above the highest.       *)
NextId(d) == IF d.works = {} THEN 1 ELSE Max(d.works) + 1

(* create_stubs, in the order of the copies: rows keyed by a bare id are   *)
(* not a stub's own.                                                       *)
StubId(d, C, c) == NextId(d) + Cardinality({e \in C : Turn[e] < Turn[c]})
Stubbed(d, C) ==
  LET Led(f) == [c \in Copies |-> IF c \in C THEN StubId(d, C, c) ELSE f[c]]
  IN [d EXCEPT !.works = @ \cup {StubId(d, C, c) : c \in C},
               !.link = Led(@), !.edition = Led(@), !.live = @ \cup C]

(* delete_works: with the row its columns, and, no foreign key leading     *)
(* there, its provenance and its external ids.                             *)
Without(f, W, default) == [w \in Ids |-> IF w \in W THEN default ELSE f[w]]
Deleted(d, W) ==
  [d EXCEPT !.works = @ \ W, !.total = Without(@, W, {}), !.parent = Without(@, W, 0),
            !.claim = Without(@, W, 0), !.spoke = Without(@, W, None),
            !.external = {x \in @ : x.work \notin W}]

-----------------------------------------------------------------------------
(* A library lands, `_apply`.                                              *)

(* `_sweep`.                                                               *)
Swept(d, lib, listed) ==
  [d EXCEPT !.live = {c \in @ : Lib[c] = lib => c \in listed \cup d.kept}]

(* What each of C says of its work, by link: the last of them is heard.    *)
LastOf(C, link, w) ==
  CHOOSE c \in C : link[c] = w /\ \A e \in C : link[e] = w => Turn[e] <= Turn[c]
Heard(f, C, link, said) ==
  [w \in Ids |-> IF \E c \in C : link[c] = w THEN said[LastOf(C, link, w)] ELSE f[w]]

(* `_classify`: Steam's library says nothing of kinds.                     *)
Classified(d, C) ==
  LET told == {c \in C : Lib[c] # "steam"}
  IN [d EXCEPT !.spoke = Heard(@, told, d.link, [c \in told |-> c])]

(* `_parent`: the work of the game the platform names, if it is held.      *)
ParentOf(d, c) ==
  LET p == IF Base[c] = None THEN 0 ELSE d.link[Base[c]] IN IF p = d.link[c] THEN 0 ELSE p
Parented(d, C) ==
  LET addons == {c \in C : Kind[c] = "dlc"}
      parents == [c \in addons |-> ParentOf(d, c)]
  IN [d EXCEPT !.claim = Heard(@, addons, d.link, parents),
               !.parent = Heard(@, addons, d.link, parents)]

Landed(d, lib, listed) ==
  LET seen == [d EXCEPT !.live = @ \cup (listed \cap Held(d))]
      stubs == Stubbed(seen, listed \ Held(d))
      told == Parented(Classified(stubs, listed), listed)
      swept == Swept(told, lib, listed)
  IN Aggregated(swept, {swept.link[c] : c \in listed \cup (told.live \ swept.live)})

Land(lib, listed) ==
  /\ edits < MaxEdits
  /\ db' = Landed(db, lib, listed)
  /\ db'.works \subseteq Ids
  /\ edits' = edits + 1
  /\ UNCHANGED <<igdb, holder, store, outlived, lost>>

(* The user restores a removed copy, or lets a restored one go.            *)
Restore(c) ==
  /\ edits < MaxEdits
  /\ c \in Held(db) \ db.live
  /\ db' = Aggregated([db EXCEPT !.live = @ \cup {c}, !.kept = @ \cup {c}], {db.link[c]})
  /\ edits' = edits + 1
  /\ UNCHANGED <<igdb, holder, store, outlived, lost>>

LetGo(c) ==
  /\ c \in db.kept
  /\ db' = [db EXCEPT !.kept = @ \ {c}]
  /\ UNCHANGED <<igdb, holder, store, outlived, edits, lost>>

(* A copy the user enters, and its stub.                                   *)
Enter(c) ==
  /\ edits < MaxEdits
  /\ Lib[c] = "manual" /\ c \notin Held(db)
  /\ db' = Stubbed(db, {c})
  /\ db'.works \subseteq Ids
  /\ edits' = edits + 1
  /\ UNCHANGED <<igdb, holder, store, outlived, lost>>

(* And takes back: with its stub, where nothing else would miss it.        *)
TakeBack(c) ==
  /\ Lib[c] = "manual" /\ c \in Held(db)
  /\ LET w == db.link[c]
         gone == [db EXCEPT !.link[c] = 0, !.edition[c] = 0, !.live = @ \ {c}]
         missed == IsMatched(gone, w) \/ On(gone, w) # {} \/ Children(gone, w) # {}
     IN db' = IF missed THEN gone ELSE Deleted(gone, {w})
  /\ UNCHANGED <<igdb, holder, store, outlived, edits, lost>>

-----------------------------------------------------------------------------
(* merge_work.                                                             *)
\* Bug: what the run has read is still so.
StillThere(d, s, t) == {s, t} \subseteq d.works
Mergeable(d, s, t) == s # t /\ {s, t} \subseteq d.works /\ ~IsMatched(d, s)

(* `_adopt_children`.                                                      *)
Adopted(d, s, t) ==
  LET own == IF d.parent[t] = s THEN 0 ELSE d.parent[t]
  IN [d EXCEPT !.parent =
        [w \in Ids |-> IF w = t THEN IF own = 0 /\ d.parent[s] # t THEN d.parent[s] ELSE own
                       ELSE IF d.parent[w] = s THEN t ELSE d.parent[w]]]

(* `_repoint_claims`, of the children, the target and the source.          *)
\* Bug: the columns move and the rows behind them stay.
ClaimsStay(d, s, t) == d
Repointed(d, s, t) ==
  [d EXCEPT !.claim =
     [w \in Ids |-> IF w = t THEN (IF @[t] = s THEN 0 ELSE @[t])
                    ELSE IF w = s THEN (IF @[s] = t THEN 0 ELSE @[s])
                    ELSE IF @[w] = s /\ w \in Children(d, s) THEN t ELSE @[w]]]

Moved(f, s, t) == [c \in Copies |-> IF f[c] = s THEN t ELSE f[c]]

(* `_fold_provenance`: of two kinds said the newer is shown.               *)
Spoken(d, s, t, newer) ==
  IF d.spoke[t] = None \/ (d.spoke[s] # None /\ newer) THEN d.spoke[s] ELSE d.spoke[t]

(* The same work with the source's editions, links and external ids.       *)
\* Bug: the copies follow and the total does not.
TotalStays(d, s, t, newer) ==
  LET e == Adopted(Repointed(d, s, t), s, t)
      claimed == IF e.claim[t] # 0 THEN e.claim[t] ELSE e.claim[s]
      moved == [e EXCEPT !.edition = Moved(@, s, t), !.link = Moved(@, s, t),
                         !.spoke[t] = Spoken(e, s, t, newer), !.claim[t] = claimed,
                         !.external = {IF x.work = s THEN [x EXCEPT !.work = t] ELSE x : x \in @}]
  IN Deleted(moved, {s})
Folded(d, s, t, newer) == Aggregated(TotalStays(d, s, t, newer), {t})

-----------------------------------------------------------------------------
(* The igdb run: the steps of `_anchor` in steps.py, one after another.    *)
Chain == <<"steam", "epic", "gog">>
LibAt(r) == Chain[igdb[r].at]

(* `_unmatched_games`, `_unmatched_epic_games`: a copy and its work, the   *)
(* oldest work first.                                                      *)
\* Bug: a copy that left the account is not asked about.
LiveOnly(d, lib) ==
  {c \in d.live : Lib[c] = lib /\ ~IsMatched(d, d.link[c]) /\ KindOf(d, d.link[c]) = "game"}
Unmatched(d, lib) ==
  {c \in Held(d) : Lib[c] = lib /\ ~IsMatched(d, d.link[c]) /\ KindOf(d, d.link[c]) = "game"}
Sooner(p, q) == p[2] < q[2] \/ (p[2] = q[2] /\ Turn[p[1]] < Turn[q[1]])
Targets(d, lib) ==
  LET C == Unmatched(d, lib)
  IN {T \in [1..Cardinality(C) -> {<<c, d.link[c]>> : c \in C}] :
        \A i, j \in DOMAIN T : i < j => Sooner(T[i], T[j])}

(* `_epic_anchors`: the namespace names one game, and one of the works     *)
(* there is titled as that game is.                                        *)
\* Bug: whatever is alone in its namespace is the game.
Alone(c, C) == {x \in C : Namespace[x] = Namespace[c]} = {c}
Titled(c, C) == c \in Named /\ {x \in C \cap Named : Namespace[x] = Namespace[c]} = {c}

(* What IGDB says of the targets, known being what it has filed so far.    *)
AskedAs(c) == IF Lib[c] = "epic" THEN Namespace[c] ELSE c
Keys == {AskedAs(c) : c \in {x \in Copies : Lib[x] # "manual"}}
ASSUME FilingsAssumption == Filings \subseteq SUBSET Keys /\ Keys \in Filings
Answers(lib, C, known) ==
  [c \in C |-> IF AskedAs(c) \notin known THEN None
               ELSE IF lib # "epic" THEN Game[c]
               ELSE IF Titled(c, C) THEN BaseGame[Namespace[c]] ELSE None]

Begin(r) ==
  /\ igdb[r].step = "idle" /\ holder = None
  /\ holder' = r
  /\ igdb' = [igdb EXCEPT ![r] = [Rest EXCEPT !.step = "read"]]
  /\ UNCHANGED <<db, store, outlived, edits, lost>>

(* Read in one transaction, asked about in none.                           *)
Read(r, known) ==
  /\ igdb[r].step = "read"
  /\ \E T \in Targets(db, LibAt(r)) :
       igdb' = [igdb EXCEPT ![r].step = "fetched", ![r].targets = T,
                            ![r].found = Answers(LibAt(r), {T[i][1] : i \in DOMAIN T}, known)]
  /\ UNCHANGED <<db, holder, store, outlived, edits, lost>>

\* Bug: the works that held a game when the transaction began.
HolderBefore(d, g) ==
  {x.work : x \in {y \in db.external : y.namespace = "igdb" /\ y.value = g}}
Holder(d, g) == {x.work : x \in {y \in d.external : y.namespace = "igdb" /\ y.value = g}}

(* `_vouch_epic`: the links on the work that led here, those of the item   *)
(* or on Epic of the namespace, and no other.                              *)
LedHere(d, c, w) == {e \in On(d, w) : Lib[e] = Lib[c] /\ AskedAs(e) = AskedAs(c)}
Vouch(d, c, w) == [d EXCEPT !.vouched = @ \cup LedHere(d, c, w)]

AnchorOne(d, c, w, g) ==
  Vouch([d EXCEPT !.external = @ \cup {External("igdb", g, w)}, !.anchor[w] = g], c, w)

(* `_anchor`, for one target.  Two works that take a single_source field   *)
(* from different sources (MergeConflictError) both stand, and the next    *)
(* target is taken; today each such field has one source, and none do.     *)
(* Of any other merge refused, or a work that is gone, the exception ends  *)
(* the transaction.                                                        *)
Settle(acc, p, found, newer) ==
  LET c == p[1]
      w == p[2]
      g == found[c]
      H == Holder(acc.db, g)
      t == CHOOSE t \in H : TRUE
      Settled(d) == [acc EXCEPT !.db = d, !.settled = @ \cup {w}]
  IN IF g = None \/ w \in acc.settled \/ acc.failed THEN acc
     ELSE IF H = {} /\ w \in acc.db.works THEN Settled(AnchorOne(acc.db, c, w, g))
     ELSE IF H # {} /\ Mergeable(acc.db, w, t)
          THEN IF c \in Conflicting THEN acc ELSE Settled(Vouch(Folded(acc.db, w, t, newer), c, t))
     ELSE [acc EXCEPT !.failed = TRUE]

Anchored(r, newer) ==
  LET T == igdb[r].targets
      acc[n \in 0..Len(T)] ==
        IF n = 0 THEN [db |-> db, settled |-> {}, failed |-> FALSE]
        ELSE Settle(acc[n - 1], T[n], igdb[r].found, newer)
  IN acc[Len(T)]

Release(r) == holder' = IF holder = r THEN None ELSE holder
Ended(r) == igdb' = [igdb EXCEPT ![r] = Rest]

Anchor(r) ==
  /\ igdb[r].step = "fetched"
  /\ \E newer \in BOOLEAN :
       LET a == Anchored(r, newer)
       IN IF a.failed
          THEN Ended(r) /\ Release(r) /\ UNCHANGED db
          ELSE /\ db' = a.db
               /\ igdb' = [igdb EXCEPT ![r] = [Rest EXCEPT !.step = "anchored", !.at = igdb[r].at]]
               /\ UNCHANGED holder
  /\ UNCHANGED <<store, outlived, edits, lost>>

Onward(r) ==
  IF igdb[r].at < Len(Chain)
  THEN igdb' = [igdb EXCEPT ![r] = [Rest EXCEPT !.step = "read", !.at = igdb[r].at + 1]]
       /\ UNCHANGED holder
  ELSE Ended(r) /\ Release(r)

(* `_collect_orphans`, after the steps that go by store id alone.  Of the  *)
(* works nothing reaches, those the user has said something of would be    *)
(* missed as well (`_worth_keeping`).                                      *)
Orphans(d) == {w \in d.works : On(d, w) = {} /\ ~IsMatched(d, w) /\ Children(d, w) = {}}

Collect(r) ==
  /\ igdb[r].step = "anchored" /\ LibAt(r) # "epic"
  /\ \E missed \in SUBSET Orphans(db) : db' = Deleted(db, Orphans(db) \ missed)
  /\ IF LibAt(r) = "steam" THEN Onward(r)
     ELSE igdb' = [igdb EXCEPT ![r].step = "collected"] /\ UNCHANGED holder
  /\ UNCHANGED <<store, outlived, edits, lost>>

(* `_without_steam_appid`: those works, each with a game it is filed under.*)
Wanted(d) ==
  {x.work : x \in {y \in d.external : y.namespace = "igdb"}}
    \ ({d.link[c] : c \in {x \in Copies : Lib[x] = "steam"}}
       \cup {x.work : x \in {y \in d.external : y.namespace = "steam"}})
WantedGames(d) ==
  {f \in [Wanted(d) -> Games] : \A w \in Wanted(d) : External("igdb", f[w], w) \in d.external}

Want(r) ==
  /\ igdb[r].step = IF LibAt(r) = "epic" THEN "anchored" ELSE "collected"
  /\ LibAt(r) # "steam"
  /\ IF Wanted(db) = {} THEN Onward(r)
     ELSE /\ \E f \in WantedGames(db) :
               igdb' = [igdb EXCEPT ![r].step = "wanted", ![r].wanted = f]
          /\ UNCHANGED holder
  /\ UNCHANGED <<db, store, outlived, edits, lost>>

(* `_record_steam_appids`, what of it is written: an appid one work has is *)
(* no other's, and of two that want it the first to be asked about has it. *)
NewAppids(d, f) ==
  (UNION {Appids[f[w]] : w \in DOMAIN f})
    \ {x.value : x \in {y \in d.external : y.namespace = "steam"}}
Owners(d, f) ==
  {own \in [NewAppids(d, f) -> DOMAIN f] : \A a \in DOMAIN own : a \in Appids[f[own[a]]]}
Recorded(d, own) ==
  [d EXCEPT !.external = @ \cup {External("steam", a, own[a]) : a \in DOMAIN own}]

RecordAppids(r) ==
  /\ igdb[r].step = "wanted"
  /\ \E own \in Owners(db, igdb[r].wanted) : db' = Recorded(db, own)
  /\ Onward(r)
  /\ UNCHANGED <<store, outlived, edits, lost>>

(* The provider fails, the task is cancelled, the process dies.            *)
Fail(r) ==
  /\ igdb[r].step # "idle" /\ lost < MaxLost
  /\ Ended(r) /\ Release(r)
  /\ lost' = lost + 1
  /\ UNCHANGED <<db, store, outlived, edits>>

(* A run an hour old, the hour spent asking, is taken for dead and goes on.*)
Outlive(r) ==
  /\ holder = r /\ igdb[r].step \in {"fetched", "wanted"} /\ lost < MaxLost
  /\ holder' = None
  /\ outlived' = TRUE
  /\ lost' = lost + 1
  /\ UNCHANGED <<db, igdb, store, edits>>

-----------------------------------------------------------------------------
(* The steam_store run: `classify_steam_items`.                            *)
StoreRead ==
  /\ store.step = "idle"
  /\ store' = [step |-> "fetched",
               targets |-> [c \in {x \in Held(db) : Lib[x] = "steam"} |-> db.link[c]]]
  /\ UNCHANGED <<db, igdb, holder, outlived, edits, lost>>

(* `_record`: a work that is gone is an error, and the batch with it; the  *)
(* last app the store answers for is a work's kind.                        *)
StoreRecord(known) ==
  /\ store.step = "fetched"
  /\ LET T == store.targets
         told == known \cap DOMAIN T
     IN db' = IF {T[c] : c \in told} \subseteq db.works
              THEN [db EXCEPT !.spoke = Heard(@, told, T, [c \in told |-> c])]
              ELSE db
  /\ store' = Unread
  /\ UNCHANGED <<igdb, holder, outlived, edits, lost>>

-----------------------------------------------------------------------------
MatchingInit ==
  /\ db = Empty
  /\ igdb = [r \in Runs |-> Rest]
  /\ holder = None
  /\ store = Unread
  /\ outlived = FALSE
  /\ edits = 0 /\ lost = 0

Libraries == {Lib[c] : c \in Copies} \ {"manual"}
Of(lib) == {c \in Copies : Lib[c] = lib}

MatchingNext ==
  \/ \E lib \in Libraries : \E listed \in Listings \cap SUBSET Of(lib) : Land(lib, listed)
  \/ \E c \in Copies : Restore(c) \/ LetGo(c) \/ Enter(c) \/ TakeBack(c)
  \/ \E r \in Runs :
       \/ Begin(r) \/ Anchor(r) \/ Collect(r) \/ Want(r) \/ RecordAppids(r) \/ Fail(r) \/ Outlive(r)
       \/ \E known \in Filings : Read(r, known)
  \/ StoreRead
  \/ \E known \in Filings : StoreRecord(known)

(* Syncs come back on their schedule and queue both steps again; what IGDB *)
(* files and the store answers for, a run is some day told.                *)
Fairness ==
  /\ \A r \in Runs :
       /\ WF_matchingVars(Begin(r)) /\ WF_matchingVars(Anchor(r)) /\ WF_matchingVars(Collect(r))
       /\ WF_matchingVars(Want(r)) /\ WF_matchingVars(RecordAppids(r))
       /\ WF_matchingVars(\E known \in Filings : Read(r, known))
       /\ \A i \in DOMAIN Chain : SF_matchingVars(igdb[r].at = i /\ Read(r, Keys))
  /\ WF_matchingVars(StoreRead) /\ WF_matchingVars(\E known \in Filings : StoreRecord(known))
  /\ SF_matchingVars(StoreRecord(Keys) /\ store.targets # <<>>)

MatchingSpec == MatchingInit /\ [][MatchingNext]_matchingVars /\ Fairness

-----------------------------------------------------------------------------
(* A game has one work and a store id one owner, whatever landed, was      *)
(* merged or was anchored by another run since the targets were read:      *)
(* igdb_id names a row of the work's own, and a work with such a row is    *)
(* never taken for unmatched.  As long as no run outlives its claim the    *)
(* row is the only one, the copy of it that igdb_id is meant to be.        *)
OneWorkPerGame ==
  /\ \A x, y \in db.external :
       x.namespace = y.namespace /\ x.value = y.value => x.work = y.work
  /\ \A w \in Ids :
       IsMatched(db, w) => External("igdb", db.anchor[w], w) \in db.external
  /\ \A x \in db.external :
       x.namespace = "igdb" =>
         IsMatched(db, x.work) /\ (outlived \/ db.anchor[x.work] = x.value)

(* Nothing names a work that is gone: links, editions, parents, the claims *)
(* behind them, external ids, kinds; a copy's edition is its work's own,   *)
(* no add-on is its own parent, and every work is reached by a copy, save  *)
(* what a run that outlived its claim has anchored in passing.             *)
NothingDangles ==
  /\ \A c \in Held(db) : db.link[c] \in db.works /\ db.edition[c] = db.link[c]
  /\ \A x \in db.external : x.work \in db.works
  /\ \A w \in Ids :
       /\ db.parent[w] = db.claim[w] /\ db.parent[w] \in (db.works \cup {0}) \ {w}
       /\ IF w \in db.works THEN On(db, w) # {} \/ (outlived /\ IsMatched(db, w))
          ELSE db.parent[w] = 0 /\ db.spoke[w] = None /\ db.anchor[w] = None

(* A work's playtime is the sum over the copies that are its own and not   *)
(* removed (schema.md), after every landing, restore, merge and deletion.  *)
PlaytimeIsTheSum == \A w \in db.works : db.total[w] = Played(db, w)

(* Rule 6: as long as no run outlives its claim, a copy is never on a work *)
(* anchored to another game than the copy is of, and a link is vouched for *)
(* by a hard id only where the id leads to the work's own game.            *)
AnchorsAreRight ==
  ~outlived =>
    /\ \A c \in Held(db) : db.anchor[db.link[c]] \in {None, Game[c]}
    /\ \A c \in db.vouched : c \in Held(db) /\ db.anchor[db.link[c]] = Game[c]

(* What is anchored stays: the work is not deleted and never unmatched     *)
(* again, a copy on it is on no other work until it is taken back, and, as *)
(* long as no run outlives its claim, its game does not change.            *)
AnchorsStay ==
  [][\A w \in db.works :
       IsMatched(db, w) =>
         /\ w \in db'.works /\ IsMatched(db', w)
         /\ outlived' \/ db'.anchor[w] = db.anchor[w]
         /\ On(db, w) \cap Held(db') \subseteq On(db', w)]_matchingVars

(* Two copies that IGDB files under one game end on one work, in whatever  *)
(* order they landed, were classified and were anchored, and though a run  *)
(* was lost on the way.  Of two Epic copies that are both titled as their  *)
(* namespace's game (an edition's item, another account's copy) neither is *)
(* anchored while both are unmatched (`_epic_anchors`), so this does not   *)
(* speak of them; nor of a copy whose merge is refused.                    *)
Filed ==
  {c \in Copies \ Conflicting :
     Lib[c] # "manual" /\ Game[c] # None /\ (Lib[c] = "epic" => Titled(c, Copies))}
GamesMeet ==
  \A c, e \in Filed :
    Game[c] = Game[e] =>
      ({c, e} \subseteq Held(db)) ~> (db.link[c] = db.link[e])

=============================================================================
