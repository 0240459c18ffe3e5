------------------------------- MODULE Covers -------------------------------
(***************************************************************************)
(* The covers of anchored works: files on disk and the rows that name them *)
(* (ludarium/covers.py; served by api/images.py, listed by api/works.py).  *)
(* The two are not written together.  A run reads what is there, writes    *)
(* files, names them in one transaction and unlinks what no row names; it  *)
(* may fail, die or be taken for dead at any of these points, what it was  *)
(* downloading may go on without it, and a user may delete a file.         *)
(***************************************************************************)
EXTENDS Naturals, FiniteSets, FiniteSetsExt, SequencesExt

CONSTANTS
  Works, Pictures, None,
  First,       \* the cover IGDB names for a work to begin with
  Later,       \* the ones it may name after that
  Lacking,     \* the files its image server never had
  Droppable,   \* the ones it may lose
  Runs,        \* tasks that run the step
  MaxRow,      \* bound: the highest id of a row
  MaxChanges,  \* bound: what IGDB and the user change
  MaxLost      \* bound: downloads that fail and are met again, deaths, runs taken for dead

ASSUME WorksAssumption == IsFiniteSet(Works)
ASSUME CoverAssumption ==
  /\ First \in [Works -> Pictures \cup {None}]
  /\ Later \in [Works -> SUBSET (Pictures \cup {None})]
ASSUME RunsAssumption == None \notin Runs
ASSUME BoundAssumption == {MaxRow, MaxChanges, MaxLost} \subseteq Nat

Sizes == <<"cover_big", "cover_big_2x">>
Path(p, i) == [picture |-> p, size |-> Sizes[i]]
Paths == {Path(p, i) : p \in Pictures, i \in DOMAIN Sizes}
BothSizes(p) == {Path(p, i) : i \in DOMAIN Sizes}

VARIABLES
  anchored,  \* the works there is a game for
  igdb,      \* the cover IGDB names for each, and the files it no longer has
  cache,     \* what fetch_cache holds of that
  disk,      \* the files under covers/igdb, and those still named .partial
  rows, lastId, \* of image_asset, and the highest id it has given
  run,       \* each run: what it does next and what it has read
  tasks,     \* the downloads under way, with the run that waits for them
  holder,    \* the run that has the claim of the igdb provider
  browser,   \* the file a browser keeps under each row's URL
  tainted,   \* whether a run went on after its claim was taken, or a user deleted a file
  changes, lost

vars == <<anchored, igdb, cache, disk, rows, lastId, run, tasks, holder, browser, tainted,
          changes, lost>>

Rest == [step |-> "idle", wanted |-> [w \in {} |-> None], missing |-> {}, got |-> {}, kept |-> {}]
Row(id, w, path) == [id |-> id, work |-> w, path |-> path]
Task(r, p, i, written) == [run |-> r, picture |-> p, at |-> i, written |-> written]

TypeOK ==
  /\ anchored \subseteq Works
  /\ disk.files \cup disk.partial \subseteq Paths
  /\ \A x \in rows : x.id \in 1..lastId /\ x.work \in anchored /\ x.path \in Paths
  /\ \A r \in Runs : run[r].step \in {"idle", "read", "fetched", "downloading", "recorded", "sweeping"}
  /\ \A t \in tasks : t.run \in Runs \cup {None} /\ t.picture \in Pictures
  /\ holder \in Runs \cup {None}

-----------------------------------------------------------------------------
(* What the world does.                                                    *)
(* IGDB names another cover, or its image server drops one file.           *)
Changed(f) == changes < MaxChanges /\ igdb' = f /\ changes' = changes + 1
IgdbChanges ==
  /\ \/ \E w \in Works : \E p \in Later[w] : Changed([igdb EXCEPT !.cover[w] = p])
     \/ \E path \in Droppable : Changed([igdb EXCEPT !.dropped = @ \cup {path}])
  /\ UNCHANGED <<anchored, cache, disk, rows, lastId, run, tasks, holder, browser, tainted, lost>>

UserDeletes(path) ==
  /\ path \in disk.files /\ changes < MaxChanges
  /\ disk' = [disk EXCEPT !.files = @ \ {path}]
  /\ tainted' = TRUE
  /\ changes' = changes + 1
  /\ UNCHANGED <<anchored, igdb, cache, rows, lastId, run, tasks, holder, browser, lost>>

-----------------------------------------------------------------------------
(* The steps before this one anchor more works.                            *)
(* What a failed run left behind takes seconds and the next sync is hours  *)
(* away: a run that meets it is counted with what goes wrong.              *)
Strays == {t \in tasks : t.run = None}
Begin(r, more) ==
  /\ run[r].step = "idle" /\ holder = None
  /\ IF Strays = {} THEN UNCHANGED lost ELSE lost < MaxLost /\ lost' = lost + 1
  /\ holder' = r
  /\ anchored' = anchored \cup more
  /\ run' = [run EXCEPT ![r] = [Rest EXCEPT !.step = "read"]]
  /\ UNCHANGED <<igdb, cache, disk, rows, lastId, tasks, browser, tainted, changes>>

(* `_anchored`, and the answers kept for MAX_AGE: of those that are older, *)
(* or were never had, IGDB is asked again.                                 *)
Fetch(r, stale) ==
  /\ run[r].step = "read"
  /\ LET asked == {w \in anchored : w \in stale \/ cache[w] = "unasked"}
         answers == [w \in Works |-> IF w \in asked THEN igdb.cover[w] ELSE cache[w]]
         named == {w \in anchored : answers[w] # None}
     IN /\ cache' = answers
        /\ run' = [run EXCEPT ![r].step = "fetched", ![r].wanted = [w \in named |-> answers[w]]]
  /\ UNCHANGED <<anchored, igdb, disk, rows, lastId, tasks, holder, browser, tainted, changes, lost>>

(* `_missing`: of the files rows name, those on disk, against both sizes.  *)
NamedPaths(w) == {x.path : x \in {y \in rows : y.work = w}}
HeldPaths(w) == NamedPaths(w) \cap disk.files
\* Bug: a row is taken for its file.
Unnamed(wanted) == {w \in DOMAIN wanted : NamedPaths(w) # BothSizes(wanted[w])}
Missing(wanted) == {w \in DOMAIN wanted : HeldPaths(w) # BothSizes(wanted[w])}

(* `_download` begins: one task an image, and none where nothing is amiss. *)
Compare(r) ==
  /\ run[r].step = "fetched"
  /\ LET M == Missing(run[r].wanted)
     IN /\ run' = [run EXCEPT ![r].step = "downloading", ![r].missing = M]
        /\ tasks' = tasks \cup {Task(r, run[r].wanted[w], 1, FALSE) : w \in M}
  /\ UNCHANGED <<anchored, igdb, cache, disk, rows, lastId, holder, browser, tainted, changes, lost>>

(* A download that fails fails its run, and gather lets the others go on:  *)
(* they are nobody's.                                                      *)
Abandoned(T, r) == {IF t.run = r THEN [t EXCEPT !.run = None] ELSE t : t \in T}
RunFails(r, T) ==
  /\ run' = IF r = None THEN run ELSE [run EXCEPT ![r] = Rest]
  /\ holder' = IF r # None /\ holder = r THEN None ELSE holder
  /\ tasks' = IF r = None THEN T ELSE Abandoned(T, r)

(* `igdb.image`, and `_write` up to the .partial.                          *)
Receive(t) ==
  LET path == Path(t.picture, t.at)
  IN /\ t \in tasks /\ ~t.written
     /\ IF path \in igdb.dropped
        THEN tasks' = tasks \ {t} /\ UNCHANGED disk
        ELSE /\ disk' = [disk EXCEPT !.partial = @ \cup {path}]
             /\ tasks' = (tasks \ {t}) \cup {[t EXCEPT !.written = TRUE]}
     /\ UNCHANGED <<anchored, igdb, cache, rows, lastId, run, holder, browser, tainted, changes, lost>>

(* os.replace, after which comes the next size.  The .partial may be gone: *)
(* renamed by the other download of the file, or swept.                    *)
Onward(t) ==
  IF t.at = Len(Sizes) THEN {} ELSE {Task(t.run, t.picture, t.at + 1, FALSE)}

Rename(t) ==
  LET path == Path(t.picture, t.at)
      rest == tasks \ {t}
  IN /\ t \in tasks /\ t.written
     /\ IF path \in disk.partial
        THEN /\ disk' = [files |-> disk.files \cup {path}, partial |-> disk.partial \ {path}]
             /\ tasks' = rest \cup Onward(t)
             /\ run' = IF t.run = None THEN run ELSE [run EXCEPT ![t.run].got = @ \cup {path}]
             /\ UNCHANGED holder
        ELSE RunFails(t.run, rest) /\ UNCHANGED disk
     /\ UNCHANGED <<anchored, igdb, cache, rows, lastId, browser, tainted, changes, lost>>

DownloadFails(t) ==
  /\ t \in tasks /\ ~t.written /\ t.run # None /\ lost < MaxLost
  /\ RunFails(t.run, tasks \ {t})
  /\ lost' = lost + 1
  /\ UNCHANGED <<anchored, igdb, cache, disk, rows, lastId, browser, tainted, changes>>

-----------------------------------------------------------------------------
(* AUTOINCREMENT: an id is never handed out again.                         *)
\* Bug: SQLite's own choice, one above the highest there is.
AboveHighest(R, last) == Max({x.id : x \in R} \cup {0})
LastGiven(R, last) == last

(* The works whose cover came whole.                                       *)
\* Bug: a size that came is recorded without the other.
AtAnySize(r) == {w \in run[r].missing : BothSizes(run[r].wanted[w]) \cap run[r].got # {}}
Fetched(r) == {w \in run[r].missing : BothSizes(run[r].wanted[w]) \subseteq run[r].got}

(* `_record`: their old rows out and the new ones in.                      *)
Left(W) == {x \in rows : x.work \notin W}
New(r, W, last) ==
  LET order == SetToSeq(W)
      made(k, i) == Row(last + Len(Sizes) * (k - 1) + i, order[k], Path(run[r].wanted[order[k]], i))
  IN {x \in {made(k, i) : k \in DOMAIN order, i \in DOMAIN Sizes} : x.path \in run[r].got}

(* A browser looks at everything, and looks only once under a URL.         *)
Looked(R) ==
  [i \in 1..MaxRow |->
     IF browser[i] # None \/ \A x \in R : x.id # i THEN browser[i]
     ELSE (CHOOSE x \in R : x.id = i).path]

Record(r) ==
  /\ run[r].step = "downloading" /\ \A t \in tasks : t.run # r
  /\ LET W == Fetched(r)
         last == LastGiven(Left(W), lastId)
         end == last + Len(Sizes) * Cardinality(W)
     IN /\ end <= MaxRow
        /\ rows' = Left(W) \cup New(r, W, last)
        /\ lastId' = end
  /\ browser' = Looked(rows')
  /\ run' = [run EXCEPT ![r] = [Rest EXCEPT !.step = "recorded"]]
  /\ UNCHANGED <<anchored, igdb, cache, disk, tasks, holder, tainted, changes, lost>>

(* `_sweep`: what the rows name is read before the directory is.           *)
\* Bug: what this run wanted is what there should be.
CurrentOnly(R) == UNION {BothSizes(cache[w]) : w \in {v \in anchored : cache[v] \in Pictures}}
Kept(R) == {x.path : x \in R}

SweepRead(r) ==
  /\ run[r].step = "recorded"
  /\ run' = [run EXCEPT ![r].step = "sweeping", ![r].kept = Kept(rows)]
  /\ UNCHANGED <<anchored, igdb, cache, disk, rows, lastId, tasks, holder, browser, tainted,
                 changes, lost>>

\* Bug: a file still named .partial is none of the sweep's.
JpegsOnly(d, kept) == [d EXCEPT !.files = @ \cap kept]
Swept(d, kept) == [files |-> d.files \cap kept, partial |-> {}]

Sweep(r) ==
  /\ run[r].step = "sweeping"
  /\ disk' = Swept(disk, run[r].kept)
  /\ run' = [run EXCEPT ![r] = Rest]
  /\ holder' = IF holder = r THEN None ELSE holder
  /\ UNCHANGED <<anchored, igdb, cache, rows, lastId, tasks, browser, tainted, changes, lost>>

-----------------------------------------------------------------------------
(* A run an hour old, most of it spent downloading, is taken for dead.     *)
Outlive(r) ==
  /\ holder = r /\ run[r].step = "downloading" /\ lost < MaxLost
  /\ holder' = None
  /\ tainted' = TRUE
  /\ lost' = lost + 1
  /\ UNCHANGED <<anchored, igdb, cache, disk, rows, lastId, run, tasks, browser, changes>>

(* The process dies; its claim is taken when it is old enough.             *)
Die ==
  /\ lost < MaxLost /\ (tasks # {} \/ \E r \in Runs : run[r].step # "idle")
  /\ run' = [r \in Runs |-> Rest]
  /\ tasks' = {} /\ holder' = None
  /\ lost' = lost + 1
  /\ UNCHANGED <<anchored, igdb, cache, disk, rows, lastId, browser, tainted, changes>>

Init ==
  /\ anchored = {}
  /\ igdb = [cover |-> First, dropped |-> Lacking]
  /\ cache = [w \in Works |-> "unasked"]
  /\ disk = [files |-> {}, partial |-> {}]
  /\ rows = {} /\ lastId = 0
  /\ run = [r \in Runs |-> Rest]
  /\ tasks = {}
  /\ holder = None
  /\ browser = [i \in 1..MaxRow |-> None]
  /\ tainted = FALSE
  /\ changes = 0 /\ lost = 0

Next ==
  \/ IgdbChanges
  \/ \E path \in disk.files : UserDeletes(path)
  \/ \E r \in Runs :
       \/ Compare(r) \/ Record(r) \/ SweepRead(r) \/ Sweep(r) \/ Outlive(r)
       \/ \E more \in SUBSET (Works \ anchored) : Begin(r, more)
       \/ \E stale \in SUBSET Works : Fetch(r, stale)
  \/ \E t \in tasks : Receive(t) \/ Rename(t) \/ DownloadFails(t)
  \/ Die

(* A sync queues the step again, a run goes on, and so does what another   *)
(* left behind; an answer grows older than MAX_AGE.  Not that a run taken  *)
(* for dead goes on.                                                       *)
Proceeds(r) ==
  \/ Begin(r, {}) \/ Compare(r) \/ Record(r) \/ SweepRead(r) \/ Sweep(r)
  \/ \E stale \in SUBSET Works : Fetch(r, stale)
  \/ \E t \in tasks : t.run = r /\ (Receive(t) \/ Rename(t))
Fairness ==
  /\ WF_vars(\E r \in Runs : Proceeds(r))
  /\ SF_vars(\E r \in Runs : Fetch(r, Works))
  /\ WF_vars(\E t \in Strays : Receive(t) \/ Rename(t))

Spec == Init /\ [][Next]_vars /\ Fairness

-----------------------------------------------------------------------------
(* A URL shows one picture for good: what a browser was once handed under  *)
(* a row's id is what the row names now, though rows were replaced, and by *)
(* two runs at once.                                                       *)
SameUrlSamePicture == \A x \in rows : browser[x.id] = x.path

(* The grid's srcset does not lie: a work has no cover, or one picture at  *)
(* both sizes.                                                             *)
PairsWhole ==
  \A w \in Works : NamedPaths(w) # {} => \E p \in Pictures : NamedPaths(w) = BothSizes(p)

(* What a row names can be served at every moment, through failed runs and *)
(* deaths, as long as no two runs overlapped and no user deleted a file.   *)
FilesBehindRows == ~tainted => {x.path : x \in rows} \subseteq disk.files

(* Whatever was lost, died, overlapped or changed, a cover that IGDB names *)
(* and has comes to be on disk and stays.                                  *)
Whole(p) == BothSizes(p) \cap igdb.dropped = {}
Shown(w) == igdb.cover[w] # None /\ Whole(igdb.cover[w]) => HeldPaths(w) = BothSizes(igdb.cover[w])
CoversSettle == <>[](\A w \in anchored : Shown(w))

(* And what no row names does not stay: again and again nothing else is    *)
(* under covers/igdb, not even a half-written file.                        *)
NothingLeftOver == []<>(disk.partial = {} /\ disk.files \subseteq {x.path : x \in rows})
=============================================================================
