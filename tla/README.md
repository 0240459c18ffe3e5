# Ludarium in TLA+

Ludarium keeps one library of the games a person owns on several platforms. It
is a FastAPI application over SQLite, one process, one event loop
(`src/backend/src/ludarium/`; file names below are relative to it). This
directory holds TLA+ modules of its core, the TLC runs that check them on small
instances, and proofs that TLAPS checks for every value of the constants.

Rules of the project (`src/docs/schema.md` and the decisions beside it) that most
properties are about:

- rule 1: nothing a platform says, or fails to say, deletes what the owner has;
- rule 3: what the owner says stands over what a platform says;
- rule 4: one source that fails does not stop the others;
- rule 5: where sources say different things of one field, a fixed ladder decides;
- rule 6: a false match is worse than a missed one, so works are merged on a hard
  id only, and every merge is on record.

## 1. Inventory

### Where concurrency comes from

Every request and every scheduler job is a task of one event loop. A task can be
interrupted at every `await`: other tasks then run whole transactions. `db.py`
opens a writing transaction with `BEGIN IMMEDIATE`, so transactions that write
do not interleave, but everything read in one transaction and used in a later
one, or read into a session's instances and used after another session's commit
(`expire_on_commit=False`), may be stale. Asking a platform is never part of a
transaction, with one exception (`connect`). A job is cancelled at shutdown, a
request is not; a process can be killed between any two statements, and what was
not committed is then gone. What is on disk (covers) is written outside any
transaction, and two pieces of state live in memory only: the counters a client
waits on and the rate limiter of the IGDB client.

### Components

| Component | State | Operations | Modelled by |
|---|---|---|---|
| Library sync, one run (`sync.py`) | rows of `sync_run`, entitlements, their removal and `kept_at` | claim, ask, land, close, reclaim; restore and let go (`api/entitlements.py`) | SyncRun, OwnedCopies |
| Syncing a platform (`api/sync.py`, `schedule.py`, `api/accounts.py`) | accounts, stored credentials, `provider.status` | endpoint loop, scheduled job, switch on and off, connect | PlatformSync |
| Play queue and user state (`queue.py`, `api/works.py`) | `user_work_state`: status and place | update state, move, renumber | PlayQueue |
| Merging (`merging.py`) | works, `match_audit` and its undo payloads | merge, undo a merge, delete works | WorkMerge (state of the user), Matching (copies, links, parents), Resolver (provenance) |
| Provenance and resolver (`resolver.py`) | `field_provenance`, cached columns | record, resolve, withdraw, fold | Resolver |
| Matching (`matching.py`) | `external_id`, `work.igdb_id`, links, parents | anchor, merge duplicates, collect orphans, record appids | Matching |
| Enrichment (`enrichment.py`, `steps.py`) | runs without an account, `fetch_cache`, counters of queued and running steps | claim, fetch a batch, store, close; queue steps after a sync | Enrichment |
| Manual entries (`api/manual.py`) | entitlements of the manual account, the user's rows of provenance | create, edit, remove | Matching (stubs), Resolver (rows), WorkMerge (deletions) |
| Covers (`covers.py`, `api/images.py`) | files under `covers/igdb`, `image_asset` | compare, download, record, sweep, serve | Covers |
| IGDB client (`providers/igdb.py`, `tokens.py`) | semaphore, start times, tokens in hand and stored | query, retry, mint, wait, cancel | IgdbClient |
| Listing (`api/works.py`, `filters.py`, `sorting.py`) | none; a cursor in the client's hands | page, filter, fold add-ons | ListingOrder, Listing |
| Details, Metacritic, reviews (`details.py`, `metacritic.py`, `reviews.py`) | provenance of matched works | one fetch, one write | as steps of Enrichment; values in Resolver |
| Ingest (`ingest.py`) | derived accounts | apply a report | not modelled yet: see section 2 |
| Saved views (`api/views.py`) | names, order | create, rename, reorder, delete | not modelled: single short transactions |
| Sign-in, crypto, config, seed, demo, frontend, migrations, the other provider clients | | | not modelled; `PROJECT.json` gives the reason for each |

### How they interact

A sync request or job loops over the accounts of a platform (PlatformSync), each
through one call of `sync_account` (SyncRun). A run that lands makes a stub for
every new copy (Matching) and a state row for it, writes what the platform says
into provenance (Resolver), and queues enrichment steps behind it (Enrichment).
The `igdb` step, through the IGDB client, anchors stubs to games and folds a stub
into the work that holds its game (Matching); folding moves or combines the
user's state (WorkMerge over PlayQueue) and both works' provenance (Resolver).
A later step fetches the covers of what is anchored (Covers). The user's requests
write state rows, entitlements, accounts and manual entries at any moment in
between, and a client walks the listing (Listing) while all of it changes.
`undo_merge` has no caller in the application yet: it is a function the tests
use, and is modelled as an operation that may come at any time.

Each module keeps of its neighbours what its own properties can tell apart: a
merge is three small models of one function, each with the tables that
interact, rather than one too large to check. The actions say which.

### What is hard here

`PROJECT.json` lists each hazard with its line and the properties aimed at it.
In short:

- a claim is an insert under a partial unique index, and the question "who is in
  the way?" is asked in another transaction than the collision;
- a run that is only slow looks like one whose process died, and goes on after
  its claim was taken;
- a listing, or the targets of a step, are read long before they are used, and the
  owner or another run acts in between;
- a run is closed in a `_close` that may itself be cancelled or refused the lock;
- a platform that replaces a credential each time it is used turns every lost
  write of it into an account that cannot sign in;
- a session compares what it wants to write with what it read before others wrote;
- a renumbering of a queue, and moving the winner of a field, are several row
  writes under constraints that are checked at each of them;
- the undo of a merge is a record applied long after the state it recorded;
- ids of deleted works are handed out again (`image_asset`'s are not, on purpose);
- several chains of enrichment steps run at once over the same providers, and what
  a client waits on is a pair of counters that each of them adds to and takes from;
- files and the rows that name them are two stores without a common transaction;
- a wait for a slot, for the window or for a token may be cancelled at any point;
- the pages of a listing, and the two statements of one page, see different
  libraries.

What makes each component correct is said property by property in section 3.

## 2. Plan

Done, with their proofs: SyncRun with OwnedCopies; PlatformSync; PlayQueue and
WorkMerge; Enrichment; Resolver; Matching; Covers; IgdbClient; ListingOrder and
Listing. Every safety and action property that a passing run checks has its
theorem.

What is left, the most useful first:

1. PlatformSync composed with Enrichment: `api/sync.py:163` answers 409 for one
   account and drops what was to follow the accounts that have landed, where the
   docstring of the same function has enrichment follow once any account synced.
2. Ingest over SyncRun: a report's account is committed before its run is opened
   (`ingest.py:190`), and the user connects it or switches it off in between.
3. The undo of a merge for what WorkMerge leaves out: provenance, editions and
   links put back from the payload.
4. `chained` steps one by one in Enrichment, and a run of a step that outlasts
   `ORPHAN_AFTER` there as it does in Matching and Covers.
5. An abstract matching (each copy on a stub or on its game's work, anchored once)
   that Matching implements as long as claims hold, from the invariant of
   CatalogueProofs; and the proofs of what items 1 to 4 add.

Modules are written to be proved about: constants with named assumptions, one
action per operation, no RECURSIVE operator. Definitions marked `Bug:` in a
comment are the plausible mistakes PROJECT.json exchanges for the real
definition, to show that a property notices; nothing else refers to them.

## 3. Modules, runs and what they show

Every passing run is finite because each unbounded counter has a bound, declared
as a constant with a comment that starts with `bound:`. `CHECK_DEADLOCK FALSE`
is set where exhausting such bounds ends a behaviour.

### SyncRun (refines OwnedCopies)

One call of `sync_account` is a task going through `pc`:

| pc | where the code is |
|---|---|
| idle | not in `sync_account` |
| recheck | the insert collided; `_open` is about to ask who is in the way |
| fetch | the claim is committed, the platform is being asked |
| fetched | the answer is there, no transaction is open |
| applied | `_apply` has flushed; the write lock is held |
| failing | the rollback of a failed run is done, its `_close` is to commit |

`last`, `account`, `status` and `overdue` are the rows of `sync_run`, `copies`
the entitlements, `draft` what the open transaction has made of them. `mine` is
the run a task opened. Start, Collide, Busy, Retry are `_open`; Fetch is
`fetch_library`; Apply and CloseLanded are one transaction; Fail and CloseFailed
are the other; CloseLost and OpenCancelled are the places where an exception
leaves no row finished; Kill is the process; Age is `ORPHAN_AFTER` going by;
Restore and LetGo are the owner's.

An answer is a set of listed items with two flags (whole, entries that could not
be read); titles, playtimes and the creation of works and stubs are left out
here (Matching has them), and so is everything the sweep's batches do one after
another, which are inside one transaction.

| Run | Instance | Shows |
|---|---|---|
| sync_run | 2 accounts, 2 items, a job and a request, 3 runs, 1 kill, SlowRuns FALSE | OneWriterPerAccount, LandsInOrder, FinishedIsFinal, ImplementsOwnedCopies |
| sync_run_slow | 1 account, 1 item, 3 runs, 2 kills, SlowRuns TRUE, fairness | RemovalsOwnedBySuccess, KeptIsLive, RemovalIsJustified, EveryRunFinishes |

Bounds: a property about order needs two runs of one account, a reclaim needs a
third; a sweep beside a listed item needs two items; two accounts show that
nothing crosses from one to the other. The removal properties are about one copy
of one account, which a run lists or does not. Two kills let two rows be orphaned
and reclaimed before the last one, which the bound leaves nothing to reclaim
with and EveryRunFinishes excludes.

SlowRuns is the one assumption that splits the properties. With FALSE a run past
`ORPHAN_AFTER` has no task any more, which is what the comment on the constant
says it is chosen for; then runs of an account never overlap. With TRUE a run can be
reclaimed under its task, both then land, and OneWriterPerAccount, LandsInOrder
and FinishedIsFinal do not hold; what the owner is promised still does, and is
checked and proved for both values.

Fairness (`FairSpec`): weak fairness of what a called task does next (the HTTP
client's timeout bounds the fetch, `busy_timeout` the lock), of the clock, and
of a job starting a run of each account (the scheduler's interval comes round).
Nothing is assumed of requests, of the owner or against kills; kills are bounded.

### PlatformSync

Above `sync_account`: a request keeps one session for its whole loop, a job opens
one per account, and `held` and `seen` are what those sessions' instances still
say. `Expired` is an instance expired by the collision's rollback, which raises
when it is read. A credential is a number; the platform issues one at sign-in
and one with every use, and `spent` are those it will refuse. `lost` is a history
variable: accounts whose newest credential died with the task that held it.
SyncRun's fetch and landing are one step here and only how the run ended matters;
two runs of an account do not overlap, which SyncRun shows.

| Run | Shows |
|---|---|
| platform_sync | StoredCredentialWorks, FailureShows, FailureStays |
| platform_sync_off | **violated**: OffStopsEverySync |

Bounds: two accounts (a loop needs a later one), one request and one job (one of
each session discipline), three credentials (one sign-in each and a renewal, or
one account with two renewals, or a sign-in that overtakes a renewal), outcomes
success and failed. A partial run lands as a successful one does and only ranks
between the two in the summary; `Summary` has it, the instance does not. This is
the largest instance: 1.6 million states. What a landed sync queues is in Enrichment.

### PlayQueue and WorkMerge

PlayQueue has the state of one user for every work (`play`, `place`, with 0 for
NULL), the transaction that is changing it (`pass`, `left`, `lift`, `goal`) and
what is committed (`saved`). `_write` first lifts every row past the highest
place and then puts each where it goes; the order in which the rows reach
SQLite within a pass is the ORM's, so LiftRow and NumberRow take any row that is
left. Enqueue, Leave, Mark and Move are the two requests of `api/works.py`, Drop
is the part of `delete_works` the queue sees. Rollback may come at every step.

WorkMerge adds the works there are and the trail of `merged` rows. Merge is
`merge_work`: MergeStates has the three cases of `_merge_states` (no row on the
source, a row moved whole, two rows made one), Recorded is the payload. Undo is
`undo_merge`, with its refusals (undone already, folded away since, target gone)
and `_unmerge_states`. The restored work gets any free id, so ids of deleted
works come back, as they do in SQLite. NewWork is a stub of a sync. The matcher
commits several merges in one transaction; here each is one of its own.
`MCWorkMerge` adds one history variable, the works that had a state row at the
start.

| Run | Instance | Shows |
|---|---|---|
| work_merge | 3 works, 1 anchored, 2 merges, 2 other operations | GoneIsGone, NeverCollides, CommittedDense, UndoPutsBothBack, RowsComeBack, OthersKeepTheirOrder |

Bounds: three works are the least with a merge and a bystander, or a chain of two
merges (the case `_folded_since` is for); every dense queue over them is an
initial state, so long histories of requests are not needed to reach one.

Left out of the state: rating, notes, favourite, hidden and the dates (a merge
fills them like `play_status`, by the same loop), and several users (rows of two
users never meet in any of this code).

### Resolver

`rows` is `field_provenance` as the open transaction has it, `column` the cached
columns of the works, `kept` what is committed. Every flush of a transaction is a
step, because the partial unique indexes are checked at each: Record is
`record_entities`; Clear and Mark are the two flushes of `resolve` (the columns
with the old winners cleared, then the new winners marked); Withdraw deletes a
row of the user's and resolves the field again; Fold, Unmark and MoveRows are the
three flushes of `_fold_provenance`. `tx.step` is the flush the transaction is
at, `tx.by` whose it is. Report, Edit, Forget, Delete and Create say who writes
what: a provider's run, the user's form (what it says and what it leaves empty),
an entry taken back with or without its work, and a stub under an id that may
have been another work's. Rollback goes back to `kept` from any step.

`Candidates` is the decision: the user before everyone, then the field's strategy
(`single_source`, `precedence`, `max`), then the ladder of source kinds, the
provider's weight and the newest. Where rows are equal the database's order decides, and
any of them may be taken.

| Run | Instance | Shows |
|---|---|---|
| resolver | 2 works, one field of each strategy, the user and 3 sources, two of them on one rung, 3 writes | IndexesHold, ColumnsAreDecided, UserStands |

Bounds: two works are a merge's; three writes are the least where a source's
statement is overtaken by another and then by the user, or where both works of a
merge carry statements of one source and a third stands beside them; a source
says something of one field at a time (`MaxAsserted`), which reaches every set
of rows several fields at once would, one field being decided by its own rows.

### Matching

`db` is what is committed (works, links, editions, live copies, totals, anchors,
parents with the provenance row behind each, kinds, external ids); the actions
are whole transactions over it. Land is `_apply` for a library: seen copies, a
stub per new copy, kinds, parents, the sweep, sums. Restore, LetGo, Enter and
TakeBack are the owner's. An igdb run goes through the steps of `_anchor` in
`steps.py` for Steam, Epic and GOG in turn, each of them

| step | what comes next |
|---|---|
| read | the targets are read (`_unmatched_games` and its Epic and GOG kin) and IGDB is asked |
| fetched | `anchor`: each target anchored, or folded into the work that holds its game |
| anchored | `_collect_orphans`, which Epic's step does not have, and the reading of works without an appid |
| collected | the reading of works without an appid (GOG) |
| wanted | `_record_steam_appids` |

and between any two of them everything else may happen. StoreRead and StoreRecord
are the steam_store run of another chain, which says which copies are games. Fail
is an error, a cancellation or a kill; Outlive takes the claim of a run that goes
on all the same. An id of a deleted work is handed out again as soon as no higher
one is left, as SQLite does without AUTOINCREMENT.

| Run | Instance | Shows |
|---|---|---|
| matching | 7 copies: a game and its GOTY on Steam, the game and its beta in one Epic namespace with an add-on, another game on GOG, a manual copy; 2 igdb runs | OneWorkPerGame, NothingDangles, PlaytimeIsTheSum, AnchorsAreRight, AnchorsStay |
| matching_live | the game on Steam, on Epic, and in another Epic namespace twice, titled alike; 4 ids, 1 run | GamesMeet |

Bounds: the copies are those the code distinguishes: two stores with one game,
two store items of one game, a namespace whose items are told apart by
title only, an add-on whose parent is folded under it, and a copy that can be taken back.
Three landings or requests, four ids and one lost run (620 thousand states) let an
id be reused between a run's reading and its writing. matching_live has 28 thousand
states.

GamesMeet is about the copies that are `Filed`: on Steam or GOG, or on Epic and the
only one titled as its namespace's game. Where two Epic works of a namespace are
both titled so and unmatched (another account's copy, an edition's own item),
`_epic_anchors` passes over both (`matching.py:466`), and in matching_live the two
that are titled alike stay stubs beside the pair that meets. One that lands before
the other is anchored.

`Conflicting` is a set of copies whose merge is refused (MergeConflictError): both
works stand, and the next target is taken. Two sources would have to hold a
`single_source` field, and each has one source today, so it is empty in the runs;
the theorems are for any. Vouch marks every link on the work that was asked about as
this one was: the item's, or on Epic the namespace's. Collect may leave any of the
works that nothing reaches: the user's state and manual rows, which `_worth_keeping`
keeps a work for, are in WorkMerge and Resolver.

A run reads its targets with the oldest work first and anchors them in that order,
each seeing what the ones before it did. Of the works that want one appid any may
be given it, since the query that finds them names no order.

A run that outlives its claim anchors by the ids it read, and another run may by
then have anchored the same works, or a deletion may have given an id to another
stub (`matching.py:221`). What then still holds is checked: no two works share an
igdb or a store id, no anchored work is unmatched, loses a copy or is deleted, nothing
names a work that is gone. What no longer holds has an `outlived` beside it:
`igdb_id` may be overwritten on a work that another run anchored, which then has
two igdb rows (ADR-0021 allows a work several), a copy may be on a work of
another game, and a work that only a manual copy was on may be anchored
and lose that copy. It is listed as a hazard and not as a
finding, since nothing in the repository says otherwise.

Fairness: weak for every step of a run (the queue of steps comes round with each
sync), strong for an answer in which IGDB, or the store, knows everything: what a
provider files it is some day asked about while it answers.

### Enrichment

`enrich_after_sync` is a task with a chain of steps before it (`plan`), the first
being the one it is at; a request for one step is a task with a chain of one that
`Scheduled` never hears of (`byHand`).

| pc | where the code is |
|---|---|
| idle | no task |
| due | queued behind the answer of the sync, not begun |
| opening | the step is started, `_open` is to claim its provider |
| reading | the claim is committed, the targets are being read |
| asked | a batch is being asked for, no transaction is open |
| recording | everything is answered, the next batch of works is to be recorded |
| closing | the step is left, `_close` is to commit |

Land is the end of a sync that landed; Begin is `start`; Open, Busy and OpenLost
are `_open`; ReadTargets and Store are `EnrichmentRun.fetch`; Fail is a
ProviderError and Break anything else, a cancellation included; StepEnds and
ChainEnds are the inner and the outer `finally`. A step that follows another is
started at once, in the same action. `open` is the running row of each provider,
`cache`, `stale` and `told` are `fetch_cache`, its age and the provenance a step
wrote, `queued` and `running` the two counters. `landed` is a history variable:
what a task's sync landed, until one of its runs does not succeed.

Who asks about what (`Targets`) is from the steps' own reading of the library: the
store about Steam's items and what IGDB gave an appid, IGDB about what is known to
be a game, RAWG about what IGDB matched. A step counts as one read, one fetch and
one recording; `chained` makes several of them one run. An item stands for every
key and row that is about it.

| Run | Instance | Shows |
|---|---|---|
| enrichment | 2 tasks, a Steam and an Epic item, batches of 1 | CountsAreTrue, AskedOnce, ChainReaches |

Bounds: two tasks are the least that meet in a provider, and with both kinds of
library their chains meet in opposite order. A batch of one makes two batches of
the two items, so a run can fail between them. Only `igdb` is asked for by hand
and only its answers age (`Varied`), one row at most is left running with no task
at a time (`MaxOrphans`), and RAWG knows one of the two items. 1.1 million states
up to the symmetry of the tasks, which no definition tells apart.

An orphan may be reclaimed or may still be in the way: its age is not modelled. A
run that outlasts `ORPHAN_AFTER` with its task still going is not either; SyncRun,
Matching and Covers have that case. ChainReaches is about chains whose runs all
succeed; a skipped step leaves its items to the next run, as the docstring says.
CountsAreTrue states of `running` only that it is not too high: a chain that ends
early takes its waiting steps off that count too (section "Known behaviours").

### Covers

`disk` are the files under `covers/igdb`, whole or still named `.partial`; `rows`
those of `image_asset`; `browser` is what a browser keeps under each row's URL,
which is served as immutable. A run of the step does Fetch (the works there is a
game for, and the answers `fetch_cache` keeps), Compare (`_missing` and the start
of `_download`), then the downloads, one task an image and both sizes one after
the other (Receive up to the `.partial`, Rename as `os.replace`), Record in one
transaction, SweepRead and Sweep. A download that fails ends its run, and
`asyncio.gather` lets the others go on: they become nobody's (`Strays`) and write
files under the feet of the next run. Outlive and Die are as in Matching.
IgdbChanges and UserDeletes are the world's.

| Run | Instance | Shows |
|---|---|---|
| covers | 2 works sharing a picture, 3 pictures of which one lacks a size, 2 runs, 1 change, 2 losses | SameUrlSamePicture, PairsWhole, FilesBehindRows, CoversSettle, NothingLeftOver |

Bounds: two works are the least that share a file, which a sweep for one must not
take from the other; two runs overlap; the third picture has one size only. Twenty
row ids are enough for every change and loss: a run that found none left would stop,
and CoversSettle would fail. FilesBehindRows is stated as long as no two runs
overlapped and no user deleted a file (`tainted`); CoversSettle says that even then
it comes right.

Fairness: weak for some run going on (a sync queues the step again) and for
what a failed run left downloading; strong for a Fetch that asks everything
afresh, since answers grow older than `MAX_AGE`. Not that a run taken for dead
goes on. A run meeting strays counts as a loss: downloads take seconds and the
next run of the step is hours away, so it happens, but not for ever.

### IgdbClient

Queries of the clients of one application, which share a limiter and a stored
token. `task[t].at` is where a query waits: for its client's lock (`token`), with
it reading the store, minting or saving (`load`, `mint`, `save`), for a slot, for
the lock of the start times, asleep with it, or for the answer. `slots` is the
semaphore, `starts` the start times the limiter remembers and `sent` those there
really were. Rejected is 401 and asks for another token once; AskingFails and
MintFails are outages and refusals, tried again by tenacity or not; Cancel may
come at every wait and leaves what the query had. A token may come near its end
by the clock or be refused by IGDB (TokenEnds).

| Run | Instance | Shows |
|---|---|---|
| igdb_client | 2 queries of 1 client, 2 slots, 2 starts a second of 2 ticks, 2 attempts, 1 end, 2 troubles | WindowKept, NoSlotLost, FewTokens, EveryQueryEnds |

Bounds: two queries contend for every lock, and the window of two fills because
an idle query asks again while earlier starts are still remembered. Four tokens are
as many as FewTokens allows once a token has ended and both troubles are used; at
any moment before it allows fewer than there are, so a mint without cause shows.
Fairness: the clock weakly; each query strongly, because
asyncio's semaphore and locks are first come, first served.

### ListingOrder and Listing

ListingOrder has the keyset of `sorting.py`: a position is the value an order
compares, the title's key and the id; Before is `order_by`, After is the predicate
of a cursor, two expressions of the code kept as two operators. Listing has which
works have a card (hidden, search and kind, add-ons folded under their game) and
a client that walks the pages: Start, Read and Answer (a page's rows and its
copies are two statements), Follow with the cursor and an order, which is refused
if the order is another (400) or the cursor too long (422). `CursorLength` is that
of the cursor at each work, which carries the work's whole key. Land, Withdraw,
Played and SetHidden change the library between two pages and between the two
statements; under SQLite a request's reads are one snapshot, so the second is the
case of another engine, which the code is prepared for. `stable` is a history
variable: the works that kept their card and their place since the walk began.

| Run | Instance | Shows |
|---|---|---|
| listing | a game, its add-on and two titles with one key; 1 to a page, 3 changes, 4 orders, 2 views; at the add-on a cursor too long by one step of base64 | MetOnceInTurn, EveryOwnedFound |

MetOnceInTurn says that no page repeats, skips or is the last too early. It does
not say that each page can be asked for: a walk that is refused in the middle has met
what was before its cursor and no more, and a cursor that the API itself issued may
be refused (section "Known behaviours").

Bounds: a page of one puts a boundary between any two rows; the equal keys need the
id to tell them apart, one work has no state row and so no value to order by; every
owned subset of the four works is an initial state. An add-on's game is not itself
an add-on, which is what the platforms say and ParentAssumption states.

### Findings

`schedule.py:152` and `api/sync.py:158`, run platform_sync_off: an account
switched off while an earlier one is fetched is synced all the same. Both loops
read the list of active accounts once; `api/accounts.py:91` says that off stops
every sync of it, by hand or on the schedule.

### Known behaviours

Behaviours the models have because the code has them, which no property forbids
and a reader should know of:

- `api/works.py:52`: a `next_cursor` that the API issued may be refused. The cursor
  holds the whole `sort_key`, escaped as JSON and put in base64 (`_cursor`,
  `works.py:270`), and the endpoint takes 256 characters (`works.py:99`). A key of
  about 155 ASCII letters, or 25 of another script, at the end of a page is more than
  that, and a title entered by hand may have 300 (`api/manual.py:40`). The walk then
  ends in a 422 with the rest of the library unread, though the comment at
  `works.py:392` wants the listing to always advance and
  `tests/test_works_api.py:569` (a_cursor_longer_than_any_we_issue_is_refused) has
  the bound above every cursor that is issued. Follow is that step.
- `matching.py:466`: of two unmatched Epic works of one namespace that are both titled
  as its game, as when two accounts own it and both land before the step, neither is
  anchored, now or by a later run.
- `sync.py:172`: the claim and the last close stand outside the `try` that
  finishes a run, so a cancellation or a lock that is not had leaves a run
  `running` with no process killed. The next sync reclaims it (EveryRunFinishes).
- `sync.py:468`: a close that computes the value its session had read writes
  nothing; the platform keeps what another session wrote meanwhile. FailureShows
  and FailureStays say what remains true.
- `sync.py:284`: the second claim goes on with a credential that the run in its
  way may have spent.
- `merging.py:198`: two merges into one work may be undone first to last, and the
  places are then not what they were; RowsComeBack says what is put back all the
  same. What the user chose for the target since a merge is overwritten by
  `target_before` (`merging.py:821`), as the payload is defined.
- Rows of `match_audit` have no foreign key and keep naming a work that is deleted
  later; an id handed out again is then named by an old row.
- `steps.py:205`: a chain that ends early takes its waiting steps off the count of
  running ones too, and a step another sync is running reads as waiting.

## 4. Proofs

The proof modules hold for every set of accounts, items, tasks, copies, works,
sources or pictures, and for every bound. They assume what the modules' ASSUMEs say,
and TLC evaluates the same ASSUMEs on the instances:

- sets that are counted, sorted or searched for a best member are finite (works,
  tasks, clients, items, copies, sources); bounds and lengths are naturals;
- the markers for "nothing" (`None`, `Null`, `Orphan`) are none of the values they
  stand beside;
- of the code: the user is above every other source on the ladder; an add-on's
  game is not itself an add-on; copies have a place of their own in the order in
  which a landing makes stubs, only add-ons have a base game, which is of the same
  library, and an Epic copy titled as its namespace's game is a copy of that game.
  SyncRun's SlowRuns is a Boolean, and a theorem that needs it FALSE says so.

### SyncRunProofs

An invariant in layers, each inductive given the ones before it:

- Shape: types; rows are inserted in order; a task past `_open` holds exactly one
  row, of its own account, that is running or was reclaimed; one task at most is
  in a transaction. (ShapeHolds, TypeCorrect)
- DraftIsCurrent: what the open transaction holds is the listing applied to the
  copies on disk *now*. This is where the write lock comes in: the owner's requests
  are shut out between Apply and the commit, so a restore is never swept over.
  (KeptStaysLive, RemovalsAreJustified, Implements)
- a `success` row stays one and keeps its account, on which RemovalsBelongToSuccess
  rests.
- Unreclaimed, under `~SlowRuns`: no held row is overdue, and a row that is
  running is the newest of its account. (OneWriter, LandingsAreOrdered) A row that
  is finished is then no task's, and no close finds it (FinishedStays).

`Implements` is the refinement: initial states map to initial states, every step
to one landing, one restore, one let-go, or a stutter.

### PlatformSyncProofs

StoredCredentialWorks is not inductive: it says nothing of what sessions hold in
memory, and it is from there that a credential is used. `Apart` says that a
credential is one account's wherever it is: stored, held in any session's
instances, or on its way back as a renewal. So a run that spends what it holds
spoils no other account. `Exclusive` says that a run of an account is one task's,
which is in it, so of two sessions that hold one credential only one can be using
it. With ShapeOf (what a task has in hand at each point of its loop) and "an
active account is signed in" these are inductive; CredentialsKeepWorking follows.
FailuresShow and HealthKeepsFailures are action properties: of all actions only a
close writes `provider.status`, and what a close computes is the worst of the
newest finished runs, by cases on the summary.

### WorkMergeProofs

The properties of the queue are not inductive: in the middle of a renumbering the
places are neither dense nor in order. QueueInv says what they are. In the first
pass a row has its old place or its old place plus `lift`, and since `lift` is the
highest place in use those two ranges do not meet. In the second pass a row is above
`lift`, hence above n, or at its goal, and goals are 1..n and distinct. When it
ends every row is at its goal. That rests on lemmas about the operators, for every
finite queue: closing gaps keeps the works and gives 1..n (ClosedUpDense), an
insertion at any place keeps a dense queue dense (InsertAtDense), and the highest
place is at least n (HighestBounds), by counting.

MergeInv adds that a work that is gone has no state and no place, committed or not,
and that each row of the trail is one an undo can rely on (a place is recorded
with the status queued, target_before only has what the merge changed). From
MergeInvariant follow PlacesNeverCollide, CommittedQueueIsDense and
GoneWorksLeaveNothing.

OthersStayInOrder is about a commit, and a commit is many rows after the request.
OrderInv says of an open transaction that the places it is going to give (`Final`)
have the works that it shares with what is committed, and does not mean to move, in
the order in which they are committed. Closing gaps and inserting keep that order.

UndoPutsBack says of a merge that is written and not yet committed that an undo of
it would give back what is committed. UndoInv says that a merge in an open
transaction was made from what is committed (JustMerged): Outcome lists what
`_merge_states` may leave of the two rows and of the queue, and what of it the
payload has. From each of these the undo gives back both rows and the queue they
were in.

EveryRowComesBack is about any number of merges, all undone in any order that
`undo_merge` allows, each source under the id it had. RowsInv has
two parts. Forest: each work that is gone was folded into another by one merge that
stands, and a merge that folds another's target away takes along all that was
folded into that target. Accounts: a work has a row exactly if it had one at the
start or a merge into it that stands moved one there (`Owed`), and of those one at
most did (OneMover); the same of each work that is gone, as it was when it was
folded. With every merge undone there are no movers left, and who has a row
is who had one.

### CatalogueProofs

The proofs of Resolver and of Matching.

**Resolver.** IndexesHold is not inductive: marking a winner effective is safe only
because the flush before it cleared its field, and moving rows in a merge only
because the losers went first. `Flushes` carries what one flush has established to
the next: the winners are one to a field and nothing else in their fields is
effective (ClearedForWinners); the two works of a merge have no two rows of one
source, or of two rival sources, in one field (Folding), and none in play is
effective (Unmarked). `Kept` says the same of what a rollback restores.
IndexesAlwaysHold follows, for any strategies and any sources.

UserAlwaysStands is an action property across a whole transaction: its steps
change `rows`, and `kept` only at the commit. Standing is the invariant in
between: for all that the user had said at the last commit there is a row that
stands for it, on its work, on the work that one is being folded into, or on the
one it has become. Dated (times are never ahead of the clock, and of the user's
rows of one field no two of one time are on two works) is what makes "the later of
the two" keep one of the user's own statements.

ColumnsAreAlwaysDecided: in the middle of a transaction a column is not what its
strategy decides. DecidedInv says which those are: a field is Settled (its column
shows the effective row and that row is the best, or no row has a say and the
column is empty or the work's own) or it is Pending, in the set that the transaction has
yet to resolve, to mark or to fold. What a Clear chooses exists because a finite set
of rows has a best one, and remains the best when it is marked: Underway
says so of the winners between the two flushes, and that the column shows them already.

**Matching.** MatchingInv is one conjunction, which KeepsMatchingInv shows every
transaction to keep:

- Sound(db), whatever runs there are: links and editions agree (Links); parents are
  works there are, named by a claim, and no work's own (Family); external ids have
  one owner, a work that has an igdb row is matched, and a matched one has the row
  that its igdb_id names (Register); nothing is left at an id that is free, so that
  a reused id starts clean (Tidy); and an unmatched work is the stub of exactly one
  copy (Stubs).
- Summed(db): each total is that of the work's own copies.
- Asked and Promised, for each run: its answers are of copies that libraries list,
  and the works it is to give appids are there and matched.
- until a run outlives its claim, Exact(db), the stronger statements of
  AnchorsAreRight and of one igdb row to a work, and Claimed: a run that is under
  way is the holder, and each of its targets is still the unmatched stub that it
  read.

Stubs is what the properties do not say and the step from reading to anchoring
needs: folding a target away by its id takes no copy but the target's along. What
may come between the two transactions (landings, restores, deletions, the store's
run, the user) is Calm: it keeps anchors and vouched links, adds no igdb row, and
moves no copy but one that is let go with its entry or is put on a stub of its own.
Calm keeps Exact, Asked, Promised and Claimed, and is proved of each operation once.
The anchoring transaction takes one target after the other; it is followed target by
target (InTransaction, and OnTrack while claims hold), and that it ends well is by
the least target at which it would not. GamesHaveOneWork, NothingIsLeftDangling,
PlaytimeIsAlwaysTheSum and AnchorsAreTheCopies are read off MatchingInv;
AnchoredStays is shown of each operation beside it.

### EnrichmentProofs

TaskShape: each task has a chain before it, which names a step once (that
`plan_after_sync` gives such chains is PlannedIsChain, from concatenations), as long
as it is not idle. DataShape: a task in its run holds its provider's one open run,
so no one else stores under its step. Answered: of a run's targets only what it is
asking for can be missing from `fetch_cache`; this is what makes AskedOnce
inductive, and what a step records known and stored. Counted: the two
counters against the sets of tasks they count, by adding and removing one task at
a time (DoneIsCounted is the case that matters: a step ends and the next is started
at once, or a whole chain ends). Inductive puts them together;
CountsAreAlwaysTrue, NothingIsAskedTwice and TypesAreRight follow. The provider's
knowledge is any function and a batch any size.

ChainsReach says that a chain whose runs all succeeded leaves nothing undone about
what its sync landed. Each step looks at what the ones before it have recorded, so
the order matters: InOrder says that no step comes before one it needs (`Needs`),
and PlannedInOrder that what `plan_after_sync` gives is such a chain. Carried says
that the steps behind have done all there is to do (Covered) and that the one at
work leaves none of it out: what is asked about includes it, and what is known of it
is recorded or about to be. Other chains go on beside it, and only add (Grows), but
what they add could be a new target for a step that is behind. NeededBehind says
that it is not: what decides a step's targets was complete before the step began.

### CoversProofs

The argument of UrlsKeepTheirPicture is AUTOINCREMENT: ids of rows are distinct and
at most `lastId`, and nothing was ever seen under an id above it (IdsAreNew). New
rows are made above `lastId` only, so what a browser has under an id is from the
row that has it, or from one that is gone for good. CoversComeWhole needs in
addition that a run records a work only if both sizes of the picture it wanted
came (MissingIsWanted ties what a run downloads to what it wanted), and takes the
work's old rows out in the same transaction. Two runs may overlap, fail or die.

RowsAreServed is as long as nothing is `tainted`, and needs then what one run at a
time may rely on (Alone): what a run got is on disk until it records it, although
downloads of a failed run still write beside it; and what it read of the rows
before it sweeps are at least the files that they name by then.

### IgdbClientProofs

NoSlotLost with the shape of a query is inductive. Each action moves one query,
so it changes the set of those that hold a slot by that query or not at all
(OneQueryMoves), and CountIsKept does the three cases by counting. SlotsAreKept
holds for any number of queries, clients and slots.

WindowIsKept: the starts that the limiter remembers and that are younger than a
second are those that really began in it (Window), so it forgets none that IGDB
still counts, and lets a query begin only where the window has room.

TokensAreFew is an account. Each token minted, and each mint under way, is charged
to a client and a token that ended and is past (Spent: neither stored nor about to be
saved), or to a cancelled wait, or, while the stored token is one to be replaced
(Wanting), to a query that is at it (Accounted). A save makes the stored token a past
one, and with it pays for one query of each client: more cannot be at it, since a
client's lock lets one of its queries through (Counts).
TypesAreKept is the type invariant, with how long a query sleeps (Timed).

### ListingProofs

CursorReadsTheOrder: the predicate of a cursor is the order it pages on, read from
the other end, for all integer values, keys and ids and for unknown values.
OrderIsTotal and OrderIsTransitive: each order is a strict total order on the
positions of distinct works, so a page boundary is between two rows and a walk
only moves on. EveryOwnedIsFound: EveryOwnedFound for any library, in any state.

NoneIsMissed is about a whole walk, while the library changes under it, and about
one that is refused as far as it got; cursors may have any length. Walking says
where the walk is: the works met that may not be lost are in order and none is past
the cursor (MetInOrder), such a work at or before the cursor has been met
(BehindCursor), the page that is read is the next of them (RowsAscend, RowsAreAhead,
and PageIsFull: one that is not on it is past its last row and `more` is set), and a
walk that is done has met all (WholeWhenDone). That a page can be sorted at all, for
any order, is SortExists: any finite set of places of distinct works can be put in
order.

### Only model-checked

Liveness is out of the prover's reach, as is ENABLED: EveryRunFinishes, GamesMeet,
CoversSettle, NothingLeftOver and EveryQueryEnds are what TLC shows on the
instances. PlatformSync's OffStopsEverySync is false of the code (section "Findings").

Induction is not used as a rule, since no installed prover can instantiate the
library's induction theorems. Where the code loops or recurses (the targets of an
anchoring, the steps of a plan, the rows of a page) the proofs take the least index
at which a claim fails, or the first member of a finite set, and derive a
contradiction.

## 5. Not modelled

Section 1 and `PROJECT.json` name what has no module yet. Two hazards listed
there have no property: the 409 that drops what was to follow
(`api/sync.py:163`), and the account of a report that is committed
before its run (`ingest.py:190`). Of a run that outlives its claim and writes by an
id that has changed hands (`matching.py:221`), OneWorkPerGame and NothingDangles
say what still holds.

Within the modelled parts these are left out: APScheduler's own timing; the
several statements inside one transaction of a sync (nothing else sees them);
PostgreSQL, except where a page is read (the application runs on SQLite); the
strategies of the resolver that the code defers or refuses (`latest`,
`agent_only`, `user_only`) and the conversion of JSON values to columns; what the
undo of a merge does beyond the user's state; the comparison of titles, which is
a library's and a constant of Matching; companies, genres and editions a merge
moves beside what Matching has; and what a platform's answer says beyond which
items it lists, of what kind, with what playtime.
