----------------------------- MODULE Enrichment -----------------------------
(***************************************************************************)
(* What follows a sync: the enrichment steps (steps.py), each one run of   *)
(* its provider (enrichment.py).                                           *)
(*                                                                         *)
(* A run is claimed like a sync's, but commits as it goes: each batch of   *)
(* answers is stored in fetch_cache as it arrives, what the step learns is *)
(* recorded batch by batch, and the close rolls nothing back.  Several     *)
(* tasks run chains of steps at once, one per sync that landed, and a      *)
(* client waits on `Scheduled`, which counts the steps they have queued.   *)
(*                                                                         *)
(* A step is taken as one read of its targets, one fetch and one           *)
(* recording, also where it is several of them in a row (`chained`).       *)
(***************************************************************************)
EXTENDS Integers, Sequences, SequencesExt, FiniteSetsExt

CONSTANTS
  Tasks,       \* enrich_after_sync calls, and requests for one step
  SteamItems,  \* items a Steam sync may land
  OtherItems,  \* items an Epic or a GOG sync may land
  None,        \* no run is open
  Orphan,      \* holds a run that no task is left to finish
  Configured,  \* steps this instance is set up for
  Knows,       \* Knows[s]: items the provider of s has something to say about
  BatchSize,   \* keys asked about at a time
  Varied,      \* bound: steps asked for by hand, and whose answers grow too old
  MaxOrphans   \* bound: rows left running at a time

Items == SteamItems \cup OtherItems

ASSUME TasksAssumption == IsFiniteSet(Tasks)
ASSUME ItemsAssumption == IsFiniteSet(Items) /\ SteamItems \cap OtherItems = {}
ASSUME HoldersAssumption == None \notin Tasks /\ Orphan \notin Tasks /\ None # Orphan
ASSUME ConfiguredAssumption == "steam_store" \in Configured
ASSUME BatchAssumption == BatchSize \in Nat \ {0}
ASSUME BoundsAssumption == MaxOrphans \in Nat

VARIABLES
  \* The database.
  library,   \* items that syncs have landed
  open,      \* open[s]: who holds the running sync_run of the step's provider
  cache,     \* cache[s]: items whose answer is stored, be it that there is none
  stale,     \* stale[s]: items whose stored answer is older than max_age
  told,      \* told[s]: items the step has recorded provenance for
  \* Scheduled.
  queued,
  running,
  \* The tasks.
  pc,
  plan,      \* the steps the task has before it, the one it is at first
  asking,    \* the keys it has still to ask for, or those it is asking for
  wanted,    \* wanted[t]: its targets
  outcome,   \* how its run is going to be closed
  byHand,    \* tasks that are a request for one step, and queue nothing
  \* Bookkeeping.
  landed     \* landed[t]: what its sync landed, as long as all its runs succeed

database == <<library, open, cache, stale, told>>
scheduled == <<queued, running>>
locals == <<asking, wanted, outcome>>
vars == <<library, open, cache, stale, told, queued, running, pc, plan,
          asking, wanted, outcome, byHand, landed>>

-----------------------------------------------------------------------------
Steps == {"steam_store", "igdb", "rawg"}

\* Bug: every library is followed by the steps in the order of STEPS.
FollowsInOrder(key) == <<"steam_store", "igdb", "rawg">>

(* Steam's items are classified before they are matched; the others come   *)
(* with their kind, and the store is asked about appids IGDB gives.        *)
FOLLOWS(key) ==
  IF key = "steam" THEN <<"steam_store", "igdb", "rawg">>
  ELSE <<"igdb", "steam_store", "rawg">>

(* plan_after_sync: the store can always be asked, the others need a key.  *)
Planned(key) ==
  LET follows == FOLLOWS(key)
      IfSetUp(s) == IF s \in Configured THEN <<s>> ELSE <<>>
  IN IfSetUp(follows[1]) \o IfSetUp(follows[2]) \o IfSetUp(follows[3])

(* Items the step's reading of the library finds something to ask about.   *)
Targets(s) ==
  {i \in library :
     CASE s = "steam_store" -> i \in SteamItems \/ i \in told["igdb"]
       [] s = "igdb"        -> i \in OtherItems \/ i \in told["steam_store"]
       [] OTHER             -> i \in told["igdb"]}

InRun == {"reading", "asked", "recording", "closing"}

TypeOK ==
  /\ library \in SUBSET Items
  /\ open \in [Steps -> Tasks \cup {None, Orphan}]
  /\ cache \in [Steps -> SUBSET Items]
  /\ stale \in [Steps -> SUBSET Items]
  /\ told \in [Steps -> SUBSET Items]
  /\ \A s \in Steps : stale[s] \subseteq cache[s] /\ told[s] \subseteq cache[s] \cap Knows[s]
  /\ queued \in [Steps -> Nat]
  /\ running \in [Steps -> Nat]
  /\ pc \in [Tasks -> {"idle", "due", "opening"} \cup InRun]
  /\ \A t \in Tasks : plan[t] \in Seq(Steps) /\ (pc[t] = "idle" <=> plan[t] = <<>>)
  /\ asking \in [Tasks -> SUBSET Items]
  /\ wanted \in [Tasks -> SUBSET Items]
  /\ outcome \in [Tasks -> {"none", "success", "failed", "broken"}]
  /\ byHand \in SUBSET Tasks
  /\ landed \in [Tasks -> SUBSET Items]

Nothing == [t \in Tasks |-> {}]

Init ==
  /\ library = {}
  /\ open = [s \in Steps |-> None]
  /\ cache = [s \in Steps |-> {}]
  /\ stale = [s \in Steps |-> {}]
  /\ told = [s \in Steps |-> {}]
  /\ queued = [s \in Steps |-> 0]
  /\ running = [s \in Steps |-> 0]
  /\ pc = [t \in Tasks |-> "idle"]
  /\ plan = [t \in Tasks |-> <<>>]
  /\ asking = Nothing
  /\ wanted = Nothing
  /\ outcome = [t \in Tasks |-> "none"]
  /\ byHand = {}
  /\ landed = Nothing

-----------------------------------------------------------------------------

OneLess(counts, steps) ==
  [s \in Steps |-> IF s \in steps /\ counts[s] > 0 THEN counts[s] - 1 ELSE counts[s]]

OneMore(counts, steps) == [s \in Steps |-> counts[s] + IF s \in steps THEN 1 ELSE 0]

\* Bug: the names are a set, and the first to be done with one takes it off.
DoneAsSet(t, steps, next) ==
  IF t \in byHand THEN UNCHANGED scheduled
  ELSE /\ queued' = [s \in Steps |-> IF s \in steps THEN 0 ELSE queued[s]]
       /\ running' = OneMore(OneLess(running, steps), next)

(* Scheduled.done, and the start of the next step that follows at once.    *)
Done(t, steps, next) ==
  IF t \in byHand THEN UNCHANGED scheduled
  ELSE /\ queued' = OneLess(queued, steps)
       /\ running' = OneMore(OneLess(running, steps), next)

Forget(t) ==
  /\ asking' = [asking EXCEPT ![t] = {}]
  /\ wanted' = [wanted EXCEPT ![t] = {}]
  /\ outcome' = [outcome EXCEPT ![t] = "none"]

(* The step is over, and the next one is started at once.  A run that did  *)
(* not succeed leaves what the sync landed to a later one.                 *)
StepEnds(t, succeeded) ==
  LET s == Head(plan[t])
      rest == Tail(plan[t])
  IN /\ plan' = [plan EXCEPT ![t] = rest]
     /\ IF rest = <<>>
          THEN Done(t, {s}, {}) /\ pc' = [pc EXCEPT ![t] = "idle"]
          ELSE Done(t, {s}, {Head(rest)}) /\ pc' = [pc EXCEPT ![t] = "opening"]
     /\ byHand' = IF rest = <<>> THEN byHand \ {t} ELSE byHand
     /\ landed' = IF rest = <<>> \/ ~succeeded THEN [landed EXCEPT ![t] = {}] ELSE landed
     /\ Forget(t)

(* An exception takes the rest of the chain with it.                       *)
ChainEnds(t) ==
  /\ Done(t, Range(plan[t]), {})
  /\ plan' = [plan EXCEPT ![t] = <<>>]
  /\ pc' = [pc EXCEPT ![t] = "idle"]
  /\ byHand' = byHand \ {t}
  /\ landed' = [landed EXCEPT ![t] = {}]
  /\ Forget(t)

-----------------------------------------------------------------------------
(* A sync lands, and what follows it is queued before it answers.          *)
Land(t, key, new) ==
  /\ pc[t] = "idle"
  /\ new # {}
  /\ new \subseteq (IF key = "steam" THEN SteamItems ELSE OtherItems)
  /\ library' = library \cup new
  /\ plan' = [plan EXCEPT ![t] = Planned(key)]
  /\ queued' = OneMore(queued, Range(Planned(key)))
  /\ pc' = [pc EXCEPT ![t] = "due"]
  /\ landed' = [landed EXCEPT ![t] = new]
  /\ UNCHANGED <<open, cache, stale, told, running, locals, byHand>>

(* POST /enrichment/{provider}: one step, which Scheduled never hears of.  *)
Click(t, s) ==
  /\ pc[t] = "idle"
  /\ s \in Configured \cap Varied
  /\ plan' = [plan EXCEPT ![t] = <<s>>]
  /\ pc' = [pc EXCEPT ![t] = "opening"]
  /\ byHand' = byHand \cup {t}
  /\ UNCHANGED <<database, scheduled, locals, landed>>

(* enrich_after_sync begins, in the job or behind the answer.              *)
Begin(t) ==
  /\ pc[t] = "due"
  /\ running' = OneMore(running, {Head(plan[t])})
  /\ pc' = [pc EXCEPT ![t] = "opening"]
  /\ UNCHANGED <<database, queued, plan, locals, byHand, landed>>

\* Bug: the claim does not look for an open run.
FreeAlways(s) == TRUE

(* _open: no run may be open, but an orphan is reclaimed once it is older  *)
(* than ORPHAN_AFTER, which no run still going gets.                       *)
Free(s) == open[s] \in {None, Orphan}

Open(t) ==
  LET s == Head(plan[t]) IN
    /\ pc[t] = "opening"
    /\ Free(s)
    /\ open' = [open EXCEPT ![s] = t]
    /\ pc' = [pc EXCEPT ![t] = "reading"]
    /\ UNCHANGED <<library, cache, stale, told, scheduled, plan, locals, byHand, landed>>

(* EnrichmentInProgressError: the step is skipped, or answered 409.        *)
Busy(t) ==
  /\ pc[t] = "opening"
  /\ open[Head(plan[t])] # None
  /\ StepEnds(t, FALSE)
  /\ UNCHANGED database

Orphans == {s \in Steps : open[s] = Orphan}

(* An exception between the claim's commit and the try around the step.    *)
OpenLost(t) ==
  LET s == Head(plan[t]) IN
    /\ pc[t] = "opening"
    /\ Free(s)
    /\ Cardinality(Orphans \ {s}) < MaxOrphans
    /\ open' = [open EXCEPT ![s] = Orphan]
    /\ ChainEnds(t)
    /\ UNCHANGED <<library, cache, stale, told>>

(* What a step does next with something still to ask, something to record, *)
(* or neither.                                                             *)
GoesOn(t, targets, left, record) ==
  /\ wanted' = [wanted EXCEPT ![t] = IF left # {} THEN targets ELSE {}]
  /\ asking' = [asking EXCEPT ![t] = IF left # {} THEN left ELSE record]
  /\ pc' = [pc EXCEPT ![t] = IF left # {} THEN "asked"
                             ELSE IF record # {} THEN "recording" ELSE "closing"]
  /\ outcome' = [outcome EXCEPT ![t] = IF left \cup record = {} THEN "success" ELSE "none"]

(* The step reads what to ask about, and _cached what is answered already. *)
(* The first batch is asked for; no transaction is open.                   *)
ReadTargets(t) ==
  LET s == Head(plan[t]) IN
    /\ pc[t] = "reading"
    /\ GoesOn(t, Targets(s), Targets(s) \ (cache[s] \ stale[s]), Targets(s) \cap Knows[s])
    /\ UNCHANGED <<database, scheduled, plan, byHand, landed>>

NextBatch(t) ==
  CHOOSE batch \in SUBSET asking[t] :
    Cardinality(batch) = Min({BatchSize, Cardinality(asking[t])})

(* _store: every key of the batch has a row, null where the provider has   *)
(* nothing under it.                                                       *)
Stored(s, batch) == cache[s] \cup batch

(* The answer to a batch arrives and is stored, and the next is asked for. *)
Store(t) ==
  LET s == Head(plan[t])
      batch == NextBatch(t)
  IN /\ pc[t] = "asked"
     /\ cache' = [cache EXCEPT ![s] = Stored(s, batch)]
     /\ stale' = [stale EXCEPT ![s] = @ \ batch]
     /\ GoesOn(t, wanted[t], asking[t] \ batch, wanted[t] \cap Knows[s])
     /\ UNCHANGED <<library, open, told, scheduled, plan, byHand, landed>>

(* _record: provenance, a transaction per batch of works.                  *)
Record(t) ==
  /\ pc[t] = "recording"
  /\ told' = [told EXCEPT ![Head(plan[t])] = @ \cup NextBatch(t)]
  /\ GoesOn(t, {}, {}, asking[t] \ NextBatch(t))
  /\ UNCHANGED <<library, open, cache, stale, scheduled, plan, byHand, landed>>

(* The step is left with its run to be closed as failed.                   *)
LeavesStep(t, end) ==
  /\ asking' = [asking EXCEPT ![t] = {}]
  /\ wanted' = [wanted EXCEPT ![t] = {}]
  /\ outcome' = [outcome EXCEPT ![t] = end]
  /\ pc' = [pc EXCEPT ![t] = "closing"]
  /\ UNCHANGED <<database, scheduled, plan, byHand, landed>>

(* A ProviderError, which is a status.                                     *)
Fail(t) == pc[t] = "asked" /\ LeavesStep(t, "failed")

(* Anything else: a bug in the step, keys it never asked for, a            *)
(* cancellation.                                                           *)
Break(t) == pc[t] \in InRun \ {"closing"} /\ LeavesStep(t, "broken")

(* _close, which rolls nothing back.                                       *)
Close(t) ==
  LET s == Head(plan[t]) IN
    /\ pc[t] = "closing"
    /\ open' = IF open[s] = t THEN [open EXCEPT ![s] = None] ELSE open
    /\ \/ outcome[t] # "broken" /\ StepEnds(t, outcome[t] = "success")
       \/ outcome[t] = "broken" /\ ChainEnds(t)
    /\ UNCHANGED <<library, cache, stale, told>>

(* _close raises: its row stays open.                                      *)
CloseLost(t) ==
  LET s == Head(plan[t]) IN
    /\ pc[t] = "closing"
    /\ Cardinality(Orphans) < MaxOrphans
    /\ open' = IF open[s] = t THEN [open EXCEPT ![s] = Orphan] ELSE open
    /\ ChainEnds(t)
    /\ UNCHANGED <<library, cache, stale, told>>

-----------------------------------------------------------------------------
(* The process is killed and started again: tasks and Scheduled are gone.  *)
Kill ==
  /\ Cardinality({s \in Steps : open[s] # None}) <= MaxOrphans
  /\ open' = [s \in Steps |-> IF open[s] = None THEN None ELSE Orphan]
  /\ queued' = [s \in Steps |-> 0]
  /\ running' = [s \in Steps |-> 0]
  /\ pc' = [t \in Tasks |-> "idle"]
  /\ plan' = [t \in Tasks |-> <<>>]
  /\ asking' = Nothing
  /\ wanted' = Nothing
  /\ outcome' = [t \in Tasks |-> "none"]
  /\ byHand' = {}
  /\ landed' = Nothing
  /\ UNCHANGED <<library, cache, stale, told>>

(* max_age has passed for what a provider answered.                        *)
Expire(s) ==
  /\ s \in Varied
  /\ stale' = [stale EXCEPT ![s] = cache[s]]
  /\ UNCHANGED <<library, open, cache, told, scheduled, pc, plan, locals,
                 byHand, landed>>

Step(t) ==
  \/ Begin(t) \/ Open(t) \/ Busy(t) \/ OpenLost(t)
  \/ ReadTargets(t) \/ Store(t) \/ Record(t)
  \/ Fail(t) \/ Break(t) \/ Close(t) \/ CloseLost(t)

Next ==
  \/ \E t \in Tasks, key \in {"steam", "epic"}, new \in SUBSET Items : Land(t, key, new)
  \/ \E t \in Tasks, s \in Steps : Click(t, s)
  \/ \E t \in Tasks : Step(t)
  \/ \E s \in Steps : Expire(s)
  \/ Kill

Spec == Init /\ [][Next]_vars

-----------------------------------------------------------------------------
(* What a client waits on is what there is to wait for: a step is queued   *)
(* once for every chain that has it before it, however many chains there   *)
(* are and however they end, and none reads as running that is not.        *)
CountsAreTrue ==
  \A s \in Steps :
    /\ queued[s] = Cardinality({t \in Tasks \ byHand : s \in Range(plan[t])})
    /\ running[s] <= Cardinality({t \in Tasks \ byHand :
                                    pc[t] \notin {"idle", "due"} /\ Head(plan[t]) = s})

(* A provider is asked about a key again only when its answer has grown    *)
(* too old, whichever chain or click asked first and however its run       *)
(* ended (ADR-0019): what a run has still to ask is not answered already,  *)
(* nor by somebody else meanwhile.                                         *)
AskedOnce ==
  \A t \in Tasks :
    pc[t] = "asked" =>
      LET s == Head(plan[t]) IN asking[t] \cap cache[s] \subseteq stale[s]

(* The order FOLLOWS gives is enough: a chain whose runs all succeed has   *)
(* taken everything its sync landed through every step this instance has   *)
(* that finds something to ask about it, those that could only ask after   *)
(* another one included.                                                   *)
ChainReaches ==
  [][\A t \in Tasks :
       outcome[t] = "success" /\ Len(plan[t]) = 1 /\ pc'[t] = "idle" =>
         \A s \in Steps \cap Configured :
           \A i \in Targets(s) \cap landed[t] :
             i \in cache[s] /\ (i \in Knows[s] => i \in told[s])]_vars

=============================================================================
