----------------------------- MODULE IgdbClient -----------------------------
(***************************************************************************)
(* The IGDB client (ludarium/providers/igdb.py, with the token store of    *)
(* tokens.py): queries of several clients of one application, which share  *)
(* a limiter and the stored token.  A query gets a token under its         *)
(* client's lock, waits for a slot and for room in the last second, asks,  *)
(* and on 401 gets another token once; an outage and a full window are     *)
(* tried again.  Any wait may be cancelled.                                *)
(***************************************************************************)
EXTENDS Naturals, Sequences, FiniteSets, SequencesExt

CONSTANTS
  Tasks, Clients,
  PerSecond,   \* REQUESTS_PER_SECOND
  OpenAtOnce,  \* OPEN_REQUESTS
  Second,      \* ticks of the clock in one
  Attempts,    \* RETRY_ATTEMPTS
  None,
  MaxTokens,   \* bound: tokens Twitch issues
  MaxEnds,     \* bound: times a token ends
  MaxTroubles  \* bound: answers that are no answer, waits that are cancelled

ASSUME LimitAssumption == {PerSecond, OpenAtOnce, Second, Attempts} \subseteq Nat \ {0}
ASSUME TasksAssumption == IsFiniteSet(Tasks) /\ IsFiniteSet(Clients)
ASSUME NoneAssumption == None \notin Tasks \cup Clients \cup Nat
ASSUME BoundAssumption == {MaxTokens, MaxEnds, MaxTroubles} \subseteq Nat

Tokens == 1..MaxTokens

VARIABLES
  task,      \* each query: its client, where it waits, its token, the one rejected, its attempts
  slots,     \* the semaphore
  schedule,  \* who has the lock of the starts
  starts,    \* how long ago those requests began that are remembered
  sleeping,  \* ticks until the one with the lock looks again
  sent,      \* how long ago requests did begin, those of the last second
  minting,   \* who has each client's lock
  current,   \* the token each client has in hand
  stored,    \* and the one in the database
  issued,    \* tokens issued so far
  lapsing, revoked,  \* those near their end, and those IGDB takes no more
  troubles

limiter == <<slots, schedule, starts, sleeping, sent>>
tokens == <<minting, current, stored, issued, lapsing, revoked>>
vars == <<task, limiter, tokens, troubles>>

Idle == [at |-> "idle", client |-> None, token |-> None, rejected |-> None, attempt |-> 1]
WithSlot == {"lock", "asleep", "asking"}
WithMintLock == {"load", "mint", "save"}

TypeOK ==
  /\ task \in [Tasks -> [at : {"idle", "token", "slot"} \cup WithSlot \cup WithMintLock,
                         client : Clients \cup {None},
                         token : Tokens \cup {None}, rejected : Tokens \cup {None},
                         attempt : 1..Attempts]]
  /\ slots \in 0..OpenAtOnce
  /\ schedule \in Tasks \cup {None} /\ minting \in [Clients -> Tasks \cup {None}]
  /\ starts \in Seq(0..Second) /\ sleeping \in 0..Second
  /\ sent \in Seq(0..Second)
  /\ current \in [Clients -> Tokens \cup {None}] /\ stored \in Tokens \cup {None}
  /\ issued \in 0..MaxTokens /\ lapsing \cup revoked \subseteq 1..issued
  /\ troubles \in 0..MaxTroubles

Goes(t, at) == task' = [task EXCEPT ![t].at = at]
Ends(t) == task' = [task EXCEPT ![t] = Idle]

-----------------------------------------------------------------------------
(* query, and `_token`.                                                    *)
Query(t, c) ==
  /\ task[t].at = "idle"
  /\ task' = [task EXCEPT ![t].at = "token", ![t].client = c]
  /\ UNCHANGED <<limiter, tokens, troubles>>

(* A new run of a step makes a client of its own, with nothing in hand.    *)
NewClient(c) ==
  /\ current[c] # None /\ \A t \in Tasks : task[t].client # c
  /\ current' = [current EXCEPT ![c] = None]
  /\ UNCHANGED <<task, limiter, minting, stored, issued, lapsing, revoked, troubles>>

(* `_usable`: by the clock, and not the token just rejected.               *)
\* Bug: whoever was rejected replaces whatever there is.
NoneWhenRejected(k, rejected) == k # None /\ rejected = None /\ k \notin lapsing
Usable(k, rejected) == k # None /\ k # rejected /\ k \notin lapsing

(* With a token the lock is let go and the request goes on.                *)
Leaves(c) == minting' = [minting EXCEPT ![c] = None]
Takes(t, k) ==
  /\ Leaves(task[t].client)
  /\ current' = [current EXCEPT ![task[t].client] = k]
  /\ task' = [task EXCEPT ![t].at = "slot", ![t].token = k]

TakeMintLock(t) ==
  LET c == task[t].client
      k == current[c]
  IN /\ task[t].at = "token" /\ minting[c] = None
     /\ IF Usable(k, task[t].rejected) THEN Takes(t, k)
        ELSE /\ minting' = [minting EXCEPT ![c] = t]
             /\ Goes(t, "load")
             /\ UNCHANGED current
     /\ UNCHANGED <<limiter, stored, issued, lapsing, revoked, troubles>>

(* The store, which another client of the application may have written.    *)
LookInStore(t) ==
  /\ task[t].at = "load"
  /\ IF Usable(stored, task[t].rejected) THEN Takes(t, stored)
     ELSE Goes(t, "mint") /\ UNCHANGED <<minting, current>>
  /\ UNCHANGED <<limiter, stored, issued, lapsing, revoked, troubles>>

Mint(t) ==
  /\ task[t].at = "mint" /\ issued < MaxTokens
  /\ issued' = issued + 1
  /\ task' = [task EXCEPT ![t].at = "save", ![t].token = issued + 1]
  /\ UNCHANGED <<limiter, minting, current, stored, lapsing, revoked, troubles>>

Save(t) ==
  /\ task[t].at = "save"
  /\ stored' = task[t].token
  /\ Takes(t, task[t].token)
  /\ UNCHANGED <<limiter, issued, lapsing, revoked, troubles>>

-----------------------------------------------------------------------------
(* RequestLimiter.                                                         *)
TakeSlot(t) ==
  /\ task[t].at = "slot" /\ slots > 0
  /\ slots' = slots - 1
  /\ Goes(t, "lock")
  /\ UNCHANGED <<schedule, starts, sleeping, sent, tokens, troubles>>

(* The oldest first, without those at its head that are a second old.      *)
Younger(S) ==
  LET young == {i \in DOMAIN S : S[i] < Second}
  IN IF young = {} THEN <<>> ELSE SubSeq(S, Min(young), Len(S))

(* The starts a second old are forgotten.                                  *)
\* Bug: a second after the first of them they are all forgotten.
FixedTick(S) == IF S # <<>> /\ S[1] >= Second THEN <<>> ELSE S
Recent(S) == Younger(S)

(* With the lock: room for one more, or asleep until the oldest leaves the *)
(* window, with the lock still held.                                       *)
Look(t) ==
  LET S == Recent(starts)
  IN IF Len(S) < PerSecond
     THEN /\ starts' = Append(S, 0)
          /\ sent' = Append(sent, 0)
          /\ schedule' = None
          /\ Goes(t, "asking")
          /\ UNCHANGED sleeping
     ELSE /\ starts' = S
          /\ sleeping' = Second - S[1]
          /\ schedule' = t
          /\ Goes(t, "asleep")
          /\ UNCHANGED sent

TakeSchedule(t) ==
  /\ task[t].at = "lock" /\ schedule = None
  /\ Look(t)
  /\ UNCHANGED <<slots, tokens, troubles>>
Wake(t) ==
  /\ task[t].at = "asleep" /\ sleeping = 0
  /\ Look(t)
  /\ UNCHANGED <<slots, tokens, troubles>>

Older(S) == [i \in DOMAIN S |-> IF S[i] < Second THEN S[i] + 1 ELSE Second]
Tick ==
  /\ starts' = Older(starts)
  /\ sent' = Younger(Older(sent))
  /\ sleeping' = IF sleeping > 0 THEN sleeping - 1 ELSE 0
  /\ UNCHANGED <<task, slots, schedule, tokens, troubles>>

-----------------------------------------------------------------------------
(* `_query_once`: what comes back, the slot given up first.                *)
Back(t) == task[t].at = "asking" /\ slots' = slots + 1
Answered(t) ==
  /\ Back(t) /\ task[t].token \notin revoked
  /\ Ends(t)
  /\ UNCHANGED <<schedule, starts, sleeping, sent, tokens, troubles>>

(* 401: another token and once more, from the second time an error.        *)
Rejected(t) ==
  /\ Back(t) /\ task[t].token \in revoked
  /\ IF task[t].rejected = None
     THEN task' = [task EXCEPT ![t].at = "token", ![t].rejected = task[t].token]
     ELSE Ends(t)
  /\ UNCHANGED <<schedule, starts, sleeping, sent, tokens, troubles>>

(* tenacity, with all that the attempt knew forgotten.                     *)
Fails(t, retried) ==
  /\ troubles < MaxTroubles /\ troubles' = troubles + 1
  /\ IF retried /\ task[t].attempt < Attempts
     THEN task' = [task EXCEPT ![t] = [Idle EXCEPT !.at = "token", !.client = task[t].client,
                                               !.attempt = task[t].attempt + 1]]
     ELSE Ends(t)

(* An outage or IGDB's 429 is tried again; 400, 403 and Twitch's 429 not.  *)
AskingFails(t, retried) ==
  /\ Back(t) /\ Fails(t, retried)
  /\ UNCHANGED <<schedule, starts, sleeping, sent, tokens>>
MintFails(t, retried) ==
  /\ task[t].at = "mint" /\ Fails(t, retried)
  /\ Leaves(task[t].client)
  /\ UNCHANGED <<limiter, current, stored, issued, lapsing, revoked>>

(* Cancelled where it waits: it leaves what it had.                        *)
\* Bug: a slot is given up by requests alone.
RequestsOnly(t) == task[t].at = "asking"
HasSlot(t) == task[t].at \in WithSlot
Cancel(t) ==
  /\ task[t].at # "idle" /\ troubles < MaxTroubles
  /\ troubles' = troubles + 1
  /\ Ends(t)
  /\ slots' = IF HasSlot(t) THEN slots + 1 ELSE slots
  /\ schedule' = IF schedule = t THEN None ELSE schedule
  /\ sleeping' = IF schedule = t THEN 0 ELSE sleeping
  /\ minting' = [c \in Clients |-> IF minting[c] = t THEN None ELSE minting[c]]
  /\ stored' \in IF task[t].at = "save" THEN {stored, task[t].token} ELSE {stored}
  /\ UNCHANGED <<starts, sent, current, issued, lapsing, revoked>>

(* A token comes near its end, or IGDB takes it no more.                   *)
Ended == lapsing \cup revoked
TokenEnds(k) ==
  /\ k <= issued /\ Cardinality(Ended) < MaxEnds
  /\ \/ k \notin lapsing /\ lapsing' = lapsing \cup {k} /\ UNCHANGED revoked
     \/ k \notin revoked /\ revoked' = revoked \cup {k} /\ UNCHANGED lapsing
  /\ UNCHANGED <<task, limiter, minting, current, stored, issued, troubles>>

Init ==
  /\ task = [t \in Tasks |-> Idle]
  /\ slots = OpenAtOnce
  /\ schedule = None /\ starts = <<>> /\ sleeping = 0 /\ sent = <<>>
  /\ minting = [c \in Clients |-> None]
  /\ current = [c \in Clients |-> None] /\ stored = None
  /\ issued = 0 /\ lapsing = {} /\ revoked = {}
  /\ troubles = 0

Proceeds(t) ==
  \/ TakeMintLock(t) \/ LookInStore(t) \/ Mint(t) \/ Save(t)
  \/ TakeSlot(t) \/ TakeSchedule(t) \/ Wake(t) \/ Answered(t) \/ Rejected(t)

Next ==
  \/ \E t \in Tasks :
       \/ Proceeds(t) \/ Cancel(t)
       \/ \E c \in Clients : Query(t, c)
       \/ \E retried \in BOOLEAN : AskingFails(t, retried) \/ MintFails(t, retried)
  \/ \E c \in Clients : NewClient(c)
  \/ \E k \in Tokens : TokenEnds(k)
  \/ Tick

(* Time goes on, requests are answered, and asyncio's semaphore and locks  *)
(* serve who waits in the order they came.                                 *)
Fairness == WF_vars(Tick) /\ \A t \in Tasks : SF_vars(Proceeds(t))

Spec == Init /\ [][Next]_vars /\ Fairness

-----------------------------------------------------------------------------
(* IGDB's limit as IGDB counts it: in no second do more requests begin     *)
(* than PerSecond, on whichever of an application's clients, whoever was   *)
(* cancelled asleep, and however late a sleeper wakes.                     *)
WindowKept == Len(sent) <= PerSecond

(* A slot is in one query's hands or free: none is lost to a wait that was *)
(* cancelled, a retry or an error, and none is given up twice.             *)
NoSlotLost == slots + Cardinality({t \in Tasks : task[t].at \in WithSlot}) = OpenAtOnce

(* Twitch is asked for a token when one is needed: a client mints one at   *)
(* the most each time a token ends, however many of its queries are told   *)
(* so at once, and one more when it is cancelled with a token not kept.    *)
FewTokens == issued <= Cardinality(Clients) * (1 + Cardinality(Ended)) + troubles

(* A query comes to an end, though tokens end, others queue and the one    *)
(* that slept with the lock is cancelled.                                  *)
EveryQueryEnds == \A t \in Tasks : task[t].at # "idle" ~> task[t].at = "idle"
=============================================================================
