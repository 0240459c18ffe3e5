--------------------------- MODULE IgdbClientProofs ---------------------------
(***************************************************************************)
(* For any number of queries, clients and slots.  No slot of the limiter   *)
(* is lost: the invariant counts the queries that hold one, and each step  *)
(* changes what at most one query holds.  No second has more starts than   *)
(* the limit: what the limiter remembers is what IGDB counts.  No token is *)
(* asked for without cause: each one minted is charged to a client and a   *)
(* token that ended, or to a cancelled wait.                               *)
(***************************************************************************)
EXTENDS IgdbClient, FiniteSetTheorems, SequenceTheorems, TLAPS

Places == {"idle", "token", "slot"} \cup WithSlot \cup WithMintLock
Record == [at : Places, client : Clients \cup {None},
           token : Tokens \cup {None}, rejected : Tokens \cup {None}, attempt : 1..Attempts]
Held == {t \in Tasks : HasSlot(t)}

(* What a query is, and the tokens it may take.                            *)
QueryShape ==
  /\ task \in [Tasks -> Record]
  /\ \A t \in Tasks : task[t].at # "idle" => task[t].client \in Clients
  /\ current \in [Clients -> Tokens \cup {None}]
  /\ stored \in Tokens \cup {None}
  /\ issued \in 0..MaxTokens

Inv == QueryShape /\ slots \in Nat /\ NoSlotLost

-----------------------------------------------------------------------------
(* A step that moves one query changes the queries that hold a slot by     *)
(* that one, or not at all.                                                *)
LEMMA OneQueryMoves ==
  ASSUME QueryShape, QueryShape', NEW t \in Tasks,
         \A u \in Tasks \ {t} : task'[u] = task[u]
  PROVE  /\ (HasSlot(t) <=> HasSlot(t)') => Held' = Held
         /\ (~HasSlot(t) /\ HasSlot(t)') => Held' = Held \cup {t} /\ t \notin Held
         /\ (HasSlot(t) /\ ~HasSlot(t)') => Held' = Held \ {t} /\ t \in Held
  BY DEF Held, HasSlot

(* A slot taken by a query that had none, given up by one that had it, or  *)
(* neither: the count is kept.                                             *)
LEMMA CountIsKept ==
  ASSUME Inv, QueryShape', NEW t \in Tasks,
         \A u \in Tasks \ {t} : task'[u] = task[u],
         \/ (HasSlot(t) <=> HasSlot(t)') /\ slots' = slots
         \/ ~HasSlot(t) /\ HasSlot(t)' /\ slots > 0 /\ slots' = slots - 1
         \/ HasSlot(t) /\ ~HasSlot(t)' /\ slots' = slots + 1
  PROVE  Inv'
<1>1. IsFiniteSet(Held)
  BY TasksAssumption, FS_Subset DEF Held
<1>2. slots \in Nat /\ slots + Cardinality(Held) = OpenAtOnce
  BY DEF Inv, NoSlotLost, Held, HasSlot
<1>3. Cardinality(Held) \in Nat
  BY <1>1, FS_CardinalityType
<1>4. slots' \in Nat /\ slots' + Cardinality(Held)' = OpenAtOnce
  <2>1. CASE (HasSlot(t) <=> HasSlot(t)') /\ slots' = slots
    <3>1. Held' = Held
      BY <2>1, OneQueryMoves DEF Inv
    <3>2. QED BY <2>1, <3>1, <1>2
  <2>2. CASE ~HasSlot(t) /\ HasSlot(t)' /\ slots > 0 /\ slots' = slots - 1
    <3>1. Held' = Held \cup {t} /\ t \notin Held
      BY <2>2, OneQueryMoves DEF Inv
    <3>2. Cardinality(Held)' = Cardinality(Held) + 1
      BY <3>1, <1>1, FS_AddElement
    <3>3. QED BY <2>2, <3>2, <1>2, <1>3
  <2>3. CASE HasSlot(t) /\ ~HasSlot(t)' /\ slots' = slots + 1
    <3>1. Held' = Held \ {t} /\ t \in Held
      BY <2>3, OneQueryMoves DEF Inv
    <3>2. Cardinality(Held)' = Cardinality(Held) - 1
      BY <3>1, <1>1, FS_RemoveElement
    <3>3. QED BY <2>3, <3>2, <1>2, <1>3
  <2>4. QED BY <2>1, <2>2, <2>3
<1>5. QED BY <1>4 DEF Inv, NoSlotLost, Held, HasSlot

-----------------------------------------------------------------------------
LEMMA StartsInv == Init => Inv
<1>. SUFFICES ASSUME Init PROVE Inv
  OBVIOUS
<1>1. QueryShape
  BY LimitAssumption, BoundAssumption
  DEF Init, QueryShape, Idle, Record, Places, WithSlot, WithMintLock
<1>2. Held = {}
  BY DEF Init, Idle, Held, HasSlot, WithSlot
<1>3. slots \in Nat /\ slots + Cardinality(Held) = OpenAtOnce
  BY <1>2, FS_EmptySet, LimitAssumption DEF Init
<1>4. QED BY <1>1, <1>3 DEF Inv, NoSlotLost, Held, HasSlot

(* A query takes a token that is one, and waits for a slot.                *)
LEMMA TakingKeepsShape ==
  ASSUME QueryShape, NEW t \in Tasks, NEW k \in Tokens \cup {None},
         task[t].at # "idle", Takes(t, k),
         stored' \in Tokens \cup {None}, issued' \in 0..MaxTokens
  PROVE  QueryShape' /\ task'[t].at = "slot"
<1>1. task[t] \in Record /\ task[t].client \in Clients
  BY DEF QueryShape
<1>. DEFINE x == [task[t] EXCEPT !.at = "slot", !.token = k]
<1>2. x \in Record /\ x.at = "slot" /\ x.client = task[t].client
  BY <1>1 DEF Record, Places
<1>3. task' = [task EXCEPT ![t] = x]
  BY DEF Takes
<1>. HIDE DEF x
<1>4. /\ task' \in [Tasks -> Record] /\ task'[t] = x
      /\ \A u \in Tasks : u # t => task'[u] = task[u]
  BY <1>2, <1>3 DEF QueryShape
<1>5. current' \in [Clients -> Tokens \cup {None}]
  BY DEF QueryShape, Takes
<1>6. \A u \in Tasks : task'[u].at # "idle" => task'[u].client \in Clients
  BY <1>1, <1>2, <1>4 DEF QueryShape
<1>7. QED BY <1>2, <1>4, <1>5, <1>6 DEF QueryShape

LEMMA StepsKeepInv == Inv /\ [Next]_vars => Inv'
<1>. SUFFICES ASSUME Inv, [Next]_vars PROVE Inv'
  OBVIOUS
<1>. USE DEF WithSlot, WithMintLock
<1>1. ASSUME NEW t \in Tasks, Proceeds(t) PROVE Inv'
  <2>. DEFINE Others == \A u \in Tasks \ {t} : task'[u] = task[u]
  <2>1. CASE TakeMintLock(t)
    <3>1. QueryShape' /\ Others /\ ~HasSlot(t) /\ ~HasSlot(t)' /\ slots' = slots
      <4>1. CASE Usable(current[task[t].client], task[t].rejected)
        <5>1. Takes(t, current[task[t].client])
          BY <2>1, <4>1 DEF TakeMintLock
        <5>2. current[task[t].client] \in Tokens \cup {None}
          BY <2>1 DEF TakeMintLock, Inv, QueryShape
        <5>3. QueryShape' /\ task'[t].at = "slot"
          BY <2>1, <5>1, <5>2, TakingKeepsShape DEF TakeMintLock, Inv, QueryShape
        <5>4. QED BY <2>1, <5>1, <5>3 DEF TakeMintLock, Takes, Inv, QueryShape, Record, HasSlot, limiter
      <4>2. CASE ~Usable(current[task[t].client], task[t].rejected)
        BY <2>1, <4>2 DEF TakeMintLock, Goes, Inv, QueryShape, Record, Places, HasSlot, limiter
      <4>3. QED BY <4>1, <4>2
    <3>2. QED BY <3>1, CountIsKept
  <2>2. CASE LookInStore(t)
    <3>1. QueryShape' /\ Others /\ ~HasSlot(t) /\ ~HasSlot(t)' /\ slots' = slots
      <4>1. CASE Usable(stored, task[t].rejected)
        <5>1. Takes(t, stored)
          BY <2>2, <4>1 DEF LookInStore
        <5>2. QueryShape' /\ task'[t].at = "slot"
          BY <2>2, <5>1, TakingKeepsShape DEF LookInStore, Inv, QueryShape
        <5>3. QED BY <2>2, <5>1, <5>2 DEF LookInStore, Takes, Inv, QueryShape, Record, HasSlot, limiter
      <4>2. CASE ~Usable(stored, task[t].rejected)
        BY <2>2, <4>2 DEF LookInStore, Goes, Inv, QueryShape, Record, Places, HasSlot, limiter
      <4>3. QED BY <4>1, <4>2
    <3>2. QED BY <3>1, CountIsKept
  <2>3. CASE Mint(t)
    <3>1. issued + 1 \in Tokens /\ issued' \in 0..MaxTokens
      BY <2>3, BoundAssumption DEF Mint, Inv, QueryShape, Tokens
    <3>2. PICK k \in Tokens : k = issued + 1
      BY <3>1
    <3>3. task' = [task EXCEPT ![t].at = "save", ![t].token = k]
      BY <2>3, <3>2 DEF Mint
    <3>4. task' \in [Tasks -> Record]
      <4>1. task[t] \in Record /\ [task[t] EXCEPT !.at = "save"] \in Record
        BY DEF Inv, QueryShape, Record, Places
      <4>2. [[task[t] EXCEPT !.at = "save"] EXCEPT !.token = k] \in Record
        BY <4>1 DEF Record
      <4>3. task' = [task EXCEPT ![t] = [[task[t] EXCEPT !.at = "save"] EXCEPT !.token = k]]
        BY <3>3 DEF Inv, QueryShape
      <4>4. QED BY <4>2, <4>3 DEF Inv, QueryShape
    <3>5. Others /\ ~HasSlot(t) /\ ~HasSlot(t)' /\ slots' = slots
      BY <2>3, <3>3 DEF Mint, Inv, QueryShape, Record, HasSlot, limiter
    <3>6. QueryShape'
      BY <2>3, <3>1, <3>3, <3>4 DEF Mint, Inv, QueryShape, Record
    <3>7. QED BY <3>5, <3>6, CountIsKept
  <2>4. CASE Save(t)
    <3>1. task[t].token \in Tokens \cup {None}
      BY DEF Inv, QueryShape, Record
    <3>2. QueryShape' /\ task'[t].at = "slot"
      BY <2>4, <3>1, TakingKeepsShape DEF Save, Inv, QueryShape
    <3>3. Others /\ ~HasSlot(t) /\ ~HasSlot(t)' /\ slots' = slots
      BY <2>4, <3>2 DEF Save, Takes, Inv, QueryShape, Record, HasSlot, limiter
    <3>4. QED BY <3>2, <3>3, CountIsKept
  <2>5. CASE TakeSlot(t)
    <3>1. QueryShape' /\ Others /\ ~HasSlot(t) /\ HasSlot(t)' /\ slots > 0 /\ slots' = slots - 1
      BY <2>5 DEF TakeSlot, Goes, Inv, QueryShape, Record, Places, HasSlot, tokens
    <3>2. QED BY <3>1, CountIsKept
  <2>6. ASSUME TakeSchedule(t) \/ Wake(t) PROVE Inv'
    <3>1. \E place \in {"asking", "asleep"} : Goes(t, place)
      BY <2>6 DEF TakeSchedule, Wake, Look
    <3>2. QueryShape' /\ Others /\ HasSlot(t) /\ HasSlot(t)' /\ slots' = slots
      BY <2>6, <3>1 DEF TakeSchedule, Wake, Goes, Inv, QueryShape, Record, Places, HasSlot, tokens
    <3>3. QED BY <3>2, CountIsKept
  <2>7. CASE Answered(t)
    <3>1. QueryShape' /\ Others /\ HasSlot(t) /\ ~HasSlot(t)' /\ slots' = slots + 1
      BY <2>7, LimitAssumption
      DEF Answered, Back, Ends, Idle, Inv, QueryShape, Record, Places, HasSlot, tokens
    <3>2. QED BY <3>1, CountIsKept
  <2>8. CASE Rejected(t)
    <3>1. QueryShape' /\ Others /\ HasSlot(t) /\ ~HasSlot(t)' /\ slots' = slots + 1
      BY <2>8, LimitAssumption
      DEF Rejected, Back, Ends, Idle, Inv, QueryShape, Record, Places, HasSlot, tokens
    <3>2. QED BY <3>1, CountIsKept
  <2>9. QED BY <1>1, <2>1, <2>2, <2>3, <2>4, <2>5, <2>6, <2>7, <2>8 DEF Proceeds
<1>2. ASSUME NEW t \in Tasks, Cancel(t) PROVE Inv'
  <2>1. QueryShape' /\ (\A u \in Tasks \ {t} : task'[u] = task[u]) /\ ~HasSlot(t)'
    BY <1>2, LimitAssumption
    DEF Cancel, Ends, Idle, Inv, QueryShape, Record, Places, HasSlot
  <2>2. slots' = IF HasSlot(t) THEN slots + 1 ELSE slots
    BY <1>2 DEF Cancel
  <2>3. QED BY <2>1, <2>2, CountIsKept
<1>3. ASSUME NEW t \in Tasks, NEW c \in Clients, Query(t, c) PROVE Inv'
  <2>1. [[task[t] EXCEPT !.at = "token"] EXCEPT !.client = c] \in Record
    <3>1. [task[t] EXCEPT !.at = "token"] \in Record
      BY DEF Inv, QueryShape, Record, Places
    <3>2. QED BY <3>1 DEF Record
  <2>2. task' = [task EXCEPT ![t] = [[task[t] EXCEPT !.at = "token"] EXCEPT !.client = c]]
    BY <1>3 DEF Query, Inv, QueryShape
  <2>3. task' \in [Tasks -> Record]
    BY <2>1, <2>2 DEF Inv, QueryShape
  <2>4. /\ task'[t].client = c /\ task'[t].at = "token"
        /\ \A u \in Tasks \ {t} : task'[u] = task[u]
    BY <2>2 DEF Inv, QueryShape, Record
  <2>5. /\ QueryShape' /\ ~HasSlot(t) /\ ~HasSlot(t)' /\ slots' = slots
    BY <1>3, <2>3, <2>4 DEF Query, Inv, QueryShape, HasSlot, limiter, tokens
  <2>6. QED BY <2>4, <2>5, CountIsKept
<1>4. ASSUME NEW t \in Tasks, NEW retried \in BOOLEAN, task[t].at # "idle",
             Fails(t, retried), UNCHANGED <<current, stored, issued>>
      PROVE  /\ QueryShape' /\ \A u \in Tasks \ {t} : task'[u] = task[u]
             /\ ~HasSlot(t)'
  <2>1. CASE retried /\ task[t].attempt < Attempts
    <3>1. task[t].attempt + 1 \in 1..Attempts
      BY <2>1, LimitAssumption DEF Inv, QueryShape, Record
    <3>. DEFINE again == [Idle EXCEPT !.at = "token", !.client = task[t].client,
                                      !.attempt = task[t].attempt + 1]
    <3>2. task' = [task EXCEPT ![t] = again]
      BY <1>4, <2>1 DEF Fails
    <3>3. again \in Record /\ again.at = "token" /\ again.client = task[t].client
      BY <3>1 DEF Idle, Inv, QueryShape, Record, Places
    <3>. HIDE DEF again
    <3>4. task' \in [Tasks -> Record] /\ task'[t].at = "token" /\ task'[t].client = task[t].client
      BY <3>2, <3>3 DEF Inv, QueryShape
    <3>5. task[t].at # "idle"
      BY <1>4
    <3>6. QED BY <1>4, <3>2, <3>4, <3>5 DEF Inv, QueryShape, HasSlot
  <2>2. CASE ~(retried /\ task[t].attempt < Attempts)
    BY <1>4, <2>2, LimitAssumption DEF Fails, Ends, Idle, Inv, QueryShape, Record, Places, HasSlot
  <2>3. QED BY <2>1, <2>2
<1>5. ASSUME NEW t \in Tasks, NEW retried \in BOOLEAN, AskingFails(t, retried) PROVE Inv'
  BY <1>4, <1>5, CountIsKept DEF AskingFails, Back, HasSlot, tokens
<1>6. ASSUME NEW t \in Tasks, NEW retried \in BOOLEAN, MintFails(t, retried) PROVE Inv'
  BY <1>4, <1>6, CountIsKept DEF MintFails, HasSlot, limiter
<1>7. ASSUME UNCHANGED <<task, slots>>, current' \in [Clients -> Tokens \cup {None}],
             UNCHANGED <<stored, issued>>
      PROVE  Inv'
  <2>1. QueryShape'
    BY <1>7 DEF Inv, QueryShape
  <2>2. NoSlotLost'
    BY <1>7 DEF Inv, NoSlotLost
  <2>3. QED BY <1>7, <2>1, <2>2 DEF Inv
<1>8. ASSUME NEW c \in Clients, NewClient(c) PROVE Inv'
  <2>1. current' \in [Clients -> Tokens \cup {None}]
    BY <1>8 DEF NewClient, Inv, QueryShape
  <2>2. QED BY <1>7, <1>8, <2>1 DEF NewClient, limiter
<1>9. ASSUME NEW k \in Tokens, TokenEnds(k) PROVE Inv'
  BY <1>7, <1>9 DEF TokenEnds, limiter, Inv, QueryShape
<1>10. CASE Tick
  BY <1>7, <1>10 DEF Tick, tokens, Inv, QueryShape
<1>11. CASE UNCHANGED vars
  BY <1>7, <1>11 DEF vars, limiter, tokens, Inv, QueryShape
<1>12. QED
  BY <1>1, <1>2, <1>3, <1>5, <1>6, <1>8, <1>9, <1>10, <1>11 DEF Next

(* Whatever is cancelled, refused, retried or answered, in any number of   *)
(* queries of any number of clients, RequestLimiter's slots are all free   *)
(* or in the hands of a query.                                             *)
THEOREM SlotsAreKept == Spec => []NoSlotLost
<1>1. Inv => NoSlotLost
  BY DEF Inv
<1>2. QED BY StartsInv, StepsKeepInv, <1>1, PTL DEF Spec

-----------------------------------------------------------------------------
(* The window.  A nonempty set of numbers has a least one; the library has *)
(* it with an operator for a parameter, here it is stated of a set: the    *)
(* intervals 1..n are ordered as the numbers are.                          *)
LEMMA LeastOne ==
  ASSUME NEW S \in SUBSET Nat, S # {}
  PROVE  \E n \in S : \A m \in S : n <= m
<1>. DEFINE D == {1..n : n \in S}
<1>1. D \subseteq FiniteSubsetsOf(Nat) /\ D # {}
  <2>1. \A n \in S : 1..n \subseteq Nat /\ IsFiniteSet(1..n)
    BY FS_Interval
  <2>2. QED BY <2>1 DEF FiniteSubsetsOf
<1>2. PICK x \in D : \A y \in D : <<y, x>> \notin StrictSubsetOrdering(Nat)
  BY <1>1, FS_StrictSubsetOrderingWellFounded, WFMin
<1>3. PICK n \in S : x = 1..n
  OBVIOUS
<1>4. ASSUME NEW m \in S, m < n PROVE FALSE
  <2>1. 1..m \subseteq 1..n /\ n \in 1..n /\ n \notin 1..m
    BY <1>4
  <2>2. <<1..m, 1..n>> \in StrictSubsetOrdering(Nat)
    BY <2>1 DEF StrictSubsetOrdering
  <2>3. QED BY <1>2, <1>3, <2>2
<1>5. QED BY <1>4

Ages == 0..Second
Young(S) == {i \in DOMAIN S : S[i] < Second}

(* What Younger keeps: all from the first that is young.                   *)
LEMMA YoungerKeeps ==
  ASSUME NEW S \in Seq(Ages), NEW k \in Young(S), \A i \in Young(S) : k <= i
  PROVE  /\ Younger(S) = SubSeq(S, k, Len(S))
         /\ Younger(S) \in Seq(Ages) /\ Len(Younger(S)) = Len(S) - k + 1
         /\ \A i \in 1..Len(Younger(S)) : Younger(S)[i] = S[k + i - 1]
<1>1. k \in 1..Len(S) /\ Len(S) \in Nat /\ Young(S) \subseteq 1..Len(S)
  BY DEF Young
<1>2. Min(Young(S)) = k
  BY <1>1 DEF Min
<1>3. Younger(S) = SubSeq(S, k, Len(S))
  BY <1>2 DEF Younger, Young
<1>4. \A i \in k..Len(S) : S[i] \in Ages
  BY <1>1, ElementOfSeq
<1>5. QED BY <1>1, <1>3, <1>4, SubSeqProperties

LEMMA NoneIsYoung ==
  ASSUME NEW S, Young(S) = {}
  PROVE  Younger(S) = <<>>
  BY DEF Younger, Young

LEMMA FirstYoung ==
  ASSUME NEW S \in Seq(Ages), Young(S) # {}
  PROVE  \E k \in Young(S) : \A i \in Young(S) : k <= i
<1>1. Young(S) \in SUBSET Nat
  BY DEF Young
<1>2. QED BY <1>1, LeastOne

LEMMA YoungerType ==
  ASSUME NEW S \in Seq(Ages)
  PROVE  Younger(S) \in Seq(Ages) /\ Len(Younger(S)) <= Len(S)
<1>1. CASE Young(S) = {}
  <2>1. Younger(S) = <<>>
    BY <1>1, NoneIsYoung
  <2>2. QED BY <2>1, EmptySeq
<1>2. CASE Young(S) # {}
  <2>1. PICK k \in Young(S) : \A i \in Young(S) : k <= i
    BY <1>2, FirstYoung
  <2>2. k \in 1..Len(S)
    BY DEF Young
  <2>3. QED BY <2>1, <2>2, YoungerKeeps
<1>3. QED BY <1>1, <1>2

(* Nothing is taken from a sequence that begins with a young one.          *)
LEMMA YoungStays ==
  ASSUME NEW S \in Seq(Ages), S = <<>> \/ S[1] < Second
  PROVE  Younger(S) = S
<1>1. CASE S = <<>>
  BY <1>1, NoneIsYoung DEF Young
<1>2. CASE S # <<>>
  <2>1. 1 \in Young(S) /\ \A i \in Young(S) : 1 <= i
    BY <1>2 DEF Young
  <2>2. QED BY <2>1, YoungerKeeps, SubSeqFull
<1>3. QED BY <1>1, <1>2

LEMMA YoungerBeginsYoung ==
  ASSUME NEW S \in Seq(Ages)
  PROVE  Younger(S) = <<>> \/ Younger(S)[1] < Second
<1>1. CASE Young(S) = {}
  BY <1>1, NoneIsYoung
<1>2. CASE Young(S) # {}
  <2>1. PICK k \in Young(S) : \A i \in Young(S) : k <= i
    BY <1>2, FirstYoung
  <2>2. k \in 1..Len(S) /\ S[k] < Second
    BY DEF Young
  <2>3. Len(Younger(S)) = Len(S) - k + 1 /\ \A i \in 1..Len(Younger(S)) : Younger(S)[i] = S[k + i - 1]
    BY <2>1, YoungerKeeps
  <2>4. QED BY <2>2, <2>3
<1>3. QED BY <1>1, <1>2

LEMMA OlderType ==
  ASSUME NEW S \in Seq(Ages)
  PROVE  /\ Older(S) \in Seq(Ages) /\ Len(Older(S)) = Len(S)
         /\ \A i \in 1..Len(S) : Older(S)[i] = IF S[i] < Second THEN S[i] + 1 ELSE Second
<1>1. \A i \in 1..Len(S) : S[i] \in Ages
  BY ElementOfSeq
<1>2. \A i \in 1..Len(S) : (IF S[i] < Second THEN S[i] + 1 ELSE Second) \in Ages
  BY <1>1, LimitAssumption DEF Ages
<1>3. QED BY <1>2 DEF Older

(* What leaves the window does not come back: to forget the old before     *)
(* time goes on changes nothing of what is young after it.                 *)
LEMMA ForgettingEarly ==
  ASSUME NEW S \in Seq(Ages)
  PROVE  Younger(Older(Younger(S))) = Younger(Older(S))
<1>. DEFINE O == Older(S)  Y == Younger(S)  P == Older(Y)
<1>1. /\ O \in Seq(Ages) /\ Len(O) = Len(S)
      /\ \A i \in 1..Len(S) : O[i] = IF S[i] < Second THEN S[i] + 1 ELSE Second
  BY OlderType
<1>2. Y \in Seq(Ages)
  BY YoungerType
<1>3. /\ P \in Seq(Ages) /\ Len(P) = Len(Y)
      /\ \A i \in 1..Len(Y) : P[i] = IF Y[i] < Second THEN Y[i] + 1 ELSE Second
  BY <1>2, OlderType
<1>4. Young(O) \subseteq Young(S)
  BY <1>1, LimitAssumption DEF Young
<1>5. CASE Young(S) = {}
  <2>1. Y = <<>> /\ Younger(O) = <<>>
    BY <1>4, <1>5, NoneIsYoung
  <2>2. Young(P) = {}
    BY <1>3, <2>1 DEF Young
  <2>3. QED BY <2>1, <2>2, NoneIsYoung
<1>6. CASE Young(S) # {}
  <2>1. PICK k \in Young(S) : \A i \in Young(S) : k <= i
    BY <1>6, FirstYoung
  <2>2. k \in 1..Len(S)
    BY DEF Young
  <2>3. Len(Y) = Len(S) - k + 1 /\ \A i \in 1..Len(Y) : Y[i] = S[k + i - 1]
    BY <2>1, YoungerKeeps
  <2>4. \A i \in 1..Len(Y) : P[i] = O[k + i - 1] /\ k + i - 1 \in 1..Len(O)
    BY <1>1, <1>3, <2>2, <2>3
  <2>5. \A i \in 1..Len(Y) : i \in Young(P) <=> k + i - 1 \in Young(O)
    BY <1>1, <1>3, <2>4 DEF Young
  <2>6. \A j \in Young(O) : j - k + 1 \in 1..Len(Y) /\ k + (j - k + 1) - 1 = j
    BY <1>1, <1>4, <2>1, <2>2, <2>3 DEF Young
  <2>7. CASE Young(O) = {}
    <3>1. Young(P) = {}
      BY <1>3, <2>5, <2>7 DEF Young
    <3>2. QED BY <2>7, <3>1, NoneIsYoung
  <2>8. CASE Young(O) # {}
    <3>1. PICK m \in Young(O) : \A j \in Young(O) : m <= j
      BY <1>1, <2>8, FirstYoung
    <3>. DEFINE h == m - k + 1
    <3>2. h \in Young(P) /\ h \in 1..Len(Y) /\ m \in 1..Len(O)
      BY <1>1, <2>5, <2>6 DEF Young
    <3>3. \A i \in Young(P) : h <= i
      <4>1. SUFFICES ASSUME NEW i \in Young(P) PROVE h <= i
        OBVIOUS
      <4>2. i \in 1..Len(Y)
        BY <1>3 DEF Young
      <4>3. k + i - 1 \in Young(O)
        BY <4>2, <2>5
      <4>4. m <= k + i - 1
        BY <4>3, <3>1
      <4>5. QED BY <4>2, <4>4, <2>2, <3>2
    <3>4. /\ Younger(P) \in Seq(Ages) /\ Len(Younger(P)) = Len(P) - h + 1
          /\ \A i \in 1..Len(Younger(P)) : Younger(P)[i] = P[h + i - 1]
      BY <1>3, <3>2, <3>3, YoungerKeeps
    <3>5. /\ Younger(O) \in Seq(Ages) /\ Len(Younger(O)) = Len(O) - m + 1
          /\ \A i \in 1..Len(Younger(O)) : Younger(O)[i] = O[m + i - 1]
      BY <1>1, <3>1, YoungerKeeps
    <3>6. Len(Younger(P)) = Len(Younger(O))
      BY <1>1, <1>3, <2>2, <2>3, <3>2, <3>4, <3>5
    <3>7. ASSUME NEW i \in 1..Len(Younger(P)) PROVE Younger(P)[i] = Younger(O)[i]
      <4>1. h + i - 1 \in 1..Len(Y) /\ k + (h + i - 1) - 1 = m + i - 1
        BY <1>3, <2>2, <3>2, <3>4, <3>7
      <4>2. QED BY <2>4, <3>4, <3>5, <3>6, <4>1
    <3>8. QED BY <3>4, <3>5, <3>6, <3>7, SeqEqual
  <2>9. QED BY <2>7, <2>8
<1>7. QED BY <1>5, <1>6

(* What the limiter remembers of the last second is what did begin in it:  *)
(* no start is forgotten while IGDB counts it, and there is never more.    *)
Window ==
  /\ starts \in Seq(Ages) /\ sent \in Seq(Ages)
  /\ sent = Younger(starts)
  /\ WindowKept

LEMMA LookKeepsWindow ==
  ASSUME Window, NEW t \in Tasks, Look(t)
  PROVE  Window'
<1>. DEFINE S == Younger(starts)
<1>1. S \in Seq(Ages) /\ (S = <<>> \/ S[1] < Second) /\ Younger(S) = S /\ 0 \in Ages
  BY YoungerType, YoungerBeginsYoung, YoungStays, LimitAssumption DEF Window, Ages
<1>2. CASE Len(S) < PerSecond
  <2>1. starts' = Append(S, 0) /\ sent' = Append(S, 0)
    BY <1>2 DEF Look, Recent, Window
  <2>2. /\ Append(S, 0) \in Seq(Ages) /\ Len(Append(S, 0)) = Len(S) + 1
        /\ Append(S, 0)[1] < Second
    <3>1. CASE S = <<>>
      BY <1>1, <3>1, LimitAssumption
    <3>2. CASE S # <<>>
      BY <1>1, <3>2, AppendProperties
    <3>3. QED BY <3>1, <3>2
  <2>3. Younger(Append(S, 0)) = Append(S, 0)
    BY <2>2, YoungStays
  <2>4. QED BY <1>1, <1>2, <2>1, <2>2, <2>3, LimitAssumption DEF Window, WindowKept
<1>3. CASE ~(Len(S) < PerSecond)
  <2>1. starts' = S /\ sent' = sent
    BY <1>3 DEF Look, Recent
  <2>2. QED BY <1>1, <2>1 DEF Window, WindowKept
<1>4. QED BY <1>2, <1>3

LEMMA TickKeepsWindow ==
  ASSUME Window, Tick
  PROVE  Window'
<1>1. starts' = Older(starts) /\ sent' = Younger(Older(Younger(starts)))
  BY DEF Tick, Window
<1>2. sent' = Younger(starts')
  BY <1>1, ForgettingEarly DEF Window
<1>3. starts' \in Seq(Ages) /\ sent' \in Seq(Ages)
  BY <1>1, <1>2, OlderType, YoungerType DEF Window
<1>4. Len(sent') <= PerSecond
  <2>1. Older(sent) \in Seq(Ages) /\ Len(Older(sent)) = Len(sent)
    BY OlderType DEF Window
  <2>2. Len(Younger(Older(sent))) <= Len(sent)
    BY <2>1, YoungerType
  <2>3. sent' = Younger(Older(sent)) /\ Len(sent) <= PerSecond
    BY DEF Tick, Window, WindowKept
  <2>4. QED BY <1>3, <2>2, <2>3, LimitAssumption DEF Window
<1>5. QED BY <1>2, <1>3, <1>4 DEF Window, WindowKept

LEMMA StepsKeepWindow == Window /\ [Next]_vars => Window'
<1>. SUFFICES ASSUME Window, [Next]_vars PROVE Window'
  OBVIOUS
<1>1. UNCHANGED <<starts, sent>> => Window'
  BY DEF Window, WindowKept
<1>2. ASSUME NEW t \in Tasks, Proceeds(t) PROVE Window'
  <2>1. CASE TakeSchedule(t) \/ Wake(t)
    BY <2>1, LookKeepsWindow DEF TakeSchedule, Wake
  <2>2. CASE TakeMintLock(t) \/ LookInStore(t) \/ Mint(t) \/ Save(t)
    BY <1>1, <2>2 DEF TakeMintLock, LookInStore, Mint, Save, limiter
  <2>3. CASE TakeSlot(t) \/ Answered(t) \/ Rejected(t)
    BY <1>1, <2>3 DEF TakeSlot, Answered, Rejected
  <2>4. QED BY <1>2, <2>1, <2>2, <2>3 DEF Proceeds
<1>3. ASSUME NEW t \in Tasks, NEW retried \in BOOLEAN,
             AskingFails(t, retried) \/ MintFails(t, retried)
      PROVE  Window'
  BY <1>1, <1>3 DEF AskingFails, MintFails, limiter
<1>4. CASE \E t \in Tasks : Cancel(t) \/ \E c \in Clients : Query(t, c)
  BY <1>1, <1>4 DEF Cancel, Query, limiter
<1>5. CASE (\E c \in Clients : NewClient(c)) \/ (\E k \in Tokens : TokenEnds(k))
  BY <1>1, <1>5 DEF NewClient, TokenEnds, limiter
<1>6. CASE Tick
  BY <1>6, TickKeepsWindow
<1>7. CASE UNCHANGED vars
  BY <1>1, <1>7 DEF vars, limiter
<1>8. QED BY <1>2, <1>3, <1>4, <1>5, <1>6, <1>7 DEF Next

(* In no second do more requests begin than PerSecond: for any limit, any  *)
(* length of the second in ticks, and whoever is cancelled, sleeps or      *)
(* wakes late (RequestLimiter.__aenter__).                                 *)
THEOREM WindowIsKept == Spec => []WindowKept
<1>1. Init => Window
  <2>1. <<>> \in Seq(Ages) /\ Younger(<<>>) = <<>>
    BY YoungStays, EmptySeq
  <2>2. QED BY <2>1, LimitAssumption DEF Init, Window, WindowKept
<1>2. Window => WindowKept
  BY DEF Window
<1>3. QED BY <1>1, <1>2, StepsKeepWindow, PTL DEF Spec

-----------------------------------------------------------------------------
(* The tokens.  A client asks for one because it saw none in the store, or *)
(* one that had ended.  What it saw is replaced when it saves, and is not  *)
(* stored again: so each token that ended and is past (Spent) accounts for *)
(* one request of each client at the most, and the one stored, if it has   *)
(* ended, for the requests under way.                                      *)
AtMint == {t \in Tasks : task[t].at = "mint"}
AtSave == {t \in Tasks : task[t].at = "save"}
Minters == AtMint \cup AtSave
Unsaved == {task[t].token : t \in AtSave}
Spent == (Ended \cup {None}) \ (Unsaved \cup {stored})
Wanting == stored \in Ended \cup {None}

TokenShape ==
  /\ minting \in [Clients -> Tasks \cup {None}]
  /\ \A t \in Tasks : task[t].at \in WithMintLock => minting[task[t].client] = t
  /\ \A t \in Tasks : task[t].rejected \in revoked \cup {None}
  /\ lapsing \subseteq 1..issued /\ revoked \subseteq 1..issued
  /\ stored \in (1..issued) \cup {None}
  /\ \A t \in AtSave : task[t].token \in 1..issued /\ task[t].token # stored
  /\ \A t, u \in AtSave : t # u => task[t].token # task[u].token
  /\ troubles \in Nat

Accounted ==
  issued + Cardinality(AtMint) <= Cardinality(Clients) * Cardinality(Spent) + troubles
                                    + (IF Wanting THEN Cardinality(Minters) ELSE 0)

TokenInv == TokenShape /\ Accounted

LEMMA ProductGrows ==
  ASSUME NEW c \in Nat, NEW e \in Nat, NEW f \in Nat
  PROVE  /\ c * e \in Nat
         /\ e <= f => c * e <= c * f
         /\ e + 1 <= f => c * e + c <= c * f
<1>1. c * (e + 1) = c * e + c
  OBVIOUS
<1>2. ASSUME NEW g \in Nat, g <= f PROVE c * g <= c * f
  BY <1>2
<1>3. QED BY <1>1, <1>2

Counted ==
  /\ IsFiniteSet(Ended) /\ Cardinality(Ended) \in Nat
  /\ IsFiniteSet(Spent) /\ Cardinality(Spent) \in Nat
  /\ IsFiniteSet(AtMint) /\ Cardinality(AtMint) \in Nat
  /\ IsFiniteSet(AtSave)
  /\ IsFiniteSet(Minters) /\ Cardinality(Minters) \in Nat
  /\ Cardinality(Minters) <= Cardinality(Clients)
  /\ issued \in Nat /\ troubles \in Nat

(* One client mints one token at a time, under its lock.                   *)
LEMMA Counts == QueryShape /\ TokenShape => Counted
<1>. SUFFICES ASSUME QueryShape, TokenShape PROVE Counted
  OBVIOUS
<1>1. issued \in Nat
  BY BoundAssumption DEF QueryShape
<1>2. IsFiniteSet(Ended)
  <2>1. IsFiniteSet(1..issued)
    BY <1>1, FS_Interval
  <2>2. Ended \in SUBSET (1..issued)
    BY DEF TokenShape, Ended
  <2>3. QED BY <2>1, <2>2, FS_Subset
<1>3. IsFiniteSet(Spent)
  <2>1. IsFiniteSet(Ended \cup {None}) /\ Spent \in SUBSET (Ended \cup {None})
    BY <1>2, FS_AddElement DEF Spent
  <2>2. QED BY <2>1, FS_Subset
<1>4. IsFiniteSet(AtMint) /\ IsFiniteSet(AtSave) /\ IsFiniteSet(Minters)
  <2>1. AtMint \in SUBSET Tasks /\ AtSave \in SUBSET Tasks /\ Minters \in SUBSET Tasks
    BY DEF AtMint, AtSave, Minters
  <2>2. QED BY <2>1, TasksAssumption, FS_Subset
<1>5. Cardinality(Minters) <= Cardinality(Clients)
  <2>. DEFINE f == [t \in Minters |-> task[t].client]
  <2>1. \A t \in Minters : t \in Tasks /\ task[t].client \in Clients /\ minting[task[t].client] = t
    BY DEF Minters, AtMint, AtSave, QueryShape, TokenShape, WithMintLock
  <2>2. f \in Injection(Minters, Clients)
    BY <2>1 DEF Injection, IsInjective
  <2>3. QED BY <2>2, TasksAssumption, FS_Injection
<1>6. QED
  BY <1>1, <1>2, <1>3, <1>4, <1>5, FS_CardinalityType DEF Counted, TokenShape

LEMMA CountsNext == (QueryShape /\ TokenShape)' => Counted'
BY Counts, PTL

(* The arithmetic of Accounted: i, m, w and e are the tokens issued, the   *)
(* queries at mint, those at mint or save, and the tokens past, before and *)
(* after, c the clients and r the troubles.                                *)
LEMMA BalanceStays ==
  ASSUME NEW c \in Nat, NEW wanting \in BOOLEAN, NEW wanting1 \in BOOLEAN,
         NEW i \in Nat, NEW m \in Nat, NEW w \in Nat, NEW e \in Nat, NEW r \in Nat,
         NEW i1 \in Nat, NEW m1 \in Nat, NEW w1 \in Nat, NEW e1 \in Nat, NEW r1 \in Nat,
         i + m <= c * e + r + (IF wanting THEN w ELSE 0),
         e <= e1, wanting => wanting1,
         ~wanting => i1 + m1 + r <= i + m + r1,
         i1 + m1 + r + w <= i + m + r1 + w1
  PROVE  i1 + m1 <= c * e1 + r1 + (IF wanting1 THEN w1 ELSE 0)
<1>1. PICK x \in Nat, y \in Nat : x = c * e /\ y = c * e1 /\ x <= y
  BY ProductGrows
<1>2. i + m <= x + r + (IF wanting THEN w ELSE 0)
  BY <1>1
<1>3. i1 + m1 <= y + r1 + (IF wanting1 THEN w1 ELSE 0)
  <2>1. CASE wanting
    BY <1>1, <1>2, <2>1
  <2>2. CASE ~wanting
    BY <1>1, <1>2, <2>2
  <2>3. QED BY <2>1, <2>2
<1>4. QED BY <1>1, <1>3

(* And when a token is stored: what was stored is past, if it had ended.   *)
LEMMA BalanceClosed ==
  ASSUME NEW c \in Nat, NEW wanting \in BOOLEAN,
         NEW i \in Nat, NEW m \in Nat, NEW w \in Nat, NEW e \in Nat, NEW r \in Nat,
         NEW e1 \in Nat, NEW r1 \in Nat,
         i + m <= c * e + r + (IF wanting THEN w ELSE 0),
         w <= c, e <= e1, r <= r1, wanting => e + 1 <= e1
  PROVE  i + m <= c * e1 + r1
<1>1. PICK x \in Nat, y \in Nat : x = c * e /\ y = c * e1 /\ x <= y /\ (wanting => x + c <= y)
  BY ProductGrows
<1>2. i + m <= x + r + (IF wanting THEN w ELSE 0)
  BY <1>1
<1>3. i + m <= y + r1
  <2>1. CASE wanting
    BY <1>1, <1>2, <2>1
  <2>2. CASE ~wanting
    BY <1>1, <1>2, <2>2
  <2>3. QED BY <2>1, <2>2
<1>4. QED BY <1>1, <1>3

LEMMA BalanceWhenSaved ==
  ASSUME NEW c \in Nat, NEW wanting \in BOOLEAN, NEW wanting1 \in BOOLEAN,
         NEW i \in Nat, NEW m \in Nat, NEW w \in Nat, NEW e \in Nat, NEW r \in Nat,
         NEW w1 \in Nat, NEW e1 \in Nat, NEW r1 \in Nat,
         i + m <= c * e + r + (IF wanting THEN w ELSE 0),
         w <= c, e <= e1, r <= r1, wanting => e + 1 <= e1
  PROVE  i + m <= c * e1 + r1 + (IF wanting1 THEN w1 ELSE 0)
<1>1. PICK y \in Nat : y = c * e1
  BY ProductGrows
<1>2. i + m <= y + r1
  BY <1>1, BalanceClosed
<1>3. QED BY <1>1, <1>2

(* A step on which no token is replaced in the store.                      *)
LEMMA AccountStays ==
  ASSUME QueryShape, QueryShape', TokenInv, TokenShape',
         Spent \subseteq Spent', Wanting => Wanting',
         ~Wanting => issued' + Cardinality(AtMint') + troubles
                       <= issued + Cardinality(AtMint) + troubles',
         issued' + Cardinality(AtMint') + troubles + Cardinality(Minters)
           <= issued + Cardinality(AtMint) + troubles' + Cardinality(Minters')
  PROVE  Accounted'
<1>1. Counted /\ Counted' /\ Cardinality(Clients) \in Nat
  BY Counts, CountsNext, TasksAssumption, FS_CardinalityType DEF TokenInv
<1>2. Cardinality(Spent) <= Cardinality(Spent')
  BY <1>1, FS_Subset DEF Counted
<1>3. Wanting \in BOOLEAN /\ Wanting' \in BOOLEAN
  BY DEF Wanting
<1>4. issued' + Cardinality(AtMint') <= Cardinality(Clients) * Cardinality(Spent') + troubles'
                                          + (IF Wanting' THEN Cardinality(Minters') ELSE 0)
  BY <1>1, <1>2, <1>3, BalanceStays DEF Counted, TokenInv, Accounted
<1>5. QED BY <1>4 DEF Accounted

LEMMA AccountWhenSaved ==
  ASSUME QueryShape, QueryShape', TokenInv, TokenShape', NEW t \in AtSave,
         stored' = task[t].token, task'[t].at \notin {"mint", "save"},
         \A u \in Tasks \ {t} : task'[u] = task[u],
         UNCHANGED <<issued, lapsing, revoked>>, troubles' >= troubles
  PROVE  Accounted'
<1>1. Counted /\ Counted' /\ Cardinality(Clients) \in Nat
  BY Counts, CountsNext, TasksAssumption, FS_CardinalityType DEF TokenInv
<1>2. AtMint' = AtMint /\ AtSave' = AtSave \ {t} /\ Ended' = Ended
  BY DEF AtMint, AtSave, Ended
<1>3. /\ Unsaved' = Unsaved \ {stored'} /\ stored' \in Unsaved
      /\ stored \notin Unsaved /\ stored' # stored
  <2>1. \A u \in AtSave \ {t} : task'[u] = task[u] /\ task[u].token # stored'
    BY DEF TokenInv, TokenShape, AtSave
  <2>2. QED BY <1>2, <2>1 DEF Unsaved, TokenInv, TokenShape
<1>4. Spent \subseteq Spent' /\ (Wanting => Spent \cup {stored} \subseteq Spent') /\ stored \notin Spent
  BY <1>2, <1>3 DEF Spent, Wanting
<1>5. Cardinality(Spent) <= Cardinality(Spent')
  BY <1>1, <1>4, FS_Subset DEF Counted
<1>6. Wanting => Cardinality(Spent) + 1 <= Cardinality(Spent')
  <2>1. Cardinality(Spent \cup {stored}) = Cardinality(Spent) + 1
    BY <1>1, <1>4, FS_AddElement DEF Counted
  <2>2. QED BY <1>1, <1>4, <2>1, FS_Subset DEF Counted
<1>7. Wanting \in BOOLEAN /\ Wanting' \in BOOLEAN
  BY DEF Wanting
<1>8. issued + Cardinality(AtMint) <= Cardinality(Clients) * Cardinality(Spent') + troubles'
                                        + (IF Wanting' THEN Cardinality(Minters') ELSE 0)
  BY <1>1, <1>5, <1>6, <1>7, BalanceWhenSaved DEF Counted, TokenInv, Accounted
<1>9. QED BY <1>2, <1>8 DEF Accounted

(* A query that mints nothing, before or after.                            *)
LEMMA NothingMinted ==
  ASSUME QueryShape, QueryShape', TokenInv, TokenShape', NEW t \in Tasks,
         \A u \in Tasks \ {t} : task'[u] = task[u],
         task[t].at \notin {"mint", "save"}, task'[t].at \notin {"mint", "save"},
         UNCHANGED <<stored, issued, lapsing, revoked>>, troubles' >= troubles
  PROVE  Accounted'
<1>1. AtMint' = AtMint /\ AtSave' = AtSave /\ Minters' = Minters
  BY DEF AtMint, AtSave, Minters
<1>2. Unsaved' = Unsaved
  <2>1. \A u \in AtSave : task'[u] = task[u]
    BY DEF AtSave
  <2>2. QED BY <1>1, <2>1 DEF Unsaved
<1>3. Spent' = Spent /\ Wanting' = Wanting
  BY <1>2 DEF Spent, Wanting, Ended
<1>4. Counted /\ Counted'
  BY Counts, CountsNext DEF TokenInv
<1>5. QED BY <1>1, <1>3, <1>4, AccountStays DEF Counted

(* A query at mint or save that ends there, with no token stored.          *)
LEMMA NothingSaved ==
  ASSUME QueryShape, QueryShape', TokenInv, TokenShape', NEW t \in Minters,
         \A u \in Tasks \ {t} : task'[u] = task[u],
         task'[t].at \notin {"mint", "save"},
         UNCHANGED <<stored, issued, lapsing, revoked>>, troubles' = troubles + 1
  PROVE  Accounted'
<1>1. Counted /\ Counted'
  BY Counts, CountsNext DEF TokenInv
<1>2. AtMint' = AtMint \ {t} /\ AtSave' = AtSave \ {t} /\ Minters' = Minters \ {t}
  BY DEF AtMint, AtSave, Minters
<1>3. Cardinality(Minters') = Cardinality(Minters) - 1 /\ Cardinality(AtMint') <= Cardinality(AtMint)
  <2>1. Cardinality(Minters \ {t}) = Cardinality(Minters) - 1
    BY <1>1, FS_RemoveElement DEF Counted
  <2>2. AtMint' \in SUBSET AtMint
    BY <1>2
  <2>3. Cardinality(AtMint') <= Cardinality(AtMint)
    BY <1>1, <2>2, FS_Subset DEF Counted
  <2>4. QED BY <1>2, <2>1, <2>3
<1>4. Unsaved' \subseteq Unsaved
  <2>1. \A u \in AtSave \ {t} : task'[u] = task[u]
    BY DEF AtSave
  <2>2. QED BY <1>2, <2>1 DEF Unsaved
<1>5. Spent \subseteq Spent' /\ Wanting' = Wanting
  BY <1>4 DEF Spent, Wanting, Ended
<1>6. QED BY <1>1, <1>3, <1>5, AccountStays DEF Counted

(* The lock of the client whose query goes on is let go.                   *)
LEMMA TakenKeepsShape ==
  ASSUME QueryShape, QueryShape', TokenInv, NEW t \in Tasks, NEW k,
         task[t].at \in {"token"} \cup WithMintLock, Takes(t, k),
         task[t].at = "token" => minting[task[t].client] = None,
         UNCHANGED <<issued, lapsing, revoked, troubles>>,
         stored' = stored \/ (task[t].at = "save" /\ stored' = task[t].token)
  PROVE  TokenShape'
<1>1. /\ task'[t].at = "slot" /\ task'[t].rejected = task[t].rejected
      /\ \A u \in Tasks \ {t} : task'[u] = task[u]
      /\ minting' = [minting EXCEPT ![task[t].client] = None]
      /\ task[t].client \in Clients
  BY DEF Takes, Leaves, QueryShape, Record, WithMintLock
<1>2. minting' \in [Clients -> Tasks \cup {None}]
  BY <1>1 DEF TokenInv, TokenShape
<1>3. \A u \in Tasks : task'[u].at \in WithMintLock => minting'[task'[u].client] = u
  <2>1. SUFFICES ASSUME NEW u \in Tasks \ {t}, task[u].at \in WithMintLock
                 PROVE  minting'[task[u].client] = u
    BY <1>1 DEF WithMintLock
  <2>2. minting[task[u].client] = u /\ task[u].client \in Clients
    BY <2>1 DEF TokenInv, TokenShape, QueryShape, WithMintLock
  <2>3. task[u].client # task[t].client
    BY <2>1, <2>2, NoneAssumption DEF TokenInv, TokenShape, WithMintLock
  <2>4. QED BY <1>1, <2>2, <2>3 DEF TokenInv, TokenShape
<1>4. \A u \in Tasks : task'[u].rejected \in revoked' \cup {None}
  BY <1>1 DEF TokenInv, TokenShape
<1>5. AtSave' = AtSave \ {t}
  BY <1>1 DEF AtSave
<1>6. \A u \in AtSave' : u \in AtSave /\ task'[u] = task[u]
  BY <1>1, <1>5 DEF AtSave
<1>7. stored' \in (1..issued) \cup {None} /\ \A u \in AtSave' : task[u].token # stored'
  BY <1>5, <1>6 DEF TokenInv, TokenShape, AtSave
<1>8. QED BY <1>2, <1>3, <1>4, <1>6, <1>7 DEF TokenInv, TokenShape

(* The other steps of a query: what it waits for changes, and its lock.    *)
LEMMA MovedKeepsShape ==
  ASSUME QueryShape, QueryShape', TokenInv, NEW t \in Tasks,
         \A u \in Tasks \ {t} : task'[u] = task[u],
         task'[t].rejected \in revoked \cup {None},
         task'[t].at # "save",
         minting' \in [Clients -> Tasks \cup {None}],
         \A u \in Tasks \ {t} : \A c \in Clients : minting[c] = u => minting'[c] = u,
         task'[t].at \in WithMintLock => minting'[task'[t].client] = t,
         UNCHANGED <<issued, lapsing, revoked>>, troubles' \in Nat,
         stored' = stored \/ (task[t].at = "save" /\ stored' = task[t].token)
  PROVE  TokenShape'
<1>1. AtSave' = AtSave \ {t}
  BY DEF AtSave
<1>2. \A u \in AtSave' : u \in AtSave /\ task'[u] = task[u]
  BY <1>1 DEF AtSave
<1>3. \A u \in Tasks : task'[u].at \in WithMintLock => minting'[task'[u].client] = u
  BY DEF TokenInv, TokenShape, QueryShape, WithMintLock
<1>4. \A u \in Tasks : task'[u].rejected \in revoked' \cup {None}
  BY DEF TokenInv, TokenShape
<1>5. stored' \in (1..issued) \cup {None} /\ \A u \in AtSave' : task[u].token # stored'
  BY <1>1, <1>2 DEF TokenInv, TokenShape, AtSave
<1>6. QED BY <1>2, <1>3, <1>4, <1>5 DEF TokenInv, TokenShape

LEMMA StartsTokenInv == Init => TokenInv
<1>. SUFFICES ASSUME Init PROVE TokenInv
  OBVIOUS
<1>1. TokenShape /\ AtMint = {} /\ Minters = {} /\ issued = 0 /\ troubles = 0
  BY BoundAssumption
  DEF Init, TokenShape, AtMint, AtSave, Minters, Idle, WithMintLock
<1>2. QueryShape
  BY StartsInv DEF Inv
<1>3. Counted /\ Cardinality(Clients) \in Nat
  BY <1>1, <1>2, Counts, TasksAssumption, FS_CardinalityType
<1>4. Cardinality(AtMint) = 0 /\ Cardinality(Minters) = 0
  BY <1>1, FS_EmptySet
<1>5. Cardinality(Clients) * Cardinality(Spent) \in Nat
  BY <1>3, ProductGrows DEF Counted
<1>6. QED BY <1>1, <1>4, <1>5 DEF TokenInv, Accounted

LEMMA StepsKeepTokenInv == Inv /\ Inv' /\ TokenInv /\ [Next]_vars => TokenInv'
<1>. SUFFICES ASSUME Inv, Inv', TokenInv, [Next]_vars PROVE TokenInv'
  OBVIOUS
<1>. QueryShape /\ QueryShape'
  BY DEF Inv
<1>0. Counted /\ TokenShape
  BY Counts DEF TokenInv
<1>1. ASSUME NEW t \in Tasks, Proceeds(t) PROVE TokenInv'
  <2>1. CASE TakeMintLock(t)
    <3>. DEFINE c == task[t].client
    <3>0. c \in Clients /\ minting[c] = None /\ task[t].at = "token"
      BY <2>1 DEF TakeMintLock, QueryShape
    <3>1. CASE Usable(current[c], task[t].rejected)
      <4>1. Takes(t, current[c]) /\ UNCHANGED <<stored, issued, lapsing, revoked, troubles>>
        BY <2>1, <3>1 DEF TakeMintLock
      <4>2. TokenShape'
        BY <3>0, <4>1, TakenKeepsShape
      <4>3. task'[t].at = "slot" /\ \A u \in Tasks \ {t} : task'[u] = task[u]
        BY <4>1 DEF Takes, QueryShape, Record
      <4>4. Accounted'
        BY <1>0, <3>0, <4>1, <4>2, <4>3, NothingMinted DEF Counted
      <4>5. QED BY <4>2, <4>4 DEF TokenInv
    <3>2. CASE ~Usable(current[c], task[t].rejected)
      <4>1. /\ minting' = [minting EXCEPT ![c] = t] /\ Goes(t, "load")
            /\ UNCHANGED <<stored, issued, lapsing, revoked, troubles>>
        BY <2>1, <3>2 DEF TakeMintLock
      <4>2. /\ task'[t].at = "load" /\ task'[t].client = c /\ task'[t].rejected = task[t].rejected
            /\ \A u \in Tasks \ {t} : task'[u] = task[u]
        BY <4>1 DEF Goes, QueryShape, Record
      <4>3. /\ minting' \in [Clients -> Tasks \cup {None}] /\ minting'[c] = t
            /\ \A u \in Tasks \ {t} : \A d \in Clients : minting[d] = u => minting'[d] = u
        BY <1>0, <3>0, <4>1, NoneAssumption DEF TokenShape
      <4>4. TokenShape'
        BY <1>0, <4>1, <4>2, <4>3, MovedKeepsShape DEF TokenShape
      <4>5. Accounted'
        BY <1>0, <3>0, <4>1, <4>2, <4>4, NothingMinted DEF Counted
      <4>6. QED BY <4>4, <4>5 DEF TokenInv
    <3>3. QED BY <3>1, <3>2
  <2>2. CASE LookInStore(t)
    <3>0. task[t].at = "load" /\ UNCHANGED <<stored, issued, lapsing, revoked, troubles>>
      BY <2>2 DEF LookInStore
    <3>1. CASE Usable(stored, task[t].rejected)
      <4>1. Takes(t, stored)
        BY <2>2, <3>1 DEF LookInStore
      <4>2. TokenShape'
        BY <3>0, <4>1, TakenKeepsShape DEF WithMintLock
      <4>3. task'[t].at = "slot" /\ \A u \in Tasks \ {t} : task'[u] = task[u]
        BY <4>1 DEF Takes, QueryShape, Record
      <4>4. Accounted'
        BY <1>0, <3>0, <4>2, <4>3, NothingMinted DEF Counted
      <4>5. QED BY <4>2, <4>4 DEF TokenInv
    <3>2. CASE ~Usable(stored, task[t].rejected)
      <4>1. Goes(t, "mint") /\ minting' = minting
        BY <2>2, <3>2 DEF LookInStore
      <4>2. /\ task'[t].at = "mint" /\ task'[t].client = task[t].client
            /\ task'[t].rejected = task[t].rejected
            /\ \A u \in Tasks \ {t} : task'[u] = task[u]
        BY <4>1 DEF Goes, QueryShape, Record
      <4>3. minting[task[t].client] = t
        BY <1>0, <3>0 DEF TokenShape, WithMintLock
      <4>4. TokenShape'
        BY <1>0, <3>0, <4>1, <4>2, <4>3, MovedKeepsShape DEF TokenShape
      <4>5. Wanting /\ Wanting'
        BY <1>0, <3>0, <3>2 DEF Usable, TokenShape, Wanting, Ended
      <4>6. /\ AtMint' = AtMint \cup {t} /\ Minters' = Minters \cup {t} /\ AtSave' = AtSave
            /\ t \notin AtMint /\ t \notin Minters
        BY <3>0, <4>2 DEF AtMint, AtSave, Minters
      <4>7. /\ Cardinality(AtMint') = Cardinality(AtMint) + 1
            /\ Cardinality(Minters') = Cardinality(Minters) + 1
        BY <1>0, <4>6, FS_AddElement DEF Counted
      <4>8. Spent' = Spent
        <5>1. \A u \in AtSave : task'[u] = task[u]
          BY <3>0, <4>2 DEF AtSave
        <5>2. Unsaved' = Unsaved
          BY <4>6, <5>1 DEF Unsaved
        <5>3. QED BY <3>0, <5>2 DEF Spent, Ended
      <4>9. Accounted'
        BY <1>0, <3>0, <4>4, <4>5, <4>7, <4>8, AccountStays DEF Counted
      <4>10. QED BY <4>4, <4>9 DEF TokenInv
    <3>3. QED BY <3>1, <3>2
  <2>3. CASE Mint(t)
    <3>0. /\ task[t].at = "mint" /\ issued' = issued + 1
          /\ UNCHANGED <<stored, lapsing, revoked, troubles, minting>>
      BY <2>3 DEF Mint
    <3>1. /\ task'[t].at = "save" /\ task'[t].token = issued + 1
          /\ task'[t].client = task[t].client /\ task'[t].rejected = task[t].rejected
          /\ \A u \in Tasks \ {t} : task'[u] = task[u]
      <4>1. task[t] \in Record
        BY DEF QueryShape
      <4>2. task' = [task EXCEPT ![t] = [[task[t] EXCEPT !.at = "save"] EXCEPT !.token = issued + 1]]
        BY <2>3 DEF Mint, QueryShape
      <4>3. QED BY <4>1, <4>2 DEF QueryShape, Record
    <3>2. AtMint' = AtMint \ {t} /\ t \in AtMint /\ AtSave' = AtSave \cup {t} /\ Minters' = Minters
      BY <3>0, <3>1 DEF AtMint, AtSave, Minters
    <3>3. \A u \in AtSave : task'[u] = task[u] /\ u # t
      BY <3>0, <3>1 DEF AtSave
    <3>4. Unsaved' = Unsaved \cup {issued + 1}
      BY <3>1, <3>2, <3>3 DEF Unsaved
    <3>5. issued + 1 \notin Ended /\ issued + 1 # None /\ issued + 1 # stored /\ issued \in Nat
      BY <1>0, NoneAssumption DEF Counted, TokenShape, Ended
    <3>6. TokenShape'
      <4>1. \A u \in Tasks : task'[u].at \in WithMintLock => minting'[task'[u].client] = u
        BY <1>0, <3>0, <3>1 DEF TokenShape, WithMintLock
      <4>2. \A u \in Tasks : task'[u].rejected \in revoked' \cup {None}
        BY <1>0, <3>0, <3>1 DEF TokenShape
      <4>3. \A u \in AtSave' : task'[u].token \in 1..issued' /\ task'[u].token # stored'
        BY <1>0, <3>0, <3>1, <3>2, <3>3, <3>5 DEF TokenShape
      <4>4. \A u, v \in AtSave' : u # v => task'[u].token # task'[v].token
        <5>1. \A u \in AtSave : task[u].token # issued + 1
          BY <1>0, <3>5 DEF TokenShape
        <5>2. QED BY <1>0, <3>1, <3>2, <3>3, <5>1 DEF TokenShape
      <4>5. QED BY <1>0, <3>0, <3>5, <4>1, <4>2, <4>3, <4>4 DEF TokenShape
    <3>7. Spent' = Spent /\ Wanting' = Wanting
      BY <3>0, <3>4, <3>5 DEF Spent, Wanting, Ended
    <3>8. Cardinality(AtMint') = Cardinality(AtMint) - 1
      BY <1>0, <3>2, FS_RemoveElement DEF Counted
    <3>9. Accounted'
      BY <1>0, <3>0, <3>2, <3>6, <3>7, <3>8, AccountStays DEF Counted
    <3>10. QED BY <3>6, <3>9 DEF TokenInv
  <2>4. CASE Save(t)
    <3>1. /\ task[t].at = "save" /\ stored' = task[t].token /\ Takes(t, task[t].token)
          /\ UNCHANGED <<issued, lapsing, revoked, troubles>>
      BY <2>4 DEF Save
    <3>2. TokenShape'
      BY <3>1, TakenKeepsShape DEF WithMintLock
    <3>3. task'[t].at = "slot" /\ \A u \in Tasks \ {t} : task'[u] = task[u]
      BY <3>1 DEF Takes, QueryShape, Record
    <3>4. Accounted'
      BY <1>0, <3>1, <3>2, <3>3, AccountWhenSaved DEF AtSave, Counted
    <3>5. QED BY <3>2, <3>4 DEF TokenInv
  <2>5. CASE TakeSlot(t) \/ TakeSchedule(t) \/ Wake(t)
    <3>1. \E place \in {"lock", "asking", "asleep"} : Goes(t, place)
      BY <2>5 DEF TakeSlot, TakeSchedule, Wake, Look
    <3>2. task[t].at \in {"slot", "lock", "asleep"} /\ UNCHANGED <<tokens, troubles>>
      BY <2>5 DEF TakeSlot, TakeSchedule, Wake
    <3>3. /\ task'[t].at \in {"lock", "asking", "asleep"} /\ task'[t].rejected = task[t].rejected
          /\ \A u \in Tasks \ {t} : task'[u] = task[u]
      BY <3>1 DEF Goes, QueryShape, Record
    <3>4. TokenShape'
      BY <1>0, <3>2, <3>3, MovedKeepsShape DEF TokenShape, tokens, WithMintLock
    <3>5. Accounted'
      BY <1>0, <3>2, <3>3, <3>4, NothingMinted DEF tokens, Counted
    <3>6. QED BY <3>4, <3>5 DEF TokenInv
  <2>6. CASE Answered(t) \/ Rejected(t)
    <3>1. task[t].at = "asking" /\ UNCHANGED <<tokens, troubles>>
      BY <2>6 DEF Answered, Rejected, Back
    <3>2. /\ task'[t].at \in {"idle", "token"} /\ task'[t].rejected \in revoked \cup {None}
          /\ \A u \in Tasks \ {t} : task'[u] = task[u]
      <4>1. CASE Ends(t)
        BY <4>1 DEF Ends, Idle, QueryShape
      <4>2. CASE ~Ends(t)
        <5>1. /\ task' = [task EXCEPT ![t].at = "token", ![t].rejected = task[t].token]
              /\ task[t].token \in revoked
          BY <2>6, <4>2 DEF Answered, Rejected
        <5>2. task' = [task EXCEPT ![t] = [[task[t] EXCEPT !.at = "token"] EXCEPT !.rejected = task[t].token]]
          BY <5>1 DEF QueryShape
        <5>3. task[t] \in Record
          BY DEF QueryShape
        <5>4. QED BY <5>1, <5>2, <5>3 DEF QueryShape, Record
      <4>3. QED BY <4>1, <4>2
    <3>3. TokenShape'
      BY <1>0, <3>1, <3>2, MovedKeepsShape DEF TokenShape, tokens, WithMintLock
    <3>4. Accounted'
      BY <1>0, <3>1, <3>2, <3>3, NothingMinted DEF tokens, Counted
    <3>5. QED BY <3>3, <3>4 DEF TokenInv
  <2>7. QED BY <1>1, <2>1, <2>2, <2>3, <2>4, <2>5, <2>6 DEF Proceeds
<1>2. ASSUME NEW t \in Tasks, NEW retried \in BOOLEAN, task[t].at # "idle", Fails(t, retried)
      PROVE  /\ task'[t].at \in {"idle", "token"} /\ task'[t].rejected = None
             /\ troubles' = troubles + 1
             /\ \A u \in Tasks \ {t} : task'[u] = task[u]
  <2>. DEFINE again == [Idle EXCEPT !.at = "token", !.client = task[t].client,
                                    !.attempt = task[t].attempt + 1]
  <2>1. CASE task' = [task EXCEPT ![t] = again]
    <3>1. again.at = "token" /\ again.rejected = None
      BY DEF Idle
    <3>. HIDE DEF again
    <3>2. QED BY <1>2, <2>1, <3>1 DEF Fails, QueryShape
  <2>2. CASE Ends(t)
    BY <1>2, <2>2 DEF Fails, Ends, Idle, QueryShape
  <2>3. QED BY <1>2, <2>1, <2>2 DEF Fails
<1>3. ASSUME NEW t \in Tasks, NEW retried \in BOOLEAN, AskingFails(t, retried) PROVE TokenInv'
  <2>1. task[t].at = "asking" /\ UNCHANGED tokens
    BY <1>3 DEF AskingFails, Back
  <2>2. /\ task'[t].at \in {"idle", "token"} /\ task'[t].rejected = None /\ troubles' = troubles + 1
        /\ \A u \in Tasks \ {t} : task'[u] = task[u]
    BY <1>2, <1>3, <2>1 DEF AskingFails
  <2>3. TokenShape'
    BY <1>0, <2>1, <2>2, MovedKeepsShape DEF TokenShape, tokens, WithMintLock
  <2>4. Accounted'
    BY <1>0, <2>1, <2>2, <2>3, NothingMinted DEF tokens, Counted
  <2>5. QED BY <2>3, <2>4 DEF TokenInv
<1>4. ASSUME NEW t \in Tasks, NEW retried \in BOOLEAN, MintFails(t, retried) PROVE TokenInv'
  <2>1. /\ task[t].at = "mint" /\ minting' = [minting EXCEPT ![task[t].client] = None]
        /\ UNCHANGED <<stored, issued, lapsing, revoked>>
    BY <1>4 DEF MintFails, Leaves
  <2>2. /\ task'[t].at \in {"idle", "token"} /\ task'[t].rejected = None /\ troubles' = troubles + 1
        /\ \A u \in Tasks \ {t} : task'[u] = task[u]
    BY <1>2, <1>4, <2>1 DEF MintFails
  <2>3. minting[task[t].client] = t /\ task[t].client \in Clients
    BY <1>0, <2>1 DEF TokenShape, QueryShape, WithMintLock
  <2>4. /\ minting' \in [Clients -> Tasks \cup {None}]
        /\ \A u \in Tasks \ {t} : \A c \in Clients : minting[c] = u => minting'[c] = u
    BY <1>0, <2>1, <2>3 DEF TokenShape
  <2>5. TokenShape'
    BY <1>0, <2>1, <2>2, <2>4, MovedKeepsShape DEF TokenShape, WithMintLock
  <2>6. Accounted'
    BY <2>1, <2>2, <2>5, NothingSaved DEF Minters, AtMint
  <2>7. QED BY <2>5, <2>6 DEF TokenInv
<1>5. ASSUME NEW t \in Tasks, Cancel(t) PROVE TokenInv'
  <2>1. /\ troubles' = troubles + 1 /\ UNCHANGED <<issued, lapsing, revoked>>
        /\ minting' = [c \in Clients |-> IF minting[c] = t THEN None ELSE minting[c]]
        /\ stored' = stored \/ (task[t].at = "save" /\ stored' = task[t].token)
    BY <1>5 DEF Cancel
  <2>2. /\ task'[t].at = "idle" /\ task'[t].rejected = None
        /\ \A u \in Tasks \ {t} : task'[u] = task[u]
    BY <1>5 DEF Cancel, Ends, Idle, QueryShape
  <2>3. /\ minting' \in [Clients -> Tasks \cup {None}]
        /\ \A u \in Tasks \ {t} : \A c \in Clients : minting[c] = u => minting'[c] = u
    BY <1>0, <2>1 DEF TokenShape
  <2>4. TokenShape'
    BY <1>0, <2>1, <2>2, <2>3, MovedKeepsShape DEF TokenShape, WithMintLock
  <2>5. CASE task[t].at \notin {"mint", "save"}
    <3>1. Accounted'
      BY <1>0, <2>1, <2>2, <2>4, <2>5, NothingMinted DEF Counted
    <3>2. QED BY <2>4, <3>1 DEF TokenInv
  <2>6. CASE task[t].at \in {"mint", "save"} /\ stored' = stored
    <3>1. Accounted'
      BY <2>1, <2>2, <2>4, <2>6, NothingSaved DEF Minters, AtMint, AtSave
    <3>2. QED BY <2>4, <3>1 DEF TokenInv
  <2>7. CASE task[t].at = "save" /\ stored' = task[t].token
    <3>1. Accounted'
      BY <1>0, <2>1, <2>2, <2>4, <2>7, AccountWhenSaved DEF AtSave, Counted
    <3>2. QED BY <2>4, <3>1 DEF TokenInv
  <2>8. QED BY <2>1, <2>5, <2>6, <2>7
<1>6. ASSUME NEW t \in Tasks, NEW c \in Clients, Query(t, c) PROVE TokenInv'
  <2>1. task[t].at = "idle" /\ UNCHANGED <<tokens, troubles>>
    BY <1>6 DEF Query
  <2>2. /\ task'[t].at = "token" /\ task'[t].rejected = task[t].rejected
        /\ \A u \in Tasks \ {t} : task'[u] = task[u]
    <3>1. task[t] \in Record
      BY DEF QueryShape
    <3>2. task' = [task EXCEPT ![t] = [[task[t] EXCEPT !.at = "token"] EXCEPT !.client = c]]
      BY <1>6 DEF Query, QueryShape
    <3>3. QED BY <3>1, <3>2 DEF QueryShape, Record
  <2>3. TokenShape'
    BY <1>0, <2>1, <2>2, MovedKeepsShape DEF TokenShape, tokens, WithMintLock
  <2>4. Accounted'
    BY <1>0, <2>1, <2>2, <2>3, NothingMinted DEF tokens, Counted
  <2>5. QED BY <2>3, <2>4 DEF TokenInv
<1>7. ASSUME UNCHANGED <<task, minting, stored, issued, troubles>>,
             lapsing \subseteq lapsing', revoked \subseteq revoked',
             lapsing' \subseteq 1..issued, revoked' \subseteq 1..issued
      PROVE  TokenInv'
  <2>1. TokenShape'
    BY <1>0, <1>7 DEF TokenShape, AtSave
  <2>2. /\ AtMint' = AtMint /\ AtSave' = AtSave /\ Minters' = Minters /\ Unsaved' = Unsaved
        /\ Ended \subseteq Ended'
    BY <1>7 DEF AtMint, AtSave, Minters, Unsaved, Ended
  <2>3. Spent \subseteq Spent' /\ (Wanting => Wanting')
    BY <1>7, <2>2 DEF Spent, Wanting
  <2>4. Accounted'
    BY <1>0, <1>7, <2>1, <2>2, <2>3, AccountStays DEF Counted
  <2>5. QED BY <2>1, <2>4 DEF TokenInv
<1>8. ASSUME NEW k \in Tokens, TokenEnds(k) PROVE TokenInv'
  <2>1. k \in 1..issued
    BY <1>0, <1>8 DEF TokenEnds, Tokens, Counted
  <2>2. QED BY <1>0, <1>7, <1>8, <2>1 DEF TokenEnds, TokenShape
<1>9. CASE (\E c \in Clients : NewClient(c)) \/ Tick \/ UNCHANGED vars
  BY <1>0, <1>7, <1>9 DEF NewClient, Tick, tokens, vars, TokenShape
<1>10. QED BY <1>1, <1>3, <1>4, <1>5, <1>6, <1>8, <1>9 DEF Next

(* Twitch is asked for a token for cause: for any number of clients and of *)
(* their queries told 401 at once, of tokens that end and of waits that    *)
(* are cancelled (IgdbClient._token, _usable).                             *)
THEOREM TokensAreFew == Spec => []FewTokens
<1>1. QueryShape /\ TokenInv => FewTokens
  <2>. SUFFICES ASSUME QueryShape, TokenInv PROVE FewTokens
    OBVIOUS
  <2>1. Counted /\ Cardinality(Clients) \in Nat
    BY Counts, TasksAssumption, FS_CardinalityType DEF TokenInv
  <2>2. /\ IsFiniteSet(Ended \cup {None})
        /\ Cardinality(Ended \cup {None}) \in Nat
        /\ Cardinality(Ended \cup {None}) <= Cardinality(Ended) + 1
    <3>1. /\ IsFiniteSet(Ended \cup {None})
          /\ Cardinality(Ended \cup {None}) = IF None \in Ended THEN Cardinality(Ended)
                                                                ELSE Cardinality(Ended) + 1
      BY <2>1, FS_AddElement DEF Counted
    <3>2. QED BY <2>1, <3>1, FS_CardinalityType DEF Counted
  <2>. DEFINE c == Cardinality(Clients)  most == Cardinality(Ended \cup {None})
  <2>3. issued + Cardinality(AtMint) <= c * most + troubles
    <3>1. Cardinality(Spent) <= most
      <4>1. Spent \in SUBSET (Ended \cup {None})
        BY DEF Spent
      <4>2. QED BY <2>2, <4>1, FS_Subset
    <3>2. Wanting => Cardinality(Spent) + 1 <= most
      <4>1. SUFFICES ASSUME Wanting PROVE Cardinality(Spent) + 1 <= most
        OBVIOUS
      <4>2. Spent \cup {stored} \in SUBSET (Ended \cup {None}) /\ stored \notin Spent
        BY <4>1 DEF Spent, Wanting
      <4>3. Cardinality(Spent \cup {stored}) = Cardinality(Spent) + 1
        BY <2>1, <4>2, FS_AddElement DEF Counted
      <4>4. QED BY <2>2, <4>2, <4>3, FS_Subset
    <3>3. /\ issued + Cardinality(AtMint) <= c * Cardinality(Spent) + troubles
                                              + (IF Wanting THEN Cardinality(Minters) ELSE 0)
          /\ Wanting \in BOOLEAN
      BY DEF TokenInv, Accounted, Wanting
    <3>4. issued + Cardinality(AtMint) <= c * most + troubles
      BY <2>1, <2>2, <3>1, <3>2, <3>3, BalanceClosed DEF Counted
    <3>5. QED BY <3>4
  <2>4. c * most <= c * (1 + Cardinality(Ended)) /\ c * most \in Nat /\ c * (1 + Cardinality(Ended)) \in Nat
    BY <2>1, <2>2, ProductGrows DEF Counted
  <2>. DEFINE x == c * most  y == c * (1 + Cardinality(Ended))
  <2>5. issued <= y + troubles
    <3>1. x \in Nat /\ y \in Nat /\ x <= y /\ issued + Cardinality(AtMint) <= x + troubles
      BY <2>3, <2>4
    <3>. HIDE DEF x, y
    <3>2. QED BY <2>1, <3>1 DEF Counted
  <2>6. QED BY <2>5 DEF FewTokens
<1>2. Inv => QueryShape
  BY DEF Inv
<1>3. QED
  BY StartsInv, StepsKeepInv, StartsTokenInv, StepsKeepTokenInv, <1>1, <1>2, PTL DEF Spec

-----------------------------------------------------------------------------
(* What is left of the types: who has the lock of the starts, and for how  *)
(* long it sleeps.                                                         *)
Timed ==
  /\ schedule \in Tasks \cup {None} /\ sleeping \in 0..Second
  /\ troubles \in 0..MaxTroubles

LEMMA StepsKeepTimed == Window /\ Timed /\ [Next]_vars => Timed'
<1>. SUFFICES ASSUME Window, Timed, [Next]_vars PROVE Timed'
  OBVIOUS
<1>1. ASSUME NEW t \in Tasks, Look(t), troubles' = troubles PROVE Timed'
  <2>. DEFINE S == Younger(starts)
  <2>1. S \in Seq(Ages)
    BY YoungerType DEF Window
  <2>2. CASE Len(S) < PerSecond
    BY <1>1, <2>2 DEF Look, Recent, Timed
  <2>3. CASE ~(Len(S) < PerSecond)
    <3>1. Len(S) \in Nat \ {0}
      BY <2>1, <2>3, LimitAssumption
    <3>2. S[1] \in Ages
      BY <2>1, <3>1, ElementOfSeq
    <3>3. sleeping' = Second - S[1] /\ schedule' = t
      BY <1>1, <2>3 DEF Look, Recent
    <3>4. QED BY <1>1, <3>2, <3>3, LimitAssumption DEF Ages, Timed
  <2>4. QED BY <2>2, <2>3
<1>2. ASSUME UNCHANGED <<schedule, sleeping, troubles>> PROVE Timed'
  BY <1>2 DEF Timed
<1>3. ASSUME NEW t \in Tasks, Proceeds(t) PROVE Timed'
  <2>1. CASE TakeSchedule(t) \/ Wake(t)
    BY <1>1, <2>1 DEF TakeSchedule, Wake
  <2>2. CASE TakeMintLock(t) \/ LookInStore(t) \/ Mint(t) \/ Save(t)
    BY <1>2, <2>2 DEF TakeMintLock, LookInStore, Mint, Save, limiter
  <2>3. CASE TakeSlot(t) \/ Answered(t) \/ Rejected(t)
    BY <1>2, <2>3 DEF TakeSlot, Answered, Rejected
  <2>4. QED BY <1>3, <2>1, <2>2, <2>3 DEF Proceeds
<1>4. ASSUME NEW t \in Tasks, NEW retried \in BOOLEAN,
             AskingFails(t, retried) \/ MintFails(t, retried)
      PROVE  Timed'
  BY <1>4, BoundAssumption DEF AskingFails, MintFails, Fails, limiter, Timed
<1>5. ASSUME NEW t \in Tasks, Cancel(t) PROVE Timed'
  BY <1>5, BoundAssumption, LimitAssumption DEF Cancel, Timed
<1>6. CASE (\E t \in Tasks, c \in Clients : Query(t, c)) \/ (\E c \in Clients : NewClient(c))
             \/ (\E k \in Tokens : TokenEnds(k))
  BY <1>2, <1>6 DEF Query, NewClient, TokenEnds, limiter
<1>7. CASE Tick
  BY <1>7, LimitAssumption DEF Tick, Timed
<1>8. CASE UNCHANGED vars
  BY <1>2, <1>8 DEF vars, limiter
<1>9. QED BY <1>3, <1>4, <1>5, <1>6, <1>7, <1>8 DEF Next

(* Type correctness, from the three invariants together.                   *)
THEOREM TypesAreKept == Spec => []TypeOK
<1>1. Init => Window /\ Timed
  <2>1. <<>> \in Seq(Ages) /\ Younger(<<>>) = <<>>
    BY YoungStays, EmptySeq
  <2>2. QED BY <2>1, LimitAssumption, BoundAssumption DEF Init, Window, WindowKept, Timed
<1>2. Inv /\ TokenInv /\ Window /\ Timed => TypeOK
  <2>. SUFFICES ASSUME Inv, TokenInv, Window, Timed PROVE TypeOK
    OBVIOUS
  <2>1. slots \in 0..OpenAtOnce
    <3>1. IsFiniteSet(Held)
      BY TasksAssumption, FS_Subset DEF Held
    <3>2. Cardinality(Held) \in Nat /\ slots + Cardinality(Held) = OpenAtOnce
      BY <3>1, FS_CardinalityType DEF Inv, NoSlotLost, Held, HasSlot
    <3>3. QED BY <3>2, LimitAssumption DEF Inv
  <2>2. issued \in 0..MaxTokens /\ stored \in Tokens \cup {None} /\ lapsing \cup revoked \subseteq 1..issued
    BY DEF Inv, QueryShape, TokenInv, TokenShape
  <2>3. starts \in Seq(0..Second) /\ sent \in Seq(0..Second)
    BY DEF Window, Ages
  <2>4. task \in [Tasks -> Record] /\ minting \in [Clients -> Tasks \cup {None}]
    BY DEF Inv, QueryShape, TokenInv, TokenShape
  <2>5. QED BY <2>1, <2>2, <2>3, <2>4 DEF TypeOK, Timed, Inv, QueryShape, Record, Places
<1>3. Window /\ [Next]_vars => Window'
  BY StepsKeepWindow
<1>4. QED
  BY StartsInv, StepsKeepInv, StartsTokenInv, StepsKeepTokenInv, StepsKeepTimed, <1>1, <1>2, <1>3, PTL DEF Spec
=============================================================================
