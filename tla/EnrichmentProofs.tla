-------------------------- MODULE EnrichmentProofs --------------------------
(***************************************************************************)
(* Proofs about Enrichment: for any number of tasks and items, what a      *)
(* client waits on is counted right, a run asks for nothing that is        *)
(* answered already, and a chain that succeeds took all its sync landed    *)
(* through every step.                                                     *)
(***************************************************************************)
EXTENDS Enrichment, FiniteSetTheorems, SequenceTheorems, TLAPS

USE TasksAssumption, HoldersAssumption

-----------------------------------------------------------------------------
(* A chain names each of its steps once.                                   *)
Chain == {p \in Seq(Steps) : \A i, j \in 1..Len(p) : p[i] = p[j] => i = j}

LEMMA ChainType ==
  ASSUME NEW p \in Chain
  PROVE  /\ p \in Seq(Steps) /\ Len(p) \in Nat /\ DOMAIN p = 1..Len(p)
         /\ \A i \in 1..Len(p) : p[i] \in Steps
         /\ \A i, j \in 1..Len(p) : p[i] = p[j] => i = j
         /\ Range(p) = {p[i] : i \in 1..Len(p)}
         /\ Range(p) \subseteq Steps
         /\ p = <<>> <=> Range(p) = {}
<1>1. /\ p \in Seq(Steps) /\ Len(p) \in Nat /\ DOMAIN p = 1..Len(p)
      /\ \A i \in 1..Len(p) : p[i] \in Steps
      /\ \A i, j \in 1..Len(p) : p[i] = p[j] => i = j
  BY LenProperties, ElementOfSeq DEF Chain
<1>2. p = <<>> <=> Len(p) = 0
  BY <1>1, EmptySeq
<1>3. Range(p) = {p[i] : i \in 1..Len(p)}
  BY <1>1 DEF Range
<1> QED BY <1>1, <1>2, <1>3

(* Two chains with no step in common are one after the other a chain.      *)
LEMMA ConcatOfChains ==
  ASSUME NEW p \in Chain, NEW q \in Chain, Range(p) \cap Range(q) = {}
  PROVE  p \o q \in Chain /\ Range(p \o q) = Range(p) \cup Range(q)
<1> DEFINE pq == p \o q
<1>1. /\ pq \in Seq(Steps) /\ Len(pq) = Len(p) + Len(q)
      /\ \A i \in 1..Len(pq) : pq[i] = IF i <= Len(p) THEN p[i] ELSE q[i - Len(p)]
  BY ConcatProperties, ChainType
<1>2. DOMAIN pq = 1..Len(pq)
  BY <1>1, LenProperties
<1> HIDE DEF pq
<1>3. ASSUME NEW i \in 1..Len(pq), NEW j \in 1..Len(pq), pq[i] = pq[j], i # j
      PROVE  FALSE
  <2>1. CASE i <= Len(p) /\ j <= Len(p)
    BY <2>1, <1>1, <1>3, ChainType
  <2>2. CASE i > Len(p) /\ j > Len(p)
    <3>1. i - Len(p) \in 1..Len(q) /\ j - Len(p) \in 1..Len(q)
      BY <2>2, <1>1, ChainType
    <3>2. q[i - Len(p)] = q[j - Len(p)]
      BY <2>2, <1>1, <1>3, ChainType
    <3>3. i - Len(p) = j - Len(p)
      BY <3>1, <3>2, ChainType
    <3> QED BY <3>3, <1>1, <1>3, ChainType
  <2>3. ASSUME NEW m \in 1..Len(p), NEW n \in 1..Len(q), p[m] = q[n]
        PROVE  FALSE
    <3>1. p[m] \in Range(p) /\ q[n] \in Range(q)
      BY ChainType
    <3> QED BY <3>1, <2>3
  <2>4. CASE i <= Len(p) /\ j > Len(p)
    <3>1. i \in 1..Len(p) /\ j - Len(p) \in 1..Len(q) /\ p[i] = q[j - Len(p)]
      BY <2>4, <1>1, <1>3, ChainType
    <3> QED BY <3>1, <2>3
  <2>5. CASE i > Len(p) /\ j <= Len(p)
    <3>1. j \in 1..Len(p) /\ i - Len(p) \in 1..Len(q) /\ p[j] = q[i - Len(p)]
      BY <2>5, <1>1, <1>3, ChainType
    <3> QED BY <3>1, <2>3
  <2> QED BY <2>1, <2>2, <2>4, <2>5, ChainType
<1>4. pq \in Chain
  BY <1>1, <1>3 DEF Chain
<1>5. Range(pq) \subseteq Range(p) \cup Range(q)
  <2> SUFFICES ASSUME NEW i \in 1..Len(pq) PROVE pq[i] \in Range(p) \cup Range(q)
    BY <1>4, ChainType
  <2>1. CASE i <= Len(p)
    BY <2>1, <1>1, ChainType
  <2>2. CASE i > Len(p)
    <3>1. i - Len(p) \in 1..Len(q)
      BY <2>2, <1>1, ChainType
    <3> QED BY <3>1, <2>2, <1>1, ChainType
  <2> QED BY <2>1, <2>2, ChainType
<1>6. Range(p) \subseteq Range(pq)
  <2> SUFFICES ASSUME NEW i \in 1..Len(p) PROVE p[i] \in Range(pq)
    BY ChainType
  <2>1. i \in 1..Len(pq) /\ pq[i] = p[i]
    BY <1>1, ChainType
  <2> QED BY <2>1, <1>4, ChainType
<1>7. Range(q) \subseteq Range(pq)
  <2> SUFFICES ASSUME NEW i \in 1..Len(q) PROVE q[i] \in Range(pq)
    BY ChainType
  <2> DEFINE k == Len(p) + i
  <2>1. k \in 1..Len(pq) /\ ~(k <= Len(p)) /\ k - Len(p) = i
    BY <1>1, ChainType
  <2>2. pq[k] = q[i]
    BY <2>1, <1>1
  <2> QED BY <2>1, <2>2, <1>4, ChainType
<1> QED BY <1>4, <1>5, <1>6, <1>7 DEF pq

(* What follows a sync is a chain, and never an empty one.                 *)
LEMMA PlannedIsChain ==
  ASSUME NEW key
  PROVE  /\ Planned(key) \in Chain /\ Planned(key) # <<>>
         /\ Range(Planned(key)) = Steps \cap Configured
<1> DEFINE f == FOLLOWS(key)
           up(s) == IF s \in Configured THEN <<s>> ELSE <<>>
<1>1. ASSUME NEW s \in Steps
      PROVE  /\ up(s) \in Chain
             /\ Range(up(s)) = IF s \in Configured THEN {s} ELSE {}
  <2>1. <<s>> \in Chain /\ <<>> \in Chain
    BY DEF Chain
  <2>2. Range(<<s>>) = {s} /\ Range(<<>>) = {}
    BY DEF Range
  <2> QED BY <2>1, <2>2
<1>2. /\ f[1] \in Steps /\ f[2] \in Steps /\ f[3] \in Steps
      /\ f[1] # f[2] /\ f[1] # f[3] /\ f[2] # f[3]
      /\ Steps = {f[1], f[2], f[3]}
  BY DEF FOLLOWS, Steps
<1>3. Planned(key) = up(f[1]) \o up(f[2]) \o up(f[3])
  BY DEF Planned
<1> HIDE DEF f, up
<1>4. /\ up(f[1]) \o up(f[2]) \in Chain
      /\ Range(up(f[1]) \o up(f[2])) = Range(up(f[1])) \cup Range(up(f[2]))
  BY <1>1, <1>2, ConcatOfChains
<1>5. /\ Planned(key) \in Chain
      /\ Range(Planned(key)) = Range(up(f[1])) \cup Range(up(f[2])) \cup Range(up(f[3]))
  <2> DEFINE p == up(f[1]) \o up(f[2])
             q == up(f[3])
  <2>1. p \in Chain /\ Range(p) = Range(up(f[1])) \cup Range(up(f[2]))
    BY <1>4
  <2>2. q \in Chain
    BY <1>1, <1>2
  <2>3. Range(p) \cap Range(q) = {}
    BY <1>1, <1>2, <2>1
  <2>4. Planned(key) = p \o q
    BY <1>3
  <2> HIDE DEF p, q
  <2>5. Planned(key) \in Chain /\ Range(Planned(key)) = Range(p) \cup Range(q)
    BY <2>1, <2>2, <2>3, <2>4, ConcatOfChains
  <2> QED BY <2>1, <2>5 DEF q
<1>6. Range(Planned(key)) = Steps \cap Configured
  BY <1>1, <1>2, <1>5
<1>7. "steam_store" \in Range(Planned(key))
  BY <1>6, ConfiguredAssumption DEF Steps
<1> QED BY <1>5, <1>6, <1>7, ChainType

(* Taking the first step off leaves the others, each still once.           *)
LEMMA TailOfChain ==
  ASSUME NEW p \in Chain, p # <<>>
  PROVE  /\ Head(p) \in Steps
         /\ Head(p) \in Range(p)
         /\ Tail(p) \in Chain
         /\ Range(Tail(p)) = Range(p) \ {Head(p)}
         /\ Range(p) \subseteq Steps
<1>1. /\ p \in Seq(Steps) /\ Len(p) \in Nat /\ Len(p) >= 1
      /\ \A i, j \in 1..Len(p) : p[i] = p[j] => i = j
  BY LenProperties, EmptySeq DEF Chain
<1>2. /\ Head(p) = p[1]
      /\ Tail(p) \in Seq(Steps)
      /\ Len(Tail(p)) = Len(p) - 1
      /\ \A i \in 1..Len(Tail(p)) : Tail(p)[i] = p[i + 1]
  BY <1>1, HeadTailProperties
<1>3. DOMAIN p = 1..Len(p) /\ DOMAIN Tail(p) = 1..Len(Tail(p))
  BY <1>1, <1>2, LenProperties
<1>4. \A i \in 1..Len(p) : p[i] \in Steps
  BY <1>1, ElementOfSeq
<1>5. Tail(p) \in Chain
  <2>1. ASSUME NEW i \in 1..Len(Tail(p)), NEW j \in 1..Len(Tail(p)), Tail(p)[i] = Tail(p)[j]
        PROVE  i = j
    <3>1. i + 1 \in 1..Len(p) /\ j + 1 \in 1..Len(p) /\ p[i + 1] = p[j + 1]
      BY <2>1, <1>1, <1>2
    <3> QED BY <3>1, <1>1
  <2> QED BY <2>1, <1>2 DEF Chain
<1>6. Range(Tail(p)) \subseteq Range(p) \ {Head(p)}
  BY <1>1, <1>2, <1>3 DEF Range
<1>7. ASSUME NEW x \in Range(p) \ {Head(p)}
      PROVE  x \in Range(Tail(p))
  <2>1. PICK i \in 1..Len(p) : x = p[i]
    BY <1>3 DEF Range
  <2>2. i # 1
    BY <2>1, <1>2
  <2>3. i - 1 \in 1..Len(Tail(p)) /\ Tail(p)[i - 1] = p[i]
    BY <2>2, <1>1, <1>2
  <2> QED BY <2>1, <2>3, <1>3 DEF Range
<1>8. Head(p) \in Range(p) /\ Range(p) \subseteq Steps /\ Head(p) \in Steps
  BY <1>1, <1>2, <1>3, <1>4 DEF Range
<1> QED BY <1>5, <1>6, <1>7, <1>8

-----------------------------------------------------------------------------
(* A batch is some of the keys there are to ask.                           *)
LEMMA SubsetOfSize ==
  ASSUME NEW S, IsFiniteSet(S), NEW k \in 0..Cardinality(S)
  PROVE  \E T \in SUBSET S : Cardinality(T) = k
<1> DEFINE n == Cardinality(S)
<1>1. n \in Nat /\ ExistsBijection(1..n, S)
  BY FS_CardinalityType
<1> HIDE DEF n
<1>2. PICK f \in Bijection(1..n, S) : TRUE
  BY <1>1 DEF ExistsBijection
<1> DEFINE T == {f[i] : i \in 1..k}
           g == [i \in 1..k |-> f[i]]
<1>3. k \in 0..n
  BY DEF n
<1>4. T \in SUBSET S
  BY <1>1, <1>2, <1>3 DEF Bijection, Injection, Surjection
<1>5. g \in Bijection(1..k, T)
  BY <1>1, <1>2, <1>3 DEF Bijection, Injection, Surjection, IsInjective
<1>6. Cardinality(T) = k
  <2>1. ExistsBijection(1..k, T)
    BY <1>5 DEF ExistsBijection
  <2> QED BY <2>1, <1>3, <1>1, FS_CountingElements
<1> QED BY <1>4, <1>6

LEMMA BatchOfKeys ==
  ASSUME NEW t \in Tasks, asking[t] \in SUBSET Items
  PROVE  NextBatch(t) \subseteq asking[t]
<1> DEFINE n == Cardinality(asking[t])
<1>1. IsFiniteSet(asking[t]) /\ n \in Nat
  BY ItemsAssumption, FS_Subset, FS_CardinalityType
<1>2. Min({BatchSize, n}) \in {BatchSize, n} /\ Min({BatchSize, n}) <= n
  <2>1. CASE BatchSize <= n
    BY <2>1, <1>1, BatchAssumption DEF Min
  <2>2. CASE n <= BatchSize
    BY <2>2, <1>1, BatchAssumption DEF Min
  <2> QED BY <2>1, <2>2, <1>1, BatchAssumption
<1>3. Min({BatchSize, n}) \in 0..n
  BY <1>1, <1>2, BatchAssumption
<1>4. \E batch \in SUBSET asking[t] : Cardinality(batch) = Min({BatchSize, n})
  BY <1>1, <1>3, SubsetOfSize
<1> QED BY <1>4 DEF NextBatch

-----------------------------------------------------------------------------
(* The tasks: each has a chain before it as long as it is not idle, and a  *)
(* request for one step is never waiting to begin.                         *)
AtStep == {"opening"} \cup InRun

TaskShape ==
  /\ pc \in [Tasks -> {"idle", "due"} \cup AtStep]
  /\ plan \in [Tasks -> Chain]
  /\ \A t \in Tasks : pc[t] = "idle" <=> plan[t] = <<>>
  /\ asking \in [Tasks -> SUBSET Items]
  /\ wanted \in [Tasks -> SUBSET Items]
  /\ outcome \in [Tasks -> {"none", "success", "failed", "broken"}]
  /\ byHand \in SUBSET Tasks
  /\ \A t \in byHand : pc[t] \in AtStep
  /\ landed \in [Tasks -> SUBSET Items]

LEMMA NextTask ==
  ASSUME TaskShape, NEW t \in Tasks, pc[t] # "idle"
  PROVE  /\ Head(plan[t]) \in Steps
         /\ Head(plan[t]) \in Range(plan[t])
         /\ Tail(plan[t]) \in Chain
         /\ Range(Tail(plan[t])) = Range(plan[t]) \ {Head(plan[t])}
         /\ Range(plan[t]) \subseteq Steps
BY TailOfChain DEF TaskShape

LEMMA EmptyChain == <<>> \in Chain
BY DEF Chain

LEMMA OneStepChain == ASSUME NEW s \in Steps PROVE <<s>> \in Chain /\ <<s>> # <<>>
BY DEF Chain

LEMMA StepEndsTask ==
  ASSUME TaskShape, NEW t \in Tasks, pc[t] \in AtStep, NEW ok, StepEnds(t, ok)
  PROVE  TaskShape'
<1>1. Tail(plan[t]) \in Chain
  BY NextTask DEF AtStep, InRun
<1>2. plan' = [plan EXCEPT ![t] = Tail(plan[t])]
  BY DEF StepEnds
<1>3. CASE Tail(plan[t]) = <<>>
  BY <1>1, <1>2, <1>3 DEF TaskShape, StepEnds, Forget
<1>4. CASE Tail(plan[t]) # <<>>
  <2>1. pc' = [pc EXCEPT ![t] = "opening"] /\ byHand' = byHand
    BY <1>4 DEF StepEnds
  <2>2. /\ landed' \in [Tasks -> SUBSET Items]
        /\ asking' \in [Tasks -> SUBSET Items]
        /\ wanted' \in [Tasks -> SUBSET Items]
        /\ outcome' \in [Tasks -> {"none", "success", "failed", "broken"}]
    BY DEF TaskShape, StepEnds, Forget
  <2> QED BY <2>1, <2>2, <1>1, <1>2, <1>4 DEF TaskShape, AtStep, InRun
<1> QED BY <1>3, <1>4

LEMMA ChainEndsTask ==
  ASSUME TaskShape, NEW t \in Tasks, ChainEnds(t)
  PROVE  TaskShape'
BY EmptyChain DEF TaskShape, ChainEnds, Forget

LEMMA GoesOnTask ==
  ASSUME TaskShape, NEW t \in Tasks, pc[t] \in InRun,
         NEW targets \in SUBSET Items, NEW left \in SUBSET Items, NEW record \in SUBSET Items,
         GoesOn(t, targets, left, record), UNCHANGED <<plan, byHand, landed>>
  PROVE  TaskShape'
<1>1. pc' \in [Tasks -> {"idle", "due"} \cup AtStep] /\ pc'[t] \in InRun
  BY DEF TaskShape, GoesOn, AtStep, InRun
<1>2. \A u \in Tasks : u # t => pc'[u] = pc[u]
  BY DEF TaskShape, GoesOn
<1>3. /\ asking' \in [Tasks -> SUBSET Items]
      /\ wanted' \in [Tasks -> SUBSET Items]
      /\ outcome' \in [Tasks -> {"none", "success", "failed", "broken"}]
  BY DEF TaskShape, GoesOn
<1> QED BY <1>1, <1>2, <1>3 DEF TaskShape, AtStep, InRun

LEMMA TaskShapeInit == Init => TaskShape
BY EmptyChain DEF Init, TaskShape, Nothing

LEMMA TaskShapeStep ==
  ASSUME TaskShape, library \in SUBSET Items, [Next]_vars
  PROVE  TaskShape'
<1>1. ASSUME NEW t \in Tasks, NEW key \in {"steam", "epic"}, NEW new \in SUBSET Items,
             Land(t, key, new)
      PROVE  TaskShape'
  BY <1>1, PlannedIsChain DEF Land, TaskShape, AtStep, InRun, locals
<1>2. ASSUME NEW t \in Tasks, NEW s \in Steps, Click(t, s)
      PROVE  TaskShape'
  BY <1>2, OneStepChain DEF Click, TaskShape, AtStep, InRun, locals
<1>3. ASSUME NEW t \in Tasks, Begin(t)
      PROVE  TaskShape'
  BY <1>3 DEF Begin, TaskShape, AtStep, InRun, locals
<1>4. ASSUME NEW t \in Tasks, Open(t)
      PROVE  TaskShape'
  BY <1>4 DEF Open, TaskShape, AtStep, InRun, locals
<1>5. ASSUME NEW t \in Tasks, Busy(t)
      PROVE  TaskShape'
  BY <1>5, StepEndsTask DEF Busy, AtStep
<1>6. ASSUME NEW t \in Tasks, OpenLost(t)
      PROVE  TaskShape'
  BY <1>6, ChainEndsTask DEF OpenLost
<1>7. ASSUME NEW t \in Tasks, ReadTargets(t)
      PROVE  TaskShape'
  <2>1. /\ pc[t] \in InRun
        /\ \A s : Targets(s) \in SUBSET Items
    BY <1>7 DEF ReadTargets, InRun, Targets
  <2> DEFINE s == Head(plan[t])
  <2>2. GoesOn(t, Targets(s), Targets(s) \ (cache[s] \ stale[s]), Targets(s) \cap Knows[s])
    BY <1>7 DEF ReadTargets
  <2>3. UNCHANGED <<plan, byHand, landed>>
    BY <1>7 DEF ReadTargets
  <2> QED BY <2>1, <2>2, <2>3, GoesOnTask
<1>8. ASSUME NEW t \in Tasks, Store(t)
      PROVE  TaskShape'
  <2>1. pc[t] \in InRun /\ wanted[t] \in SUBSET Items /\ asking[t] \in SUBSET Items
    BY <1>8 DEF Store, InRun, TaskShape
  <2>2. GoesOn(t, wanted[t], asking[t] \ NextBatch(t), wanted[t] \cap Knows[Head(plan[t])])
    BY <1>8 DEF Store
  <2>3. UNCHANGED <<plan, byHand, landed>>
    BY <1>8 DEF Store
  <2> QED BY <2>1, <2>2, <2>3, GoesOnTask
<1>9. ASSUME NEW t \in Tasks, Record(t)
      PROVE  TaskShape'
  <2>1. pc[t] \in InRun /\ asking[t] \in SUBSET Items
    BY <1>9 DEF Record, InRun, TaskShape
  <2>2. GoesOn(t, {}, {}, asking[t] \ NextBatch(t))
    BY <1>9 DEF Record
  <2>3. UNCHANGED <<plan, byHand, landed>>
    BY <1>9 DEF Record
  <2> QED BY <2>1, <2>2, <2>3, GoesOnTask
<1>10. ASSUME NEW t \in Tasks, NEW end \in {"failed", "broken"}, pc[t] \in InRun,
              LeavesStep(t, end)
       PROVE  TaskShape'
  BY <1>10 DEF LeavesStep, TaskShape, AtStep, InRun
<1>11. ASSUME NEW t \in Tasks, Fail(t) \/ Break(t)
       PROVE  TaskShape'
  BY <1>10, <1>11 DEF Fail, Break, InRun
<1>12. ASSUME NEW t \in Tasks, Close(t)
       PROVE  TaskShape'
  BY <1>12, StepEndsTask, ChainEndsTask DEF Close, AtStep, InRun
<1>13. ASSUME NEW t \in Tasks, CloseLost(t)
       PROVE  TaskShape'
  BY <1>13, ChainEndsTask DEF CloseLost
<1>14. ASSUME NEW s \in Steps, Expire(s)
       PROVE  TaskShape'
  BY <1>14 DEF Expire, TaskShape, locals
<1>15. CASE Kill
  BY <1>15, EmptyChain DEF Kill, TaskShape, Nothing
<1>16. CASE UNCHANGED vars
  BY <1>16 DEF vars, TaskShape
<1> QED BY <1>1, <1>2, <1>3, <1>4, <1>5, <1>6, <1>7, <1>8, <1>9, <1>11, <1>12, <1>13,
           <1>14, <1>15, <1>16 DEF Next, Step

-----------------------------------------------------------------------------
(* The database, and what the tasks may take for granted about it: a task  *)
(* in its run holds the one open run of its provider, so nobody else       *)
(* stores under its step; of its targets only what it is asking for is not *)
(* answered; and what it records is answered and known.                    *)
DataShape ==
  /\ library \in SUBSET Items
  /\ open \in [Steps -> Tasks \cup {None, Orphan}]
  /\ cache \in [Steps -> SUBSET Items]
  /\ stale \in [Steps -> SUBSET Items]
  /\ told \in [Steps -> SUBSET Items]
  /\ \A s \in Steps : stale[s] \subseteq cache[s] /\ told[s] \subseteq cache[s] \cap Knows[s]
  /\ \A t \in Tasks : pc[t] \in InRun => open[Head(plan[t])] = t

Answered ==
  \A t \in Tasks :
    LET s == Head(plan[t]) IN
      /\ pc[t] = "asked" => wanted[t] \ asking[t] \subseteq cache[s]
      /\ pc[t] = "asked" => asking[t] \cap cache[s] \subseteq stale[s]
      /\ pc[t] = "recording" => asking[t] \subseteq cache[s] \cap Knows[s]

Shape == TaskShape /\ DataShape /\ Answered

(* What a task that ends its step leaves: no run of its own, and the       *)
(* others as they were.                                                    *)
LEMMA Leaves ==
  ASSUME TaskShape, NEW t \in Tasks, NEW ok, StepEnds(t, ok) \/ ChainEnds(t)
  PROVE  /\ pc'[t] \notin InRun
         /\ \A u \in Tasks : u # t => /\ pc'[u] = pc[u] /\ plan'[u] = plan[u]
                                     /\ asking'[u] = asking[u] /\ wanted'[u] = wanted[u]
<1>1. CASE StepEnds(t, ok)
  BY <1>1 DEF TaskShape, StepEnds, Forget, InRun
<1>2. CASE ChainEnds(t)
  BY <1>2 DEF TaskShape, ChainEnds, Forget, InRun
<1> QED BY <1>1, <1>2

LEMMA GoesOnData ==
  ASSUME TaskShape, NEW t \in Tasks, NEW targets, NEW left, NEW record,
         GoesOn(t, targets, left, record)
  PROVE  /\ pc'[t] \in InRun
         /\ pc'[t] = "asked" => left # {} /\ asking'[t] = left /\ wanted'[t] = targets
         /\ pc'[t] = "recording" => left = {} /\ asking'[t] = record
         /\ \A u \in Tasks : u # t => /\ pc'[u] = pc[u]
                                     /\ asking'[u] = asking[u] /\ wanted'[u] = wanted[u]
<1>1. CASE left # {}
  <2>1. pc' = [pc EXCEPT ![t] = "asked"]
    BY <1>1 DEF GoesOn
  <2>2. asking' = [asking EXCEPT ![t] = left] /\ wanted' = [wanted EXCEPT ![t] = targets]
    BY <1>1 DEF GoesOn
  <2>3. pc'[t] = "asked" /\ asking'[t] = left /\ wanted'[t] = targets
    BY <2>1, <2>2 DEF TaskShape
  <2>4. \A u \in Tasks : u # t => /\ pc'[u] = pc[u]
                                /\ asking'[u] = asking[u] /\ wanted'[u] = wanted[u]
    BY <2>1, <2>2 DEF TaskShape
  <2> QED BY <2>3, <2>4, <1>1 DEF InRun
<1>2. CASE left = {} /\ record # {}
  BY <1>2 DEF TaskShape, GoesOn, InRun
<1>3. CASE left = {} /\ record = {}
  BY <1>3 DEF TaskShape, GoesOn, InRun
<1> QED BY <1>1, <1>2, <1>3

LEMMA DataShapeInit == Init => DataShape /\ Answered
BY DEF Init, DataShape, Answered, InRun

LEMMA DataShapeStep ==
  ASSUME Shape, [Next]_vars
  PROVE  DataShape' /\ Answered'
<1> USE DEF Shape
<1>1. ASSUME NEW t \in Tasks, NEW key \in {"steam", "epic"}, NEW new \in SUBSET Items,
             Land(t, key, new)
      PROVE  DataShape' /\ Answered'
  BY <1>1 DEF Land, TaskShape, DataShape, Answered, InRun, locals
<1>2. ASSUME NEW t \in Tasks, NEW s \in Steps, Click(t, s)
      PROVE  DataShape' /\ Answered'
  BY <1>2 DEF Click, TaskShape, DataShape, Answered, InRun, locals, database
<1>3. ASSUME NEW t \in Tasks, Begin(t)
      PROVE  DataShape' /\ Answered'
  BY <1>3 DEF Begin, TaskShape, DataShape, Answered, InRun, locals, database
<1>4. ASSUME NEW t \in Tasks, Open(t)
      PROVE  DataShape' /\ Answered'
  <2> DEFINE s == Head(plan[t])
  <2>1. s \in Steps
    BY <1>4, NextTask DEF Open
  <2>2. \A u \in Tasks : pc[u] \in InRun => Head(plan[u]) # s
    BY <1>4 DEF Open, Free, DataShape
  <2>3. open' \in [Steps -> Tasks \cup {None, Orphan}]
    BY <1>4, <2>1 DEF Open, DataShape
  <2>4. \A u \in Tasks : pc'[u] \in InRun => open'[Head(plan'[u])] = u
    <3> SUFFICES ASSUME NEW u \in Tasks, pc'[u] \in InRun PROVE open'[Head(plan'[u])] = u
      OBVIOUS
    <3>1. CASE u = t
      BY <3>1, <1>4, <2>1 DEF Open, DataShape
    <3>2. CASE u # t
      <4>1. pc[u] \in InRun /\ pc[u] # "idle" /\ Head(plan[u]) # s
        BY <3>2, <1>4, <2>2 DEF Open, TaskShape, InRun
      <4>2. Head(plan[u]) \in Steps
        BY <4>1, NextTask
      <4> QED BY <4>1, <4>2, <1>4, <2>1 DEF Open, DataShape
    <3> QED BY <3>1, <3>2
  <2>5. DataShape'
    BY <1>4, <2>3, <2>4 DEF Open, DataShape
  <2> QED BY <1>4, <2>5 DEF Open, TaskShape, Answered, locals
<1>5. ASSUME NEW t \in Tasks, Busy(t)
      PROVE  DataShape' /\ Answered'
  <2>1. StepEnds(t, FALSE)
    BY <1>5 DEF Busy
  <2>2. UNCHANGED database
    BY <1>5 DEF Busy
  <2>3. \A u \in Tasks : pc'[u] \in InRun =>
           /\ pc[u] = pc'[u] /\ plan'[u] = plan[u]
           /\ asking'[u] = asking[u] /\ wanted'[u] = wanted[u]
    BY <2>1, Leaves
  <2>4. DataShape'
    BY <2>2, <2>3 DEF database, DataShape
  <2>5. Answered'
    BY <2>2, <2>3 DEF database, Answered, InRun
  <2> QED BY <2>4, <2>5
<1>6. ASSUME NEW t \in Tasks, pc[t] \in AtStep, NEW free \in {None, Orphan},
             open' = open \/ open' = [open EXCEPT ![Head(plan[t])] = free],
             NEW ok, StepEnds(t, ok) \/ ChainEnds(t),
             pc[t] \in InRun \/ open[Head(plan[t])] \notin Tasks,
             UNCHANGED <<library, cache, stale, told>>
      PROVE  DataShape' /\ Answered'
  <2> DEFINE s == Head(plan[t])
  <2>1. s \in Steps
    BY <1>6, NextTask DEF AtStep, InRun
  <2>2. /\ pc'[t] \notin InRun
        /\ \A u \in Tasks : u # t => /\ pc'[u] = pc[u] /\ plan'[u] = plan[u]
                                    /\ asking'[u] = asking[u] /\ wanted'[u] = wanted[u]
    BY <1>6, Leaves
  <2>3. \A u \in Tasks : u # t /\ pc[u] \in InRun => Head(plan[u]) # s
    BY <1>6 DEF DataShape
  <2>4. open' \in [Steps -> Tasks \cup {None, Orphan}]
    BY <1>6, <2>1 DEF DataShape
  <2>5. \A u \in Tasks : pc'[u] \in InRun => open'[Head(plan'[u])] = u
    <3> SUFFICES ASSUME NEW u \in Tasks, pc'[u] \in InRun PROVE open'[Head(plan'[u])] = u
      OBVIOUS
    <3>1. u # t /\ pc[u] \in InRun /\ pc[u] # "idle" /\ plan'[u] = plan[u]
      BY <2>2 DEF InRun
    <3>2. Head(plan[u]) \in Steps /\ Head(plan[u]) # s
      BY <3>1, <2>3, NextTask
    <3> QED BY <3>1, <3>2, <1>6, <2>1 DEF DataShape
  <2>6. DataShape'
    BY <1>6, <2>4, <2>5 DEF DataShape
  <2> QED BY <2>6, <2>2, <1>6 DEF Answered, InRun
<1>7. ASSUME NEW t \in Tasks, OpenLost(t)
      PROVE  DataShape' /\ Answered'
  BY <1>6, <1>7, HoldersAssumption DEF OpenLost, Free, AtStep
<1>8. ASSUME NEW t \in Tasks, ReadTargets(t)
      PROVE  DataShape' /\ Answered'
  <2> DEFINE s == Head(plan[t])
  <2>1. /\ GoesOn(t, Targets(s), Targets(s) \ (cache[s] \ stale[s]), Targets(s) \cap Knows[s])
        /\ pc[t] \in InRun
        /\ UNCHANGED <<library, open, cache, stale, told, plan>>
    BY <1>8 DEF ReadTargets, database, InRun
  <2>2. DataShape'
    BY <2>1, GoesOnData DEF DataShape
  <2>3. \A u \in Tasks : u # t => pc'[u] = pc[u] /\ asking'[u] = asking[u] /\ wanted'[u] = wanted[u]
    BY <2>1, GoesOnData
  <2>4. /\ pc'[t] = "asked" => /\ asking'[t] = Targets(s) \ (cache[s] \ stale[s])
                                /\ wanted'[t] = Targets(s)
        /\ pc'[t] = "recording" => /\ Targets(s) \ (cache[s] \ stale[s]) = {}
                                    /\ asking'[t] = Targets(s) \cap Knows[s]
    BY <2>1, GoesOnData
  <2> HIDE DEF s
  <2>5. /\ pc'[t] = "asked" => wanted'[t] \ asking'[t] \subseteq cache[s]
        /\ pc'[t] = "asked" => asking'[t] \cap cache[s] \subseteq stale[s]
        /\ pc'[t] = "recording" => asking'[t] \subseteq cache[s] \cap Knows[s]
    BY <2>4
  <2> QED BY <2>1, <2>2, <2>3, <2>5 DEF Answered, s
<1>9. ASSUME NEW t \in Tasks, Store(t)
      PROVE  DataShape' /\ Answered'
  <2> DEFINE s == Head(plan[t])
             batch == NextBatch(t)
  <2>1. /\ pc[t] = "asked"
        /\ cache' = [cache EXCEPT ![s] = @ \cup batch]
        /\ stale' = [stale EXCEPT ![s] = @ \ batch]
        /\ GoesOn(t, wanted[t], asking[t] \ batch, wanted[t] \cap Knows[s])
        /\ UNCHANGED <<library, open, told, plan>>
    BY <1>9 DEF Store, Stored, DataShape
  <2>2. s \in Steps /\ batch \subseteq Items
    BY <2>1, NextTask, BatchOfKeys DEF TaskShape
  <2>3. \A u \in Tasks : u # t /\ pc[u] \in InRun => Head(plan[u]) # s /\ Head(plan[u]) \in Steps
    <3> SUFFICES ASSUME NEW u \in Tasks, u # t, pc[u] \in InRun
                 PROVE  Head(plan[u]) # s /\ Head(plan[u]) \in Steps
      OBVIOUS
    <3>1. open[s] = t /\ open[Head(plan[u])] = u
      BY <2>1 DEF DataShape, InRun
    <3>2. pc[u] # "idle"
      BY DEF InRun
    <3> QED BY <3>1, <3>2, NextTask
  <2> HIDE DEF batch
  <2>4. /\ pc'[t] \in InRun
        /\ \A u \in Tasks : u # t => pc'[u] = pc[u] /\ asking'[u] = asking[u] /\ wanted'[u] = wanted[u]
    BY <2>1, GoesOnData
  <2>5. /\ pc'[t] = "asked" => asking'[t] = asking[t] \ batch /\ wanted'[t] = wanted[t]
        /\ pc'[t] = "recording" => asking[t] \ batch = {} /\ asking'[t] = wanted[t] \cap Knows[s]
    BY <2>1, GoesOnData
  <2>6. cache' \in [Steps -> SUBSET Items] /\ stale' \in [Steps -> SUBSET Items]
    BY <2>1, <2>2 DEF DataShape
  <2>7. \A r \in Steps : stale'[r] \subseteq cache'[r] /\ cache[r] \subseteq cache'[r]
    BY <2>1, <2>2 DEF DataShape
  <2>8. \A u \in Tasks : pc'[u] \in InRun => open'[Head(plan'[u])] = u
    BY <2>1, <2>4 DEF DataShape, InRun
  <2>9. DataShape'
    BY <2>1, <2>6, <2>7, <2>8 DEF DataShape
  <2>10. wanted[t] \ asking[t] \subseteq cache[s] /\ asking[t] \cap cache[s] \subseteq stale[s]
    BY <2>1 DEF Answered
  <2>11. cache'[s] = cache[s] \cup batch /\ stale'[s] = stale[s] \ batch
    BY <2>1, <2>2 DEF DataShape
  <2>12. /\ pc'[t] = "asked" => wanted'[t] \ asking'[t] \subseteq cache'[s]
         /\ pc'[t] = "asked" => asking'[t] \cap cache'[s] \subseteq stale'[s]
         /\ pc'[t] = "recording" => asking'[t] \subseteq cache'[s] \cap Knows[s]
    <3> HIDE DEF s
    <3> QED BY <2>5, <2>10, <2>11
  <2>13. ASSUME NEW u \in Tasks, u # t, pc'[u] \in InRun
         PROVE  cache'[Head(plan[u])] = cache[Head(plan[u])] /\ stale'[Head(plan[u])] = stale[Head(plan[u])]
    <3>1. Head(plan[u]) # s /\ Head(plan[u]) \in Steps
      BY <2>3, <2>4, <2>13
    <3> QED BY <3>1, <2>1, <2>2 DEF DataShape
  <2> QED BY <2>1, <2>4, <2>9, <2>12, <2>13 DEF Answered, InRun
<1>10. ASSUME NEW t \in Tasks, Record(t)
       PROVE  DataShape' /\ Answered'
  <2> DEFINE s == Head(plan[t])
             batch == NextBatch(t)
  <2>1. /\ pc[t] = "recording"
        /\ told' = [told EXCEPT ![s] = @ \cup batch]
        /\ GoesOn(t, {}, {}, asking[t] \ batch)
        /\ UNCHANGED <<library, open, cache, stale, plan>>
    BY <1>10 DEF Record
  <2>2. s \in Steps /\ batch \subseteq asking[t]
    BY <2>1, NextTask, BatchOfKeys DEF TaskShape
  <2> HIDE DEF batch
  <2>3. asking[t] \subseteq cache[s] \cap Knows[s] /\ asking[t] \subseteq Items
    BY <2>1 DEF Answered, TaskShape
  <2>4. /\ pc'[t] \in InRun /\ pc'[t] # "asked"
        /\ pc'[t] = "recording" => asking'[t] = asking[t] \ batch
        /\ \A u \in Tasks : u # t => pc'[u] = pc[u] /\ asking'[u] = asking[u] /\ wanted'[u] = wanted[u]
    BY <2>1, GoesOnData
  <2>5. /\ told' \in [Steps -> SUBSET Items]
        /\ \A r \in Steps : told'[r] \subseteq cache[r] \cap Knows[r]
    BY <2>1, <2>2, <2>3 DEF DataShape
  <2>6. DataShape'
    BY <2>1, <2>4, <2>5 DEF DataShape, InRun
  <2>7. pc'[t] = "recording" => asking'[t] \subseteq cache[s] \cap Knows[s]
    BY <2>3, <2>4
  <2> QED BY <2>1, <2>4, <2>6, <2>7 DEF Answered
<1>11. ASSUME NEW t \in Tasks, Fail(t) \/ Break(t)
       PROVE  DataShape' /\ Answered'
  BY <1>11 DEF Fail, Break, LeavesStep, TaskShape, DataShape, Answered, InRun, database
<1>12. ASSUME NEW t \in Tasks, Close(t)
       PROVE  DataShape' /\ Answered'
  <2>1. PICK ok : StepEnds(t, ok) \/ ChainEnds(t)
    BY <1>12 DEF Close
  <2>2. /\ pc[t] \in AtStep /\ pc[t] \in InRun
        /\ open' = open \/ open' = [open EXCEPT ![Head(plan[t])] = None]
        /\ UNCHANGED <<library, cache, stale, told>>
    BY <1>12 DEF Close, AtStep, InRun
  <2> QED BY <1>6, <2>1, <2>2
<1>13. ASSUME NEW t \in Tasks, CloseLost(t)
       PROVE  DataShape' /\ Answered'
  <2>1. /\ pc[t] \in AtStep /\ pc[t] \in InRun
        /\ open' = open \/ open' = [open EXCEPT ![Head(plan[t])] = Orphan]
        /\ ChainEnds(t)
        /\ UNCHANGED <<library, cache, stale, told>>
    BY <1>13 DEF CloseLost, AtStep, InRun
  <2> QED BY <1>6, <2>1
<1>14. ASSUME NEW s \in Steps, Expire(s)
       PROVE  DataShape' /\ Answered'
  <2>1. \A t \in Tasks : pc[t] \in InRun => Head(plan[t]) \in Steps
    BY NextTask DEF InRun
  <2>2. DataShape'
    BY <1>14 DEF Expire, DataShape
  <2>3. \A r \in Steps : stale[r] \subseteq stale'[r]
    BY <1>14 DEF Expire, DataShape
  <2> QED BY <1>14, <2>1, <2>2, <2>3 DEF Expire, Answered, InRun, locals
<1>15. CASE Kill
  BY <1>15 DEF Kill, DataShape, Answered, InRun
<1>16. CASE UNCHANGED vars
  BY <1>16 DEF vars, DataShape, Answered
<1> QED BY <1>1, <1>2, <1>3, <1>4, <1>5, <1>7, <1>8, <1>9, <1>10, <1>11, <1>12, <1>13,
           <1>14, <1>15, <1>16 DEF Next, Step

-----------------------------------------------------------------------------
(* The counts.  `Waiting(s)` are the chains that have s before them and    *)
(* `AtWork(s)` those that are at s: a step that ends takes its task off    *)
(* both, and starting the next one puts it in another.                     *)
Waiting(s) == {t \in Tasks \ byHand : s \in Range(plan[t])}
AtWork(s) == {t \in Tasks \ byHand : pc[t] \in AtStep /\ Head(plan[t]) = s}

Counted ==
  /\ queued \in [Steps -> Nat]
  /\ running \in [Steps -> Nat]
  /\ \A s \in Steps : queued[s] = Cardinality(Waiting(s)) /\ running[s] <= Cardinality(AtWork(s))

LEMMA SetsAreFinite ==
  \A s : /\ IsFiniteSet(Waiting(s)) /\ Cardinality(Waiting(s)) \in Nat
         /\ IsFiniteSet(AtWork(s)) /\ Cardinality(AtWork(s)) \in Nat
         /\ IsFiniteSet(Waiting(s))' /\ Cardinality(Waiting(s))' \in Nat
         /\ IsFiniteSet(AtWork(s))' /\ Cardinality(AtWork(s))' \in Nat
<1> SUFFICES ASSUME NEW s
             PROVE  /\ IsFiniteSet(Waiting(s)) /\ Cardinality(Waiting(s)) \in Nat
                    /\ IsFiniteSet(AtWork(s)) /\ Cardinality(AtWork(s)) \in Nat
                    /\ IsFiniteSet(Waiting(s))' /\ Cardinality(Waiting(s))' \in Nat
                    /\ IsFiniteSet(AtWork(s))' /\ Cardinality(AtWork(s))' \in Nat
  OBVIOUS
<1>1. \A S \in SUBSET Tasks : IsFiniteSet(S) /\ Cardinality(S) \in Nat
  BY FS_Subset, FS_CardinalityType
<1>2. /\ Waiting(s) \in SUBSET Tasks /\ Waiting(s)' \in SUBSET Tasks
      /\ AtWork(s) \in SUBSET Tasks /\ AtWork(s)' \in SUBSET Tasks
  BY DEF Waiting, AtWork
<1> QED BY <1>1, <1>2

LEMMA CountsAreCounted ==
  ASSUME TaskShape
  PROVE  CountsAreTrue <=>
           \A s \in Steps : /\ queued[s] = Cardinality(Waiting(s))
                           /\ running[s] <= Cardinality(AtWork(s))
<1>1. \A t \in Tasks : pc[t] \in AtStep <=> pc[t] \notin {"idle", "due"}
  BY DEF TaskShape, AtStep, InRun
<1>2. \A s : AtWork(s) = {t \in Tasks \ byHand : pc[t] \notin {"idle", "due"} /\ Head(plan[t]) = s}
  BY <1>1 DEF AtWork
<1> QED BY <1>2 DEF CountsAreTrue, Waiting

(* Whichever way a task leaves its step.                                   *)
LEMMA DoneIsCounted ==
  ASSUME TaskShape, TaskShape', Counted, NEW t \in Tasks, pc[t] \in AtStep,
         NEW ok, StepEnds(t, ok) \/ ChainEnds(t)
  PROVE  Counted'
<1> DEFINE here == Head(plan[t])
           gone == Range(plan[t]) \ Range(plan'[t])
           next == IF plan'[t] = <<>> THEN {} ELSE {Head(plan'[t])}
<1>1. /\ here \in Steps /\ here \in Range(plan[t])
      /\ Tail(plan[t]) \in Chain
      /\ Range(Tail(plan[t])) = Range(plan[t]) \ {here}
      /\ Range(plan[t]) \subseteq Steps
  BY NextTask DEF AtStep, InRun
<1>2. /\ Done(t, gone, next)
      /\ here \in gone
      /\ plan' = [plan EXCEPT ![t] = plan'[t]]
      /\ plan'[t] \in {Tail(plan[t]), <<>>}
      /\ byHand' \in {byHand, byHand \ {t}}
      /\ plan'[t] # <<>> => byHand' = byHand
      /\ plan'[t] # <<>> => pc'[t] = "opening"
      /\ plan'[t] = <<>> => pc'[t] = "idle"
      /\ \A u \in Tasks : u # t => pc'[u] = pc[u] /\ plan'[u] = plan[u]
  <2>1. CASE StepEnds(t, ok)
    <3>1. plan' = [plan EXCEPT ![t] = Tail(plan[t])] /\ plan'[t] = Tail(plan[t])
      BY <2>1 DEF StepEnds, TaskShape
    <3>2. gone = {here}
      BY <3>1, <1>1
    <3>3. CASE Tail(plan[t]) = <<>>
      <4>1. next = {}
        BY <3>1, <3>3
      <4> HIDE DEF gone, next
      <4>2. /\ Done(t, gone, next) /\ pc' = [pc EXCEPT ![t] = "idle"]
            /\ byHand' = byHand \ {t}
        BY <2>1, <3>2, <3>3, <4>1 DEF StepEnds
      <4> QED BY <4>2, <3>1, <3>2, <3>3 DEF TaskShape
    <3>4. CASE Tail(plan[t]) # <<>>
      <4>1. next = {Head(Tail(plan[t]))}
        BY <3>1, <3>4
      <4> HIDE DEF gone, next
      <4>2. /\ Done(t, gone, next) /\ pc' = [pc EXCEPT ![t] = "opening"]
            /\ byHand' = byHand
        BY <2>1, <3>2, <3>4, <4>1 DEF StepEnds
      <4> QED BY <4>2, <3>1, <3>2, <3>4 DEF TaskShape
    <3> QED BY <3>3, <3>4
  <2>2. CASE ChainEnds(t)
    <3>1. plan' = [plan EXCEPT ![t] = <<>>] /\ plan'[t] = <<>>
      BY <2>2 DEF ChainEnds, TaskShape
    <3>2. gone = Range(plan[t]) /\ next = {}
      BY <3>1, EmptyChain, ChainType
    <3> HIDE DEF gone, next
    <3>3. /\ Done(t, gone, next) /\ pc' = [pc EXCEPT ![t] = "idle"]
          /\ byHand' = byHand \ {t}
      BY <2>2, <3>2 DEF ChainEnds
    <3> QED BY <3>1, <3>2, <3>3, <1>1 DEF TaskShape
  <2> QED BY <2>1, <2>2
<1>3. next \subseteq Range(plan'[t]) /\ here \notin next
  <2>1. CASE plan'[t] = <<>>
    BY <2>1
  <2>2. CASE plan'[t] # <<>>
    <3>1. plan'[t] = Tail(plan[t]) /\ next = {Head(plan'[t])}
      BY <2>2, <1>2
    <3>2. Head(plan'[t]) \in Range(plan'[t])
      BY <3>1, <2>2, <1>1, TailOfChain
    <3> QED BY <3>1, <3>2, <1>1
  <2> QED BY <2>1, <2>2
<1>4. CASE t \in byHand
  <2>1. queued' = queued /\ running' = running
    BY <1>2, <1>4 DEF Done, scheduled
  <2>2. \A u \in Tasks : u \notin byHand' /\ u # t <=> u \notin byHand
    BY <1>2, <1>4
  <2>3. ASSUME NEW s \in Steps PROVE Waiting(s)' = Waiting(s) /\ AtWork(s)' = AtWork(s)
    <3>1. t \in Waiting(s)' => plan'[t] # <<>>
      BY EmptyChain, ChainType DEF Waiting
    <3>2. t \in AtWork(s)' => plan'[t] # <<>>
      BY <1>2 DEF AtWork, AtStep, InRun
    <3>3. t \notin Waiting(s)' /\ t \notin AtWork(s)'
      BY <3>1, <3>2, <1>2, <1>4 DEF Waiting, AtWork
    <3> QED BY <3>3, <2>2, <1>2, <1>4 DEF Waiting, AtWork
  <2> QED BY <2>1, <2>3 DEF Counted
<1>5. CASE t \notin byHand
  <2> HIDE DEF gone, next, here
  <2>1. byHand' = byHand
    BY <1>2, <1>5
  <2>2. queued' = OneLess(queued, gone) /\ running' = OneMore(OneLess(running, gone), next)
    BY <1>2, <1>5 DEF Done
  <2>3. ASSUME NEW s \in Steps
        PROVE  Waiting(s)' = IF s \in gone THEN Waiting(s) \ {t} ELSE Waiting(s)
    <3>1. s \in gone <=> s \in Range(plan[t]) /\ s \notin Range(plan'[t])
      BY DEF gone
    <3>2. Range(plan'[t]) \subseteq Range(plan[t])
      BY <1>1, <1>2, EmptyChain, ChainType
    <3> QED BY <3>1, <3>2, <1>2, <2>1 DEF Waiting
  <2>4. \A s \in gone : t \in Waiting(s)
    BY <1>5 DEF gone, Waiting
  <2>5. ASSUME NEW s \in Steps
        PROVE  AtWork(s)' = IF s = here THEN AtWork(s) \ {t}
                            ELSE IF s \in next THEN AtWork(s) \cup {t} ELSE AtWork(s)
    <3>1. \A u \in Tasks : u # t => (u \in AtWork(s)' <=> u \in AtWork(s))
      BY <1>2, <2>1 DEF AtWork
    <3>2. t \in AtWork(s) <=> s = here
      BY <1>5 DEF AtWork, here
    <3>3. t \in AtWork(s)' <=> s \in next
      BY <1>2, <1>5, <2>1 DEF AtWork, next, AtStep, InRun
    <3>4. AtWork(s) \subseteq Tasks /\ AtWork(s)' \subseteq Tasks
      BY DEF AtWork
    <3> QED BY <3>1, <3>2, <3>3, <3>4, <1>3
  <2>6. t \in AtWork(here) /\ \A s \in Steps : s # here => t \notin AtWork(s)
    BY <1>5 DEF AtWork, here
  <2>7. gone \subseteq Steps /\ next \subseteq Steps /\ here \notin next
    BY <1>1, <1>2, <1>3, EmptyChain, ChainType DEF gone
  <2>8. ASSUME NEW s \in Steps
        PROVE  queued'[s] \in Nat /\ queued'[s] = Cardinality(Waiting(s))'
    <3>1. queued[s] = Cardinality(Waiting(s)) /\ queued[s] \in Nat
      BY DEF Counted
    <3>2. CASE s \in gone
      <4>1. Cardinality(Waiting(s) \ {t}) = Cardinality(Waiting(s)) - 1
        BY <3>2, <2>4, SetsAreFinite, FS_RemoveElement
      <4>2. queued[s] > 0
        BY <3>1, <3>2, <2>4, SetsAreFinite, FS_EmptySet
      <4>3. queued'[s] = queued[s] - 1
        BY <4>2, <3>2, <2>2 DEF OneLess
      <4>4. Cardinality(Waiting(s))' = Cardinality(Waiting(s)) - 1
        BY <4>1, <3>2, <2>3
      <4> QED BY <4>2, <4>3, <4>4, <3>1
    <3>3. CASE s \notin gone
      BY <3>1, <3>3, <2>2, <2>3 DEF OneLess
    <3> QED BY <3>2, <3>3
  <2>9. ASSUME NEW s \in Steps
        PROVE  running'[s] \in Nat /\ running'[s] <= Cardinality(AtWork(s))'
    <3> DEFINE less == IF s \in gone /\ running[s] > 0 THEN running[s] - 1 ELSE running[s]
    <3>1. /\ running[s] <= Cardinality(AtWork(s)) /\ running[s] \in Nat
          /\ Cardinality(AtWork(s)) \in Nat
      BY SetsAreFinite DEF Counted
    <3>2. less \in Nat /\ less <= running[s]
      BY <3>1
    <3>3. running'[s] = less + IF s \in next THEN 1 ELSE 0
      BY <2>2 DEF OneLess, OneMore
    <3> HIDE DEF less
    <3>4. CASE s = here
      <4>1. Cardinality(AtWork(s) \ {t}) = Cardinality(AtWork(s)) - 1
        BY <3>4, <2>6, SetsAreFinite, FS_RemoveElement
      <4>2. Cardinality(AtWork(s)) > 0
        BY <3>1, <3>4, <2>6, SetsAreFinite, FS_EmptySet
      <4>3. less <= Cardinality(AtWork(s)) - 1
        BY <4>2, <3>1, <3>4, <1>2 DEF less
      <4>4. running'[s] = less
        BY <3>2, <3>3, <3>4, <2>7
      <4> QED BY <4>1, <4>3, <4>4, <3>2, <3>4, <2>5
    <3>5. CASE s # here /\ s \in next
      <4>1. Cardinality(AtWork(s) \cup {t}) = Cardinality(AtWork(s)) + 1
        BY <3>5, <2>6, SetsAreFinite, FS_AddElement
      <4>2. running'[s] = less + 1
        BY <3>3, <3>5
      <4>3. Cardinality(AtWork(s))' = Cardinality(AtWork(s)) + 1
        BY <4>1, <3>5, <2>5
      <4> QED BY <4>2, <4>3, <3>1, <3>2
    <3>6. CASE s # here /\ s \notin next
      <4>1. running'[s] = less /\ AtWork(s)' = AtWork(s)
        BY <3>2, <3>3, <3>6, <2>5
      <4> QED BY <4>1, <3>1, <3>2
    <3> QED BY <3>4, <3>5, <3>6
  <2>10. DOMAIN queued' = Steps /\ DOMAIN running' = Steps
    BY <2>2 DEF OneLess, OneMore
  <2>11. queued' \in [Steps -> Nat] /\ running' \in [Steps -> Nat]
    BY <2>2, <2>8, <2>9, <2>10 DEF OneLess, OneMore
  <2> QED BY <2>8, <2>9, <2>11 DEF Counted
<1> QED BY <1>4, <1>5

LEMMA CountedInit == Init => Counted
<1> SUFFICES ASSUME Init PROVE Counted
  OBVIOUS
<1>1. \A t \in Tasks : pc[t] = "idle" /\ plan[t] = <<>> /\ Range(plan[t]) = {}
  BY EmptyChain, ChainType DEF Init
<1>2. \A s \in Steps : Waiting(s) = {} /\ AtWork(s) = {}
  BY <1>1 DEF Waiting, AtWork, AtStep, InRun
<1>3. \A s \in Steps : Cardinality(Waiting(s)) = 0 /\ Cardinality(AtWork(s)) = 0
  BY <1>2, FS_EmptySet
<1>4. queued = [s \in Steps |-> 0] /\ running = [s \in Steps |-> 0]
  BY DEF Init
<1> QED BY <1>3, <1>4 DEF Counted

(* A step that neither counts nor moves a chain leaves the counts true.    *)
LEMMA StillCounted ==
  ASSUME Counted, UNCHANGED <<queued, running, plan, byHand>>,
         \A t \in Tasks : pc'[t] \in AtStep <=> pc[t] \in AtStep
  PROVE  Counted'
<1>1. \A s \in Steps : Waiting(s)' = Waiting(s) /\ AtWork(s)' = AtWork(s)
  BY DEF Waiting, AtWork
<1> QED BY <1>1 DEF Counted

LEMMA CountedStep ==
  ASSUME TaskShape, TaskShape', Counted, [Next]_vars
  PROVE  Counted'
<1>1. ASSUME NEW t \in Tasks, NEW key \in {"steam", "epic"}, NEW new \in SUBSET Items,
             Land(t, key, new)
      PROVE  Counted'
  <2> DEFINE coming == Range(Planned(key))
  <2>1. /\ coming \subseteq Steps
        /\ queued' = OneMore(queued, coming) /\ running' = running
        /\ plan' = [plan EXCEPT ![t] = Planned(key)] /\ pc' = [pc EXCEPT ![t] = "due"]
        /\ byHand' = byHand
    BY <1>1, PlannedIsChain, ChainType DEF Land
  <2>2. t \notin byHand /\ pc[t] = "idle" /\ plan[t] = <<>> /\ Range(plan[t]) = {}
    BY <1>1, EmptyChain, ChainType DEF Land, TaskShape, AtStep, InRun
  <2>3. plan'[t] = Planned(key) /\ \A u \in Tasks : u # t => plan'[u] = plan[u]
    BY <2>1 DEF TaskShape
  <2> HIDE DEF coming
  <2>4. ASSUME NEW s \in Steps
        PROVE  Waiting(s)' = IF s \in coming THEN Waiting(s) \cup {t} ELSE Waiting(s)
    BY <2>1, <2>2, <2>3 DEF Waiting, coming
  <2>5. \A s : t \notin Waiting(s)
    BY <2>2 DEF Waiting
  <2>6. ASSUME NEW s \in Steps PROVE AtWork(s)' = AtWork(s)
    BY <2>1, <2>2, <2>3 DEF AtWork, AtStep, InRun, TaskShape
  <2>7. ASSUME NEW s \in Steps PROVE queued'[s] \in Nat /\ queued'[s] = Cardinality(Waiting(s))'
    <3>1. queued[s] = Cardinality(Waiting(s)) /\ queued[s] \in Nat
      BY DEF Counted
    <3>2. CASE s \in coming
      <4>1. Cardinality(Waiting(s) \cup {t}) = Cardinality(Waiting(s)) + 1
        BY <2>5, SetsAreFinite, FS_AddElement
      <4>2. queued'[s] = queued[s] + 1
        BY <3>2, <2>1 DEF OneMore
      <4>3. Cardinality(Waiting(s))' = Cardinality(Waiting(s)) + 1
        BY <4>1, <3>2, <2>4
      <4> QED BY <4>2, <4>3, <3>1
    <3>3. CASE s \notin coming
      BY <3>1, <3>3, <2>1, <2>4 DEF OneMore
    <3> QED BY <3>2, <3>3
  <2>8. queued' \in [Steps -> Nat]
    BY <2>1, <2>7 DEF OneMore
  <2> QED BY <2>1, <2>6, <2>7, <2>8 DEF Counted
<1>2. ASSUME NEW t \in Tasks, NEW s \in Steps, Click(t, s)
      PROVE  Counted'
  <2>1. /\ plan' = [plan EXCEPT ![t] = <<s>>] /\ pc' = [pc EXCEPT ![t] = "opening"]
        /\ byHand' = byHand \cup {t} /\ queued' = queued /\ running' = running
    BY <1>2 DEF Click, scheduled
  <2>2. pc[t] = "idle" /\ Range(plan[t]) = {}
    BY <1>2, EmptyChain, ChainType DEF Click, TaskShape
  <2>3. \A r \in Steps : Waiting(r)' = Waiting(r) /\ AtWork(r)' = AtWork(r)
    BY <2>1, <2>2 DEF Waiting, AtWork, TaskShape, AtStep, InRun
  <2> QED BY <2>1, <2>3 DEF Counted
<1>3. ASSUME NEW t \in Tasks, Begin(t)
      PROVE  Counted'
  <2> DEFINE here == Head(plan[t])
  <2>1. /\ running' = OneMore(running, {here}) /\ queued' = queued
        /\ plan' = plan /\ byHand' = byHand /\ pc' = [pc EXCEPT ![t] = "opening"]
    BY <1>3 DEF Begin
  <2>2. pc[t] = "due" /\ t \notin byHand /\ here \in Steps
    BY <1>3, NextTask DEF Begin, TaskShape, AtStep, InRun
  <2>3. \A s \in Steps : Waiting(s)' = Waiting(s)
    BY <2>1 DEF Waiting
  <2>4. ASSUME NEW s \in Steps
        PROVE  AtWork(s)' = IF s = here THEN AtWork(s) \cup {t} ELSE AtWork(s)
    BY <2>1, <2>2 DEF AtWork, AtStep, InRun, TaskShape
  <2>5. \A s : t \notin AtWork(s)
    BY <2>2 DEF AtWork, AtStep, InRun
  <2> HIDE DEF here
  <2>6. ASSUME NEW s \in Steps PROVE running'[s] \in Nat /\ running'[s] <= Cardinality(AtWork(s))'
    <3>1. running[s] <= Cardinality(AtWork(s)) /\ running[s] \in Nat /\ Cardinality(AtWork(s)) \in Nat
      BY SetsAreFinite DEF Counted
    <3>2. CASE s = here
      <4>1. Cardinality(AtWork(s) \cup {t}) = Cardinality(AtWork(s)) + 1
        BY <2>5, SetsAreFinite, FS_AddElement
      <4>2. running'[s] = running[s] + 1
        BY <3>2, <2>1 DEF OneMore
      <4>3. Cardinality(AtWork(s))' = Cardinality(AtWork(s)) + 1
        BY <4>1, <3>2, <2>4
      <4> QED BY <4>2, <4>3, <3>1
    <3>3. CASE s # here
      BY <3>1, <3>3, <2>1, <2>4 DEF OneMore
    <3> QED BY <3>2, <3>3
  <2>7. running' \in [Steps -> Nat]
    BY <2>1, <2>6 DEF OneMore
  <2> QED BY <2>1, <2>3, <2>6, <2>7 DEF Counted
<1>4. ASSUME NEW t \in Tasks, Open(t)
      PROVE  Counted'
  BY <1>4, StillCounted DEF Open, scheduled, TaskShape, AtStep, InRun
<1>5. ASSUME NEW t \in Tasks, Busy(t)
      PROVE  Counted'
  BY <1>5, DoneIsCounted DEF Busy, AtStep
<1>6. ASSUME NEW t \in Tasks, OpenLost(t)
      PROVE  Counted'
  BY <1>6, DoneIsCounted DEF OpenLost, AtStep
<1>7. ASSUME NEW t \in Tasks, NEW targets, NEW left, NEW record, pc[t] \in InRun,
             GoesOn(t, targets, left, record), UNCHANGED <<scheduled, plan, byHand>>
      PROVE  Counted'
  <2>1. \A u \in Tasks : pc'[u] \in AtStep <=> pc[u] \in AtStep
    BY <1>7, GoesOnData DEF AtStep, InRun
  <2> QED BY <1>7, <2>1, StillCounted DEF scheduled
<1>8. ASSUME NEW t \in Tasks, ReadTargets(t) \/ Store(t) \/ Record(t)
      PROVE  Counted'
  <2>1. pc[t] \in InRun /\ UNCHANGED <<scheduled, plan, byHand>>
    BY <1>8 DEF ReadTargets, Store, Record, InRun
  <2>2. \E targets, left, record : GoesOn(t, targets, left, record)
    BY <1>8 DEF ReadTargets, Store, Record
  <2> QED BY <1>7, <2>1, <2>2
<1>9. ASSUME NEW t \in Tasks, Fail(t) \/ Break(t)
      PROVE  Counted'
  <2>1. pc[t] \in InRun /\ pc' = [pc EXCEPT ![t] = "closing"]
        /\ UNCHANGED <<scheduled, plan, byHand>>
    BY <1>9 DEF Fail, Break, LeavesStep, InRun
  <2>2. \A u \in Tasks : pc'[u] \in AtStep <=> pc[u] \in AtStep
    BY <2>1 DEF TaskShape, AtStep, InRun
  <2> QED BY <2>1, <2>2, StillCounted DEF scheduled
<1>10. ASSUME NEW t \in Tasks, Close(t) \/ CloseLost(t)
       PROVE  Counted'
  <2>1. PICK ok : StepEnds(t, ok) \/ ChainEnds(t)
    BY <1>10 DEF Close, CloseLost
  <2>2. pc[t] \in AtStep
    BY <1>10 DEF Close, CloseLost, AtStep, InRun
  <2> QED BY <2>1, <2>2, DoneIsCounted
<1>11. ASSUME NEW s \in Steps, Expire(s)
       PROVE  Counted'
  BY <1>11, StillCounted DEF Expire, scheduled
<1>12. CASE Kill
  <2>1. \A s \in Steps : Waiting(s)' = {} /\ AtWork(s)' = {}
    BY <1>12, EmptyChain, ChainType DEF Kill, Waiting, AtWork, AtStep, InRun
  <2>2. \A s \in Steps : Cardinality(Waiting(s))' = 0 /\ Cardinality(AtWork(s))' = 0
    BY <2>1, FS_EmptySet
  <2>3. queued' = [s \in Steps |-> 0] /\ running' = [s \in Steps |-> 0]
    BY <1>12 DEF Kill
  <2> QED BY <2>2, <2>3 DEF Counted
<1>13. CASE UNCHANGED vars
  BY <1>13, StillCounted DEF vars
<1> QED BY <1>1, <1>2, <1>3, <1>4, <1>5, <1>6, <1>8, <1>9, <1>10, <1>11, <1>12, <1>13
        DEF Next, Step

-----------------------------------------------------------------------------
EnrichmentInvariant == Shape /\ Counted

(* Everything the proofs rest on holds of every behaviour: who holds which *)
(* run, what of a run's targets is answered, and what is counted.          *)
THEOREM Inductive == Spec => []EnrichmentInvariant
<1>1. Init => EnrichmentInvariant
  BY TaskShapeInit, DataShapeInit, CountedInit DEF EnrichmentInvariant, Shape
<1>2. EnrichmentInvariant /\ [Next]_vars => EnrichmentInvariant'
  <2> SUFFICES ASSUME EnrichmentInvariant, [Next]_vars PROVE EnrichmentInvariant'
    OBVIOUS
  <2>1. TaskShape'
    BY TaskShapeStep DEF EnrichmentInvariant, Shape, DataShape
  <2>2. DataShape' /\ Answered'
    BY DataShapeStep DEF EnrichmentInvariant
  <2>3. Counted'
    BY <2>1, CountedStep DEF EnrichmentInvariant, Shape
  <2> QED BY <2>1, <2>2, <2>3 DEF EnrichmentInvariant, Shape
<1> QED BY <1>1, <1>2, PTL DEF Spec

(* Every variable has its type, and what a step has recorded is among what *)
(* its provider has answered and knows.                                    *)
THEOREM TypesAreRight == Spec => []TypeOK
<1>1. EnrichmentInvariant => TypeOK
  BY ChainType DEF EnrichmentInvariant, Shape, TaskShape, DataShape, Counted, TypeOK, AtStep
<1> QED BY <1>1, Inductive, PTL

(* `Scheduled` counts for its clients exactly the steps that chains have   *)
(* before them, whatever order they come, fail and are skipped in.         *)
THEOREM CountsAreAlwaysTrue == Spec => []CountsAreTrue
<1>1. EnrichmentInvariant => CountsAreTrue
  BY CountsAreCounted DEF EnrichmentInvariant, Shape, Counted
<1> QED BY <1>1, Inductive, PTL

(* No run asks for what it has stored, or for what another run has stored  *)
(* since it read its targets: `EnrichmentRun.fetch` asks about a key again *)
(* only when its answer is too old.                                        *)
THEOREM NothingIsAskedTwice == Spec => []AskedOnce
<1>1. EnrichmentInvariant => AskedOnce
  BY DEF EnrichmentInvariant, Shape, Answered, AskedOnce
<1> QED BY <1>1, Inductive, PTL
-----------------------------------------------------------------------------
(* What a sync landed, on its way through the steps.  Which of it a step   *)
(* finds to ask about is decided by what another step has recorded: by     *)
(* IGDB's for RAWG, for Steam's items by the store's for IGDB, and for the *)
(* others by IGDB's for the store.                                         *)
Needs(L, s) ==
  CASE s = "rawg" -> {"igdb"}
    [] s = "igdb" -> IF L \subseteq SteamItems THEN {"steam_store"} ELSE {}
    [] OTHER      -> IF L \subseteq SteamItems THEN {} ELSE {"igdb"}

(* The step of s has done all there is to do about L.                      *)
Covered(s, L) ==
  \A i \in Targets(s) \cap L : i \in cache[s] /\ (i \in Knows[s] => i \in told[s])

Behind(p) == (Steps \cap Configured) \ Range(p)

(* No step comes, or came, before one it needs.                            *)
InOrder(p, L) ==
  /\ \A i, j \in 1..Len(p) : i < j => p[j] \notin Needs(L, p[i])
  /\ \A s \in Behind(p) : Needs(L, s) \cap Range(p) = {}

(* What is recorded was found to ask about, by a step that is set up.      *)
Aims(t) ==
  /\ Range(plan[t]) \subseteq Configured
  /\ pc[t] = "asked" => wanted[t] \subseteq Targets(Head(plan[t]))
  /\ pc[t] = "recording" => asking[t] \subseteq Targets(Head(plan[t]))

Found ==
  /\ \A s \in Steps : told[s] \subseteq Targets(s)
  /\ \A s \in Steps \ Configured : told[s] = {}
  /\ \A t \in Tasks : Aims(t)

(* A chain whose runs have succeeded so far: the steps behind it have done *)
(* all there is to do about what its sync landed, and the step it is at    *)
(* leaves none of it out.                                                  *)
Carried(t) ==
  LET s == Head(plan[t])
      L == landed[t]
  IN L # {} =>
       /\ pc[t] # "idle"
       /\ L \subseteq library /\ (L \subseteq SteamItems \/ L \subseteq OtherItems)
       /\ InOrder(plan[t], L)
       /\ \A b \in Behind(plan[t]) : Covered(b, L)
       /\ pc[t] = "asked" => Targets(s) \cap L \subseteq wanted[t]
       /\ pc[t] = "recording" =>
            \A i \in Targets(s) \cap L :
              i \in cache[s] /\ (i \in Knows[s] => i \in told[s] \cup asking[t])
       /\ outcome[t] = "success" => Covered(s, L)

Along(t) == Aims(t) /\ Carried(t) /\ (outcome[t] = "success" => pc[t] = "closing")

Carrying == Found /\ \A t \in Tasks : Along(t)

(* Three facts a step keeps, whatever it is: nothing landed, answered or   *)
(* recorded goes, and a step only records what it found and knows.         *)
Grows ==
  /\ library \subseteq library'
  /\ \A s \in Steps :
       /\ cache[s] \subseteq cache'[s]
       /\ told[s] \subseteq told'[s]
       /\ told'[s] \subseteq told[s] \cup (Targets(s) \cap Knows[s])
       /\ s \notin Configured => told'[s] = told[s]

LEMMA TargetsAre ==
  /\ Targets("steam_store") = {i \in library : i \in SteamItems \/ i \in told["igdb"]}
  /\ Targets("igdb") = {i \in library : i \in OtherItems \/ i \in told["steam_store"]}
  /\ Targets("rawg") = {i \in library : i \in told["igdb"]}
BY DEF Targets

LEMMA TargetsGrow ==
  ASSUME Grows, NEW s \in Steps
  PROVE  Targets(s) \subseteq Targets(s)'
<1>1. /\ Targets("steam_store")' = {i \in library' : i \in SteamItems \/ i \in told'["igdb"]}
      /\ Targets("igdb")' = {i \in library' : i \in OtherItems \/ i \in told'["steam_store"]}
      /\ Targets("rawg")' = {i \in library' : i \in told'["igdb"]}
  BY DEF Targets
<1>2. /\ library \subseteq library'
      /\ told["igdb"] \subseteq told'["igdb"] /\ told["steam_store"] \subseteq told'["steam_store"]
  BY DEF Grows, Steps
<1>3. CASE s = "steam_store"
  BY <1>1, <1>2, <1>3, TargetsAre
<1>4. CASE s = "igdb"
  BY <1>1, <1>2, <1>4, TargetsAre
<1>5. CASE s = "rawg"
  BY <1>1, <1>2, <1>5, TargetsAre
<1> QED BY <1>3, <1>4, <1>5 DEF Steps

(* What a step has done all there is to do about, it records no more of.   *)
LEMMA CoveredIsTold ==
  ASSUME Found, Grows, NEW p \in Steps, NEW L, p \in Configured => Covered(p, L)
  PROVE  told'[p] \cap L = told[p] \cap L
<1>1. CASE p \in Configured
  <2>1. \A i \in Targets(p) \cap L : i \in Knows[p] => i \in told[p]
    BY <1>1 DEF Covered
  <2>2. told[p] \subseteq told'[p] /\ told'[p] \subseteq told[p] \cup (Targets(p) \cap Knows[p])
    BY DEF Grows
  <2> QED BY <2>1, <2>2
<1>2. CASE p \notin Configured
  BY <1>2 DEF Grows
<1> QED BY <1>1, <1>2

(* As long as the steps s needs have done all there is to do, s finds no   *)
(* more among what landed than it did.                                     *)
LEMMA FindsTheSame ==
  ASSUME Found, Grows, NEW L, L # {}, L \subseteq library,
         L \subseteq SteamItems \/ L \subseteq OtherItems,
         NEW s \in Steps,
         \A p \in Needs(L, s) : p \in Configured => Covered(p, L)
  PROVE  Targets(s)' \cap L = Targets(s) \cap L
<1>1. /\ Targets("steam_store")' = {i \in library' : i \in SteamItems \/ i \in told'["igdb"]}
      /\ Targets("igdb")' = {i \in library' : i \in OtherItems \/ i \in told'["steam_store"]}
      /\ Targets("rawg")' = {i \in library' : i \in told'["igdb"]}
  BY DEF Targets
<1>2. L \subseteq library'
  BY DEF Grows
<1>3. \A p \in Needs(L, s) : p \in Steps => told'[p] \cap L = told[p] \cap L
  BY CoveredIsTold
<1>4. L \cap SteamItems = {} \/ L \cap OtherItems = {}
  BY ItemsAssumption
<1>5. CASE s = "steam_store"
  <2>1. CASE L \subseteq SteamItems
    BY <1>1, <1>2, <1>5, <2>1, TargetsAre
  <2>2. CASE ~(L \subseteq SteamItems)
    <3>1. told'["igdb"] \cap L = told["igdb"] \cap L
      BY <1>3, <1>5, <2>2 DEF Needs, Steps
    <3> QED BY <1>1, <1>2, <1>5, <3>1, TargetsAre
  <2> QED BY <2>1, <2>2
<1>6. CASE s = "igdb"
  <2>1. CASE L \subseteq SteamItems
    <3>1. told'["steam_store"] \cap L = told["steam_store"] \cap L
      BY <1>3, <1>6, <2>1 DEF Needs, Steps
    <3> QED BY <1>1, <1>2, <1>6, <3>1, TargetsAre
  <2>2. CASE ~(L \subseteq SteamItems)
    BY <1>1, <1>2, <1>6, <2>2, TargetsAre
  <2> QED BY <2>1, <2>2
<1>7. CASE s = "rawg"
  <2>1. told'["igdb"] \cap L = told["igdb"] \cap L
    BY <1>3, <1>7 DEF Needs, Steps
  <2> QED BY <1>1, <1>2, <1>7, <2>1, TargetsAre
<1> QED BY <1>5, <1>6, <1>7 DEF Steps

LEMMA StaysCovered ==
  ASSUME Found, Grows, NEW L, L # {}, L \subseteq library,
         L \subseteq SteamItems \/ L \subseteq OtherItems,
         NEW s \in Steps, Covered(s, L),
         \A p \in Needs(L, s) : p \in Configured => Covered(p, L)
  PROVE  Covered(s, L)'
<1>1. Targets(s)' \cap L = Targets(s) \cap L
  BY FindsTheSame
<1> QED BY <1>1 DEF Covered, Grows

(* The steps that a step needs are behind when it is, or when it is next.  *)
LEMMA NeededBehind ==
  ASSUME NEW p \in Chain, NEW L, InOrder(p, L),
         NEW s \in Steps, s \in Behind(p) \/ (p # <<>> /\ s = Head(p)),
         NEW n \in Needs(L, s), n \in Configured
  PROVE  n \in Behind(p)
<1>1. n \in Steps /\ n # s
  BY DEF Needs, Steps
<1>2. CASE s \in Behind(p)
  BY <1>1, <1>2 DEF InOrder, Behind
<1>3. CASE p # <<>> /\ s = Head(p)
  <2>1. s = p[1] /\ 1 \in 1..Len(p)
    BY <1>3, ChainType, EmptySeq, HeadTailProperties
  <2>2. \A j \in 1..Len(p) : p[j] # n
    BY <2>1, <1>1, ChainType DEF InOrder
  <2>3. n \notin Range(p)
    BY <2>2, ChainType
  <2> QED BY <1>1, <2>3 DEF Behind
<1> QED BY <1>2, <1>3

LEMMA GrowsStep ==
  ASSUME Shape, Found, [Next]_vars
  PROVE  Grows
<1>1. CASE UNCHANGED <<library, cache, told>>
  BY <1>1 DEF Grows
<1>2. ASSUME NEW t \in Tasks, NEW key \in {"steam", "epic"}, NEW new \in SUBSET Items,
             Land(t, key, new)
      PROVE  Grows
  BY <1>2 DEF Land, Grows
<1>3. ASSUME NEW t \in Tasks, Store(t) PROVE Grows
  <2>1. Head(plan[t]) \in Steps /\ cache \in [Steps -> SUBSET Items]
    BY <1>3, NextTask DEF Store, Shape, DataShape
  <2> QED BY <1>3, <2>1 DEF Store, Stored, Grows
<1>4. ASSUME NEW t \in Tasks, Record(t) PROVE Grows
  <2> DEFINE s == Head(plan[t])
             batch == NextBatch(t)
  <2>1. s \in Steps /\ s \in Configured /\ pc[t] = "recording"
    BY <1>4, NextTask DEF Record, Shape, Found, Aims
  <2>2. batch \subseteq asking[t] /\ asking[t] \subseteq Targets(s) \cap Knows[s]
    BY <2>1, BatchOfKeys DEF Shape, TaskShape, Found, Aims, Answered
  <2>3. told' = [told EXCEPT ![s] = @ \cup batch] /\ UNCHANGED <<library, cache>>
    BY <1>4 DEF Record
  <2> HIDE DEF s, batch
  <2> QED BY <2>1, <2>2, <2>3 DEF Grows, Shape, DataShape
<1>5. ASSUME [Next]_vars, ~UNCHANGED <<library, cache, told>>
      PROVE  \/ \E t \in Tasks, key \in {"steam", "epic"}, new \in SUBSET Items : Land(t, key, new)
             \/ \E t \in Tasks : Store(t) \/ Record(t)
  <2>1. ASSUME NEW t \in Tasks, NEW s \in Steps, Click(t, s) PROVE FALSE
    BY <2>1, <1>5 DEF Click, database
  <2>2. ASSUME NEW t \in Tasks, Begin(t) \/ Busy(t) \/ ReadTargets(t) PROVE FALSE
    BY <2>2, <1>5 DEF Begin, Busy, ReadTargets, database
  <2>3. ASSUME NEW t \in Tasks, Open(t) \/ OpenLost(t) \/ Close(t) \/ CloseLost(t) PROVE FALSE
    BY <2>3, <1>5 DEF Open, OpenLost, Close, CloseLost
  <2>4. ASSUME NEW t \in Tasks, Fail(t) \/ Break(t) PROVE FALSE
    BY <2>4, <1>5 DEF Fail, Break, LeavesStep, database
  <2>5. ASSUME NEW s \in Steps, Expire(s) PROVE FALSE
    BY <2>5, <1>5 DEF Expire
  <2>6. ~Kill /\ ~UNCHANGED vars
    BY <1>5 DEF Kill, vars
  <2> QED BY <1>5, <2>1, <2>2, <2>3, <2>4, <2>5, <2>6 DEF Next, Step
<1> QED BY <1>1, <1>2, <1>3, <1>4, <1>5

(* A task whose own state a step leaves alone is carried as before.        *)
LEMMA StillCarried ==
  ASSUME Shape, Found, Grows, NEW t \in Tasks, Carried(t),
         NEW L, L = landed[t], L # {},
         NEW s, s = Head(plan[t])
  PROVE  /\ L \subseteq library' /\ (L \subseteq SteamItems \/ L \subseteq OtherItems)
         /\ InOrder(plan[t], L)
         /\ \A b \in Behind(plan[t]) : Covered(b, L)'
         /\ Targets(s)' \cap L = Targets(s) \cap L
         /\ Covered(s, L) => Covered(s, L)'
<1>1. /\ pc[t] # "idle"
      /\ L \subseteq library /\ (L \subseteq SteamItems \/ L \subseteq OtherItems)
      /\ InOrder(plan[t], L)
      /\ \A b \in Behind(plan[t]) : Covered(b, L)
  BY DEF Carried
<1>2. plan[t] \in Chain /\ plan[t] # <<>> /\ s \in Steps
  BY <1>1, NextTask DEF Shape, TaskShape
<1>3. ASSUME NEW b \in Steps, b \in Behind(plan[t]) \/ b = s
      PROVE  \A p \in Needs(L, b) : p \in Configured => Covered(p, L)
  BY <1>1, <1>2, <1>3, NeededBehind
<1>4. \A b \in Behind(plan[t]) : Covered(b, L)'
  BY <1>1, <1>3, StaysCovered DEF Behind
<1>5. Targets(s)' \cap L = Targets(s) \cap L
  BY <1>1, <1>2, <1>3, FindsTheSame
<1>6. Covered(s, L) => Covered(s, L)'
  BY <1>1, <1>2, <1>3, StaysCovered
<1> QED BY <1>1, <1>4, <1>5, <1>6 DEF Grows

(* A task that stays in its step and leaves out nothing it had to do.      *)
LEMMA CarriedOn ==
  ASSUME Shape, Found, Grows, NEW t \in Tasks, Carried(t),
         plan'[t] = plan[t], landed'[t] = landed[t],
         landed[t] # {} => pc'[t] # "idle",
         NEW s, s = Head(plan[t]),
         pc'[t] = "asked" => Targets(s) \cap landed[t] \subseteq wanted'[t],
         pc'[t] = "recording" =>
           \A i \in Targets(s) \cap landed[t] :
             i \in cache'[s] /\ (i \in Knows[s] => i \in told'[s] \cup asking'[t]),
         outcome'[t] = "success" =>
           \A i \in Targets(s) \cap landed[t] :
             i \in cache'[s] /\ (i \in Knows[s] => i \in told'[s])
  PROVE  Carried(t)'
<1> SUFFICES ASSUME NEW L, L = landed[t], L # {} PROVE Carried(t)'
  BY DEF Carried
<1>1. /\ L \subseteq library' /\ (L \subseteq SteamItems \/ L \subseteq OtherItems)
      /\ InOrder(plan[t], L)
      /\ \A b \in Behind(plan[t]) : Covered(b, L)'
      /\ Targets(s)' \cap L = Targets(s) \cap L
  BY StillCarried
<1>2. outcome'[t] = "success" => Covered(s, L)'
  BY <1>1 DEF Covered
<1>3. /\ pc'[t] = "asked" => Targets(s)' \cap L \subseteq wanted'[t]
      /\ pc'[t] = "recording" =>
           \A i \in Targets(s)' \cap L :
             i \in cache'[s] /\ (i \in Knows[s] => i \in told'[s] \cup asking'[t])
  BY <1>1
<1> QED BY <1>1, <1>2, <1>3 DEF Carried

LEMMA CarriedSame ==
  ASSUME Shape, Found, Grows, NEW t \in Tasks, Carried(t),
         plan'[t] = plan[t], landed'[t] = landed[t], pc'[t] = pc[t],
         asking'[t] = asking[t], wanted'[t] = wanted[t], outcome'[t] = outcome[t]
  PROVE  Carried(t)'
<1> SUFFICES ASSUME landed[t] # {} PROVE Carried(t)'
  BY DEF Carried
<1> DEFINE s == Head(plan[t])
<1>1. s \in Steps
  BY NextTask DEF Carried, Shape
<1>2. cache[s] \subseteq cache'[s] /\ told[s] \subseteq told'[s]
  BY <1>1 DEF Grows
<1>3. pc'[t] # "idle" /\ (pc'[t] = "asked" => Targets(s) \cap landed[t] \subseteq wanted'[t])
  BY DEF Carried
<1>4. pc'[t] = "recording" =>
        \A i \in Targets(s) \cap landed[t] :
          i \in cache'[s] /\ (i \in Knows[s] => i \in told'[s] \cup asking'[t])
  BY <1>2 DEF Carried
<1>5. outcome'[t] = "success" =>
        \A i \in Targets(s) \cap landed[t] :
          i \in cache'[s] /\ (i \in Knows[s] => i \in told'[s])
  BY <1>2 DEF Carried, Covered
<1> HIDE DEF s
<1> QED BY <1>3, <1>4, <1>5, CarriedOn DEF s

(* The steps that are left when the first one is done are still in order.  *)
LEMMA TailInOrder ==
  ASSUME NEW p \in Chain, p # <<>>, NEW L, InOrder(p, L)
  PROVE  /\ InOrder(Tail(p), L)
         /\ Behind(Tail(p)) \subseteq Behind(p) \cup {Head(p)}
<1> DEFINE q == Tail(p)
<1>1. /\ q \in Chain /\ Head(p) \in Steps
      /\ Range(q) = Range(p) \ {Head(p)}
  BY TailOfChain
<1>2. /\ Len(p) \in Nat /\ Len(q) = Len(p) - 1 /\ Head(p) = p[1]
      /\ \A i \in 1..Len(q) : q[i] = p[i + 1]
  BY ChainType, HeadTailProperties, EmptySeq
<1>3. Behind(q) \subseteq Behind(p) \cup {Head(p)}
  BY <1>1 DEF Behind
<1>4. ASSUME NEW n \in Needs(L, Head(p)) PROVE n \notin Range(q)
  <2>1. \A j \in 1..Len(p) : 1 < j => p[j] # n
    BY <1>2, <1>4 DEF InOrder
  <2>2. \A i \in 1..Len(q) : q[i] # n
    BY <2>1, <1>2
  <2>3. Range(q) = {q[i] : i \in 1..Len(q)}
    BY <1>1, ChainType
  <2> HIDE DEF q
  <2> QED BY <2>2, <2>3
<1>5. ASSUME NEW b \in Behind(q) PROVE Needs(L, b) \cap Range(q) = {}
  BY <1>1, <1>3, <1>4 DEF InOrder
<1>6. ASSUME NEW i \in 1..Len(q), NEW j \in 1..Len(q), i < j
      PROVE  q[j] \notin Needs(L, q[i])
  BY <1>2, <1>6 DEF InOrder
<1> HIDE DEF q
<1>7. InOrder(q, L)
  BY <1>5, <1>6 DEF InOrder
<1> QED BY <1>3, <1>7 DEF q

(* A run that succeeds takes what landed on to the next step.              *)
LEMMA CarriedFurther ==
  ASSUME Shape, Found, Grows, NEW t \in Tasks, Carried(t),
         outcome[t] = "success", pc[t] # "idle", plan'[t] = Tail(plan[t]),
         pc'[t] = "opening", outcome'[t] = "none", landed'[t] = landed[t]
  PROVE  Carried(t)'
<1> SUFFICES ASSUME NEW L, L = landed[t], L # {},
                    NEW s, s = Head(plan[t])
             PROVE  Carried(t)'
  BY DEF Carried
<1>1. /\ L \subseteq library' /\ (L \subseteq SteamItems \/ L \subseteq OtherItems)
      /\ InOrder(plan[t], L)
      /\ \A b \in Behind(plan[t]) : Covered(b, L)'
      /\ Covered(s, L) => Covered(s, L)'
  BY StillCarried
<1>2. Covered(s, L)'
  BY <1>1 DEF Carried
<1>3. plan[t] \in Chain /\ plan[t] # <<>>
  BY DEF Shape, TaskShape
<1>4. InOrder(plan'[t], L) /\ Behind(plan'[t]) \subseteq Behind(plan[t]) \cup {s}
  BY <1>1, <1>3, TailInOrder
<1>5. \A b \in Behind(plan'[t]) : Covered(b, L)'
  BY <1>1, <1>2, <1>4
<1> QED BY <1>1, <1>4, <1>5 DEF Carried

(* Chains one after the other are in order, when each is and no step of    *)
(* the second is needed by one of the first.                               *)
OrderedFor(p, L) == \A i, j \in 1..Len(p) : i < j => p[j] \notin Needs(L, p[i])

LEMMA ConcatInOrder ==
  ASSUME NEW p \in Chain, NEW q \in Chain, NEW L, OrderedFor(p, L), OrderedFor(q, L),
         \A a \in Range(p), b \in Range(q) : b \notin Needs(L, a)
  PROVE  OrderedFor(p \o q, L)
<1> DEFINE pq == p \o q
<1>1. /\ pq \in Seq(Steps) /\ Len(pq) = Len(p) + Len(q)
      /\ \A i \in 1..Len(pq) : pq[i] = IF i <= Len(p) THEN p[i] ELSE q[i - Len(p)]
  BY ConcatProperties, ChainType
<1> HIDE DEF pq
<1>2. ASSUME NEW i \in 1..Len(pq), NEW j \in 1..Len(pq), i < j
      PROVE  pq[j] \notin Needs(L, pq[i])
  <2>1. CASE j <= Len(p)
    <3>1. i \in 1..Len(p) /\ j \in 1..Len(p) /\ pq[i] = p[i] /\ pq[j] = p[j]
      BY <2>1, <1>1, <1>2, ChainType
    <3> QED BY <3>1, <1>2 DEF OrderedFor
  <2>2. CASE i <= Len(p) /\ j > Len(p)
    <3>1. i \in 1..Len(p) /\ j - Len(p) \in 1..Len(q) /\ pq[i] = p[i] /\ pq[j] = q[j - Len(p)]
      BY <2>2, <1>1, <1>2, ChainType
    <3>2. pq[i] \in Range(p) /\ pq[j] \in Range(q)
      BY <3>1, ChainType
    <3> QED BY <3>2
  <2>3. CASE i > Len(p)
    <3>1. /\ i - Len(p) \in 1..Len(q) /\ j - Len(p) \in 1..Len(q)
          /\ pq[i] = q[i - Len(p)] /\ pq[j] = q[j - Len(p)] /\ i - Len(p) < j - Len(p)
      BY <2>3, <1>1, <1>2, ChainType
    <3> QED BY <3>1 DEF OrderedFor
  <2> QED BY <2>1, <2>2, <2>3, <1>1, <1>2, ChainType
<1> QED BY <1>2 DEF OrderedFor, pq

(* What follows a sync is in order, and leaves no step out.                *)
LEMMA PlannedInOrder ==
  ASSUME NEW key \in {"steam", "epic"}, NEW L, L # {},
         L \subseteq (IF key = "steam" THEN SteamItems ELSE OtherItems)
  PROVE  InOrder(Planned(key), L) /\ Behind(Planned(key)) = {}
<1> DEFINE f == FOLLOWS(key)
           up(s) == IF s \in Configured THEN <<s>> ELSE <<>>
<1>1. (L \subseteq SteamItems) <=> key = "steam"
  BY ItemsAssumption
<1>2. /\ f[1] \in Steps /\ f[2] \in Steps /\ f[3] \in Steps
      /\ f[1] # f[2] /\ f[1] # f[3] /\ f[2] # f[3]
  BY DEF FOLLOWS, Steps
<1>3. f[2] \notin Needs(L, f[1]) /\ f[3] \notin Needs(L, f[1]) /\ f[3] \notin Needs(L, f[2])
  <2>1. CASE key = "steam"
    BY <1>1, <2>1 DEF FOLLOWS, Needs
  <2>2. CASE key = "epic"
    BY <1>1, <2>2 DEF FOLLOWS, Needs
  <2> QED BY <2>1, <2>2
<1>4. ASSUME NEW s \in Steps
      PROVE  /\ up(s) \in Chain
             /\ Range(up(s)) \subseteq {s}
             /\ OrderedFor(up(s), L)
  <2>1. <<s>> \in Chain /\ <<>> \in Chain
    BY DEF Chain
  <2>2. Range(<<s>>) = {s} /\ Range(<<>>) = {}
    BY DEF Range
  <2>3. OrderedFor(<<s>>, L) /\ OrderedFor(<<>>, L)
    BY DEF OrderedFor
  <2> QED BY <2>1, <2>2, <2>3
<1>5. Planned(key) = up(f[1]) \o up(f[2]) \o up(f[3])
  BY DEF Planned
<1> HIDE DEF f, up
<1>6. Range(up(f[1])) \cap Range(up(f[2])) = {}
  BY <1>2, <1>4
<1>7. /\ up(f[1]) \o up(f[2]) \in Chain
      /\ Range(up(f[1]) \o up(f[2])) = Range(up(f[1])) \cup Range(up(f[2]))
  BY <1>2, <1>4, <1>6, ConcatOfChains
<1>8. \A a \in Range(up(f[1])), b \in Range(up(f[2])) : b \notin Needs(L, a)
  BY <1>2, <1>3, <1>4
<1>9. OrderedFor(up(f[1]) \o up(f[2]), L)
  BY <1>2, <1>4, <1>8, ConcatInOrder
<1>10. \A a \in Range(up(f[1]) \o up(f[2])), b \in Range(up(f[3])) : b \notin Needs(L, a)
  BY <1>2, <1>3, <1>4, <1>7
<1>11. OrderedFor(Planned(key), L)
  BY <1>2, <1>4, <1>5, <1>7, <1>9, <1>10, ConcatInOrder
<1>12. Behind(Planned(key)) = {}
  BY PlannedIsChain DEF Behind
<1> QED BY <1>11, <1>12 DEF InOrder, OrderedFor

(* What a step of one task leaves of another.                              *)
Untouched(u) ==
  /\ pc'[u] = pc[u] /\ plan'[u] = plan[u] /\ landed'[u] = landed[u]
  /\ asking'[u] = asking[u] /\ wanted'[u] = wanted[u] /\ outcome'[u] = outcome[u]

LEMMA OthersUntouched ==
  ASSUME Shape, NEW t \in Tasks, NEW u \in Tasks, u # t,
         \/ \E key \in {"steam", "epic"}, new \in SUBSET Items : Land(t, key, new)
         \/ \E s \in Steps : Click(t, s)
         \/ Step(t)
  PROVE  Untouched(u)
<1> USE DEF Shape, TaskShape, Untouched
<1>1. ASSUME NEW ok, StepEnds(t, ok) PROVE Untouched(u)
  BY <1>1 DEF StepEnds, Forget
<1>2. ASSUME ChainEnds(t) PROVE Untouched(u)
  BY <1>2 DEF ChainEnds, Forget
<1>3. ASSUME NEW targets, NEW left, NEW record, GoesOn(t, targets, left, record),
             UNCHANGED <<plan, landed>>
      PROVE  Untouched(u)
  BY <1>3 DEF GoesOn
<1>4. ASSUME NEW end, LeavesStep(t, end) PROVE Untouched(u)
  BY <1>4 DEF LeavesStep
<1>5. ASSUME NEW key \in {"steam", "epic"}, NEW new \in SUBSET Items, Land(t, key, new)
      PROVE  Untouched(u)
  BY <1>5 DEF Land, locals
<1>6. ASSUME NEW s \in Steps, Click(t, s) PROVE Untouched(u)
  BY <1>6 DEF Click, locals
<1>7. CASE Begin(t) \/ Open(t)
  BY <1>7 DEF Begin, Open, locals
<1>8. CASE Busy(t) \/ Close(t) \/ OpenLost(t) \/ CloseLost(t)
  BY <1>1, <1>2, <1>8 DEF Busy, Close, OpenLost, CloseLost
<1>9. CASE ReadTargets(t)
  BY <1>3, <1>9 DEF ReadTargets
<1>10. CASE Store(t)
  BY <1>3, <1>10 DEF Store
<1>11. CASE Record(t)
  BY <1>3, <1>11 DEF Record
<1>12. CASE Fail(t) \/ Break(t)
  BY <1>4, <1>12 DEF Fail, Break
<1> QED BY <1>5, <1>6, <1>7, <1>8, <1>9, <1>10, <1>11, <1>12 DEF Step

LEMMA AlongAsBefore ==
  ASSUME Shape, Found, Grows, NEW t \in Tasks, Along(t), Untouched(t)
  PROVE  Along(t)'
<1>1. Carried(t)'
  BY CarriedSame DEF Untouched, Along
<1>2. Aims(t)'
  <2>1. CASE pc[t] = "idle"
    BY <2>1 DEF Untouched, Along, Aims
  <2>2. CASE pc[t] # "idle"
    <3>1. Targets(Head(plan[t])) \subseteq Targets(Head(plan[t]))'
      BY <2>2, NextTask, TargetsGrow DEF Shape, Untouched
    <3> QED BY <3>1 DEF Untouched, Along, Aims
  <2> QED BY <2>1, <2>2
<1> QED BY <1>1, <1>2 DEF Along, Untouched

(* A task that has nothing landed to carry.                                *)
LEMMA AlongEmpty ==
  ASSUME NEW t \in Tasks, landed'[t] = {}, pc'[t] \notin InRun,
         outcome'[t] # "success", Range(plan'[t]) \subseteq Configured
  PROVE  Along(t)'
BY DEF Along, Aims, Carried, InRun

LEMMA RangeOfSteps ==
  /\ Range(<<>>) = {}
  /\ \A s : Range(<<s>>) = {s}
BY DEF Range

LEMMA StepEndsAlong ==
  ASSUME Shape, Found, Grows, NEW t \in Tasks, Along(t), pc[t] \in AtStep,
         NEW ok \in BOOLEAN, ok => outcome[t] = "success", StepEnds(t, ok)
  PROVE  Along(t)'
<1>1. /\ plan'[t] = Tail(plan[t]) /\ outcome'[t] = "none"
      /\ pc'[t] = IF Tail(plan[t]) = <<>> THEN "idle" ELSE "opening"
      /\ landed'[t] = IF Tail(plan[t]) = <<>> \/ ~ok THEN {} ELSE landed[t]
  BY DEF StepEnds, Forget, Shape, TaskShape
<1>2. pc[t] # "idle"
  BY DEF AtStep, InRun
<1>3. Range(plan'[t]) \subseteq Configured
  BY <1>1, <1>2, NextTask DEF Along, Aims, Shape
<1>4. CASE Tail(plan[t]) = <<>> \/ ~ok
  <2>1. landed'[t] = {} /\ pc'[t] \notin InRun /\ outcome'[t] # "success"
    BY <1>1, <1>4 DEF InRun
  <2> QED BY <2>1, <1>3, AlongEmpty
<1>5. CASE Tail(plan[t]) # <<>> /\ ok
  <2>1. /\ outcome[t] = "success" /\ pc'[t] = "opening" /\ outcome'[t] = "none"
        /\ landed'[t] = landed[t] /\ plan'[t] = Tail(plan[t])
    BY <1>1, <1>5
  <2>2. Carried(t)'
    BY <1>2, <2>1, CarriedFurther DEF Along
  <2> QED BY <2>1, <2>2, <1>3 DEF Along, Aims
<1> QED BY <1>4, <1>5

LEMMA ChainEndsAlong ==
  ASSUME Shape, NEW t \in Tasks, ChainEnds(t)
  PROVE  Along(t)'
<1>1. /\ landed'[t] = {} /\ pc'[t] = "idle" /\ outcome'[t] = "none" /\ plan'[t] = <<>>
  BY DEF ChainEnds, Forget, Shape, TaskShape
<1> QED BY <1>1, AlongEmpty, RangeOfSteps DEF InRun

(* A step in its run goes on with all it has to ask or to record.          *)
LEMMA GoesOnAlong ==
  ASSUME Shape, Found, Grows, NEW t \in Tasks, Along(t), pc[t] \in InRun,
         NEW s, s = Head(plan[t]),
         NEW targets \in SUBSET Items, NEW left \in SUBSET Items, NEW record \in SUBSET Items,
         GoesOn(t, targets, left, record), UNCHANGED <<plan, landed>>,
         left # {} => /\ targets \subseteq Targets(s)
                      /\ Targets(s) \cap landed[t] \subseteq targets,
         record \subseteq Targets(s),
         left = {} => \A i \in Targets(s) \cap landed[t] :
                        i \in cache'[s] /\ (i \in Knows[s] => i \in told'[s] \cup record)
  PROVE  Along(t)'
<1>1. s \in Steps /\ Targets(s) \subseteq Targets(s)'
  BY NextTask, TargetsGrow DEF Shape, InRun
<1>2. plan'[t] = plan[t] /\ landed'[t] = landed[t]
  OBVIOUS
<1>3. Range(plan'[t]) \subseteq Configured
  BY <1>2 DEF Along, Aims
<1>4. CASE left # {}
  <2>1. pc'[t] = "asked" /\ wanted'[t] = targets /\ outcome'[t] = "none"
    <3>1. /\ wanted' = [wanted EXCEPT ![t] = targets]
          /\ pc' = [pc EXCEPT ![t] = "asked"]
          /\ outcome' = [outcome EXCEPT ![t] = "none"]
      BY <1>4 DEF GoesOn
    <3> QED BY <3>1 DEF Shape, TaskShape
  <2>2. Carried(t)'
    BY <1>2, <1>4, <2>1, CarriedOn DEF Along
  <2> QED BY <1>1, <1>2, <1>3, <1>4, <2>1, <2>2 DEF Along, Aims
<1>5. CASE left = {} /\ record # {}
  <2>1. pc'[t] = "recording" /\ asking'[t] = record /\ outcome'[t] = "none"
    BY <1>5 DEF GoesOn, Shape, TaskShape
  <2>2. Carried(t)'
    BY <1>2, <1>5, <2>1, CarriedOn DEF Along
  <2> QED BY <1>1, <1>2, <1>3, <2>1, <2>2 DEF Along, Aims
<1>6. CASE left = {} /\ record = {}
  <2>1. pc'[t] = "closing"
    BY <1>6 DEF GoesOn, Shape, TaskShape
  <2>2. Carried(t)'
    BY <1>2, <1>6, <2>1, CarriedOn DEF Along
  <2> QED BY <1>2, <1>3, <2>1, <2>2 DEF Along, Aims
<1> QED BY <1>4, <1>5, <1>6

LEMMA AlongStep ==
  ASSUME Shape, Found, Grows, NEW t \in Tasks, Along(t),
         \/ \E key \in {"steam", "epic"}, new \in SUBSET Items : Land(t, key, new)
         \/ \E s \in Steps : Click(t, s)
         \/ Step(t)
  PROVE  Along(t)'
<1> USE DEF Shape
<1>1. ASSUME NEW key \in {"steam", "epic"}, NEW new \in SUBSET Items, Land(t, key, new)
      PROVE  Along(t)'
  <2>1. /\ pc[t] = "idle" /\ new # {}
        /\ new \subseteq (IF key = "steam" THEN SteamItems ELSE OtherItems)
        /\ pc'[t] = "due" /\ plan'[t] = Planned(key) /\ landed'[t] = new
        /\ library' = library \cup new /\ outcome' = outcome
    BY <1>1 DEF Land, TaskShape, locals
  <2>2. InOrder(Planned(key), new) /\ Behind(Planned(key)) = {}
    BY <2>1, PlannedInOrder
  <2>3. Range(plan'[t]) \subseteq Configured
    BY <2>1, PlannedIsChain
  <2>4. outcome'[t] # "success"
    BY <2>1 DEF Along
  <2>5. Aims(t)'
    BY <2>1, <2>3 DEF Aims
  <2>6. Carried(t)'
    BY <2>1, <2>2, <2>4 DEF Carried
  <2> QED BY <2>4, <2>5, <2>6 DEF Along
<1>2. ASSUME NEW s \in Steps, Click(t, s) PROVE Along(t)'
  <2>1. /\ pc[t] = "idle" /\ s \in Configured /\ pc'[t] = "opening" /\ plan'[t] = <<s>>
        /\ landed'[t] = landed[t] /\ outcome'[t] = outcome[t]
    BY <1>2 DEF Click, TaskShape, locals
  <2>2. landed'[t] = {} /\ outcome'[t] # "success"
    BY <2>1 DEF Along, Carried
  <2>3. Range(plan'[t]) \subseteq Configured
    BY <2>1, RangeOfSteps
  <2>4. pc'[t] \notin InRun
    BY <2>1 DEF InRun
  <2> QED BY <2>2, <2>3, <2>4, AlongEmpty
<1>3. CASE Begin(t) \/ Open(t)
  <2>1. /\ plan'[t] = plan[t] /\ landed'[t] = landed[t] /\ outcome'[t] = outcome[t]
        /\ pc'[t] \in {"opening", "reading"} /\ pc[t] # "closing"
    BY <1>3 DEF Begin, Open, TaskShape, locals
  <2>2. outcome'[t] # "success"
    BY <2>1 DEF Along
  <2>3. Carried(t)'
    BY <2>1, <2>2, CarriedOn DEF Along
  <2> QED BY <2>1, <2>2, <2>3 DEF Along, Aims
<1>4. CASE Busy(t)
  <2>1. pc[t] \in AtStep /\ StepEnds(t, FALSE)
    BY <1>4 DEF Busy, AtStep
  <2> QED BY <2>1, StepEndsAlong
<1>5. CASE OpenLost(t) \/ CloseLost(t)
  BY <1>5, ChainEndsAlong DEF OpenLost, CloseLost
<1>6. CASE Close(t)
  <2>1. CASE outcome[t] # "broken" /\ StepEnds(t, outcome[t] = "success")
    <3>1. pc[t] \in AtStep
      BY <1>6 DEF Close, AtStep, InRun
    <3> QED BY <2>1, <3>1, StepEndsAlong
  <2>2. CASE ChainEnds(t)
    BY <2>2, ChainEndsAlong
  <2> QED BY <1>6, <2>1, <2>2 DEF Close
<1>7. CASE ReadTargets(t)
  <2> DEFINE s == Head(plan[t])
             left == Targets(s) \ (cache[s] \ stale[s])
             record == Targets(s) \cap Knows[s]
  <2>1. /\ GoesOn(t, Targets(s), left, record)
        /\ pc[t] \in InRun
        /\ UNCHANGED <<library, cache, told, plan, landed>>
    BY <1>7 DEF ReadTargets, database, InRun
  <2>2. Targets(s) \in SUBSET Items
    BY DEF Targets, DataShape
  <2>3. left = {} => \A i \in Targets(s) \cap landed[t] :
                       i \in cache'[s] /\ (i \in Knows[s] => i \in told'[s] \cup record)
    BY <2>1
  <2> HIDE DEF s
  <2>4. left \in SUBSET Items /\ record \in SUBSET Items /\ record \subseteq Targets(s)
    BY <2>2
  <2> HIDE DEF left, record
  <2> QED BY <2>1, <2>2, <2>3, <2>4, GoesOnAlong DEF s
<1>8. CASE Store(t)
  <2> DEFINE s == Head(plan[t])
             batch == NextBatch(t)
             record == wanted[t] \cap Knows[s]
  <2>1. /\ pc[t] = "asked"
        /\ cache' = [cache EXCEPT ![s] = @ \cup batch]
        /\ GoesOn(t, wanted[t], asking[t] \ batch, record)
        /\ UNCHANGED <<library, told, plan, landed>>
    BY <1>8 DEF Store, Stored
  <2>2. s \in Steps /\ pc[t] \in InRun
    BY <2>1, NextTask DEF InRun
  <2>3. /\ wanted[t] \subseteq Targets(s) /\ Targets(s) \cap landed[t] \subseteq wanted[t]
        /\ wanted[t] \ asking[t] \subseteq cache[s]
        /\ wanted[t] \in SUBSET Items /\ asking[t] \in SUBSET Items
    BY <2>1 DEF Along, Aims, Carried, Answered, TaskShape
  <2>4. cache'[s] = cache[s] \cup batch
    BY <2>1, <2>2 DEF DataShape
  <2> HIDE DEF s, batch
  <2>5. asking[t] \ batch = {} => \A i \in Targets(s) \cap landed[t] :
                       i \in cache'[s] /\ (i \in Knows[s] => i \in told'[s] \cup record)
    BY <2>3, <2>4
  <2>6. record \in SUBSET Items /\ record \subseteq Targets(s)
    BY <2>3
  <2>7. asking[t] \ batch \in SUBSET Items
    BY <2>3
  <2> HIDE DEF record
  <2> QED BY <2>1, <2>2, <2>3, <2>5, <2>6, <2>7, GoesOnAlong DEF s
<1>9. CASE Record(t)
  <2> DEFINE s == Head(plan[t])
             batch == NextBatch(t)
             record == asking[t] \ batch
  <2>1. /\ pc[t] = "recording"
        /\ told' = [told EXCEPT ![s] = @ \cup batch]
        /\ GoesOn(t, {}, {}, record)
        /\ UNCHANGED <<library, cache, plan, landed>>
    BY <1>9 DEF Record
  <2>2. s \in Steps /\ pc[t] \in InRun
    BY <2>1, NextTask DEF InRun
  <2>3. /\ asking[t] \subseteq Targets(s) /\ asking[t] \in SUBSET Items
        /\ \A i \in Targets(s) \cap landed[t] :
             i \in cache[s] /\ (i \in Knows[s] => i \in told[s] \cup asking[t])
    BY <2>1 DEF Along, Aims, Carried, TaskShape
  <2>4. told'[s] = told[s] \cup batch
    BY <2>1, <2>2 DEF DataShape
  <2> HIDE DEF s, batch
  <2>5. \A i \in Targets(s) \cap landed[t] :
          i \in cache'[s] /\ (i \in Knows[s] => i \in told'[s] \cup record)
    BY <2>1, <2>3, <2>4
  <2>6. record \in SUBSET Items /\ record \subseteq Targets(s) /\ {} \in SUBSET Items
    BY <2>3
  <2> HIDE DEF record
  <2> QED BY <2>1, <2>2, <2>5, <2>6, GoesOnAlong DEF s
<1>10. CASE Fail(t) \/ Break(t)
  <2>1. /\ plan'[t] = plan[t] /\ landed'[t] = landed[t]
        /\ pc'[t] = "closing" /\ outcome'[t] # "success"
    BY <1>10 DEF Fail, Break, LeavesStep, TaskShape
  <2>2. Carried(t)'
    BY <2>1, CarriedOn DEF Along
  <2> QED BY <2>1, <2>2 DEF Along, Aims
<1> QED BY <1>1, <1>2, <1>3, <1>4, <1>5, <1>6, <1>7, <1>8, <1>9, <1>10 DEF Step

LEMMA CarryingStep ==
  ASSUME Shape, Carrying, [Next]_vars
  PROVE  Carrying'
<1>1. Found /\ Grows
  BY GrowsStep DEF Carrying
<1>2. \A t \in Tasks : Along(t)'
  <2> SUFFICES ASSUME NEW u \in Tasks PROVE Along(u)'
    OBVIOUS
  <2>1. Along(u)
    BY DEF Carrying
  <2>2. ASSUME NEW t \in Tasks,
               \/ \E key \in {"steam", "epic"}, new \in SUBSET Items : Land(t, key, new)
               \/ \E s \in Steps : Click(t, s)
               \/ Step(t)
        PROVE  Along(u)'
    <3>1. CASE u = t
      BY <1>1, <2>1, <2>2, <3>1, AlongStep
    <3>2. CASE u # t
      <4>1. Untouched(u)
        BY <2>2, <3>2, OthersUntouched
      <4> QED BY <4>1, <1>1, <2>1, AlongAsBefore
    <3> QED BY <3>1, <3>2
  <2>3. ASSUME NEW s \in Steps, Expire(s) PROVE Along(u)'
    <3>1. Untouched(u)
      BY <2>3 DEF Expire, Untouched, locals
    <3> QED BY <3>1, <1>1, <2>1, AlongAsBefore
  <2>4. CASE UNCHANGED vars
    <3>1. Untouched(u)
      BY <2>4 DEF vars, Untouched
    <3> QED BY <3>1, <1>1, <2>1, AlongAsBefore
  <2>5. CASE Kill
    <3>1. landed'[u] = {} /\ pc'[u] = "idle" /\ outcome'[u] = "none" /\ plan'[u] = <<>>
      BY <2>5 DEF Kill, Nothing
    <3> QED BY <3>1, AlongEmpty, RangeOfSteps DEF InRun
  <2> QED BY <2>2, <2>3, <2>4, <2>5 DEF Next
<1>3. ASSUME NEW s \in Steps PROVE told'[s] \subseteq Targets(s)'
  <2>1. Targets(s) \subseteq Targets(s)'
    BY <1>1, TargetsGrow
  <2> QED BY <2>1, <1>1 DEF Grows, Found
<1>4. \A s \in Steps \ Configured : told'[s] = {}
  BY <1>1 DEF Grows, Found
<1>5. Found'
  BY <1>2, <1>3, <1>4 DEF Found, Along
<1> QED BY <1>2, <1>5 DEF Carrying

LEMMA CarryingInit == Init => Carrying
BY RangeOfSteps DEF Init, Carrying, Found, Along, Aims, Carried, Nothing

(* A chain whose runs all succeed takes everything its sync landed through *)
(* every step the instance has: `FOLLOWS` names the steps in an order in   *)
(* which no step comes before one whose provenance decides what it asks.   *)
THEOREM ChainsReach == Spec => ChainReaches
<1> DEFINE Reaches ==
      \A t \in Tasks :
        outcome[t] = "success" /\ Len(plan[t]) = 1 /\ pc'[t] = "idle" =>
          \A s \in Steps \cap Configured :
            \A i \in Targets(s) \cap landed[t] :
              i \in cache[s] /\ (i \in Knows[s] => i \in told[s])
<1>1. Shape /\ Carrying => Reaches
  <2> SUFFICES ASSUME Shape, Carrying, NEW t \in Tasks,
                      outcome[t] = "success", Len(plan[t]) = 1,
                      NEW s \in Steps \cap Configured, landed[t] # {}
               PROVE  Covered(s, landed[t])
    BY DEF Covered
  <2>1. Carried(t) /\ plan[t] \in Chain /\ pc[t] # "idle"
    BY DEF Carrying, Along, Carried, Shape, TaskShape
  <2>2. Covered(Head(plan[t]), landed[t]) /\ \A b \in Behind(plan[t]) : Covered(b, landed[t])
    BY <2>1 DEF Carried
  <2>3. plan[t] # <<>> /\ Head(plan[t]) = plan[t][1]
    BY <2>1, ChainType, EmptySeq, HeadTailProperties DEF Shape, TaskShape
  <2>4. Range(plan[t]) = {Head(plan[t])}
    BY <2>1, <2>3, ChainType
  <2> QED BY <2>2, <2>4 DEF Behind
<1>2. Shape /\ Carrying /\ [Next]_vars => Carrying'
  BY CarryingStep
<1>3. ChainReaches <=> [][Reaches]_vars
  BY PTL DEF ChainReaches
<1>4. EnrichmentInvariant => Shape
  BY DEF EnrichmentInvariant
<1>5. Shape /\ Carrying => [Reaches]_vars
  BY <1>1
<1> QED BY <1>2, <1>3, <1>4, <1>5, CarryingInit, Inductive, PTL DEF Spec

=============================================================================
