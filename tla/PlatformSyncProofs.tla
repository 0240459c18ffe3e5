-------------------------- MODULE PlatformSyncProofs --------------------------
(***************************************************************************)
(* For any accounts, requests and jobs: the credential an account has      *)
(* stored works or has a known heir, and the platform's health does not    *)
(* hide a failing account.                                                 *)
(*                                                                         *)
(* A credential is one account's: wherever it is held, it is under the     *)
(* account it was issued for.  So a run that spends what it holds spoils   *)
(* no other account's, and an account has at most one run.                 *)
(***************************************************************************)
EXTENDS PlatformSync, WellFoundedInduction, TLAPS

Types ==
  /\ active \in SUBSET Accounts
  /\ secret \in [Accounts -> Token]
  /\ open \in [Accounts -> Tasks \cup {None, Orphan}]
  /\ latest \in [Accounts -> Health]
  /\ health \in Health
  /\ issued \in Token
  /\ pc \in [Tasks -> {"idle", "next", "recheck", "fetch", "closing"}]
  /\ todo \in [Tasks -> SUBSET Accounts]
  /\ current \in [Tasks -> Accounts \cup {0}]
  /\ held \in [Tasks -> [Accounts -> Token \cup {Expired}]]
  /\ renewed \in [Tasks -> Token]
  /\ outcome \in [Tasks -> Health]
  /\ seen \in [Tasks -> Health]
  /\ lost \in SUBSET Accounts

Running(t) == pc[t] \in {"fetch", "closing"}

(* What a task has in hand at each point of its loop.                      *)
ShapeOf(t) ==
  /\ pc[t] \in {"recheck", "fetch", "closing"} <=> current[t] # 0
  /\ renewed[t] # 0 => pc[t] = "closing" /\ renewed[t] \notin spent
  /\ pc[t] \in {"recheck", "fetch"} => held[t][current[t]] > 0
  /\ \A a \in todo[t] : secret[a] # 0 /\ (t \in Requests => held[t][a] # 0)

(* A run of an account is one task's, which is in it.                      *)
Exclusive ==
  \A t \in Tasks, a \in Accounts : open[a] = t <=> Running(t) /\ current[t] = a

(* Where a credential is, and whose it is.                                 *)
Has(a, k) ==
  \/ secret[a] = k
  \/ \E t \in Tasks : held[t][a] = k
  \/ \E t \in Tasks : current[t] = a /\ renewed[t] = k

Apart ==
  /\ spent \subseteq 1..issued
  /\ \A a \in Accounts, k \in 1..MaxTokens : Has(a, k) => k <= issued
  /\ \A a, b \in Accounts, k \in 1..MaxTokens : Has(a, k) /\ Has(b, k) => a = b

Inv ==
  /\ Types
  /\ \A t \in Tasks : ShapeOf(t)
  /\ Exclusive
  /\ \A a \in active : secret[a] # 0
  /\ Apart
  /\ StoredCredentialWorks

-----------------------------------------------------------------------------
(* The next account of a loop is one of those still to do.                 *)
LEMMA MinIsOne == ASSUME NEW S \in SUBSET Accounts, S # {} PROVE Min(S) \in S
<1>1. IsWellFoundedOn(OpToRel(<, Nat), Nat)
  BY NatLessThanWellFounded
<1>2. \A x, y \in Nat : y < x => <<y, x>> \in OpToRel(<, Nat)
  BY DEF OpToRel
<1>3. PICK R : IsWellFoundedOn(R, Nat) /\ \A x, y \in Nat : y < x => <<y, x>> \in R
  BY <1>1, <1>2, Zenon
<1>4. S \subseteq Nat
  BY AccountsAssumption
<1>5. \E x \in S : \A y \in S : ~ (<<y, x>> \in R)
  BY <1>3, <1>4, WFMin
<1>6. PICK x \in S : \A y \in S : ~ (<<y, x>> \in R)
  BY <1>5
<1>7. \A y \in S : ~(y < x)
  BY <1>3, <1>4, <1>6
<1>8. \A y \in S : x <= y
  BY <1>4, <1>7
<1>9. QED BY <1>8 DEF Min

LEMMA SummaryIsHealth == \A f, S : Summary(f, S) \in Health
  BY DEF Summary, Health

(* The others' loops are as they were.                                     *)
Others(t) ==
  \A u \in Tasks \ {t} :
    /\ pc'[u] = pc[u] /\ todo'[u] = todo[u] /\ current'[u] = current[u]
    /\ held'[u] = held[u] /\ renewed'[u] = renewed[u]

(* A step of one task that spends nothing another has in renewal.          *)
LEMMA ShapesHold ==
  ASSUME Inv, NEW t \in Tasks, Others(t), ShapeOf(t)',
         \A a \in Accounts : secret[a] # 0 => secret'[a] # 0,
         \A u \in Tasks \ {t} : renewed[u] # 0 => renewed[u] \notin spent'
  PROVE  \A u \in Tasks : ShapeOf(u)'
<1>1. ASSUME NEW u \in Tasks \ {t} PROVE ShapeOf(u)'
  <2>1. ShapeOf(u) /\ todo[u] \subseteq Accounts
    BY DEF Inv, Types
  <2>2. QED BY <2>1 DEF Others, ShapeOf
<1>2. QED BY <1>1

(* What a step issues is new, and one account's.                           *)
LEMMA ApartHolds ==
  ASSUME Inv, Types', NEW a0 \in Accounts, issued' \in {issued, issued + 1},
         spent' \subseteq 1..issued',
         \A a \in Accounts, k \in 1..MaxTokens :
           Has(a, k)' => Has(a, k) \/ (a = a0 /\ k = issued + 1 /\ issued' = k)
  PROVE  Apart'
<1>1. issued \in Nat /\ issued' \in Nat /\ issued <= issued' /\ MaxTokens \in Nat
  BY BoundsAssumption DEF Inv, Types, Token
<1>2. \A a \in Accounts, k \in 1..MaxTokens : Has(a, k)' => k <= issued'
  BY <1>1 DEF Inv, Apart
<1>3. \A a, b \in Accounts, k \in 1..MaxTokens : Has(a, k)' /\ Has(b, k)' => a = b
  BY <1>1 DEF Inv, Apart
<1>4. QED BY <1>2, <1>3 DEF Apart

(* Three ways the holder of a run changes, and none.                       *)
LEMMA ExclusiveHolds ==
  ASSUME Inv, Types', NEW t \in Tasks, Others(t),
         \/ /\ open' = open
            /\ \/ ~Running(t) /\ ~Running(t)'
               \/ Running(t) /\ Running(t)' /\ current'[t] = current[t]
         \/ \E a \in Accounts :
              /\ open[a] \notin Tasks /\ open' = [open EXCEPT ![a] = t]
              /\ ~Running(t) /\ Running(t)' /\ current'[t] = a
         \/ \E a \in Accounts, h \in {None, Orphan} :
              /\ open' = [open EXCEPT ![a] = h] /\ ~Running(t)'
              /\ \/ Running(t) /\ current[t] = a
                 \/ ~Running(t) /\ open[a] \notin Tasks
  PROVE  Exclusive'
<1>1. None \notin Tasks /\ Orphan \notin Tasks
  BY HoldersAssumption
<1>2. \A u \in Tasks \ {t} : Running(u)' <=> Running(u)
  BY DEF Running, Others
<1>3. Exclusive /\ open \in [Accounts -> Tasks \cup {None, Orphan}]
  BY DEF Inv, Types
<1>4. CASE /\ open' = open
           /\ \/ ~Running(t) /\ ~Running(t)'
              \/ Running(t) /\ Running(t)' /\ current'[t] = current[t]
  BY <1>2, <1>3, <1>4 DEF Exclusive, Others
<1>5. ASSUME NEW a \in Accounts, open[a] \notin Tasks, open' = [open EXCEPT ![a] = t],
             ~Running(t), Running(t)', current'[t] = a
      PROVE  Exclusive'
  <2>1. SUFFICES ASSUME NEW u \in Tasks, NEW b \in Accounts
                 PROVE  open'[b] = u <=> Running(u)' /\ current'[u] = b
    BY DEF Exclusive
  <2>2. CASE u = t
    BY <1>3, <1>5, <2>2 DEF Exclusive
  <2>3. CASE u # t
    BY <1>2, <1>3, <1>5, <2>3 DEF Exclusive, Others
  <2>4. QED BY <2>2, <2>3
<1>6. ASSUME NEW a \in Accounts, NEW h \in {None, Orphan}, open' = [open EXCEPT ![a] = h],
             ~Running(t)',
             (Running(t) /\ current[t] = a) \/ (~Running(t) /\ open[a] \notin Tasks)
      PROVE  Exclusive'
  <2>1. SUFFICES ASSUME NEW u \in Tasks, NEW b \in Accounts
                 PROVE  open'[b] = u <=> Running(u)' /\ current'[u] = b
    BY DEF Exclusive
  <2>2. CASE u = t
    BY <1>1, <1>3, <1>6, <2>2 DEF Exclusive
  <2>3. CASE u # t
    BY <1>1, <1>2, <1>3, <1>6, <2>3 DEF Exclusive, Others
  <2>4. QED BY <2>2, <2>3
<1>7. QED BY <1>4, <1>5, <1>6

-----------------------------------------------------------------------------
(* Types, one lemma for what several actions share.                        *)
LEMMA ReturnTypes ==
  ASSUME Types, NEW t \in Tasks, Return(t)
  PROVE  /\ pc' \in [Tasks -> {"idle", "next", "recheck", "fetch", "closing"}]
         /\ todo' \in [Tasks -> SUBSET Accounts] /\ current' \in [Tasks -> Accounts \cup {0}]
         /\ held' \in [Tasks -> [Accounts -> Token \cup {Expired}]]
         /\ renewed' \in [Tasks -> Token] /\ outcome' \in [Tasks -> Health]
         /\ seen' \in [Tasks -> Health]
<1>1. 0 \in Token /\ NoTokens \in [Accounts -> Token \cup {Expired}] /\ "pending" \in Health
  BY BoundsAssumption DEF Token, NoTokens, Health
<1>2. held' \in [Tasks -> [Accounts -> Token \cup {Expired}]]
  BY <1>1 DEF Types, Return
<1>3. todo' \in [Tasks -> SUBSET Accounts]
  BY DEF Types, Return
<1>4. QED BY <1>1, <1>2, <1>3 DEF Types, Return

LEMMA GoesOnTypes ==
  ASSUME Types, NEW t \in Tasks, GoesOn(t), current[t] \in Accounts
  PROVE  /\ pc' \in [Tasks -> {"idle", "next", "recheck", "fetch", "closing"}]
         /\ todo' \in [Tasks -> SUBSET Accounts] /\ current' \in [Tasks -> Accounts \cup {0}]
         /\ held' \in [Tasks -> [Accounts -> Token \cup {Expired}]]
         /\ renewed' \in [Tasks -> Token] /\ outcome' \in [Tasks -> Health]
<1>1. 0 \in Token /\ "pending" \in Health
  BY BoundsAssumption DEF Token, Health
<1>2. held' \in [Tasks -> [Accounts -> Token \cup {Expired}]]
  <2>1. [held[t] EXCEPT ![current[t]] = 0] \in [Accounts -> Token \cup {Expired}]
    BY <1>1 DEF Types
  <2>2. held' = [held EXCEPT ![t] = [held[t] EXCEPT ![current[t]] = 0]]
    BY DEF GoesOn, Types
  <2>3. QED BY <2>1, <2>2 DEF Types
<1>3. todo' \in [Tasks -> SUBSET Accounts]
  BY DEF Types, GoesOn
<1>4. QED BY <1>1, <1>2, <1>3 DEF Types, GoesOn

(* A claim, or the run that is in its way.                                 *)
LEMMA ClaimTypes ==
  ASSUME Types, NEW t \in Tasks, NEW a \in Accounts, Claim(t, a) \/ Collide(t, a)
  PROVE  /\ open' \in [Accounts -> Tasks \cup {None, Orphan}]
         /\ latest' \in [Accounts -> Health]
         /\ pc' \in [Tasks -> {"idle", "next", "recheck", "fetch", "closing"}]
<1>1. "failed" \in Health
  BY DEF Health
<1>2. CASE Claim(t, a)
  <2>1. open' \in [Accounts -> Tasks \cup {None, Orphan}]
    BY <1>2 DEF Types, Claim
  <2>2. latest' \in [Accounts -> Health]
    BY <1>1, <1>2 DEF Types, Claim
  <2>3. QED BY <1>2, <2>1, <2>2 DEF Types, Claim
<1>3. CASE Collide(t, a)
  BY <1>3 DEF Types, Collide
<1>4. QED BY <1>2, <1>3

LEMMA ClosesTypes ==
  ASSUME Types, NEW t \in Tasks, NEW end \in Health, Closes(t, end), current[t] \in Accounts
  PROVE  /\ open' \in [Accounts -> Tasks \cup {None, Orphan}]
         /\ latest' \in [Accounts -> Health]
         /\ secret' \in [Accounts -> Token] /\ lost' \in SUBSET Accounts
  BY DEF Types, Closes

LEMMA StartTypes == \A r \in Requests : Types /\ RequestStarts(r) => Types'
<1>. SUFFICES ASSUME Types, NEW r \in Requests, RequestStarts(r) PROVE Types'
  OBVIOUS
<1>1. r \in Tasks /\ 0 \in Token
  BY BoundsAssumption DEF Tasks, Token
<1>2. active # {} /\ active \in SUBSET Accounts
  BY DEF RequestStarts, Listed, Types
<1>3. PICK a \in Accounts : current' = [current EXCEPT ![r] = a] /\ (Claim(r, a) \/ Collide(r, a))
  BY <1>2, MinIsOne DEF RequestStarts
<1>4. [b \in Accounts |-> IF b \in active THEN secret[b] ELSE 0] \in [Accounts -> Token \cup {Expired}]
  BY <1>1 DEF Types
<1>5. held' \in [Tasks -> [Accounts -> Token \cup {Expired}]]
  BY <1>1, <1>4 DEF Types, RequestStarts, Listed
<1>6. /\ current' \in [Tasks -> Accounts \cup {0}] /\ seen' \in [Tasks -> Health]
      /\ todo' \in [Tasks -> SUBSET Accounts]
  BY <1>1, <1>2, <1>3 DEF Types, RequestStarts, Listed
<1>7. UNCHANGED <<active, secret, health, issued, renewed, outcome, lost>>
  BY DEF RequestStarts, platform
<1>8. QED BY <1>1, <1>3, <1>5, <1>6, <1>7, ClaimTypes DEF Types

LEMMA RequestNextTypes == \A r \in Requests : Types /\ RequestNext(r) => Types'
<1>. SUFFICES ASSUME Types, NEW r \in Requests, RequestNext(r) PROVE Types'
  OBVIOUS
<1>1. r \in Tasks
  BY DEF Tasks
<1>2. todo[r] # {} /\ todo[r] \in SUBSET Accounts
  BY <1>1 DEF RequestNext, Types
<1>3. PICK a \in Accounts : current' = [current EXCEPT ![r] = a] /\ (Claim(r, a) \/ Collide(r, a))
  BY <1>2, MinIsOne DEF RequestNext
<1>4. current' \in [Tasks -> Accounts \cup {0}]
  BY <1>1, <1>3 DEF Types
<1>5. UNCHANGED <<active, secret, health, issued, todo, held, seen, renewed, outcome, lost>>
  BY DEF RequestNext, platform, session
<1>6. QED BY <1>1, <1>3, <1>4, <1>5, ClaimTypes DEF Types

LEMMA JobNextTypes == \A j \in Jobs : Types /\ JobNext(j) => Types'
<1>. SUFFICES ASSUME Types, NEW j \in Jobs, JobNext(j) PROVE Types'
  OBVIOUS
<1>1. j \in Tasks /\ 0 \in Token
  BY BoundsAssumption DEF Tasks, Token
<1>2. todo[j] # {} /\ todo[j] \in SUBSET Accounts
  BY <1>1 DEF JobNext, Types
<1>3. PICK a \in Accounts : /\ current' = [current EXCEPT ![j] = a]
                            /\ held' = [held EXCEPT ![j] = [NoTokens EXCEPT ![a] = secret[a]]]
                            /\ Claim(j, a) \/ Collide(j, a)
  BY <1>2, MinIsOne DEF JobNext
<1>4. [NoTokens EXCEPT ![a] = secret[a]] \in [Accounts -> Token \cup {Expired}]
  BY <1>1 DEF Types, NoTokens
<1>5. held' \in [Tasks -> [Accounts -> Token \cup {Expired}]]
  BY <1>1, <1>3, <1>4 DEF Types
<1>6. current' \in [Tasks -> Accounts \cup {0}] /\ seen' \in [Tasks -> Health]
  BY <1>1, <1>3 DEF Types, JobNext
<1>7. UNCHANGED <<active, secret, health, issued, todo, renewed, outcome, lost>>
  BY DEF JobNext, platform
<1>8. QED BY <1>1, <1>3, <1>5, <1>6, <1>7, ClaimTypes DEF Types

LEMMA RetryTypes == \A t \in Tasks : Types /\ current[t] \in Accounts /\ Retry(t) => Types'
<1>. SUFFICES ASSUME Types, NEW t \in Tasks, current[t] \in Accounts, Retry(t) PROVE Types'
  OBVIOUS
<1>1. [a \in Accounts |-> IF a \in todo[t] \ {current[t]} THEN Expired ELSE held[t][a]]
        \in [Accounts -> Token \cup {Expired}]
  BY DEF Types
<1>2. held' \in [Tasks -> [Accounts -> Token \cup {Expired}]]
  BY <1>1 DEF Types, Retry
<1>3. /\ open' \in [Accounts -> Tasks \cup {None, Orphan}] /\ seen' \in [Tasks -> Health]
      /\ pc' \in [Tasks -> {"idle", "next", "recheck", "fetch", "closing"}]
  BY DEF Types, Retry
<1>4. UNCHANGED <<active, secret, latest, health, issued, todo, current, renewed, outcome, lost>>
  BY DEF Retry, platform
<1>5. QED BY <1>2, <1>3, <1>4 DEF Types

LEMMA HasAccount ==
  ASSUME Inv, NEW t \in Tasks, pc[t] \in {"recheck", "fetch", "closing"}
  PROVE  current[t] \in Accounts
<1>1. ShapeOf(t) /\ current \in [Tasks -> Accounts \cup {0}]
  BY DEF Inv, Types
<1>2. QED BY <1>1 DEF ShapeOf

LEMMA FetchTypes ==
  \A t \in Tasks :
    /\ Types /\ current[t] \in Accounts
    /\ FetchRefused(t) \/ FetchRenewed(t) \/ FetchLost(t)
    => Types'
<1>. SUFFICES ASSUME Types, NEW t \in Tasks, current[t] \in Accounts,
                     FetchRefused(t) \/ FetchRenewed(t) \/ FetchLost(t)
              PROVE  Types'
  OBVIOUS
<1>1. Outcomes \subseteq Health /\ "failed" \in Health
  BY OutcomesAssumption DEF Health
<1>2. UNCHANGED <<active, secret, open, latest, health, todo, current, held>>
  BY DEF FetchRefused, FetchRenewed, FetchLost, database, session
<1>3. /\ pc' = [pc EXCEPT ![t] = "closing"] /\ seen' = seen
      /\ \E end \in Health : outcome' = [outcome EXCEPT ![t] = end]
  BY <1>1 DEF FetchRefused, FetchRenewed, FetchLost, session
<1>4. issued' \in Token /\ renewed' \in [Tasks -> Token]
  <2>1. CASE FetchRenewed(t)
    <3>1. issued + 1 \in Token
      BY <2>1, BoundsAssumption DEF Types, Token, FetchRenewed
    <3>2. QED BY <2>1, <3>1 DEF FetchRenewed, Types
  <2>2. CASE FetchRefused(t) \/ FetchLost(t)
    BY <2>2 DEF FetchRefused, FetchLost, Types, platform
  <2>3. QED BY <2>1, <2>2
<1>5. lost' \in SUBSET Accounts
  <2>1. CASE FetchLost(t)
    <3>1. LostWith({current[t]}, spent') \subseteq Accounts
      BY DEF LostWith
    <3>2. QED BY <2>1, <3>1 DEF FetchLost, Types
  <2>2. CASE FetchRefused(t) \/ FetchRenewed(t)
    BY <2>2 DEF FetchRefused, FetchRenewed, Types
  <2>3. QED BY <2>1, <2>2
<1>6. QED BY <1>2, <1>3, <1>4, <1>5 DEF Types

LEMMA CloseTypes ==
  \A t \in Tasks :
    /\ Types /\ current[t] \in Accounts
    /\ CloseLanded(t) \/ CloseFailed(t)
    => Types'
<1>. SUFFICES ASSUME Types, NEW t \in Tasks, current[t] \in Accounts,
                     CloseLanded(t) \/ CloseFailed(t)
              PROVE  Types'
  OBVIOUS
<1>1. UNCHANGED <<active, issued>>
  BY DEF CloseLanded, CloseFailed, platform
<1>2. \E end \in Health : Closes(t, end)
  BY DEF CloseLanded, CloseFailed, Health, Types
<1>3. health' \in Health
  BY SummaryIsHealth DEF CloseLanded, CloseFailed, Types
<1>4. CASE GoesOn(t) /\ \E now \in Health : seen' = [seen EXCEPT ![t] = SeenNext(t, now)]
  <2>1. seen' \in [Tasks -> Health]
    BY <1>4 DEF SeenNext, Health, Types
  <2>2. QED BY <1>1, <1>2, <1>3, <1>4, <2>1, ClosesTypes, GoesOnTypes DEF Types
<1>5. CASE Return(t)
  BY <1>1, <1>2, <1>3, <1>5, ClosesTypes, ReturnTypes DEF Types
<1>6. QED BY <1>3, <1>4, <1>5, SummaryIsHealth DEF CloseLanded, CloseFailed

LEMMA CloseLostTypes ==
  \A t \in Tasks : Types /\ current[t] \in Accounts /\ CloseLost(t) => Types'
<1>. SUFFICES ASSUME Types, NEW t \in Tasks, current[t] \in Accounts, CloseLost(t)
              PROVE  Types'
  OBVIOUS
<1>1. LostWith({a \in {current[t]} : renewed[t] # 0}, spent) \subseteq Accounts
  BY DEF LostWith
<1>2. lost' \in SUBSET Accounts /\ open' \in [Accounts -> Tasks \cup {None, Orphan}]
  BY <1>1 DEF CloseLost, Types
<1>3. UNCHANGED <<active, secret, latest, health, issued>> /\ Return(t)
  BY DEF CloseLost, platform
<1>4. QED BY <1>2, <1>3, ReturnTypes DEF Types

LEMMA OwnerTypes == \A a \in Accounts : Types /\ (Switch(a) \/ Connect(a)) => Types'
<1>. SUFFICES ASSUME Types, NEW a \in Accounts, Switch(a) \/ Connect(a) PROVE Types'
  OBVIOUS
<1>1. UNCHANGED <<open, latest, pc, todo, current, held, seen, renewed, outcome>>
  BY DEF Switch, Connect, session
<1>2. active' \in SUBSET Accounts /\ lost' \in SUBSET Accounts /\ health' \in Health
  BY SummaryIsHealth DEF Switch, Connect, Types
<1>3. issued' \in Token /\ secret' \in [Accounts -> Token]
  <2>1. CASE Connect(a)
    <3>1. issued + 1 \in Token
      BY <2>1, BoundsAssumption DEF Types, Token, Connect
    <3>2. QED BY <2>1, <3>1 DEF Connect, Types
  <2>2. CASE Switch(a)
    BY <2>2 DEF Switch, Types, platform
  <2>3. QED BY <2>1, <2>2
<1>4. QED BY <1>1, <1>2, <1>3 DEF Types

LEMMA KillTypes == Types /\ (\A t \in Tasks : renewed[t] # 0 => current[t] # 0) /\ Kill => Types'
<1>. SUFFICES ASSUME Types, \A t \in Tasks : renewed[t] # 0 => current[t] # 0, Kill
              PROVE  Types'
  OBVIOUS
<1>1. 0 \in Token /\ NoTokens \in [Accounts -> Token \cup {Expired}] /\ "pending" \in Health
  BY BoundsAssumption DEF Token, NoTokens, Health
<1>2. {current[t] : t \in {u \in Tasks : renewed[u] # 0}} \subseteq Accounts
  BY DEF Types
<1>3. LostWith({current[t] : t \in {u \in Tasks : renewed[u] # 0}}, spent) \subseteq Accounts
  BY <1>2 DEF LostWith
<1>4. lost' \in SUBSET Accounts /\ open' \in [Accounts -> Tasks \cup {None, Orphan}]
  BY <1>3 DEF Kill, Types
<1>5. held' \in [Tasks -> [Accounts -> Token \cup {Expired}]]
  BY <1>1 DEF Kill
<1>6. /\ pc' \in [Tasks -> {"idle", "next", "recheck", "fetch", "closing"}]
      /\ todo' \in [Tasks -> SUBSET Accounts] /\ current' \in [Tasks -> Accounts \cup {0}]
      /\ renewed' \in [Tasks -> Token] /\ outcome' \in [Tasks -> Health]
      /\ seen' \in [Tasks -> Health]
  BY <1>1 DEF Kill
<1>7. UNCHANGED <<active, secret, latest, health, issued>>
  BY DEF Kill, platform
<1>8. QED BY <1>4, <1>5, <1>6, <1>7 DEF Types

-----------------------------------------------------------------------------
(* How a task takes a run, keeps it, or lets it go.                        *)
Holds(t) ==
  \/ /\ open' = open
     /\ \/ ~Running(t) /\ ~Running(t)'
        \/ Running(t) /\ Running(t)' /\ current'[t] = current[t]
  \/ \E a \in Accounts :
       /\ open[a] \notin Tasks /\ open' = [open EXCEPT ![a] = t]
       /\ ~Running(t) /\ Running(t)' /\ current'[t] = a
  \/ \E a \in Accounts, h \in {None, Orphan} :
       /\ open' = [open EXCEPT ![a] = h] /\ ~Running(t)'
       /\ \/ Running(t) /\ current[t] = a
          \/ ~Running(t) /\ open[a] \notin Tasks

(* A step that uses no credential: what the task reads is stored.          *)
LEMMA QuietStep ==
  ASSUME Inv, Types', NEW t \in Tasks, Others(t), Holds(t), ShapeOf(t)',
         UNCHANGED <<active, secret, issued, spent, lost>>, pc[t] # "closing",
         renewed'[t] = 0,
         \A a \in Accounts : held'[t][a] \in {held[t][a], secret[a], 0, Expired}
  PROVE  Inv'
<1>1. Exclusive'
  BY ExclusiveHolds DEF Holds
<1>2. \A u \in Tasks : ShapeOf(u)'
  <2>1. \A u \in Tasks \ {t} : renewed[u] # 0 => renewed[u] \notin spent'
    BY DEF Inv, ShapeOf
  <2>2. QED BY <2>1, ShapesHold
<1>3. Apart'
  <2>1. ASSUME NEW a \in Accounts, NEW k \in 1..MaxTokens, Has(a, k)' PROVE Has(a, k)
    <3>1. k \in Nat /\ k > 0 /\ k # Expired
      BY BoundsAssumption DEF Expired
    <3>2. CASE secret'[a] = k
      BY <3>2 DEF Has
    <3>3. ASSUME NEW u \in Tasks, held'[u][a] = k PROVE Has(a, k)
      <4>1. CASE u = t
        BY <3>1, <3>3, <4>1 DEF Has
      <4>2. CASE u # t
        BY <3>3, <4>2 DEF Has, Others
      <4>3. QED BY <4>1, <4>2
    <3>4. ASSUME NEW u \in Tasks, current'[u] = a, renewed'[u] = k PROVE Has(a, k)
      BY <3>1, <3>4 DEF Has, Others
    <3>5. QED BY <2>1, <3>2, <3>3, <3>4 DEF Has
  <2>2. \A a \in Accounts, k \in 1..MaxTokens : Has(a, k)' => Has(a, k)
    BY <2>1
  <2>3. spent' \subseteq 1..issued'
    BY DEF Inv, Apart
  <2>4. CASE Accounts = {}
    BY <2>3, <2>4 DEF Apart
  <2>5. CASE Accounts # {}
    BY <2>2, <2>3, <2>5, ApartHolds
  <2>6. QED BY <2>4, <2>5
<1>4. renewed[t] = 0
  BY DEF Inv, ShapeOf
<1>5. StoredCredentialWorks'
  BY <1>4 DEF Inv, StoredCredentialWorks, Others
<1>6. \A a \in active' : secret'[a] # 0
  BY DEF Inv
<1>7. QED BY <1>1, <1>2, <1>3, <1>5, <1>6 DEF Inv

LEMMA ClaimHolds ==
  ASSUME Types, NEW t \in Tasks, NEW a \in Accounts, pc[t] \in {"idle", "next"},
         current'[t] = a, Claim(t, a) \/ Collide(t, a)
  PROVE  Holds(t) /\ pc'[t] \in {"recheck", "fetch"}
<1>1. ~Running(t)
  BY DEF Running
<1>2. CASE Claim(t, a)
  <2>1. pc'[t] = "fetch"
    BY <1>2 DEF Claim, Types
  <2>2. open[a] \notin Tasks /\ open' = [open EXCEPT ![a] = t]
    BY <1>2, HoldersAssumption DEF Claim
  <2>3. Running(t)'
    BY <2>1 DEF Running
  <2>4. QED BY <1>1, <2>1, <2>2, <2>3 DEF Holds
<1>3. CASE Collide(t, a)
  <2>1. pc'[t] = "recheck" /\ open' = open
    BY <1>3 DEF Collide, Types
  <2>2. ~Running(t)'
    BY <2>1 DEF Running
  <2>3. QED BY <1>1, <2>1, <2>2 DEF Holds
<1>4. QED BY <1>2, <1>3

LEMMA RequestStartsKeeps == \A r \in Requests : Inv /\ RequestStarts(r) => Inv'
<1>. SUFFICES ASSUME Inv, NEW r \in Requests, RequestStarts(r) PROVE Inv'
  OBVIOUS
<1>1. r \in Tasks /\ Types /\ Types' /\ 0 \notin Accounts
  BY StartTypes, AccountsAssumption DEF Inv, Tasks
<1>2. active # {} /\ active \in SUBSET Accounts
  BY <1>1 DEF RequestStarts, Listed, Types
<1>3. PICK a \in active : current' = [current EXCEPT ![r] = a] /\ (Claim(r, a) \/ Collide(r, a))
  BY <1>2, MinIsOne DEF RequestStarts
<1>4. /\ pc[r] = "idle" /\ todo'[r] = active /\ secret' = secret
      /\ \A b \in Accounts : held'[r][b] = IF b \in active THEN secret[b] ELSE 0
  BY <1>1 DEF RequestStarts, Listed, Types
<1>5. pc'[r] \in {"recheck", "fetch"} /\ Others(r) /\ current'[r] = a
  BY <1>1, <1>3 DEF RequestStarts, Listed, Claim, Collide, Others, Types
<1>6. Holds(r)
  BY <1>1, <1>2, <1>3, <1>4, <1>5, ClaimHolds
<1>7. renewed' = renewed /\ renewed[r] = 0
  BY <1>1, <1>4 DEF RequestStarts, Inv, ShapeOf
<1>8. ShapeOf(r)'
  <2>1. \A b \in active : secret'[b] # 0 /\ held'[r][b] = secret[b] /\ secret[b] \in Token
    BY <1>2, <1>4 DEF Inv, Types
  <2>2. held'[r][a] > 0
    BY <2>1, BoundsAssumption DEF Token, Inv
  <2>3. QED BY <1>1, <1>2, <1>4, <1>5, <1>7, <2>1, <2>2 DEF ShapeOf
<1>9. UNCHANGED <<active, secret, issued, spent, lost>>
  BY DEF RequestStarts, platform
<1>10. \A b \in Accounts : held'[r][b] \in {held[r][b], secret[b], 0, Expired}
  BY <1>4
<1>11. QED BY <1>1, <1>4, <1>5, <1>6, <1>7, <1>8, <1>9, <1>10, QuietStep

LEMMA RequestNextKeeps == \A r \in Requests : Inv /\ RequestNext(r) => Inv'
<1>. SUFFICES ASSUME Inv, NEW r \in Requests, RequestNext(r) PROVE Inv'
  OBVIOUS
<1>1. r \in Tasks /\ Types /\ Types' /\ 0 \notin Accounts /\ ShapeOf(r)
  BY RequestNextTypes, AccountsAssumption DEF Inv, Tasks
<1>2. todo[r] # {} /\ todo[r] \in SUBSET Accounts /\ pc[r] = "next"
  BY <1>1 DEF RequestNext, Types
<1>3. PICK a \in todo[r] : /\ current' = [current EXCEPT ![r] = a] /\ held[r][a] # Expired
                           /\ Claim(r, a) \/ Collide(r, a)
  BY <1>2, MinIsOne DEF RequestNext
<1>4. UNCHANGED <<active, secret, issued, spent, todo, held, renewed, lost>>
  BY DEF RequestNext, platform, session
<1>5. current'[r] = a /\ a \in Accounts
  BY <1>1, <1>2, <1>3 DEF Types
<1>6. Holds(r) /\ pc'[r] \in {"recheck", "fetch"}
  BY <1>1, <1>2, <1>3, <1>5, ClaimHolds
<1>7. Others(r)
  BY <1>1, <1>3, <1>4 DEF Claim, Collide, Others, Types
<1>8. renewed[r] = 0
  BY <1>1, <1>2 DEF ShapeOf
<1>9. ShapeOf(r)'
  <2>1. held[r][a] # 0 /\ held[r][a] \in Token \cup {Expired}
    BY <1>1, <1>3, <1>5 DEF ShapeOf, Types
  <2>2. held[r][a] > 0
    BY <1>3, <2>1, BoundsAssumption DEF Token
  <2>3. QED BY <1>1, <1>4, <1>5, <1>6, <1>8, <2>2 DEF ShapeOf
<1>10. QED BY <1>1, <1>2, <1>4, <1>6, <1>7, <1>8, <1>9, QuietStep

LEMMA JobNextKeeps == \A j \in Jobs : Inv /\ JobNext(j) => Inv'
<1>. SUFFICES ASSUME Inv, NEW j \in Jobs, JobNext(j) PROVE Inv'
  OBVIOUS
<1>1. /\ j \in Tasks /\ Types /\ Types' /\ 0 \notin Accounts /\ ShapeOf(j)
      /\ j \notin Requests
  BY JobNextTypes, AccountsAssumption, TasksAssumption DEF Inv, Tasks
<1>2. todo[j] # {} /\ todo[j] \in SUBSET Accounts /\ pc[j] = "next"
  BY <1>1 DEF JobNext, Types
<1>3. PICK a \in todo[j] : /\ current' = [current EXCEPT ![j] = a]
                           /\ held' = [held EXCEPT ![j] = [NoTokens EXCEPT ![a] = secret[a]]]
                           /\ Claim(j, a) \/ Collide(j, a)
  BY <1>2, MinIsOne DEF JobNext
<1>4. UNCHANGED <<active, secret, issued, spent, todo, renewed, lost>>
  BY DEF JobNext, platform
<1>5. /\ current'[j] = a /\ a \in Accounts
      /\ \A b \in Accounts : held'[j][b] = IF b = a THEN secret[a] ELSE 0
  BY <1>1, <1>2, <1>3 DEF Types, NoTokens
<1>6. Holds(j) /\ pc'[j] \in {"recheck", "fetch"}
  BY <1>1, <1>2, <1>3, <1>5, ClaimHolds
<1>7. Others(j)
  BY <1>1, <1>3, <1>4 DEF Claim, Collide, Others, Types
<1>8. renewed[j] = 0
  BY <1>1, <1>2 DEF ShapeOf
<1>9. ShapeOf(j)'
  <2>1. secret[a] # 0 /\ secret[a] \in Token
    BY <1>1, <1>3, <1>5 DEF ShapeOf, Types
  <2>2. held'[j][a] > 0
    BY <1>5, <2>1, BoundsAssumption DEF Token
  <2>3. QED BY <1>1, <1>4, <1>5, <1>6, <1>8, <2>2 DEF ShapeOf
<1>10. \A b \in Accounts : held'[j][b] \in {held[j][b], secret[b], 0, Expired}
  BY <1>5
<1>11. QED BY <1>1, <1>2, <1>4, <1>6, <1>7, <1>8, <1>9, <1>10, QuietStep

LEMMA JobListsKeeps == \A j \in Jobs : Inv /\ JobLists(j) => Inv'
<1>. SUFFICES ASSUME Inv, NEW j \in Jobs, JobLists(j) PROVE Inv'
  OBVIOUS
<1>1. j \in Tasks /\ Types /\ ShapeOf(j) /\ j \notin Requests
  BY TasksAssumption DEF Inv, Tasks
<1>2. /\ UNCHANGED <<active, secret, open, latest, health, issued, spent, current, held,
                     seen, renewed, outcome, lost>>
      /\ pc[j] = "idle"
      /\ pc' = [pc EXCEPT ![j] = "next"] /\ todo' = [todo EXCEPT ![j] = active]
  BY DEF JobLists, database, platform, session
<1>3. Types'
  BY <1>1, <1>2 DEF Types
<1>4. pc'[j] = "next" /\ todo'[j] = active
  BY <1>1, <1>2 DEF Types
<1>5. Holds(j) /\ Others(j) /\ renewed[j] = 0
  BY <1>1, <1>2, <1>4 DEF Holds, Running, Others, Types, ShapeOf
<1>6. ShapeOf(j)'
  <2>1. current[j] = 0
    BY <1>1, <1>2 DEF ShapeOf
  <2>2. \A a \in active : secret[a] # 0
    BY DEF Inv
  <2>3. QED BY <1>1, <1>2, <1>4, <1>5, <2>1, <2>2 DEF ShapeOf
<1>7. QED BY <1>1, <1>2, <1>3, <1>5, <1>6, QuietStep

(* What is left of a call that is over.                                    *)
LEMMA ReturnShape ==
  ASSUME Inv, NEW t \in Tasks, Return(t)
  PROVE  ShapeOf(t)' /\ Others(t) /\ ~Running(t)' /\ renewed'[t] = 0 /\ current'[t] = 0
         /\ \A a \in Accounts : held'[t][a] = 0
<1>1. Types
  BY DEF Inv
<1>2. /\ pc'[t] = "idle" /\ todo'[t] = {} /\ current'[t] = 0 /\ renewed'[t] = 0
      /\ held'[t] = NoTokens
  BY <1>1 DEF Return, Types
<1>3. Others(t)
  BY <1>1 DEF Return, Types, Others
<1>4. QED BY <1>2, <1>3 DEF ShapeOf, Running, NoTokens

LEMMA ReturnKeeps ==
  \A t \in Tasks :
    /\ Inv /\ pc[t] \in {"next", "recheck"} /\ Return(t)
    /\ \/ UNCHANGED <<database, platform, lost>>
       \/ \E a \in Accounts :
            /\ open[a] = None /\ open' = [open EXCEPT ![a] = Orphan]
            /\ UNCHANGED <<active, secret, latest, health, platform, lost>>
    => Inv'
<1>. SUFFICES ASSUME NEW t \in Tasks, Inv, pc[t] \in {"next", "recheck"}, Return(t),
                     \/ UNCHANGED <<database, platform, lost>>
                     \/ \E a \in Accounts :
                          /\ open[a] = None /\ open' = [open EXCEPT ![a] = Orphan]
                          /\ UNCHANGED <<active, secret, latest, health, platform, lost>>
              PROVE  Inv'
  OBVIOUS
<1>1. Types /\ None \notin Tasks
  BY HoldersAssumption DEF Inv
<1>2. UNCHANGED <<active, secret, latest, health, issued, spent, lost>>
  BY DEF database, platform
<1>3. open' \in [Accounts -> Tasks \cup {None, Orphan}]
  BY <1>1 DEF Types, database
<1>4. Types'
  BY <1>1, <1>2, <1>3, ReturnTypes DEF Types
<1>5. Holds(t)
  BY <1>1, ReturnShape DEF Holds, Running, database
<1>6. QED BY <1>2, <1>4, <1>5, ReturnShape, QuietStep

LEMMA ReturningKeeps ==
  /\ \A r \in Requests : Inv /\ (RequestRaises(r) \/ RequestRefused(r)) => Inv'
  /\ \A j \in Jobs : Inv /\ OpenCancelled(j) => Inv'
  /\ \A t \in Tasks : Inv /\ Answer(t) => Inv'
<1>1. ASSUME Inv, NEW r \in Requests, RequestRaises(r) \/ RequestRefused(r) PROVE Inv'
  BY <1>1, ReturnKeeps DEF RequestRaises, RequestRefused, Tasks
<1>2. ASSUME Inv, NEW j \in Jobs, OpenCancelled(j) PROVE Inv'
  <2>1. j \in Tasks /\ Types
    BY <1>2 DEF Inv, Tasks
  <2>2. todo[j] # {} /\ todo[j] \in SUBSET Accounts
    BY <1>2, <2>1 DEF OpenCancelled, Types
  <2>3. Min(todo[j]) \in Accounts
    BY <2>2, MinIsOne
  <2>4. QED BY <1>2, <2>1, <2>3, ReturnKeeps DEF OpenCancelled
<1>3. ASSUME Inv, NEW t \in Tasks, Answer(t) PROVE Inv'
  BY <1>3, ReturnKeeps DEF Answer
<1>4. QED BY <1>1, <1>2, <1>3

(* What is left of an account the loop is through with.                    *)
LEMMA GoesOnShape ==
  ASSUME Inv, NEW t \in Tasks, GoesOn(t), pc[t] \in {"recheck", "closing"},
         \A a \in Accounts : secret[a] # 0 => secret'[a] # 0
  PROVE  ShapeOf(t)' /\ Others(t) /\ ~Running(t)' /\ renewed'[t] = 0 /\ current'[t] = 0
         /\ \A a \in Accounts : held'[t][a] \in {held[t][a], 0}
<1>1. Types /\ ShapeOf(t) /\ current[t] \in Accounts
  BY HasAccount DEF Inv
<1>2. /\ pc'[t] = "next" /\ todo'[t] = todo[t] \ {current[t]} /\ current'[t] = 0
      /\ renewed'[t] = 0 /\ todo[t] \in SUBSET Accounts
  BY <1>1 DEF GoesOn, Types
<1>3. Others(t)
  BY <1>1 DEF GoesOn, Types, Others
<1>4. \A a \in Accounts : held'[t][a] = IF a = current[t] THEN 0 ELSE held[t][a]
  BY <1>1 DEF GoesOn, Types
<1>5. \A a \in todo'[t] : secret'[a] # 0 /\ (t \in Requests => held'[t][a] # 0)
  BY <1>1, <1>2, <1>4 DEF ShapeOf
<1>6. ShapeOf(t)'
  BY <1>2, <1>5 DEF ShapeOf
<1>7. QED BY <1>2, <1>3, <1>4, <1>6 DEF Running

LEMMA JobSkipsKeeps == \A j \in Jobs : Inv /\ JobSkips(j) => Inv'
<1>. SUFFICES ASSUME Inv, NEW j \in Jobs, JobSkips(j) PROVE Inv'
  OBVIOUS
<1>1. j \in Tasks /\ Types /\ pc[j] = "recheck" /\ GoesOn(j) /\ "pending" \in Health
  BY DEF Inv, Tasks, JobSkips, Health
<1>2. UNCHANGED <<active, secret, open, latest, health, issued, spent, lost>>
  BY DEF JobSkips, database, platform
<1>3. seen' \in [Tasks -> Health]
  BY <1>1 DEF JobSkips, Types
<1>4. current[j] \in Accounts
  BY <1>1, HasAccount
<1>5. Types'
  BY <1>1, <1>2, <1>3, <1>4, GoesOnTypes DEF Types
<1>6. ShapeOf(j)' /\ Others(j) /\ ~Running(j)' /\ renewed'[j] = 0
      /\ \A a \in Accounts : held'[j][a] \in {held[j][a], 0}
  BY <1>1, <1>2, GoesOnShape
<1>7. Holds(j)
  BY <1>1, <1>2, <1>6 DEF Holds, Running
<1>8. QED BY <1>1, <1>2, <1>5, <1>6, <1>7, QuietStep

LEMMA RetryKeeps == \A t \in Tasks : Inv /\ Retry(t) => Inv'
<1>. SUFFICES ASSUME Inv, NEW t \in Tasks, Retry(t) PROVE Inv'
  OBVIOUS
<1>1. Types /\ ShapeOf(t) /\ pc[t] = "recheck" /\ None \notin Tasks
  BY HoldersAssumption DEF Inv, Retry
<1>2. current[t] \in Accounts
  BY <1>1, HasAccount
<1>3. UNCHANGED <<active, secret, issued, spent, todo, current, renewed, lost>>
  BY DEF Retry, platform
<1>4. Types'
  BY <1>1, <1>2, RetryTypes
<1>5. /\ pc'[t] = "fetch"
      /\ \A a \in Accounts :
           held'[t][a] = IF a \in todo[t] \ {current[t]} THEN Expired ELSE held[t][a]
  BY <1>1 DEF Retry, Types
<1>6. Others(t)
  BY <1>1, <1>3 DEF Retry, Others, Types
<1>7. Holds(t)
  BY <1>1, <1>2, <1>3, <1>5 DEF Holds, Running, Retry
<1>8. ShapeOf(t)'
  <2>1. held'[t][current'[t]] > 0 /\ renewed[t] = 0 /\ current[t] # 0
    BY <1>1, <1>2, <1>3, <1>5 DEF ShapeOf
  <2>2. ASSUME NEW a \in todo'[t] PROVE secret'[a] # 0 /\ (t \in Requests => held'[t][a] # 0)
    BY <1>1, <1>3, <1>5, <2>2 DEF ShapeOf, Expired, Types
  <2>3. QED BY <1>3, <1>5, <2>1, <2>2 DEF ShapeOf
<1>9. \A a \in Accounts : held'[t][a] \in {held[t][a], secret[a], 0, Expired}
  BY <1>5
<1>10. renewed'[t] = 0
  BY <1>1, <1>3 DEF ShapeOf
<1>11. QED BY <1>1, <1>3, <1>4, <1>6, <1>7, <1>8, <1>9, <1>10, QuietStep

LEMMA FetchRefusedKeeps == \A t \in Tasks : Inv /\ FetchRefused(t) => Inv'
<1>. SUFFICES ASSUME Inv, NEW t \in Tasks, FetchRefused(t) PROVE Inv'
  OBVIOUS
<1>1. Types /\ ShapeOf(t) /\ pc[t] = "fetch" /\ current[t] \in Accounts
  BY HasAccount DEF Inv, FetchRefused
<1>2. UNCHANGED <<active, secret, open, issued, spent, todo, current, held, renewed, lost>>
  BY DEF FetchRefused, database, platform, session
<1>3. Types' /\ pc'[t] = "closing" /\ Others(t)
  BY <1>1, <1>2, FetchTypes DEF FetchRefused, Types, Others
<1>4. Holds(t) /\ renewed[t] = 0
  BY <1>1, <1>2, <1>3 DEF Holds, Running, ShapeOf
<1>5. ShapeOf(t)'
  BY <1>1, <1>2, <1>3, <1>4 DEF ShapeOf
<1>6. QED BY <1>1, <1>2, <1>3, <1>4, <1>5, QuietStep

-----------------------------------------------------------------------------
(* The steps of a run that use a credential or write one.                  *)
LEMMA OwnRun ==
  ASSUME Inv, NEW t \in Tasks, NEW u \in Tasks, t # u, Running(t), Running(u)
  PROVE  current[t] # current[u]
<1>1. current[t] \in Accounts /\ current[u] \in Accounts
  BY HasAccount DEF Running
<1>2. open[current[t]] = t /\ open[current[u]] = u
  BY <1>1 DEF Inv, Exclusive
<1>3. QED BY <1>2

(* What it uses is its own, and nobody else's, stored or on its way.       *)
LEMMA UsesItsOwn ==
  ASSUME Inv, NEW t \in Tasks, pc[t] = "fetch", current[t] \in Accounts
  PROVE  /\ held[t][current[t]] \in 1..issued
         /\ renewed[t] = 0
         /\ \A b \in Accounts \ {current[t]} : secret[b] # held[t][current[t]]
         /\ \A u \in Tasks : renewed[u] # held[t][current[t]]
<1>1. Types /\ ShapeOf(t) /\ MaxTokens \in Nat
  BY BoundsAssumption DEF Inv
<1>2. PICK k \in 1..MaxTokens : k = held[t][current[t]]
  BY <1>1 DEF ShapeOf, Types, Token, Expired
<1>3. Has(current[t], k)
  BY <1>2 DEF Has
<1>4. k <= issued /\ \A b \in Accounts : Has(b, k) => b = current[t]
  BY <1>3 DEF Inv, Apart
<1>5. \A b \in Accounts \ {current[t]} : secret[b] # k
  BY <1>4 DEF Has
<1>6. renewed[t] = 0
  BY <1>1 DEF ShapeOf
<1>7. ASSUME NEW u \in Tasks, renewed[u] = k PROVE FALSE
  <2>1. ShapeOf(u) /\ u # t /\ renewed[u] # 0
    BY <1>1, <1>6, <1>7 DEF Inv
  <2>2. Running(u) /\ Running(t) /\ pc[u] = "closing"
    BY <2>1 DEF ShapeOf, Running
  <2>3. current[u] \in Accounts /\ current[u] # current[t]
    BY <2>1, <2>2, OwnRun, HasAccount
  <2>4. Has(current[u], k)
    BY <1>7 DEF Has
  <2>5. QED BY <1>4, <2>3, <2>4
<1>8. QED BY <1>1, <1>2, <1>4, <1>5, <1>6, <1>7 DEF Types, Token

LEMMA FetchRenewedKeeps == \A t \in Tasks : Inv /\ FetchRenewed(t) => Inv'
<1>. SUFFICES ASSUME Inv, NEW t \in Tasks, FetchRenewed(t) PROVE Inv'
  OBVIOUS
<1> DEFINE a == current[t]
<1>1. /\ Types /\ ShapeOf(t) /\ pc[t] = "fetch" /\ a \in Accounts /\ issued \in Nat
      /\ MaxTokens \in Nat
  BY HasAccount, BoundsAssumption DEF Inv, FetchRenewed, Types, Token
<1>2. /\ UNCHANGED <<active, secret, open, todo, current, held, lost>>
      /\ spent' = spent \cup {held[t][a]} /\ issued' = issued + 1 /\ issued < MaxTokens
  BY DEF FetchRenewed, database, session
<1>3. /\ Types' /\ pc'[t] = "closing" /\ renewed'[t] = issued + 1 /\ Others(t)
      /\ \A u \in Tasks \ {t} : renewed'[u] = renewed[u]
  BY <1>1, <1>2, FetchTypes DEF FetchRenewed, Types, Others
<1>4. /\ held[t][a] \in 1..issued /\ renewed[t] = 0
      /\ \A b \in Accounts \ {a} : secret[b] # held[t][a]
      /\ \A u \in Tasks : renewed[u] # held[t][a]
  BY <1>1, UsesItsOwn
<1>5. spent \subseteq 1..issued
  BY DEF Inv, Apart
<1>6. spent' \subseteq 1..issued' /\ issued + 1 \notin spent'
  <2>1. \A k \in spent' : k \in 1..issued
    BY <1>2, <1>4, <1>5
  <2>2. \A k \in 1..issued : k \in 1..(issued + 1) /\ k # issued + 1
    BY <1>1
  <2>3. QED BY <1>2, <2>1, <2>2
<1>7. ShapeOf(t)'
  BY <1>1, <1>2, <1>3, <1>6 DEF ShapeOf
<1>8. \A u \in Tasks : ShapeOf(u)'
  <2>1. \A u \in Tasks \ {t} : renewed[u] # 0 => renewed[u] \notin spent'
    BY <1>2, <1>4 DEF Inv, ShapeOf
  <2>2. QED BY <1>2, <1>3, <1>7, <2>1, ShapesHold
<1>9. Exclusive'
  <2>1. Running(t) /\ Running(t)'
    BY <1>1, <1>3 DEF Running
  <2>2. QED BY <1>2, <1>3, <2>1, ExclusiveHolds
<1>10. Apart'
  <2>1. ASSUME NEW b \in Accounts, NEW k \in 1..MaxTokens, Has(b, k)'
        PROVE  Has(b, k) \/ (b = a /\ k = issued + 1 /\ issued' = k)
    BY <1>2, <1>3, <2>1 DEF Has
  <2>2. QED BY <1>1, <1>2, <1>3, <1>6, <2>1, ApartHolds
<1>11. StoredCredentialWorks'
  <2>1. SUFFICES ASSUME NEW b \in Accounts, secret[b] \in spent'
                 PROVE  b \in lost \/ \E u \in Tasks : current[u] = b /\ renewed'[u] # 0
    BY <1>2 DEF StoredCredentialWorks
  <2>2. CASE b = a
    BY <1>1, <1>3, <2>2
  <2>3. CASE b # a
    <3>1. secret[b] \in spent
      BY <1>2, <1>4, <2>1, <2>3
    <3>2. CASE b \in lost
      BY <3>2
    <3>3. ASSUME NEW u \in Tasks, current[u] = b, renewed[u] # 0
          PROVE  \E v \in Tasks : current[v] = b /\ renewed'[v] # 0
      BY <1>3, <1>4, <3>3
    <3>4. QED BY <3>1, <3>2, <3>3 DEF Inv, StoredCredentialWorks
  <2>4. QED BY <2>2, <2>3
<1>12. \A b \in active' : secret'[b] # 0
  BY <1>2 DEF Inv
<1>13. QED BY <1>3, <1>8, <1>9, <1>10, <1>11, <1>12 DEF Inv

LEMMA FetchLostKeeps == \A t \in Tasks : Inv /\ FetchLost(t) => Inv'
<1>. SUFFICES ASSUME Inv, NEW t \in Tasks, FetchLost(t) PROVE Inv'
  OBVIOUS
<1> DEFINE a == current[t]
<1>1. Types /\ ShapeOf(t) /\ pc[t] = "fetch" /\ a \in Accounts
  BY HasAccount DEF Inv, FetchLost
<1>2. /\ UNCHANGED <<active, secret, open, issued, todo, current, held, renewed>>
      /\ spent' = spent \cup {held[t][a]} /\ lost' = lost \cup LostWith({a}, spent')
  BY DEF FetchLost, database, session
<1>3. Types' /\ pc'[t] = "closing" /\ Others(t)
  BY <1>1, <1>2, FetchTypes DEF FetchLost, Types, Others
<1>4. /\ held[t][a] \in 1..issued /\ renewed[t] = 0
      /\ \A b \in Accounts \ {a} : secret[b] # held[t][a]
      /\ \A u \in Tasks : renewed[u] # held[t][a]
  BY <1>1, UsesItsOwn
<1>5. spent' \subseteq 1..issued'
  BY <1>2, <1>4 DEF Inv, Apart
<1>6. \A u \in Tasks : ShapeOf(u)'
  <2>1. \A u \in Tasks \ {t} : renewed[u] # 0 => renewed[u] \notin spent'
    BY <1>2, <1>4 DEF Inv, ShapeOf
  <2>2. ShapeOf(t)'
    BY <1>1, <1>2, <1>3, <1>4 DEF ShapeOf
  <2>3. QED BY <1>2, <1>3, <2>1, <2>2, ShapesHold
<1>7. Exclusive'
  <2>1. Running(t) /\ Running(t)'
    BY <1>1, <1>3 DEF Running
  <2>2. QED BY <1>2, <1>3, <2>1, ExclusiveHolds
<1>8. Apart'
  <2>1. \A b \in Accounts, k \in 1..MaxTokens : Has(b, k)' => Has(b, k)
    BY <1>2 DEF Has
  <2>2. QED BY <1>1, <1>2, <1>3, <1>5, <2>1, ApartHolds
<1>9. StoredCredentialWorks'
  <2>1. SUFFICES ASSUME NEW b \in Accounts, secret[b] \in spent', b \notin lost'
                 PROVE  \E u \in Tasks : current[u] = b /\ renewed[u] # 0
    BY <1>2 DEF StoredCredentialWorks
  <2>2. b # a
    BY <1>2, <2>1 DEF LostWith
  <2>3. secret[b] \in spent /\ b \notin lost
    BY <1>2, <1>4, <2>1, <2>2
  <2>4. QED BY <2>3 DEF Inv, StoredCredentialWorks
<1>10. \A b \in active' : secret'[b] # 0
  BY <1>2 DEF Inv
<1>11. QED BY <1>3, <1>6, <1>7, <1>8, <1>9, <1>10 DEF Inv

(* A run that is closed: what the platform replaced is what is stored.     *)
LEMMA ClosesKeeps ==
  ASSUME Inv, Types', NEW t \in Tasks, NEW end \in Health, pc[t] = "closing", Closes(t, end),
         UNCHANGED <<active, issued, spent>>, Others(t), ShapeOf(t)', ~Running(t)',
         renewed'[t] = 0, current'[t] = 0,
         \A a \in Accounts : held'[t][a] \in {held[t][a], 0}
  PROVE  Inv'
<1> DEFINE a == current[t]
<1>1. Types /\ ShapeOf(t) /\ a \in Accounts /\ 0 \notin Accounts
  BY HasAccount, AccountsAssumption DEF Inv
<1>2. /\ \A b \in Accounts : secret'[b] = IF b = a /\ renewed[t] # 0 THEN renewed[t] ELSE secret[b]
      /\ open' = [open EXCEPT ![a] = None]
      /\ lost' = IF renewed[t] = 0 THEN lost ELSE lost \ {a}
  BY <1>1 DEF Closes, Types
<1>3. \A b \in Accounts : secret[b] # 0 => secret'[b] # 0
  BY <1>2
<1>4. \A u \in Tasks : ShapeOf(u)'
  <2>1. \A u \in Tasks \ {t} : renewed[u] # 0 => renewed[u] \notin spent'
    BY DEF Inv, ShapeOf
  <2>2. QED BY <1>3, <2>1, ShapesHold
<1>5. Exclusive'
  <2>1. Running(t)
    BY DEF Running
  <2>2. QED BY <1>1, <1>2, <2>1, ExclusiveHolds
<1>6. Apart'
  <2>1. ASSUME NEW b \in Accounts, NEW k \in 1..MaxTokens, Has(b, k)' PROVE Has(b, k)
    <3>1. k # 0
      BY BoundsAssumption
    <3>2. CASE secret'[b] = k
      BY <1>2, <3>2 DEF Has
    <3>3. ASSUME NEW u \in Tasks, held'[u][b] = k PROVE Has(b, k)
      BY <3>1, <3>3 DEF Has, Others
    <3>4. ASSUME NEW u \in Tasks, current'[u] = b, renewed'[u] = k PROVE Has(b, k)
      BY <3>1, <3>4 DEF Has, Others
    <3>5. QED BY <2>1, <3>2, <3>3, <3>4 DEF Has
  <2>2. spent' \subseteq 1..issued'
    BY DEF Inv, Apart
  <2>3. \A b \in Accounts, k \in 1..MaxTokens : Has(b, k)' => Has(b, k)
    BY <2>1
  <2>4. QED BY <1>1, <2>2, <2>3, ApartHolds
<1>7. StoredCredentialWorks'
  <2>1. SUFFICES ASSUME NEW b \in Accounts, secret'[b] \in spent
                 PROVE  b \in lost' \/ \E u \in Tasks : current'[u] = b /\ renewed'[u] # 0
    BY DEF StoredCredentialWorks
  <2>2. ~(b = a /\ renewed[t] # 0)
    BY <1>1, <1>2, <2>1 DEF ShapeOf
  <2>3. secret[b] \in spent
    BY <1>2, <2>1, <2>2
  <2>4. CASE b \in lost
    BY <1>2, <2>2, <2>4
  <2>5. ASSUME NEW u \in Tasks, current[u] = b, renewed[u] # 0
        PROVE  \E v \in Tasks : current'[v] = b /\ renewed'[v] # 0
    <3>1. u # t
      BY <2>2, <2>5
    <3>2. QED BY <2>5, <3>1 DEF Others
  <2>6. QED BY <2>3, <2>4, <2>5 DEF Inv, StoredCredentialWorks
<1>8. \A b \in active' : secret'[b] # 0
  BY <1>1, <1>3 DEF Inv, Types
<1>9. QED BY <1>4, <1>5, <1>6, <1>7, <1>8 DEF Inv

LEMMA CloseKeeps == \A t \in Tasks : Inv /\ (CloseLanded(t) \/ CloseFailed(t)) => Inv'
<1>. SUFFICES ASSUME Inv, NEW t \in Tasks, CloseLanded(t) \/ CloseFailed(t) PROVE Inv'
  OBVIOUS
<1>1. /\ pc[t] = "closing" /\ UNCHANGED <<active, issued, spent>>
      /\ GoesOn(t) \/ Return(t)
  BY DEF CloseLanded, CloseFailed, platform
<1>2. Types /\ ShapeOf(t) /\ current[t] \in Accounts
  BY <1>1, HasAccount DEF Inv
<1>3. PICK end \in Health : Closes(t, end)
  BY <1>2 DEF CloseLanded, CloseFailed, Health, Types
<1>4. Types'
  BY <1>2, CloseTypes
<1>5. \A a \in Accounts : secret[a] # 0 => secret'[a] # 0
  BY <1>2, <1>3 DEF Closes, Types
<1>6. /\ ShapeOf(t)' /\ Others(t) /\ ~Running(t)' /\ renewed'[t] = 0 /\ current'[t] = 0
      /\ \A a \in Accounts : held'[t][a] \in {held[t][a], 0}
  <2>1. CASE GoesOn(t)
    BY <1>1, <1>5, <2>1, GoesOnShape
  <2>2. CASE Return(t)
    BY <2>2, ReturnShape
  <2>3. QED BY <1>1, <2>1, <2>2
<1>7. QED BY <1>1, <1>3, <1>4, <1>6, ClosesKeeps

LEMMA CloseLostKeeps == \A t \in Tasks : Inv /\ CloseLost(t) => Inv'
<1>. SUFFICES ASSUME Inv, NEW t \in Tasks, CloseLost(t) PROVE Inv'
  OBVIOUS
<1> DEFINE a == current[t]
<1>1. Types /\ ShapeOf(t) /\ pc[t] = "closing" /\ a \in Accounts
  BY HasAccount DEF Inv, CloseLost
<1>2. /\ UNCHANGED <<active, secret, issued, spent>> /\ Return(t)
      /\ open' = [open EXCEPT ![a] = Orphan]
      /\ lost' = lost \cup LostWith({b \in {a} : renewed[t] # 0}, spent)
  BY DEF CloseLost, platform
<1>3. Types'
  BY <1>1, CloseLostTypes
<1>4. /\ ShapeOf(t)' /\ Others(t) /\ ~Running(t)' /\ renewed'[t] = 0 /\ current'[t] = 0
      /\ \A b \in Accounts : held'[t][b] = 0
  BY <1>2, ReturnShape
<1>5. \A u \in Tasks : ShapeOf(u)'
  <2>1. \A u \in Tasks \ {t} : renewed[u] # 0 => renewed[u] \notin spent'
    BY <1>2 DEF Inv, ShapeOf
  <2>2. QED BY <1>2, <1>4, <2>1, ShapesHold
<1>6. Exclusive'
  <2>1. Running(t)
    BY <1>1 DEF Running
  <2>2. QED BY <1>1, <1>2, <1>3, <1>4, <2>1, ExclusiveHolds
<1>7. Apart'
  <2>1. ASSUME NEW b \in Accounts, NEW k \in 1..MaxTokens, Has(b, k)' PROVE Has(b, k)
    <3>1. k # 0
      BY BoundsAssumption
    <3>2. CASE secret'[b] = k
      BY <1>2, <3>2 DEF Has
    <3>3. ASSUME NEW u \in Tasks, held'[u][b] = k PROVE Has(b, k)
      BY <1>4, <3>1, <3>3 DEF Has, Others
    <3>4. ASSUME NEW u \in Tasks, current'[u] = b, renewed'[u] = k PROVE Has(b, k)
      BY <1>4, <3>1, <3>4 DEF Has, Others
    <3>5. QED BY <2>1, <3>2, <3>3, <3>4 DEF Has
  <2>2. spent' \subseteq 1..issued'
    BY <1>2 DEF Inv, Apart
  <2>3. \A b \in Accounts, k \in 1..MaxTokens : Has(b, k)' => Has(b, k)
    BY <2>1
  <2>4. QED BY <1>1, <1>2, <1>3, <2>2, <2>3, ApartHolds
<1>8. StoredCredentialWorks'
  <2>1. SUFFICES ASSUME NEW b \in Accounts, secret[b] \in spent, b \notin lost'
                 PROVE  \E u \in Tasks : current'[u] = b /\ renewed'[u] # 0
    BY <1>2 DEF StoredCredentialWorks
  <2>2. PICK u \in Tasks : current[u] = b /\ renewed[u] # 0
    BY <1>2, <2>1 DEF Inv, StoredCredentialWorks
  <2>3. u # t
    BY <1>2, <2>1, <2>2 DEF LostWith
  <2>4. QED BY <1>4, <2>2, <2>3 DEF Others
<1>9. \A b \in active' : secret'[b] # 0
  BY <1>2 DEF Inv
<1>10. QED BY <1>3, <1>5, <1>6, <1>7, <1>8, <1>9 DEF Inv

-----------------------------------------------------------------------------
(* What the owner does, and what ends every task.                          *)
LEMMA SwitchKeeps == \A a \in Accounts : Inv /\ Switch(a) => Inv'
<1>. SUFFICES ASSUME Inv, NEW a \in Accounts, Switch(a) PROVE Inv'
  OBVIOUS
<1>1. /\ UNCHANGED <<secret, open, issued, spent, pc, todo, current, held, renewed, lost>>
      /\ secret[a] # 0 /\ active' \subseteq active \cup {a}
  BY DEF Switch, platform, session
<1>2. Types'
  BY OwnerTypes DEF Inv
<1>3. \A t \in Tasks : ShapeOf(t)'
  BY <1>1 DEF Inv, ShapeOf
<1>4. Exclusive' /\ StoredCredentialWorks'
  BY <1>1 DEF Inv, Exclusive, Running, StoredCredentialWorks
<1>5. Apart'
  BY <1>1 DEF Inv, Apart, Has
<1>6. \A b \in active' : secret'[b] # 0
  BY <1>1 DEF Inv
<1>7. QED BY <1>2, <1>3, <1>4, <1>5, <1>6 DEF Inv

LEMMA ConnectKeeps == \A a \in Accounts : Inv /\ Connect(a) => Inv'
<1>. SUFFICES ASSUME Inv, NEW a \in Accounts, Connect(a) PROVE Inv'
  OBVIOUS
<1>1. /\ UNCHANGED <<open, spent, pc, todo, current, held, renewed>>
      /\ active' = active \cup {a} /\ lost' = lost \ {a} /\ issued' = issued + 1
      /\ issued \in Nat
      /\ \A b \in Accounts : secret'[b] = IF b = a THEN issued + 1 ELSE secret[b]
  BY BoundsAssumption DEF Connect, session, Inv, Types, Token
<1>2. Types'
  BY OwnerTypes DEF Inv
<1>3. \A b \in Accounts : secret[b] # 0 => secret'[b] # 0
  BY <1>1
<1>4. \A t \in Tasks : ShapeOf(t)'
  <2>1. SUFFICES ASSUME NEW t \in Tasks PROVE ShapeOf(t)'
    OBVIOUS
  <2>2. ShapeOf(t) /\ todo[t] \in SUBSET Accounts
    BY DEF Inv, Types
  <2>3. QED BY <1>1, <1>3, <2>2 DEF ShapeOf
<1>5. Exclusive'
  BY <1>1 DEF Inv, Exclusive, Running
<1>6. spent \subseteq 1..issued
  BY DEF Inv, Apart
<1>7. Apart'
  <2>1. \A b \in Accounts, k \in 1..MaxTokens :
          Has(b, k)' => Has(b, k) \/ (b = a /\ k = issued + 1 /\ issued' = k)
    BY <1>1 DEF Has
  <2>2. spent' \subseteq 1..issued'
    BY <1>1, <1>6
  <2>3. issued' \in Nat /\ issued <= issued'
    BY <1>1
  <2>4. \A b \in Accounts, k \in 1..MaxTokens : Has(b, k)' => k <= issued'
    BY <1>1, <2>1, BoundsAssumption DEF Inv, Apart
  <2>5. \A b, c \in Accounts, k \in 1..MaxTokens : Has(b, k)' /\ Has(c, k)' => b = c
    BY <1>1, <2>1, BoundsAssumption DEF Inv, Apart
  <2>6. QED BY <2>2, <2>4, <2>5 DEF Apart
<1>8. StoredCredentialWorks'
  <2>1. issued + 1 \notin spent
    BY <1>1, <1>6
  <2>2. QED BY <1>1, <2>1 DEF Inv, StoredCredentialWorks
<1>9. \A b \in active' : secret'[b] # 0
  BY <1>1 DEF Inv, Types
<1>10. QED BY <1>2, <1>4, <1>5, <1>7, <1>8, <1>9 DEF Inv

LEMMA KillKeeps == Inv /\ Kill => Inv'
<1>. SUFFICES ASSUME Inv, Kill PROVE Inv'
  OBVIOUS
<1>1. /\ UNCHANGED <<active, secret, issued, spent>>
      /\ \A t \in Tasks : /\ pc'[t] = "idle" /\ todo'[t] = {} /\ current'[t] = 0
                          /\ held'[t] = NoTokens /\ renewed'[t] = 0
      /\ \A a \in Accounts : open'[a] = IF open[a] \in Tasks THEN Orphan ELSE open[a]
  BY DEF Kill, platform
<1>2. Types'
  <2>1. \A t \in Tasks : renewed[t] # 0 => current[t] # 0
    BY DEF Inv, ShapeOf
  <2>2. QED BY <2>1, KillTypes DEF Inv
<1>3. \A t \in Tasks : ShapeOf(t)'
  BY <1>1 DEF ShapeOf
<1>4. Exclusive'
  BY <1>1, HoldersAssumption DEF Exclusive, Running
<1>5. Apart'
  <2>1. ASSUME NEW a \in Accounts, NEW k \in 1..MaxTokens, Has(a, k)' PROVE Has(a, k)
    BY <1>1, <2>1, BoundsAssumption DEF Has, NoTokens
  <2>2. QED BY <1>1, <2>1 DEF Inv, Apart
<1>6. StoredCredentialWorks'
  <2>1. SUFFICES ASSUME NEW a \in Accounts, secret[a] \in spent PROVE a \in lost'
    BY <1>1 DEF StoredCredentialWorks
  <2>2. CASE a \in lost
    BY <2>2 DEF Kill
  <2>3. ASSUME NEW t \in Tasks, current[t] = a, renewed[t] # 0 PROVE a \in lost'
    BY <2>1, <2>3 DEF Kill, LostWith
  <2>4. QED BY <2>1, <2>2, <2>3 DEF Inv, StoredCredentialWorks
<1>7. \A a \in active' : secret'[a] # 0
  BY <1>1 DEF Inv
<1>8. QED BY <1>2, <1>3, <1>4, <1>5, <1>6, <1>7 DEF Inv

LEMMA StartsInv == Init => Inv
<1>. SUFFICES ASSUME Init PROVE Inv
  OBVIOUS
<1>1. 0 \in Token /\ NoTokens \in [Accounts -> Token] /\ "pending" \in Health
  BY BoundsAssumption DEF Token, NoTokens, Health
<1>2. Types
  <2>1. held \in [Tasks -> [Accounts -> Token \cup {Expired}]]
    BY <1>1 DEF Init
  <2>2. QED BY <1>1, <2>1 DEF Init, Types
<1>3. \A t \in Tasks : ShapeOf(t)
  BY DEF Init, ShapeOf
<1>4. Exclusive
  BY HoldersAssumption DEF Init, Exclusive, Running
<1>5. Apart
  BY BoundsAssumption DEF Init, Apart, Has, NoTokens
<1>6. StoredCredentialWorks /\ \A a \in active : secret[a] # 0
  BY DEF Init, StoredCredentialWorks
<1>7. QED BY <1>2, <1>3, <1>4, <1>5, <1>6 DEF Inv

LEMMA StepsKeepInv == Inv /\ [Next]_vars => Inv'
<1>. SUFFICES ASSUME Inv, [Next]_vars PROVE Inv'
  OBVIOUS
<1>1. CASE \E r \in Requests : RequestStep(r)
  BY <1>1, RequestStartsKeeps, RequestNextKeeps, ReturningKeeps DEF RequestStep
<1>2. CASE \E j \in Jobs : JobStep(j)
  BY <1>2, JobListsKeeps, JobNextKeeps, JobSkipsKeeps, ReturningKeeps DEF JobStep
<1>3. CASE \E t \in Tasks : RunStep(t)
  BY <1>3, RetryKeeps, FetchRefusedKeeps, FetchRenewedKeeps, FetchLostKeeps, CloseKeeps,
     CloseLostKeeps, ReturningKeeps DEF RunStep
<1>4. CASE \E a \in Accounts : Switch(a) \/ Connect(a)
  BY <1>4, SwitchKeeps, ConnectKeeps
<1>5. CASE Kill
  BY <1>5, KillKeeps
<1>6. CASE UNCHANGED vars
  BY <1>6 DEF vars, Inv, Types, ShapeOf, Exclusive, Running, Apart, Has, StoredCredentialWorks
<1>7. QED BY <1>1, <1>2, <1>3, <1>4, <1>5, <1>6 DEF Next

(* What sync.py does to keep a credential that the platform replaced is    *)
(* enough: it is stored, or its run has still to be closed, or it was lost *)
(* with the task that had it.                                              *)
THEOREM CredentialsKeepWorking == Spec => []StoredCredentialWorks
<1>1. Inv => StoredCredentialWorks
  BY DEF Inv
<1>2. QED BY <1>1, StartsInv, StepsKeepInv, PTL DEF Spec

-----------------------------------------------------------------------------
(* Whoever writes the platform's health writes what the runs add up to.    *)
LEMMA HealthIsSummary ==
  [Next]_vars /\ health' # health => health' = Summary(latest', active')
<1>. SUFFICES ASSUME Next, health' # health PROVE health' = Summary(latest', active')
  BY DEF vars
<1>1. CASE \E t \in Tasks : CloseLanded(t) \/ CloseFailed(t)
  BY <1>1 DEF CloseLanded, CloseFailed
<1>2. CASE \E a \in Accounts : Switch(a)
  BY <1>2 DEF Switch
<1>3. QED
  BY <1>1, <1>2 DEF Next, RequestStep, JobStep, RunStep, RequestStarts, RequestNext,
     RequestRaises, RequestRefused, JobLists, JobNext, JobSkips, OpenCancelled, Retry,
     FetchRefused, FetchRenewed, FetchLost, CloseLost, Answer, Connect, Kill, database

LEMMA FailedIsWorst ==
  ASSUME NEW f, NEW S, NEW a \in S, f[a] = "failed" PROVE Summary(f, S) = "failed"
  BY DEF Summary

(* The platform stops being failed only when no account that is switched   *)
(* on is failing: see FailureStays.                                        *)
THEOREM HealthKeepsFailures == Spec => FailureStays
<1>1. [Next]_vars =>
        [(health = "failed" /\ health' # "failed") =>
           \A a \in active' : latest'[a] # "failed"]_vars
  BY HealthIsSummary, FailedIsWorst
<1>2. QED BY <1>1, PTL DEF Spec, FailureStays

(* A step that lets go of a run without orphaning it closes it.            *)
LEMMA LettingGoCloses ==
  ASSUME Inv, [Next]_vars, NEW a \in Accounts, open[a] \in Tasks, open'[a] = None
  PROVE  \E t \in Tasks : a = current[t] /\ (CloseLanded(t) \/ CloseFailed(t))
<1>1. Types /\ None \notin Tasks /\ None # Orphan
  BY HoldersAssumption DEF Inv
<1>2. open' # open
  BY <1>1
<1>3. ASSUME NEW t \in Tasks, NEW b \in Accounts, Claim(t, b) \/ Collide(t, b) PROVE FALSE
  BY <1>1, <1>3 DEF Claim, Collide, Types
<1>4. ASSUME NEW r \in Requests, RequestStep(r) PROVE FALSE
  <2>1. r \in Tasks
    BY DEF Tasks
  <2>2. CASE RequestStarts(r)
    <3>1. active # {} /\ active \in SUBSET Accounts
      BY <1>1, <2>2 DEF RequestStarts, Listed, Types
    <3>2. QED BY <1>3, <2>1, <2>2, <3>1, MinIsOne DEF RequestStarts
  <2>3. CASE RequestNext(r)
    <3>1. todo[r] # {} /\ todo[r] \in SUBSET Accounts
      BY <1>1, <2>1, <2>3 DEF RequestNext, Types
    <3>2. QED BY <1>3, <2>1, <2>3, <3>1, MinIsOne DEF RequestNext
  <2>4. CASE RequestRaises(r) \/ RequestRefused(r)
    BY <1>2, <2>4 DEF RequestRaises, RequestRefused, database
  <2>5. QED BY <1>4, <2>2, <2>3, <2>4 DEF RequestStep
<1>5. ASSUME NEW j \in Jobs, JobStep(j) PROVE FALSE
  <2>1. j \in Tasks
    BY DEF Tasks
  <2>2. CASE JobNext(j)
    <3>1. todo[j] # {} /\ todo[j] \in SUBSET Accounts
      BY <1>1, <2>1, <2>2 DEF JobNext, Types
    <3>2. QED BY <1>3, <2>1, <2>2, <3>1, MinIsOne DEF JobNext
  <2>3. CASE OpenCancelled(j)
    BY <1>1, <2>3 DEF OpenCancelled, Types
  <2>4. CASE JobLists(j) \/ JobSkips(j)
    BY <1>2, <2>4 DEF JobLists, JobSkips, database
  <2>5. QED BY <1>5, <2>2, <2>3, <2>4 DEF JobStep
<1>6. ASSUME NEW t \in Tasks, RunStep(t)
      PROVE  a = current[t] /\ (CloseLanded(t) \/ CloseFailed(t))
  <2>1. CASE CloseLanded(t) \/ CloseFailed(t)
    BY <1>1, <2>1 DEF CloseLanded, CloseFailed, Closes, Types
  <2>2. CASE Retry(t) \/ CloseLost(t)
    BY <1>1, <2>2 DEF Retry, CloseLost, Types
  <2>3. CASE FetchRefused(t) \/ FetchRenewed(t) \/ FetchLost(t) \/ Answer(t)
    BY <1>2, <2>3 DEF FetchRefused, FetchRenewed, FetchLost, Answer, database
  <2>4. QED BY <1>6, <2>1, <2>2, <2>3 DEF RunStep
<1>7. ASSUME NEW b \in Accounts, Switch(b) \/ Connect(b) PROVE FALSE
  BY <1>2, <1>7 DEF Switch, Connect
<1>8. ~Kill
  BY <1>1 DEF Kill, Types
<1>9. QED BY <1>2, <1>4, <1>5, <1>6, <1>7, <1>8 DEF Next, vars

(* A run that failed leaves the platform failed: see FailureShows.         *)
THEOREM FailuresShow == Spec => FailureShows
<1>1. Inv /\ [Next]_vars =>
        [\A a \in Accounts :
           (open[a] \in Tasks /\ open'[a] = None /\ latest'[a] = "failed" /\ a \in active)
             => health' = "failed"]_vars
  <2>1. SUFFICES ASSUME Inv, [Next]_vars, NEW a \in Accounts, open[a] \in Tasks,
                        open'[a] = None, latest'[a] = "failed", a \in active
                 PROVE  health' = "failed"
    OBVIOUS
  <2>2. PICK t \in Tasks : a = current[t] /\ (CloseLanded(t) \/ CloseFailed(t))
    BY <2>1, LettingGoCloses
  <2>3. CASE CloseLanded(t)
    <3>1. latest'[a] = outcome[t] /\ outcome[t] # "failed"
      BY <2>1, <2>2, <2>3 DEF CloseLanded, Closes, Inv, Types
    <3>2. QED BY <2>1, <3>1
  <2>4. CASE CloseFailed(t)
    BY <2>1, <2>4, FailedIsWorst DEF CloseFailed
  <2>5. QED BY <2>2, <2>3, <2>4
<1>2. QED BY <1>1, StartsInv, StepsKeepInv, PTL DEF Spec, FailureShows
=============================================================================
