------------------------------ MODULE NodeProofs ------------------------------
(***************************************************************************)
(* What the parts of a station promise, for any processes, versions, pools,*)
(* agents, files and bounds: each part's properties follow from an         *)
(* inductive invariant of its own, and the other parts rest meanwhile.     *)
(* The last section is about the election the station takes part in.       *)
(***************************************************************************)
EXTENDS Node, SecretaryElection, SequenceTheorems, FiniteSetTheorems, WellFoundedInduction, TLAPS

-----------------------------------------------------------------------------
(* Lemmas about numbers.                                                   *)

\* Of numbers there is a least one.
LEMMA Least ==
    ASSUME NEW T \in SUBSET Nat, T # {}
    PROVE  \E x \in T : \A y \in T : x <= y
<1> DEFINE R == OpToRel(<, Nat)
<1>1. IsWellFoundedOn(R, Nat)
  BY NatLessThanWellFounded, Zenon
<1>2. \A x, y \in Nat : <<x, y>> \in R <=> x < y
  BY Zenon DEF OpToRel
<1> HIDE DEF R
<1>3. PICK x \in T : \A y \in T : ~ (<<y, x>> \in R)
  BY <1>1, WFMin
<1>4. \A y \in T : x <= y
  <2> SUFFICES ASSUME NEW y \in T PROVE x <= y
    OBVIOUS
  <2>1. x \in Nat /\ y \in Nat /\ ~(y < x)
    BY <1>2, <1>3
  <2> QED
    BY <2>1
<1> QED
  BY <1>4

-----------------------------------------------------------------------------
(* Calls of a model.                                                       *)

CallTypes ==
    /\ used \in [Pools -> 0..MaxUsed]
    /\ status \in [Pools -> {"active", "paused", "exhausted"}]
    /\ day \in 0..LastDay
    /\ call \in [Calls -> [pc : {"idle", "calling", "answered", "failed"}, model : Models, rest : SUBSET Models]]
    /\ charged \in [Calls -> 0..1]
    /\ duty = "call" => mishaps \in Nat
    /\ duty # "call" => \A c \in Calls : call[c].pc = "idle"

\* What was charged once the call c is in state x, with n failures to record.
ChargedFor(x, charge, n) ==
    /\ x.pc # "answered" => charge = 0
    /\ x.pc = "answered" /\ Call!Candidates(x.model) # {} /\ n = 0 => charge = 1

Charges == \A c \in Calls : ChargedFor(call[c], charged[c], mishaps)

Climbs(s, top) ==
    /\ \A i \in DOMAIN s : s[i] <= top
    /\ \A i, j \in DOMAIN s : i < j => s[i] < s[j]

Warnings ==
    /\ alertState \in [Pools -> [Call!Kinds -> 0..3]]
    /\ pushed \in [Pools -> [Call!Kinds -> Seq(Nat)]]
    /\ \A p \in Pools, k \in Call!Kinds : Climbs(pushed[p][k], alertState[p][k])

CallInv == CallTypes /\ Charges /\ Warnings

LEMMA CallInit == Call!Init => CallInv
<1> SUFFICES ASSUME Call!Init PROVE CallInv
  OBVIOUS
<1>1. CallTypes
  BY NodeAssumption DEF NodeAssumption, Call!Init, CallTypes
<1>2. Charges
  BY DEF Call!Init, Charges, ChargedFor
<1>3. <<>> \in Seq(Nat) /\ DOMAIN <<>> = {} /\ 0 \in 0..3
  OBVIOUS
<1>4. Warnings
  <2>1. /\ alertState = [p \in Pools |-> [k \in Call!Kinds |-> 0]]
        /\ pushed = [p \in Pools |-> [k \in Call!Kinds |-> <<>>]]
    BY DEF Call!Init
  <2>2. Climbs(<<>>, 0)
    BY <1>3 DEF Climbs
  <2> QED
    BY <1>3, <2>1, <2>2 DEF Warnings
<1> QED
  BY <1>1, <1>2, <1>4 DEF CallInv

\* A warning above the level of all earlier ones goes on climbing.
LEMMA Climbing ==
    \A s \in Seq(Nat), a \in Nat, n \in Nat :
        Climbs(s, a) /\ n > a => Append(s, n) \in Seq(Nat) /\ Climbs(Append(s, n), n)
<1> SUFFICES ASSUME NEW s \in Seq(Nat), NEW a \in Nat, NEW n \in Nat, Climbs(s, a), n > a
             PROVE  Append(s, n) \in Seq(Nat) /\ Climbs(Append(s, n), n)
  OBVIOUS
<1> DEFINE r == Append(s, n)
<1>1. /\ r \in Seq(Nat) /\ Len(s) \in Nat /\ Len(r) = Len(s) + 1
      /\ DOMAIN s = 1..Len(s) /\ DOMAIN r = 1..Len(r)
      /\ r[Len(s) + 1] = n /\ \A i \in 1..Len(s) : r[i] = s[i] /\ s[i] \in Nat
  OBVIOUS
<1> HIDE DEF r
<1>2. \A i \in DOMAIN r : r[i] <= n
  <2> SUFFICES ASSUME NEW i \in DOMAIN r PROVE r[i] <= n
    OBVIOUS
  <2>1. CASE i \in 1..Len(s)
    BY <1>1, <2>1 DEF Climbs
  <2>2. CASE i = Len(s) + 1
    BY <1>1, <2>2
  <2> QED
    BY <1>1, <2>1, <2>2
<1>3. \A i, j \in DOMAIN r : i < j => r[i] < r[j]
  <2> SUFFICES ASSUME NEW i \in DOMAIN r, NEW j \in DOMAIN r, i < j PROVE r[i] < r[j]
    OBVIOUS
  <2>1. i \in 1..Len(s)
    BY <1>1
  <2>2. CASE j \in 1..Len(s)
    BY <1>1, <2>1, <2>2 DEF Climbs
  <2>3. CASE j = Len(s) + 1
    BY <1>1, <2>1, <2>3 DEF Climbs
  <2> QED
    BY <1>1, <2>2, <2>3
<1> QED
  BY <1>1, <1>2, <1>3 DEF Climbs, r

LEMMA LevelType == ASSUME CallTypes PROVE \A p \in Pools, k \in Call!Kinds : Call!Level(p, k) \in 0..3
<1> SUFFICES ASSUME NEW p \in Pools, NEW k \in Call!Kinds PROVE Call!Level(p, k) \in 0..3
  OBVIOUS
<1>1. used[p] \in Nat /\ Quota \in Nat /\ day \in Nat /\ Expires[p] \in Nat
  BY NodeAssumption DEF NodeAssumption, CallTypes
<1>2. Expires[p] + 1 - day \in Int /\ (~(day >= Expires[p]) => Expires[p] + 1 - day >= 2)
  BY <1>1
<1>3. \A n \in Int : n >= 2 /\ ~(n > 3) => 4 - n \in 0..3
  OBVIOUS
<1>4. 0 \in 0..3 /\ 2 \in 0..3 /\ 3 \in 0..3
  OBVIOUS
<1> DEFINE left == Expires[p] + 1 - day
<1>5. left \in Int /\ (~(day >= Expires[p]) /\ ~(left > 3) => 4 - left \in 0..3)
  BY <1>2, <1>3
<1>6. Call!Level(p, k) \in {0, 2, 3} \/ (~(day >= Expires[p]) /\ ~(left > 3) /\ Call!Level(p, k) = 4 - left)
  BY DEF Call!Level
<1> QED
  BY <1>4, <1>5, <1>6

LEMMA CheckAlertsKeeps == ASSUME CallTypes, Warnings, Call!CheckAlerts PROVE Warnings'
<1> DEFINE news(p, k) == Call!IsNews(p, k)
           level(p, k) == Call!Level(p, k)
<1>1. /\ alertState' = [p \in Pools |-> [k \in Call!Kinds |-> IF news(p, k) THEN level(p, k) ELSE alertState[p][k]]]
      /\ pushed' = [p \in Pools |-> [k \in Call!Kinds |->
                       IF news(p, k) THEN Append(pushed[p][k], level(p, k)) ELSE pushed[p][k]]]
  BY DEF Call!CheckAlerts
<1>2. ASSUME NEW p \in Pools, NEW k \in Call!Kinds
      PROVE  /\ alertState'[p][k] \in 0..3 /\ pushed'[p][k] \in Seq(Nat)
             /\ Climbs(pushed'[p][k], alertState'[p][k])
  <2>1. /\ alertState'[p][k] = IF news(p, k) THEN level(p, k) ELSE alertState[p][k]
        /\ pushed'[p][k] = IF news(p, k) THEN Append(pushed[p][k], level(p, k)) ELSE pushed[p][k]
    BY <1>1
  <2>2. /\ alertState[p][k] \in 0..3 /\ pushed[p][k] \in Seq(Nat)
        /\ Climbs(pushed[p][k], alertState[p][k])
    BY DEF Warnings
  <2>3. level(p, k) \in 0..3
    BY LevelType
  <2>4. news(p, k) => level(p, k) > alertState[p][k]
    BY DEF Call!IsNews
  <2>5. CASE news(p, k)
    <3>1. Append(pushed[p][k], level(p, k)) \in Seq(Nat) /\ Climbs(Append(pushed[p][k], level(p, k)), level(p, k))
      BY <2>2, <2>3, <2>4, <2>5, Climbing
    <3> QED
      BY <2>1, <2>3, <2>5, <3>1
  <2>6. CASE ~news(p, k)
    BY <2>1, <2>2, <2>6
  <2> QED
    BY <2>5, <2>6
<1> HIDE DEF news, level
<1>3. alertState' \in [Pools -> [Call!Kinds -> 0..3]]
  BY <1>1, <1>2
<1>4. pushed' \in [Pools -> [Call!Kinds -> Seq(Nat)]]
  BY <1>1, <1>2
<1> QED
  BY <1>2, <1>3, <1>4 DEF Warnings

\* The call c goes into state x and is charged; the rest stays.
Charge(c, x, charge) ==
    /\ call' = [call EXCEPT ![c] = x] /\ charged' = [charged EXCEPT ![c] = charge]

LEMMA ChargeKeeps ==
    ASSUME CallInv, NEW c \in Calls, duty = "call", duty' = duty,
           NEW x \in [pc : {"idle", "calling", "answered", "failed"}, model : Models, rest : SUBSET Models],
           NEW n \in 0..1, Charge(c, x, n), ChargedFor(x, n, mishaps'),
           mishaps' \in Nat, mishaps' # mishaps => mishaps' # 0,
           used' \in [Pools -> 0..MaxUsed], UNCHANGED <<status, day, alertState, pushed>>
    PROVE  CallInv'
<1>1. /\ call' \in [Calls -> [pc : {"idle", "calling", "answered", "failed"}, model : Models, rest : SUBSET Models]]
      /\ charged' \in [Calls -> 0..1]
  BY DEF CallInv, CallTypes, Charge
<1>2. CallTypes'
  BY <1>1 DEF CallInv, CallTypes
<1>3. Charges'
  <2> SUFFICES ASSUME NEW d \in Calls PROVE ChargedFor(call'[d], charged'[d], mishaps')
    BY DEF Charges, ChargedFor, Call!Candidates
  <2>1. CASE d = c
    BY <2>1 DEF Charge, CallInv, CallTypes
  <2>2. CASE d # c
    <3>1. call'[d] = call[d] /\ charged'[d] = charged[d]
      BY <2>2 DEF Charge, CallInv, CallTypes
    <3>2. ChargedFor(call[d], charged[d], mishaps)
      BY DEF CallInv, Charges
    <3> QED
      BY <3>1, <3>2 DEF ChargedFor
  <2> QED
    BY <2>1, <2>2
<1>4. Warnings'
  BY DEF CallInv, Warnings, Climbs
<1> QED
  BY <1>2, <1>3, <1>4 DEF CallInv

States == [pc : {"idle", "calling", "answered", "failed"}, model : Models, rest : SUBSET Models]

\* A call that is not answered yet has not been charged.
LEMMA NotCharged ==
    ASSUME CallInv, NEW c \in Calls, call[c].pc # "answered"
    PROVE  charged[c] = 0 /\ [charged EXCEPT ![c] = 0] = charged /\ call[c] \in States
<1>1. ChargedFor(call[c], charged[c], mishaps)
  BY DEF CallInv, Charges
<1>2. charged[c] = 0
  BY <1>1 DEF ChargedFor
<1> QED
  BY <1>2 DEF CallInv, CallTypes, States

LEMMA CallStartKeeps ==
    ASSUME CallInv, duty = "call", duty' = duty, NEW c \in Calls,
           NEW m \in Models, NEW rest \in SUBSET Models, Call!Start(c, m, rest)
    PROVE  CallInv'
<1> DEFINE x == [pc |-> "calling", model |-> m, rest |-> rest \ {m}]
<1>1. /\ call[c].pc = "idle" /\ call' = [call EXCEPT ![c] = x]
      /\ UNCHANGED <<used, status, day, alertState, pushed, charged, mishaps>>
  BY DEF Call!Start, Call!pools, Call!alerts
<1>2. x \in States
  BY DEF States
<1>3. Charge(c, x, 0)
  BY <1>1, NotCharged DEF Charge
<1>4. ChargedFor(x, 0, mishaps')
  BY DEF ChargedFor
<1>5. mishaps' \in Nat /\ used' \in [Pools -> 0..MaxUsed]
  BY <1>1 DEF CallInv, CallTypes
<1> QED
  BY <1>1, <1>2, <1>3, <1>4, <1>5, ChargeKeeps DEF States

\* What the next of the chain makes of a call is a call that is not answered.
LEMMA FallbackState ==
    ASSUME CallInv, NEW c \in Calls, Call!Fallback(c), call[c].pc = "calling"
    PROVE  \E x \in States : call' = [call EXCEPT ![c] = x] /\ x.pc # "answered"
<1>1. call[c] \in States /\ call \in [Calls -> States]
  BY DEF CallInv, CallTypes, States
<1>2. CASE call[c].rest = {}
  <2> DEFINE x == [call[c] EXCEPT !.pc = "failed"]
  <2>1. x \in States /\ x.pc = "failed"
    BY <1>1 DEF States
  <2>2. call' = [call EXCEPT ![c] = x]
    BY <1>2 DEF Call!Fallback
  <2> QED
    BY <2>1, <2>2
<1>3. CASE call[c].rest # {}
  <2>1. PICK m \in call[c].rest : call' = [call EXCEPT ![c].model = m, ![c].rest = @ \ {m}]
    BY <1>3 DEF Call!Fallback
  <2> DEFINE x == [call[c] EXCEPT !.model = m, !.rest = @ \ {m}]
  <2>2. m \in Models
    BY <1>1 DEF States
  <2>3. x \in States /\ x.pc = call[c].pc
    BY <1>1, <2>2 DEF States
  <2>4. call' = [call EXCEPT ![c] = x]
    BY <2>1, <1>1
  <2> QED
    BY <2>3, <2>4
<1> QED
  BY <1>2, <1>3

LEMMA UnansweredKeeps ==
    ASSUME CallInv, duty = "call", duty' = duty, NEW c \in Calls, Call!Fallback(c),
           call[c].pc = "calling",
           UNCHANGED <<used, status, day, alertState, pushed, charged, mishaps>>
    PROVE  CallInv'
<1>1. PICK x \in States : call' = [call EXCEPT ![c] = x] /\ x.pc # "answered"
  BY FallbackState
<1>2. Charge(c, x, 0)
  BY <1>1, NotCharged DEF Charge
<1>3. ChargedFor(x, 0, mishaps')
  BY <1>1 DEF ChargedFor
<1>4. mishaps' \in Nat /\ used' \in [Pools -> 0..MaxUsed]
  BY DEF CallInv, CallTypes
<1> QED
  BY <1>2, <1>3, <1>4, ChargeKeeps DEF States

LEMMA StreamEndsKeeps ==
    ASSUME CallInv, duty = "call", duty' = duty, NEW c \in Calls, NEW content \in BOOLEAN,
           Call!StreamEnds(c, content)
    PROVE  CallInv'
<1>1. call[c].pc = "calling" /\ UNCHANGED <<status, day, alertState, pushed>>
  BY DEF Call!StreamEnds, Call!alerts
<1>2. CASE ~content
  <2>1. Call!Fallback(c) /\ UNCHANGED <<used, charged, mishaps>>
    BY <1>2 DEF Call!StreamEnds, Call!Recorded
  <2> QED
    BY <1>1, <2>1, UnansweredKeeps
<1>3. CASE content
  <2> DEFINE x == [call[c] EXCEPT !.pc = "answered"]
  <2>1. call' = [call EXCEPT ![c] = x] /\ x.model = call[c].model
    BY <1>3, NotCharged, <1>1 DEF Call!StreamEnds, States
  <2>2. x \in States /\ charged[c] = 0
    BY <1>1, NotCharged DEF States
  <2>3. CASE /\ charged' = [charged EXCEPT ![c] = @ + 1]
             /\ \E p \in Call!PoolsFor(call[c].model) : used[p] < MaxUsed /\ used' = [used EXCEPT ![p] = @ + 1]
             /\ UNCHANGED mishaps
    <3>1. charged' = [charged EXCEPT ![c] = 1]
      BY <2>2, <2>3 DEF CallInv, CallTypes
    <3>2. PICK p \in Pools : used[p] < MaxUsed /\ used' = [used EXCEPT ![p] = @ + 1]
      BY <2>3 DEF Call!PoolsFor, Call!Candidates
    <3>3. used \in [Pools -> 0..MaxUsed] /\ MaxUsed \in Nat
      BY NodeAssumption DEF NodeAssumption, CallInv, CallTypes
    <3>4. used' \in [Pools -> 0..MaxUsed]
      BY <3>2, <3>3
    <3>5. Charge(c, x, 1) /\ ChargedFor(x, 1, mishaps')
      BY <2>1, <2>2, <3>1 DEF Charge, ChargedFor, States
    <3>6. mishaps' \in Nat /\ mishaps' = mishaps
      BY <2>3 DEF CallInv, CallTypes
    <3> QED
      BY <1>1, <2>2, <3>4, <3>5, <3>6, ChargeKeeps DEF States
  <2>4. CASE Call!Fault /\ UNCHANGED <<used, charged>>
    <3>1. mishaps' \in Nat /\ mishaps' # 0
      BY <2>4 DEF Call!Fault, CallInv, CallTypes
    <3>2. Charge(c, x, 0) /\ ChargedFor(x, 0, mishaps')
      BY <1>1, <2>1, <2>4, <3>1, NotCharged DEF Charge, ChargedFor, States
    <3>3. used' \in [Pools -> 0..MaxUsed]
      BY <2>4 DEF CallInv, CallTypes
    <3> QED
      BY <1>1, <2>2, <3>1, <3>2, <3>3, ChargeKeeps DEF States
  <2>5. CASE Call!Candidates(call[c].model) = {} /\ UNCHANGED <<used, charged, mishaps>>
    <3>1. mishaps' \in Nat /\ used' \in [Pools -> 0..MaxUsed]
      BY <2>5 DEF CallInv, CallTypes
    <3>2. Charge(c, x, 0) /\ ChargedFor(x, 0, mishaps')
      BY <1>1, <2>1, <2>5, NotCharged DEF Charge, ChargedFor, States
    <3> QED
      BY <1>1, <2>2, <2>5, <3>1, <3>2, ChargeKeeps DEF States
  <2> QED
    BY <1>3, <2>3, <2>4, <2>5 DEF Call!StreamEnds, Call!Recorded
<1> QED
  BY <1>2, <1>3

\* What happens to the pools leaves the calls alone.
LEMMA CallsRest ==
    ASSUME CallInv, UNCHANGED <<call, charged, mishaps, duty>>
    PROVE  Charges'
BY DEF CallInv, Charges, ChargedFor, Call!Candidates

LEMMA PoolsKeep ==
    ASSUME CallInv,
           \/ Call!NextDay
           \/ Call!CheckAlerts
           \/ \E p \in Pools : Call!ProbeBalance(p)
           \/ \E p \in Pools, st \in {"active", "paused"} : Call!Reload(p, st),
           duty' = duty
    PROVE  CallInv'
<1>1. UNCHANGED <<call, charged, mishaps>>
  BY DEF Call!NextDay, Call!CheckAlerts, Call!ProbeBalance, Call!Reload, Call!alerts, Call!pools
<1>2. Charges'
  BY <1>1, CallsRest
<1>3. MaxUsed \in Nat /\ LastDay \in Nat
  BY NodeAssumption DEF NodeAssumption
<1>4. used' \in [Pools -> 0..MaxUsed]
  BY <1>3 DEF Call!NextDay, Call!CheckAlerts, Call!ProbeBalance, Call!Reload, Call!pools, CallInv, CallTypes
<1>5. day' \in 0..LastDay
  BY <1>3 DEF Call!NextDay, Call!CheckAlerts, Call!ProbeBalance, Call!Reload, Call!pools, CallInv, CallTypes
<1>6. status' \in [Pools -> {"active", "paused", "exhausted"}]
  BY DEF Call!NextDay, Call!CheckAlerts, Call!ProbeBalance, Call!Reload, Call!pools, CallInv, CallTypes
<1>7. CallTypes'
  BY <1>1, <1>4, <1>5, <1>6 DEF CallInv, CallTypes
<1>8. Warnings'
  <2>1. CASE Call!CheckAlerts
    BY <2>1, CheckAlertsKeeps DEF CallInv
  <2>2. CASE UNCHANGED <<alertState, pushed>>
    BY <2>2 DEF CallInv, Warnings, Climbs
  <2> QED
    BY <2>1, <2>2 DEF Call!NextDay, Call!ProbeBalance, Call!Reload, Call!alerts
<1> QED
  BY <1>2, <1>7, <1>8 DEF CallInv

LEMMA CallStep == ASSUME CallInv, Call!Next, duty = "call", duty' = duty PROVE CallInv'
<1>1. Keyed \subseteq Models /\ Default \in Models
  BY NodeAssumption DEF NodeAssumption
<1>2. ASSUME NEW c \in Calls, Call!Routed(c) \/ Call!RoutedToDefault(c) \/ Call!Preferred(c) \/ Call!Unrouted(c)
      PROVE  CallInv'
  <2>1. PICK m \in Models, rest \in SUBSET Models : Call!Start(c, m, rest)
    BY <1>1, <1>2 DEF Call!Routed, Call!RoutedToDefault, Call!Preferred, Call!Unrouted, Call!Open
  <2> QED
    BY <2>1, CallStartKeeps
<1>3. ASSUME NEW c \in Calls, Call!AttemptFails(c) PROVE CallInv'
  BY <1>3, UnansweredKeeps DEF Call!AttemptFails, Call!pools, Call!alerts
<1>4. ASSUME NEW c \in Calls, NEW content \in BOOLEAN, Call!StreamEnds(c, content) PROVE CallInv'
  BY <1>4, StreamEndsKeeps
<1> QED
  BY <1>2, <1>3, <1>4, PoolsKeep DEF Call!Next

LEMMA CallRests ==
    ASSUME CallInv, UNCHANGED <<duty, callVars>>, duty = "call" => mishaps' = mishaps
    PROVE  CallInv'
<1>1. UNCHANGED <<duty, used, status, day, alertState, pushed, call, charged>>
  BY DEF callVars
<1>2. CallTypes' /\ Warnings'
  BY <1>1 DEF CallInv, CallTypes, Warnings, Climbs
<1>3. Charges'
  <2> SUFFICES ASSUME NEW c \in Calls PROVE ChargedFor(call'[c], charged'[c], mishaps')
    BY DEF Charges, ChargedFor, Call!Candidates
  <2>1. ChargedFor(call[c], charged[c], mishaps) /\ (duty # "call" => call[c].pc = "idle")
    BY DEF CallInv, Charges, CallTypes
  <2> QED
    BY <1>1, <2>1 DEF ChargedFor
<1> QED
  BY <1>2, <1>3 DEF CallInv

LEMMA CallImplies == CallInv => CallsSound
<1> SUFFICES ASSUME CallInv PROVE CallsSound
  OBVIOUS
<1>1. Call!TypeOK
  <2>1. \A p \in Pools : used[p] <= MaxUsed
    BY NodeAssumption DEF NodeAssumption, CallInv, CallTypes
  <2> QED
    BY <2>1 DEF CallInv, CallTypes, Call!TypeOK
<1>2. Call!ChargedOnce
  <2> SUFFICES ASSUME NEW c \in Calls
               PROVE  charged[c] = IF call[c].pc = "answered" /\ Call!Candidates(call[c].model) # {} /\ mishaps = 0
                                   THEN 1 ELSE IF call[c].pc = "answered" THEN charged[c] % 2 ELSE 0
    BY DEF Call!ChargedOnce
  <2>1. charged[c] \in 0..1 /\ ChargedFor(call[c], charged[c], mishaps)
    BY DEF CallInv, CallTypes, Charges
  <2>2. charged[c] = charged[c] % 2
    BY <2>1
  <2> QED
    BY <2>1, <2>2 DEF ChargedFor
<1>3. Call!WarningsClimb
  BY DEF CallInv, Warnings, Climbs, Call!WarningsClimb
<1> QED
  BY <1>1, <1>2, <1>3 DEF CallsSound

\* A call of a model is charged once, to one pool, however many models of its chain were tried,
\* and the warnings of a pool only climb (agent_runtime.call_llm, model_resources.check_alerts).
THEOREM CallsAreSound == NodeSpec => []CallsSound
<1>1. NodeInit => CallInv
  BY CallInit DEF NodeInit
<1>2. CallInv /\ [NodeNext]_nodeVars => CallInv'
  <2> SUFFICES ASSUME CallInv, [NodeNext]_nodeVars PROVE CallInv'
    OBVIOUS
  <2>1. CASE duty = "call" /\ Call!Next /\ duty' = duty
    BY <2>1, CallStep
  <2>2. CASE UNCHANGED <<duty, callVars>> /\ (duty = "call" => mishaps' = mishaps)
    BY <2>2, CallRests
  <2> QED
    BY <2>1, <2>2 DEF NodeNext, nodeVars
<1> QED
  BY <1>1, <1>2, CallImplies, PTL DEF NodeSpec

-----------------------------------------------------------------------------
(* Agents and their tools.                                                 *)

\* What a subtask may be asked with: the knowledge for its own skill, or its agent's prompt.
Own(s) == {SkillOf[s]} \cup Agents

RunTypes ==
    /\ agents \in SUBSET Agents /\ ended \in {Run!None, "stopped", "code"}
    /\ DOMAIN custom = Agents
    /\ DOMAIN skillNow = Run!Runtimes /\ \A r \in Run!Runtimes : DOMAIN skillNow[r] = Run!Threads
    /\ DOMAIN context = Run!Threads /\ DOMAIN prompted = Run!Threads
    /\ DOMAIN job = Subtasks

\* A job [pc, runtime, prompt, turns] of s knows the skill of s, in the slot k of its runtime.
JobOf(s, j, k) ==
    /\ DOMAIN j = {"pc", "runtime", "prompt", "turns"}
    /\ j.runtime \in Run!Runtimes /\ j.turns \in 0..MaxTurns
    /\ j.pc \in {"call", "start"} => k = SkillOf[s]
    /\ j.pc \in {"turn", "tool", "code"} => j.prompt \in Own(s)

Jobbed == \A s \in Subtasks : JobOf(s, job[s], skillNow[job[s].runtime][s])

\* What each thread is charged to.
Charged(t) ==
    IF t \in Subtasks THEN {TaskOf[t]} ELSE IF t \in Jobs THEN {t} ELSE {}

Contexts == \A t \in Run!Threads : context[t] \in Charged(t) \cup {Run!None}

\* The last call of thread t, with the prompt p and charged to k.
CalledWell(t, p, k) ==
    /\ k \in Charged(t) \cup {Run!None}
    /\ t \in Subtasks /\ k # Run!None => p \in Own(t)

Prompts == \A t \in Run!Threads : CalledWell(t, prompted[t].prompt, prompted[t].task)

RunInv == RunTypes /\ Jobbed /\ Contexts /\ Prompts

LEMMA Apart ==
    /\ \A s \in Subtasks : s \in Run!Threads /\ s \notin Jobs /\ s # "chat" /\ TaskOf[s] \in Jobs
    /\ \A k \in Jobs : k \in Run!Threads /\ k \notin Subtasks /\ k # "chat"
    /\ "chat" \in Run!Threads /\ "chat" \notin Subtasks /\ "chat" \notin Jobs
    /\ MaxTurns \in Nat
BY NodeAssumption DEF NodeAssumption, Run!Threads

LEMMA RunInit == Run!Init => RunInv
<1> SUFFICES ASSUME Run!Init PROVE RunInv
  OBVIOUS
<1>1. RunTypes
  BY DEF Run!Init, RunTypes
<1>2. Jobbed
  <2>1. \A s \in Subtasks : job[s] = Run!Idle
    BY DEF Run!Init
  <2>2. 0 \in 0..MaxTurns /\ "shared" \in Run!Runtimes
    BY Apart DEF Run!Runtimes
  <2> QED
    BY <2>1, <2>2 DEF Jobbed, JobOf, Run!Idle
<1>3. Contexts
  BY DEF Run!Init, Contexts
<1>4. Prompts
  BY DEF Run!Init, Prompts, CalledWell
<1> QED
  BY <1>1, <1>2, <1>3, <1>4 DEF RunInv

\* A call of thread t with a prompt that suits it.
LEMMA CalledKeeps ==
    ASSUME RunInv, NEW t \in Run!Threads, NEW p, Run!Called(t, p), t \in Subtasks => p \in Own(t)
    PROVE  DOMAIN prompted' = Run!Threads /\ Prompts'
<1> DEFINE k == context[t]
<1>1. prompted' = [prompted EXCEPT ![t] = [prompt |-> p, task |-> k]]
  BY DEF Run!Called, Run!ContextSlot
<1>2. k \in Charged(t) \cup {Run!None}
  BY DEF RunInv, Contexts
<1>3. CalledWell(t, p, k)
  BY <1>2 DEF CalledWell
<1> HIDE DEF k
<1>4. DOMAIN prompted = Run!Threads /\ DOMAIN prompted' = Run!Threads
  BY <1>1 DEF RunInv, RunTypes
<1>5. ASSUME NEW u \in Run!Threads PROVE CalledWell(u, prompted'[u].prompt, prompted'[u].task)
  <2>1. CASE u = t
    BY <1>1, <1>3, <1>4, <2>1
  <2>2. CASE u # t
    BY <1>1, <1>4, <2>2 DEF RunInv, Prompts
  <2> QED
    BY <2>1, <2>2
<1> QED
  BY <1>4, <1>5 DEF Prompts, CalledWell, Charged, Own

\* The job of one subtask goes on to j; the slots of all others stay.
LEMMA JobKeeps ==
    ASSUME RunInv, NEW s \in Subtasks, NEW j, job' = [job EXCEPT ![s] = j],
           JobOf(s, j, skillNow'[j.runtime][s]),
           \A u \in Subtasks \ {s} : \A r \in Run!Runtimes : skillNow'[r][u] = skillNow[r][u]
    PROVE  DOMAIN job' = Subtasks /\ Jobbed'
<1>1. DOMAIN job = Subtasks /\ DOMAIN job' = Subtasks
  BY DEF RunInv, RunTypes
<1>2. ASSUME NEW u \in Subtasks PROVE JobOf(u, job'[u], skillNow'[job'[u].runtime][u])
  <2>1. CASE u = s
    BY <1>1, <2>1
  <2>2. CASE u # s
    <3>1. job'[u] = job[u] /\ job[u].runtime \in Run!Runtimes /\ JobOf(u, job[u], skillNow[job[u].runtime][u])
      BY <1>1, <2>2 DEF RunInv, Jobbed, JobOf
    <3> QED
      BY <2>2, <3>1
  <2> QED
    BY <2>1, <2>2
<1> QED
  BY <1>1, <1>2 DEF Jobbed, JobOf, Own, Run!Runtimes

LEMMA PromptOwn ==
    ASSUME RunInv, NEW s \in Subtasks, job[s].pc \in {"call", "start"}
    PROVE  Run!Prompt(job[s].runtime, s) \in Own(s)
<1>1. JobOf(s, job[s], skillNow[job[s].runtime][s])
  BY DEF RunInv, Jobbed
<1> QED
  BY <1>1 DEF JobOf, Run!Prompt, Run!SkillSlot, Own

\* What a step leaves alone keeps its part of the invariant.
LEMMA Alone ==
    /\ Contexts /\ UNCHANGED context => Contexts'
    /\ Prompts /\ UNCHANGED prompted => Prompts'
    /\ RunTypes /\ UNCHANGED <<agents, custom, ended, skillNow, context, prompted, job>> => RunTypes'
BY DEF Contexts, Prompts, CalledWell, Charged, Own, RunTypes

LEMMA RunExecuteKeeps ==
    ASSUME RunInv, NEW s \in Subtasks, NEW a \in Run!Runtimes, Run!Execute(s, a)
    PROVE  RunInv'
<1> DEFINE r == IF a \in agents THEN a ELSE "shared"
           h == Run!Handler(s)
<1>1. r \in Run!Runtimes
  BY DEF Run!Runtimes
<1>2. UNCHANGED <<agents, custom, shared, prompted, ended>>
  BY DEF Run!Execute
<1>3. JobOf(s, job[s], skillNow[job[s].runtime][s]) /\ job[s].pc = "idle" /\ s \in Run!Threads
  BY Apart DEF RunInv, Jobbed, Run!Execute
<1>4. Prompts'
  BY <1>2, Alone DEF RunInv
<1>5. CASE r = "shared" /\ ~shared
  <2> DEFINE j == [job[s] EXCEPT !.pc = "done"]
  <2>1. job' = [job EXCEPT ![s] = j] /\ UNCHANGED <<skillNow, context>>
    BY <1>5 DEF Run!Execute
  <2>2. JobOf(s, j, skillNow'[j.runtime][s])
    BY <1>3, <2>1 DEF JobOf
  <2>3. DOMAIN job' = Subtasks /\ Jobbed'
    BY <2>1, <2>2, JobKeeps
  <2> QED
    BY <1>2, <1>4, <2>1, <2>3, Alone DEF RunInv, RunTypes
<1>6. CASE ~(r = "shared" /\ ~shared) /\ h = "done"
  <2> DEFINE j == [job[s] EXCEPT !.pc = h, !.runtime = r]
  <2>1. job' = [job EXCEPT ![s].pc = h, ![s].runtime = r] /\ UNCHANGED <<skillNow, context>>
    BY <1>6 DEF Run!Execute
  <2>2. job' = [job EXCEPT ![s] = j]
    BY <2>1
  <2>3. JobOf(s, j, skillNow'[j.runtime][s])
    BY <1>1, <1>3, <1>6, <2>1 DEF JobOf
  <2>4. DOMAIN job' = Subtasks /\ Jobbed'
    BY <2>1, <2>2, <2>3, JobKeeps
  <2> QED
    BY <1>2, <1>4, <2>1, <2>4, Alone DEF RunInv, RunTypes
<1>7. CASE ~(r = "shared" /\ ~shared) /\ h # "done"
  <2> DEFINE j == [job[s] EXCEPT !.pc = h, !.runtime = r]
  <2>1. /\ job' = [job EXCEPT ![s].pc = h, ![s].runtime = r]
        /\ skillNow' = [skillNow EXCEPT ![r][s] = SkillOf[s]]
        /\ context' = [context EXCEPT ![s] = TaskOf[s]]
    BY <1>7 DEF Run!Execute, Run!SkillSlot, Run!ContextSlot
  <2>2. job' = [job EXCEPT ![s] = j]
    BY <2>1
  <2>3. h \in {"call", "start", "plain"}
    BY <1>7 DEF Run!Handler
  <2>4. /\ DOMAIN skillNow' = Run!Runtimes /\ \A q \in Run!Runtimes : DOMAIN skillNow'[q] = Run!Threads
        /\ skillNow'[r][s] = SkillOf[s]
        /\ \A u \in Subtasks \ {s} : \A q \in Run!Runtimes : skillNow'[q][u] = skillNow[q][u]
    BY <1>1, <1>3, <2>1 DEF RunInv, RunTypes
  <2>5. j.runtime = r /\ JobOf(s, j, skillNow'[j.runtime][s])
    BY <1>1, <1>3, <2>3, <2>4 DEF JobOf
  <2>6. DOMAIN job' = Subtasks /\ Jobbed'
    BY <2>2, <2>4, <2>5, JobKeeps
  <2>7. DOMAIN context' = Run!Threads /\ Contexts'
    BY <1>3, <2>1 DEF RunInv, RunTypes, Contexts, Charged
  <2> QED
    BY <1>2, <1>4, <2>4, <2>6, <2>7 DEF RunInv, RunTypes
<1> QED
  BY <1>5, <1>6, <1>7

LEMMA ExecuteSingleKeeps ==
    ASSUME RunInv, NEW k \in Jobs, Run!ExecuteSingle(k)
    PROVE  RunInv'
<1>1. k \in Run!Threads /\ k \notin Subtasks
  BY Apart
<1>2. /\ skillNow' = [skillNow EXCEPT !["shared"][k] = "code"]
      /\ context' = [context EXCEPT ![k] = k]
      /\ prompted' = [prompted EXCEPT ![k] = [prompt |-> "code", task |-> k]]
      /\ UNCHANGED <<agents, custom, shared, job, ended>>
  BY DEF Run!ExecuteSingle, Run!SkillSlot, Run!ContextSlot
<1>3. /\ DOMAIN skillNow' = Run!Runtimes /\ \A q \in Run!Runtimes : DOMAIN skillNow'[q] = Run!Threads
      /\ \A u \in Subtasks : \A q \in Run!Runtimes : skillNow'[q][u] = skillNow[q][u]
  BY <1>1, <1>2 DEF RunInv, RunTypes
<1>4. Jobbed'
  BY <1>2, <1>3 DEF RunInv, Jobbed, JobOf, Own, Run!Runtimes
<1>5. DOMAIN context' = Run!Threads /\ Contexts'
  BY <1>1, <1>2 DEF RunInv, RunTypes, Contexts, Charged
<1>6. DOMAIN prompted' = Run!Threads
  BY <1>2 DEF RunInv, RunTypes
<1>7. Prompts'
  <2> SUFFICES ASSUME NEW t \in Run!Threads PROVE CalledWell(t, prompted'[t].prompt, prompted'[t].task)
    BY DEF Prompts, CalledWell, Charged, Own
  <2>1. CASE t = k
    BY <1>1, <1>2, <2>1 DEF CalledWell, Charged, RunInv, RunTypes
  <2>2. CASE t # k
    BY <1>2, <2>2 DEF RunInv, RunTypes, Prompts
  <2> QED
    BY <2>1, <2>2
<1> QED
  BY <1>2, <1>3, <1>4, <1>5, <1>6, <1>7 DEF RunInv, RunTypes

LEMMA SwitchRoleKeeps == ASSUME RunInv, Run!SwitchRole PROVE RunInv'
<1>1. /\ UNCHANGED <<agents, custom, context, job, prompted, ended>>
      /\ skillNow' = [skillNow EXCEPT !["shared"] = [t \in Run!Threads |->
                         IF t \in Subtasks /\ job[t].pc \notin {"idle", "done"} THEN @[t] ELSE Run!None]]
  BY DEF Run!SwitchRole
<1>2. /\ DOMAIN skillNow' = Run!Runtimes /\ \A q \in Run!Runtimes : DOMAIN skillNow'[q] = Run!Threads
      /\ \A u \in Subtasks : job[u].pc \notin {"idle", "done"} =>
             \A q \in Run!Runtimes : skillNow'[q][u] = skillNow[q][u]
  BY <1>1, Apart DEF RunInv, RunTypes
<1>3. ASSUME NEW u \in Subtasks PROVE JobOf(u, job'[u], skillNow'[job'[u].runtime][u])
  <2>1. JobOf(u, job[u], skillNow[job[u].runtime][u])
    BY DEF RunInv, Jobbed
  <2>2. job[u].pc \in {"call", "start"} => skillNow'[job[u].runtime][u] = skillNow[job[u].runtime][u]
    BY <1>2, <2>1 DEF JobOf
  <2> QED
    BY <1>1, <2>1, <2>2 DEF JobOf
<1>4. Jobbed'
  BY <1>3 DEF Jobbed, JobOf, Own, Run!Runtimes
<1> QED
  BY <1>1, <1>2, <1>4, Alone DEF RunInv, RunTypes

LEMMA RestartKeeps == ASSUME RunInv, Run!Restart PROVE RunInv'
<1>1. /\ ended' = Run!None /\ agents' = {} /\ custom' = [a \in Agents |-> FALSE]
      /\ skillNow' = [r \in Run!Runtimes |-> [t \in Run!Threads |-> Run!None]]
      /\ context' = [t \in Run!Threads |-> Run!None]
      /\ job' = [s \in Subtasks |-> IF job[s].pc = "idle" THEN Run!Idle ELSE [Run!Idle EXCEPT !.pc = "done"]]
      /\ UNCHANGED prompted
  BY DEF Run!Restart
<1>2. RunTypes'
  BY <1>1 DEF RunTypes, RunInv
<1>3. Contexts'
  BY <1>1 DEF Contexts
<1>4. Jobbed'
  <2>1. 0 \in 0..MaxTurns /\ "shared" \in Run!Runtimes
    BY Apart DEF Run!Runtimes
  <2>2. ASSUME NEW s \in Subtasks PROVE JobOf(s, job'[s], skillNow'[job'[s].runtime][s])
    <3>1. job'[s] = Run!Idle \/ job'[s] = [Run!Idle EXCEPT !.pc = "done"]
      BY <1>1
    <3> QED
      BY <2>1, <3>1 DEF JobOf, Run!Idle
  <2> QED
    BY <2>2 DEF Jobbed, JobOf, Own, Run!Runtimes
<1> QED
  BY <1>1, <1>2, <1>3, <1>4, Alone DEF RunInv

\* The handlers' steps: the job of s goes on, and nothing but its last call changes besides.
LEMMA HandlerKeeps ==
    ASSUME RunInv, NEW s \in Subtasks,
           NEW j, job' = [job EXCEPT ![s] = j], JobOf(s, j, skillNow[j.runtime][s]),
           UNCHANGED prompted \/ \E p \in Own(s) : Run!Called(s, p),
           UNCHANGED <<agents, custom, skillNow, context, ended>>
    PROVE  RunInv'
<1>1. DOMAIN job' = Subtasks /\ Jobbed'
  <2>1. JobOf(s, j, skillNow'[j.runtime][s])
    OBVIOUS
  <2> QED
    BY <2>1, JobKeeps
<1>2. DOMAIN prompted' = Run!Threads /\ Prompts'
  <2>1. CASE UNCHANGED prompted
    BY <2>1, Alone DEF RunInv, RunTypes
  <2>2. ASSUME NEW p \in Own(s), Run!Called(s, p) PROVE DOMAIN prompted' = Run!Threads /\ Prompts'
    BY <2>2, Apart, CalledKeeps
  <2> QED
    BY <2>1, <2>2
<1> QED
  BY <1>1, <1>2, Alone DEF RunInv, RunTypes

LEMMA HandlersKeep ==
    ASSUME RunInv, NEW s \in Subtasks,
           \/ Run!Call(s) \/ Run!Plain(s) \/ Run!StartAgent(s) \/ Run!CLIEnds(s) \/ Run!ToolEnds(s)
           \/ \E tool \in {Run!None, "tool", "code"} : Run!Turn(s, tool)
    PROVE  RunInv'
<1> DEFINE to(pc) == [job[s] EXCEPT !.pc = pc]
<1>1. JobOf(s, job[s], skillNow[job[s].runtime][s])
  BY DEF RunInv, Jobbed
<1>2. JobOf(s, to("done"), skillNow[to("done").runtime][s])
  BY <1>1 DEF JobOf
<1>3. \A pc : Run!Go(s, pc) => job' = [job EXCEPT ![s] = to(pc)]
  BY DEF Run!Go
<1>4. CASE Run!Call(s)
  <2>1. Run!Prompt(job[s].runtime, s) \in Own(s)
    BY <1>4, PromptOwn DEF Run!Call
  <2> QED
    BY <1>2, <1>3, <1>4, <2>1, HandlerKeeps DEF Run!Call
<1>5. CASE Run!Plain(s)
  BY <1>2, <1>3, <1>5, HandlerKeeps DEF Run!Plain
<1>6. CASE Run!StartAgent(s)
  <2> DEFINE pc == IF SkillOf[s] = "react" THEN "turn" ELSE "cli"
             j == [job[s] EXCEPT !.pc = pc, !.prompt = Run!Prompt(job[s].runtime, s)]
  <2>1. Run!Prompt(job[s].runtime, s) \in Own(s)
    BY <1>6, PromptOwn DEF Run!StartAgent
  <2>2. job' = [job EXCEPT ![s] = j]
    BY <1>6 DEF Run!StartAgent
  <2>3. JobOf(s, j, skillNow[j.runtime][s])
    BY <1>1, <2>1 DEF JobOf
  <2> QED
    BY <1>6, <2>2, <2>3, HandlerKeeps DEF Run!StartAgent
<1>7. CASE Run!CLIEnds(s)
  BY <1>2, <1>3, <1>7, HandlerKeeps DEF Run!CLIEnds
<1>8. CASE Run!ToolEnds(s)
  <2>1. JobOf(s, to("turn"), skillNow[to("turn").runtime][s])
    BY <1>1, <1>8 DEF JobOf, Run!ToolEnds
  <2> QED
    BY <1>3, <1>8, <2>1, HandlerKeeps DEF Run!ToolEnds
<1>9. ASSUME NEW tool \in {Run!None, "tool", "code"}, Run!Turn(s, tool) PROVE RunInv'
  <2>1. job[s].prompt \in Own(s) /\ job[s].turns \in 0..MaxTurns /\ MaxTurns \in Nat
    BY <1>1, <1>9, Apart DEF JobOf, Run!Turn
  <2>2. CASE job[s].turns = MaxTurns
    BY <1>2, <1>3, <1>9, <2>2, HandlerKeeps DEF Run!Turn
  <2>3. CASE job[s].turns # MaxTurns
    <3> DEFINE pc == IF tool = Run!None THEN "done" ELSE tool
               n == job[s].turns + 1
               j == [job[s] EXCEPT !.pc = pc, !.turns = n]
    <3>1. n \in 0..MaxTurns
      BY <2>1, <2>3
    <3>2. job' = [job EXCEPT ![s] = j]
      BY <1>9, <2>3 DEF Run!Turn
    <3> HIDE DEF n
    <3>3. pc \in {"done", "tool", "code"}
      OBVIOUS
    <3>4. JobOf(s, j, skillNow[j.runtime][s])
      BY <1>1, <2>1, <3>1, <3>3 DEF JobOf
    <3> QED
      BY <1>9, <2>1, <2>3, <3>2, <3>4, HandlerKeeps DEF Run!Turn
  <2> QED
    BY <2>2, <2>3
<1> QED
  BY <1>4, <1>5, <1>6, <1>7, <1>8, <1>9

LEMMA CodeTimesOutKeeps == ASSUME RunInv, NEW s \in Subtasks, Run!CodeTimesOut(s) PROVE RunInv'
<1>1. UNCHANGED <<agents, custom, shared, skillNow, context, prompted>> /\ job[s].pc = "code"
  BY DEF Run!CodeTimesOut
<1>2. CASE Run!KillsItself
  <2>1. ended' = "code" /\ UNCHANGED job
    BY <1>2 DEF Run!CodeTimesOut
  <2>2. Jobbed'
    BY <1>1, <2>1 DEF RunInv, Jobbed, JobOf, Own, Run!Runtimes
  <2> QED
    BY <1>1, <2>1, <2>2, Alone DEF RunInv, RunTypes
<1>3. CASE ~Run!KillsItself
  <2> DEFINE j == [job[s] EXCEPT !.pc = "turn"]
  <2>1. job' = [job EXCEPT ![s] = j] /\ UNCHANGED ended
    BY <1>3 DEF Run!CodeTimesOut, Run!Go
  <2>2. JobOf(s, j, skillNow[j.runtime][s])
    BY <1>1 DEF JobOf, RunInv, Jobbed
  <2> QED
    BY <1>1, <2>1, <2>2, HandlerKeeps
<1> QED
  BY <1>2, <1>3

\* Agents come, the station stops: no job and no call changes.
LEMMA JobsRest ==
    ASSUME RunInv, UNCHANGED <<skillNow, context, job, prompted>>
    PROVE  Jobbed' /\ Contexts' /\ Prompts'
<1>1. Jobbed'
  BY DEF RunInv, Jobbed, JobOf, Own, Run!Runtimes
<1> QED
  BY <1>1, Alone DEF RunInv

LEMMA RunStep == ASSUME RunInv, Run!Next PROVE RunInv'
<1>1. CASE Run!SwitchRole
  BY <1>1, SwitchRoleKeeps
<1>2. CASE Run!Restart
  BY <1>2, RestartKeeps
<1>3. CASE Run!Stop
  BY <1>3, JobsRest DEF Run!Stop, RunInv, RunTypes
<1>4. CASE Run!Chat
  <2>1. Run!Called("chat", Run!None) /\ UNCHANGED <<agents, custom, shared, skillNow, context, job, ended>>
    BY <1>4 DEF Run!Chat
  <2>2. DOMAIN prompted' = Run!Threads /\ Prompts'
    BY <2>1, Apart, CalledKeeps
  <2>3. Jobbed'
    BY <2>1 DEF RunInv, Jobbed, JobOf, Own, Run!Runtimes
  <2> QED
    BY <2>1, <2>2, <2>3, Alone DEF RunInv, RunTypes
<1>5. ASSUME NEW a \in Agents, NEW c \in BOOLEAN, Run!CreateAgent(a, c) PROVE RunInv'
  <2>1. /\ agents' = agents \cup {a} /\ custom' = [custom EXCEPT ![a] = c]
        /\ UNCHANGED <<shared, skillNow, context, job, prompted, ended>>
    BY <1>5 DEF Run!CreateAgent
  <2>2. RunTypes'
    BY <2>1 DEF RunInv, RunTypes
  <2> QED
    BY <2>1, <2>2, JobsRest DEF RunInv
<1>6. ASSUME NEW k \in Jobs, Run!PMCall(k) PROVE RunInv'
  <2>1. Run!Called(k, Run!None) /\ UNCHANGED <<agents, custom, shared, skillNow, context, job, ended>>
    BY <1>6 DEF Run!PMCall
  <2>2. DOMAIN prompted' = Run!Threads /\ Prompts'
    BY <2>1, Apart, CalledKeeps
  <2>3. Jobbed'
    BY <2>1 DEF RunInv, Jobbed, JobOf, Own, Run!Runtimes
  <2> QED
    BY <2>1, <2>2, <2>3, Alone DEF RunInv, RunTypes
<1>7. ASSUME NEW k \in Jobs, Run!ExecuteSingle(k) PROVE RunInv'
  BY <1>7, ExecuteSingleKeeps
<1>8. ASSUME NEW s \in Subtasks, NEW a \in Run!Runtimes, Run!Execute(s, a) PROVE RunInv'
  BY <1>8, RunExecuteKeeps
<1>9. ASSUME NEW s \in Subtasks, Run!CodeTimesOut(s) PROVE RunInv'
  BY <1>9, CodeTimesOutKeeps
<1> QED
  BY <1>1, <1>2, <1>3, <1>4, <1>5, <1>6, <1>7, <1>8, <1>9, HandlersKeep DEF Run!Next

LEMMA RunRests == ASSUME RunInv, UNCHANGED runVars PROVE RunInv'
BY JobsRest DEF RunInv, RunTypes, runVars

LEMMA RunImplies == RunInv => Run!TypeOK /\ Run!OwnContext
<1> SUFFICES ASSUME RunInv PROVE Run!TypeOK /\ Run!OwnContext
  OBVIOUS
<1>1. ASSUME NEW t \in Run!Threads PROVE context[t] \in Jobs \cup {Run!None}
  BY Apart DEF RunInv, Contexts, Charged
<1>2. Run!TypeOK
  BY <1>1 DEF RunInv, RunTypes, Jobbed, JobOf, Run!TypeOK
<1>3. ASSUME NEW t \in Run!Threads PROVE CalledWell(t, prompted[t].prompt, prompted[t].task)
  BY DEF RunInv, Prompts
<1>4. Run!OwnContext
  BY <1>3, Apart DEF Run!OwnContext, CalledWell, Charged, Own
<1> QED
  BY <1>2, <1>4

Lines == [id : Nat, what : Callers \cup {"initialize", "list", "note", "garbage"}]

\* The lines of a client whose last number is n; if the call c waits, an answer to n is its own.
FitFor(n, waits, c) ==
    {l \in Lines : (n > 0 => l.id <= n) /\ (waits /\ l.id = n => l.what = c)}

Awaits(s) == op.server = s /\ op.step = "call"

Fit(s) == FitFor(client[s].id, Awaits(s), op.kind)

Tables ==
    /\ known \in SUBSET Servers
    /\ cache \in [Servers -> SUBSET Tools] /\ offers \in [Servers -> SUBSET Tools]
    /\ routes \in [Tools -> known \cup {Tool!None}]

Replies == DOMAIN replied = Callers /\ Tool!AnswerIsOwn

Clients ==
    /\ client \in [Servers -> [alive : BOOLEAN, ready : BOOLEAN, id : Nat]]
    /\ \A s \in Servers : (client[s].alive => client[s].id > 0) /\ (Tool!Connected(s) => s \in known)

Operation ==
    \/ op = Tool!Free
    \/ /\ op.server \in Servers /\ client[op.server].id > 0
       /\ op.step \in {"initialize", "list", "call"} /\ op.kind \in Callers \cup {"register"}
       /\ op.step = "call" => op.kind \in Callers
       /\ op.step # "initialize" => op.server \in known

Wires ==
    /\ DOMAIN todo = Servers /\ DOMAIN pipe = Servers
    /\ \A s \in Servers : /\ todo[s] \in Seq(Fit(s)) /\ pipe[s] \in Seq(Fit(s))
                          /\ s \in Http => todo[s] = <<>> /\ pipe[s] = <<>>

ToolInv == Tables /\ Replies /\ Clients /\ Operation /\ Wires

LEMMA Wider == ASSUME NEW S, NEW T, S \subseteq T PROVE \A q \in Seq(S) : q \in Seq(T)
OBVIOUS

LEMMA FitWider ==
    \A n, m \in Nat : \A a, b, c, d :
        (m = n /\ ~b) \/ (m = 0 /\ ~b) \/ (n > 0 /\ m = n + 1) => FitFor(n, a, c) \subseteq FitFor(m, b, d)
BY DEF FitFor, Lines

LEMMA FitNew ==
    \A m \in Nat, b \in BOOLEAN, c, w \in Callers \cup {"initialize", "list", "note", "garbage"} :
        (b => w = c) => [id |-> m, what |-> w] \in FitFor(m, b, c)
BY DEF FitFor, Lines

LEMMA ToolInit == Tool!Init => ToolInv
<1> SUFFICES ASSUME Tool!Init PROVE ToolInv
  OBVIOUS
<1>1. Tables
  BY DEF Tool!Init, Tables
<1>2. Replies
  BY DEF Tool!Init, Replies, Tool!AnswerIsOwn
<1>3. Clients
  BY DEF Tool!Init, Clients, Tool!Gone, Tool!Connected
<1>4. Wires
  BY DEF Tool!Init, Wires
<1> QED
  BY <1>1, <1>2, <1>3, <1>4 DEF Tool!Init, ToolInv, Operation

\* What is left of the pipes, each with lines it had before.
PipesLeft ==
    /\ DOMAIN pipe' = Servers
    /\ \A s \in Servers : pipe'[s] \in Seq(Fit(s)) /\ (s \in Http => pipe'[s] = <<>>)

LEMMA PipesStay == ToolInv /\ UNCHANGED pipe => PipesLeft
BY DEF ToolInv, Wires, PipesLeft

LEMMA Renumbered ==
    \A c \in [alive : BOOLEAN, ready : BOOLEAN, id : Nat], m \in Nat :
        LET x == [c EXCEPT !.id = m, !.ready = TRUE]
        IN  x \in [alive : BOOLEAN, ready : BOOLEAN, id : Nat] /\ x.id = m
OBVIOUS

\* A request with the next number, of an operation that may have had another step before.
LEMMA CarryKeeps ==
    ASSUME ToolInv, NEW k \in Callers \cup {"register"}, NEW s \in Servers, NEW t,
           NEW step \in {"list", "call"}, NEW what \in Callers \cup {"list"},
           Tool!Send(k, s, t, step, what, TRUE), client[s].id > 0,
           step = "call" => k \in Callers /\ what = k,
           PipesLeft, s \in known', known \subseteq known'
    PROVE  Clients' /\ Operation' /\ Wires'
<1> DEFINE n == client[s].id
           line == [id |-> n + 1, what |-> what]
<1>1. /\ op' = [kind |-> k, server |-> s, tool |-> t, step |-> step]
      /\ client' = [client EXCEPT ![s].id = n + 1, ![s].ready = TRUE]
      /\ todo' = IF client[s].alive /\ s \notin Http THEN [todo EXCEPT ![s] = Append(@, line)] ELSE todo
  BY DEF Tool!Send
<1>2. client \in [Servers -> [alive : BOOLEAN, ready : BOOLEAN, id : Nat]] /\ n \in Nat /\ n > 0
  BY DEF ToolInv, Clients
<1>3. /\ client' \in [Servers -> [alive : BOOLEAN, ready : BOOLEAN, id : Nat]]
      /\ client'[s].id = n + 1 /\ \A u \in Servers \ {s} : client'[u] = client[u]
  <2> DEFINE x == [client[s] EXCEPT !.id = n + 1, !.ready = TRUE]
  <2>1. x \in [alive : BOOLEAN, ready : BOOLEAN, id : Nat] /\ x.id = n + 1
    <3>1. n + 1 \in Nat /\ client[s] \in [alive : BOOLEAN, ready : BOOLEAN, id : Nat]
      BY <1>2
    <3> HIDE DEF n
    <3> QED
      BY <3>1, Renumbered
  <2>2. client' = [client EXCEPT ![s] = x]
    BY <1>1
  <2> QED
    BY <1>2, <2>1, <2>2
<1>4. Clients'
  <2> SUFFICES ASSUME NEW u \in Servers
               PROVE  (client'[u].alive => client'[u].id > 0) /\ (Tool!Connected(u)' => u \in known')
    BY <1>3 DEF Clients
  <2>1. CASE u = s
    BY <1>2, <1>3, <2>1
  <2>2. CASE u # s
    <3>1. (client[u].alive => client[u].id > 0) /\ (Tool!Connected(u) => u \in known)
      BY DEF ToolInv, Clients
    <3> QED
      BY <1>3, <2>2, <3>1 DEF Tool!Connected
  <2> QED
    BY <2>1, <2>2
<1>5. Operation'
  <2>1. client'[s].id > 0
    BY <1>2, <1>3
  <2> QED
    BY <1>1, <2>1 DEF Operation
<1>6. ASSUME NEW u \in Servers PROVE Fit(u) \subseteq Fit(u)'
  <2>1. CASE u = s
    BY <1>2, <1>3, <2>1, FitWider DEF Fit
  <2>2. CASE u # s
    <3>1. ~Awaits(u)' /\ client'[u].id = client[u].id /\ client[u].id \in Nat
      BY <1>1, <1>2, <1>3, <2>2 DEF Awaits
    <3> QED
      BY <3>1, FitWider DEF Fit
  <2> QED
    BY <2>1, <2>2
<1>7. line \in Fit(s)'
  <2>1. Awaits(s)' \in BOOLEAN /\ (Awaits(s)' => what = op'.kind)
    BY <1>1 DEF Awaits
  <2>2. n + 1 \in Nat
    BY <1>2
  <2>3. op'.kind = k
    BY <1>1
  <2>4. what \in Callers \cup {"initialize", "list", "note", "garbage"} /\ (Awaits(s)' => what = k)
    BY <2>1, <2>3
  <2>5. line \in FitFor(n + 1, Awaits(s)', k)
    <3> HIDE DEF n
    <3>1. Awaits(s)' => k \in Callers
      BY <1>1 DEF Awaits
    <3>2. CASE Awaits(s)'
      BY <2>2, <2>4, <3>1, <3>2, FitNew
    <3>3. CASE ~Awaits(s)'
      BY <2>2, <2>4, <3>3 DEF FitFor, Lines
    <3> QED
      BY <3>2, <3>3
  <2> QED
    BY <1>3, <2>3, <2>5 DEF Fit
<1>8. Wires'
  <2>1. DOMAIN todo' = Servers /\ DOMAIN pipe' = Servers
    BY <1>1 DEF ToolInv, Wires, PipesLeft
  <2>2. ASSUME NEW u \in Servers
        PROVE  /\ todo'[u] \in Seq(Fit(u)') /\ pipe'[u] \in Seq(Fit(u)')
               /\ u \in Http => todo'[u] = <<>> /\ pipe'[u] = <<>>
    <3>1. /\ todo[u] \in Seq(Fit(u)) /\ pipe'[u] \in Seq(Fit(u))
          /\ u \in Http => todo[u] = <<>> /\ pipe'[u] = <<>>
      BY DEF ToolInv, Wires, PipesLeft
    <3>2. todo[u] \in Seq(Fit(u)') /\ pipe'[u] \in Seq(Fit(u)')
      BY <1>6, <3>1, Wider
    <3>3. CASE u = s /\ client[s].alive /\ s \notin Http
      <4>1. todo'[u] = Append(todo[u], line)
        BY <1>1, <3>3 DEF ToolInv, Wires
      <4> QED
        BY <1>7, <3>2, <3>3, <4>1, AppendProperties
    <3>4. CASE ~(u = s /\ client[s].alive /\ s \notin Http)
      <4>1. todo'[u] = todo[u]
        BY <1>1, <3>4 DEF ToolInv, Wires
      <4> QED
        BY <3>1, <3>2, <4>1
    <3> QED
      BY <3>3, <3>4
  <2> QED
    BY <2>1, <2>2 DEF Wires
<1> QED
  BY <1>4, <1>5, <1>8

\* A new client of s, of which nothing was written yet.
LEMMA ConnectKeeps ==
    ASSUME ToolInv, op = Tool!Free, NEW k \in Callers \cup {"register"}, NEW s \in Servers, NEW t,
           Tool!Connect(k, s, t), known' = known \/ known' = known \ {s}
    PROVE  Clients' /\ Operation' /\ Wires'
<1> DEFINE line == [id |-> 1, what |-> "initialize"]
<1>1. /\ op' = [kind |-> k, server |-> s, tool |-> t, step |-> "initialize"]
      /\ client' = [client EXCEPT ![s] = [alive |-> TRUE, ready |-> FALSE, id |-> 1]]
      /\ todo' = [todo EXCEPT ![s] = IF s \in Http THEN <<>> ELSE <<line>>]
      /\ pipe' = [pipe EXCEPT ![s] = <<>>]
  BY DEF Tool!Connect
<1>2. client \in [Servers -> [alive : BOOLEAN, ready : BOOLEAN, id : Nat]]
  BY DEF ToolInv, Clients
<1>3. /\ client' \in [Servers -> [alive : BOOLEAN, ready : BOOLEAN, id : Nat]]
      /\ client'[s] = [alive |-> TRUE, ready |-> FALSE, id |-> 1]
      /\ \A u \in Servers \ {s} : client'[u] = client[u]
  BY <1>1, <1>2
<1>4. Clients'
  <2> SUFFICES ASSUME NEW u \in Servers
               PROVE  (client'[u].alive => client'[u].id > 0) /\ (Tool!Connected(u)' => u \in known')
    BY <1>3 DEF Clients
  <2>1. CASE u = s
    BY <1>3, <2>1 DEF Tool!Connected
  <2>2. CASE u # s
    <3>1. (client[u].alive => client[u].id > 0) /\ (Tool!Connected(u) => u \in known)
      BY DEF ToolInv, Clients
    <3> QED
      BY <1>3, <2>2, <3>1 DEF Tool!Connected
  <2> QED
    BY <2>1, <2>2
<1>5. Operation'
  BY <1>1, <1>3 DEF Operation
<1>6. ASSUME NEW u \in Servers, u # s PROVE Fit(u) \subseteq Fit(u)'
  <2>1. ~Awaits(u)' /\ client'[u].id = client[u].id /\ client[u].id \in Nat
    BY <1>1, <1>2, <1>3, <1>6 DEF Awaits
  <2> QED
    BY <2>1, FitWider DEF Fit
<1>7. line \in Fit(s)'
  <2>1. ~Awaits(s)' /\ client'[s].id = 1
    BY <1>1, <1>3 DEF Awaits
  <2> QED
    BY <2>1 DEF Fit, FitFor, Lines
<1>8. Wires'
  <2>1. DOMAIN todo' = Servers /\ DOMAIN pipe' = Servers
    BY <1>1 DEF ToolInv, Wires
  <2>2. ASSUME NEW u \in Servers
        PROVE  /\ todo'[u] \in Seq(Fit(u)') /\ pipe'[u] \in Seq(Fit(u)')
               /\ u \in Http => todo'[u] = <<>> /\ pipe'[u] = <<>>
    <3>1. CASE u = s
      <4>1. pipe'[u] = <<>> /\ todo'[u] = IF s \in Http THEN <<>> ELSE <<line>>
        BY <1>1, <3>1 DEF ToolInv, Wires
      <4> QED
        BY <1>7, <3>1, <4>1
    <3>2. CASE u # s
      <4>1. todo'[u] = todo[u] /\ pipe'[u] = pipe[u]
        BY <1>1, <3>2 DEF ToolInv, Wires
      <4>2. /\ todo[u] \in Seq(Fit(u)) /\ pipe[u] \in Seq(Fit(u))
            /\ u \in Http => todo[u] = <<>> /\ pipe[u] = <<>>
        BY DEF ToolInv, Wires
      <4>3. todo[u] \in Seq(Fit(u)') /\ pipe[u] \in Seq(Fit(u)')
        BY <1>6, <3>2, <4>2, Wider
      <4> QED
        BY <4>1, <4>2, <4>3
    <3> QED
      BY <3>1, <3>2
  <2> QED
    BY <2>1, <2>2 DEF Wires
<1> QED
  BY <1>4, <1>5, <1>8

\* Nothing waits when no operation is under way, and a client that is given up has no numbers.
LEMMA FreeKeeps ==
    ASSUME ToolInv, op' = Tool!Free, UNCHANGED todo, PipesLeft, known \subseteq known',
           client' = client \/ \E s \in Servers : client' = [client EXCEPT ![s] = Tool!Gone]
    PROVE  Clients' /\ Operation' /\ Wires'
<1>1. client \in [Servers -> [alive : BOOLEAN, ready : BOOLEAN, id : Nat]]
  BY DEF ToolInv, Clients
<1>2. /\ client' \in [Servers -> [alive : BOOLEAN, ready : BOOLEAN, id : Nat]]
      /\ \A u \in Servers : client'[u] = client[u] \/ client'[u] = Tool!Gone
  <2>1. Tool!Gone \in [alive : BOOLEAN, ready : BOOLEAN, id : Nat]
    BY DEF Tool!Gone
  <2>2. ASSUME NEW s \in Servers, client' = [client EXCEPT ![s] = Tool!Gone]
        PROVE  /\ client' \in [Servers -> [alive : BOOLEAN, ready : BOOLEAN, id : Nat]]
               /\ \A u \in Servers : client'[u] = client[u] \/ client'[u] = Tool!Gone
    BY <1>1, <2>1, <2>2
  <2> QED
    BY <1>1, <2>2
<1>3. Operation'
  BY DEF Operation
<1>4. Clients'
  <2> SUFFICES ASSUME NEW u \in Servers
               PROVE  (client'[u].alive => client'[u].id > 0) /\ (Tool!Connected(u)' => u \in known')
    BY <1>2 DEF Clients
  <2>1. (client[u].alive => client[u].id > 0) /\ (Tool!Connected(u) => u \in known)
    BY DEF ToolInv, Clients
  <2> QED
    BY <1>2, <2>1 DEF Tool!Connected, Tool!Gone
<1>5. ASSUME NEW u \in Servers PROVE Fit(u) \subseteq Fit(u)'
  <2>1. ~Awaits(u)'
    BY DEF Awaits, Tool!Free, Tool!None
  <2>2. client[u].id \in Nat /\ (client'[u].id = client[u].id \/ client'[u].id = 0)
    BY <1>1, <1>2 DEF Tool!Gone
  <2>3. client'[u].id \in Nat
    BY <2>2
  <2> QED
    BY <2>1, <2>2, <2>3, FitWider DEF Fit
<1>6. Wires'
  <2>1. DOMAIN todo' = Servers /\ DOMAIN pipe' = Servers
    BY DEF ToolInv, Wires, PipesLeft
  <2>2. ASSUME NEW u \in Servers
        PROVE  /\ todo'[u] \in Seq(Fit(u)') /\ pipe'[u] \in Seq(Fit(u)')
               /\ u \in Http => todo'[u] = <<>> /\ pipe'[u] = <<>>
    <3>1. /\ todo[u] \in Seq(Fit(u)) /\ pipe'[u] \in Seq(Fit(u))
          /\ u \in Http => todo[u] = <<>> /\ pipe'[u] = <<>>
      BY DEF ToolInv, Wires, PipesLeft
    <3>2. todo[u] \in Seq(Fit(u)') /\ pipe'[u] \in Seq(Fit(u)')
      BY <1>5, <3>1, Wider
    <3> QED
      BY <3>1, <3>2
  <2> QED
    BY <2>1, <2>2 DEF Wires
<1> QED
  BY <1>3, <1>4, <1>6

LEMMA UnderWay == ToolInv /\ op # Tool!Free => op.server \in Servers /\ client[op.server].id > 0
BY DEF ToolInv, Operation

LEMMA FailsKeeps ==
    ASSUME ToolInv, Tool!Fails, PipesLeft, UNCHANGED offers, op # Tool!Free,
           client' = client \/ client' = [client EXCEPT ![op.server] = Tool!Gone]
    PROVE  ToolInv'
<1>1. op' = Tool!Free /\ UNCHANGED <<known, cache, routes, todo>>
  BY DEF Tool!Fails, Tool!tables
<1>2. Clients' /\ Operation' /\ Wires'
  BY <1>1, FreeKeeps, UnderWay
<1>3. Tables'
  BY <1>1 DEF ToolInv, Tables
<1>4. Replies'
  BY DEF ToolInv, Replies, Tool!AnswerIsOwn, Tool!Fails
<1> QED
  BY <1>2, <1>3, <1>4 DEF ToolInv

LEMMA HandshakeEndsKeeps ==
    ASSUME ToolInv, NEW ok \in BOOLEAN, Tool!HandshakeEnds(ok), PipesLeft, UNCHANGED offers, op # Tool!Free
    PROVE  ToolInv'
<1>1. CASE ok
  <2> DEFINE s == op.server
  <2>1. s \in Servers /\ client[s].id > 0 /\ op.kind \in Callers \cup {"register"}
    BY UnderWay DEF ToolInv, Operation
  <2>2. /\ Tool!Send(op.kind, s, op.tool, "list", "list", TRUE)
        /\ known' = known \cup {s} /\ UNCHANGED <<cache, routes, replied>>
    BY <1>1 DEF Tool!HandshakeEnds
  <2>3. Clients' /\ Operation' /\ Wires'
    BY <2>1, <2>2, CarryKeeps
  <2>4. Tables'
    BY <2>1, <2>2 DEF ToolInv, Tables
  <2>5. Replies'
    BY <2>2 DEF ToolInv, Replies, Tool!AnswerIsOwn
  <2> QED
    BY <2>3, <2>4, <2>5 DEF ToolInv
<1>2. CASE ~ok
  BY <1>2, FailsKeeps DEF Tool!HandshakeEnds
<1> QED
  BY <1>1, <1>2

LEMMA ListEndsKeeps ==
    ASSUME ToolInv, NEW ok \in BOOLEAN, Tool!ListEnds(ok), PipesLeft, UNCHANGED offers, op # Tool!Free,
           op.step = "list"
    PROVE  ToolInv'
<1> DEFINE s == op.server
           tools == IF ok THEN offers[s] ELSE {}
<1>1. s \in Servers /\ client[s].id > 0 /\ op.kind \in Callers \cup {"register"} /\ s \in known
  BY UnderWay DEF ToolInv, Operation
<1>2. /\ cache' = [cache EXCEPT ![s] = tools]
      /\ routes' = [t \in Tools |-> IF t \in tools THEN s ELSE routes[t]]
      /\ UNCHANGED <<known, replied>>
  BY DEF Tool!ListEnds
<1>3. Tables'
  <2>1. tools \in SUBSET Tools
    BY <1>1 DEF ToolInv, Tables
  <2> HIDE DEF tools
  <2> QED
    BY <1>1, <1>2, <2>1 DEF ToolInv, Tables
<1>4. Replies'
  BY <1>2 DEF ToolInv, Replies, Tool!AnswerIsOwn
<1>5. Clients' /\ Operation' /\ Wires'
  <2>1. CASE op.kind = "register"
    <3>1. op' = Tool!Free /\ UNCHANGED <<client, todo>>
      BY <2>1 DEF Tool!ListEnds
    <3> QED
      BY <1>2, <3>1, FreeKeeps
  <2>2. CASE op.kind # "register"
    <3>1. Tool!Send(op.kind, s, op.tool, "call", op.kind, TRUE) /\ op.kind \in Callers
      BY <1>1, <2>2 DEF Tool!ListEnds
    <3> QED
      BY <1>1, <1>2, <3>1, CarryKeeps
  <2> QED
    BY <2>1, <2>2
<1> QED
  BY <1>3, <1>4, <1>5 DEF ToolInv

LEMMA CallEndsKeeps ==
    ASSUME ToolInv, NEW ok \in BOOLEAN, NEW what, Tool!CallEnds(ok, what), PipesLeft, UNCHANGED offers,
           op # Tool!Free, op.step = "call", ok => what = op.kind
    PROVE  ToolInv'
<1>1. CASE ok
  <2>1. /\ op' = Tool!Free /\ replied' = [replied EXCEPT ![op.kind] = op.kind]
        /\ UNCHANGED <<known, cache, routes, todo, client>>
    BY <1>1 DEF Tool!CallEnds, Tool!tables
  <2>2. Clients' /\ Operation' /\ Wires'
    BY <2>1, FreeKeeps
  <2>3. Tables'
    BY <2>1 DEF ToolInv, Tables
  <2>4. Replies'
    BY <2>1 DEF ToolInv, Replies, Tool!AnswerIsOwn
  <2> QED
    BY <2>2, <2>3, <2>4 DEF ToolInv
<1>2. CASE ~ok
  BY <1>2, FailsKeeps DEF Tool!CallEnds
<1> QED
  BY <1>1, <1>2

LEMMA StepEndsKeeps ==
    ASSUME ToolInv, NEW ok \in BOOLEAN, NEW what, Tool!StepEnds(ok, what), PipesLeft, UNCHANGED offers,
           op # Tool!Free, ok /\ op.step = "call" => what = op.kind
    PROVE  ToolInv'
BY HandshakeEndsKeeps, ListEndsKeeps, CallEndsKeeps DEF Tool!StepEnds

\* Lines come and go, and all else stays.
LEMMA WiresMove ==
    ASSUME ToolInv, UNCHANGED <<known, cache, routes, client, op, replied>>,
           offers' \in [Servers -> SUBSET Tools],
           DOMAIN todo' = Servers, DOMAIN pipe' = Servers,
           \A s \in Servers : /\ todo'[s] \in Seq(Fit(s)) /\ pipe'[s] \in Seq(Fit(s))
                              /\ s \in Http => todo'[s] = <<>> /\ pipe'[s] = <<>>
    PROVE  ToolInv'
<1>1. Tables' /\ Replies'
  BY DEF ToolInv, Tables, Replies, Tool!AnswerIsOwn
<1>2. Clients'
  BY DEF ToolInv, Clients, Tool!Connected
<1>3. Operation'
  BY DEF ToolInv, Operation
<1>4. \A s : Fit(s)' = Fit(s)
  BY DEF Fit, Awaits
<1>5. Wires'
  BY <1>4 DEF Wires
<1> QED
  BY <1>1, <1>2, <1>3, <1>5 DEF ToolInv

LEMMA ReadLineKeeps == ASSUME ToolInv, Tool!ReadLine PROVE ToolInv'
<1> DEFINE s == op.server
           line == pipe[s][1]
<1>1. /\ op # Tool!Free /\ pipe[s] # <<>> /\ pipe' = [pipe EXCEPT ![s] = Tail(@)] /\ UNCHANGED offers
  BY DEF Tool!ReadLine
<1>2. s \in Servers
  BY <1>1, UnderWay
<1>3. pipe[s] \in Seq(Fit(s)) /\ DOMAIN pipe = Servers
  BY <1>2 DEF ToolInv, Wires
<1>4. line \in Fit(s) /\ Tail(pipe[s]) \in Seq(Fit(s))
  <2> HIDE DEF s
  <2>1. \A q \in Seq(Fit(s)) : q # <<>> => q[1] \in Fit(s) /\ Tail(q) \in Seq(Fit(s))
    BY HeadTailProperties, ElementOfSeq, EmptySeq
  <2> QED
    BY <1>1, <1>3, <2>1
<1>5. PipesLeft
  <2>1. s \in Http => FALSE
    BY <1>1, <1>2 DEF ToolInv, Wires
  <2>2. /\ DOMAIN pipe' = Servers /\ pipe'[s] = Tail(pipe[s])
        /\ \A u \in Servers \ {s} : pipe'[u] = pipe[u]
    BY <1>1, <1>2, <1>3
  <2> QED
    BY <1>4, <2>1, <2>2 DEF ToolInv, Wires, PipesLeft
<1>6. CASE line.what = "garbage"
  <2>1. Tool!StepEnds(FALSE, Tool!None)
    BY <1>6 DEF Tool!ReadLine
  <2> QED
    BY <1>1, <1>5, <2>1, StepEndsKeeps
<1>7. CASE line.what # "garbage" /\ Tool!IsAnswer(line)
  <2>1. Tool!StepEnds(TRUE, line.what)
    BY <1>7 DEF Tool!ReadLine
  <2>2. op.step = "call" => line.what = op.kind
    BY <1>4, <1>7 DEF Tool!IsAnswer, Fit, FitFor, Awaits
  <2> QED
    BY <1>1, <1>5, <2>1, <2>2, StepEndsKeeps
<1>8. CASE line.what # "garbage" /\ ~Tool!IsAnswer(line)
  <2>1. UNCHANGED <<known, cache, routes, client, todo, op, replied>>
    BY <1>8 DEF Tool!ReadLine, Tool!tables
  <2> QED
    BY <1>1, <1>5, <2>1, WiresMove DEF PipesLeft, ToolInv, Wires, Tables
<1> QED
  BY <1>6, <1>7, <1>8

LEMMA ServerAnswerKeeps == ASSUME ToolInv, NEW s \in Servers, Tool!Answer(s) PROVE ToolInv'
<1>1. /\ todo[s] # <<>> /\ pipe' = [pipe EXCEPT ![s] = Append(@, Head(todo[s]))]
      /\ todo' = [todo EXCEPT ![s] = Tail(@)]
      /\ UNCHANGED <<known, cache, routes, client, offers, op, replied>>
  BY DEF Tool!Answer, Tool!tables
<1>2. \A q \in Seq(Fit(s)) : q # <<>> => Head(q) \in Fit(s) /\ Tail(q) \in Seq(Fit(s))
  BY HeadTailProperties, EmptySeq
<1>3. /\ DOMAIN todo = Servers /\ DOMAIN pipe = Servers
      /\ todo[s] \in Seq(Fit(s)) /\ pipe[s] \in Seq(Fit(s)) /\ (s \in Http => todo[s] = <<>>)
  BY DEF ToolInv, Wires
<1>4. Tail(todo[s]) \in Seq(Fit(s)) /\ Append(pipe[s], Head(todo[s])) \in Seq(Fit(s))
  BY <1>1, <1>2, <1>3, AppendProperties
<1>5. s \notin Http
  BY <1>1, <1>3
<1>6. /\ DOMAIN todo' = Servers /\ DOMAIN pipe' = Servers
      /\ todo'[s] = Tail(todo[s]) /\ pipe'[s] = Append(pipe[s], Head(todo[s]))
      /\ \A u \in Servers \ {s} : todo'[u] = todo[u] /\ pipe'[u] = pipe[u]
  BY <1>1, <1>3
<1>7. \A u \in Servers : /\ todo'[u] \in Seq(Fit(u)) /\ pipe'[u] \in Seq(Fit(u))
                         /\ u \in Http => todo'[u] = <<>> /\ pipe'[u] = <<>>
  BY <1>4, <1>5, <1>6 DEF ToolInv, Wires
<1>8. offers' \in [Servers -> SUBSET Tools]
  BY <1>1 DEF ToolInv, Tables
<1> QED
  BY <1>1, <1>6, <1>7, <1>8, WiresMove

LEMMA NoiseKeeps ==
    ASSUME ToolInv, NEW s \in Servers, NEW what \in {"note", "garbage"}, Tool!Noise(s, what)
    PROVE  ToolInv'
<1> DEFINE line == [id |-> 0, what |-> what]
<1>1. /\ s \notin Http /\ pipe' = [pipe EXCEPT ![s] = Append(@, line)]
      /\ UNCHANGED <<known, cache, routes, client, todo, offers, op, replied>>
  BY DEF Tool!Noise, Tool!tables
<1>2. client[s].id \in Nat /\ (Awaits(s) => client[s].id > 0)
  BY NodeAssumption DEF NodeAssumption, ToolInv, Operation, Clients, Awaits, Tool!Free, Tool!None
<1>3. line \in Fit(s)
  BY <1>2 DEF Fit, FitFor, Lines
<1>4. DOMAIN todo = Servers /\ DOMAIN pipe = Servers /\ pipe[s] \in Seq(Fit(s))
  BY DEF ToolInv, Wires
<1>5. Append(pipe[s], line) \in Seq(Fit(s))
  BY <1>3, <1>4, AppendProperties
<1>6. /\ DOMAIN todo' = Servers /\ DOMAIN pipe' = Servers /\ pipe'[s] = Append(pipe[s], line)
      /\ \A u \in Servers \ {s} : pipe'[u] = pipe[u]
  BY <1>1, <1>4
<1>7. \A u \in Servers : /\ todo'[u] \in Seq(Fit(u)) /\ pipe'[u] \in Seq(Fit(u))
                         /\ u \in Http => todo'[u] = <<>> /\ pipe'[u] = <<>>
  BY <1>1, <1>5, <1>6 DEF ToolInv, Wires
<1>8. offers' \in [Servers -> SUBSET Tools]
  BY <1>1 DEF ToolInv, Tables
<1> QED
  BY <1>1, <1>6, <1>7, <1>8, WiresMove

LEMMA DieKeeps == ASSUME ToolInv, NEW s \in Servers, Tool!Die(s) PROVE ToolInv'
<1>1. /\ client' = [client EXCEPT ![s].alive = FALSE] /\ todo' = [todo EXCEPT ![s] = <<>>]
      /\ UNCHANGED <<known, cache, routes, pipe, offers, op, replied>>
  BY DEF Tool!Die, Tool!tables
<1>2. client \in [Servers -> [alive : BOOLEAN, ready : BOOLEAN, id : Nat]]
  BY DEF ToolInv, Clients
<1>3. /\ client' \in [Servers -> [alive : BOOLEAN, ready : BOOLEAN, id : Nat]]
      /\ ~client'[s].alive /\ \A u \in Servers : client'[u].id = client[u].id
      /\ \A u \in Servers \ {s} : client'[u] = client[u]
  BY <1>1, <1>2
<1>4. Clients'
  <2> SUFFICES ASSUME NEW u \in Servers
               PROVE  (client'[u].alive => client'[u].id > 0) /\ (Tool!Connected(u)' => u \in known')
    BY <1>3 DEF Clients
  <2>1. (client[u].alive => client[u].id > 0) /\ (Tool!Connected(u) => u \in known)
    BY DEF ToolInv, Clients
  <2> QED
    BY <1>1, <1>3, <2>1 DEF Tool!Connected
<1>5. Tables' /\ Replies'
  BY <1>1 DEF ToolInv, Tables, Replies, Tool!AnswerIsOwn
<1>6. Operation'
  BY <1>1, <1>3 DEF ToolInv, Operation
<1>7. \A u \in Servers : Fit(u)' = Fit(u)
  BY <1>1, <1>3 DEF Fit, Awaits
<1>8. /\ DOMAIN todo' = Servers /\ DOMAIN pipe' = Servers
      /\ \A u \in Servers : (todo'[u] = todo[u] \/ todo'[u] = <<>>) /\ pipe'[u] = pipe[u]
  BY <1>1 DEF ToolInv, Wires
<1>9. Wires'
  <2>1. ASSUME NEW u \in Servers
        PROVE  /\ todo'[u] \in Seq(Fit(u)') /\ pipe'[u] \in Seq(Fit(u)')
               /\ u \in Http => todo'[u] = <<>> /\ pipe'[u] = <<>>
    <3>1. /\ todo[u] \in Seq(Fit(u)) /\ pipe[u] \in Seq(Fit(u))
          /\ u \in Http => todo[u] = <<>> /\ pipe[u] = <<>>
      BY DEF ToolInv, Wires
    <3>2. <<>> \in Seq(Fit(u)')
      OBVIOUS
    <3> QED
      BY <1>7, <1>8, <3>1, <3>2
  <2> QED
    BY <1>8, <2>1 DEF Wires
<1> QED
  BY <1>4, <1>5, <1>6, <1>9 DEF ToolInv

\* No call goes to a server that is forgotten.
LEMMA ForgetKeeps == ASSUME ToolInv, NEW s \in Servers, Tool!Forget(s), UNCHANGED offers PROVE Tables'
<1>1. /\ known' = known \ {s} /\ cache' = [cache EXCEPT ![s] = {}]
      /\ routes' = [t \in Tools |-> IF routes[t] = s THEN Tool!None ELSE routes[t]]
  BY DEF Tool!Forget, Tool!Without
<1> QED
  BY <1>1 DEF ToolInv, Tables

LEMMA UnregisterKeeps == ASSUME ToolInv, NEW s \in Servers, Tool!Unregister(s) PROVE ToolInv'
<1>1. /\ op = Tool!Free /\ Tool!Forget(s) /\ client' = [client EXCEPT ![s] = Tool!Gone]
      /\ todo' = [todo EXCEPT ![s] = <<>>] /\ pipe' = [pipe EXCEPT ![s] = <<>>]
      /\ UNCHANGED <<offers, op, replied>> /\ known' = known \ {s}
  BY DEF Tool!Unregister, Tool!Forget
<1>2. Tables'
  BY <1>1, ForgetKeeps
<1>3. Replies' /\ Operation'
  BY <1>1 DEF ToolInv, Replies, Tool!AnswerIsOwn, Operation
<1>4. client \in [Servers -> [alive : BOOLEAN, ready : BOOLEAN, id : Nat]]
  BY DEF ToolInv, Clients
<1>5. /\ client' \in [Servers -> [alive : BOOLEAN, ready : BOOLEAN, id : Nat]]
      /\ client'[s] = Tool!Gone /\ \A u \in Servers \ {s} : client'[u] = client[u]
  BY <1>1, <1>4 DEF Tool!Gone
<1>6. Clients'
  <2> SUFFICES ASSUME NEW u \in Servers
               PROVE  (client'[u].alive => client'[u].id > 0) /\ (Tool!Connected(u)' => u \in known')
    BY <1>5 DEF Clients
  <2>1. (client[u].alive => client[u].id > 0) /\ (Tool!Connected(u) => u \in known)
    BY DEF ToolInv, Clients
  <2> QED
    BY <1>1, <1>5, <2>1 DEF Tool!Connected, Tool!Gone
<1>7. \A u \in Servers \ {s} : Fit(u)' = Fit(u)
  BY <1>1, <1>5 DEF Fit, Awaits
<1>8. /\ DOMAIN todo' = Servers /\ DOMAIN pipe' = Servers /\ todo'[s] = <<>> /\ pipe'[s] = <<>>
      /\ \A u \in Servers \ {s} : todo'[u] = todo[u] /\ pipe'[u] = pipe[u]
  BY <1>1 DEF ToolInv, Wires
<1>9. Wires'
  <2>1. ASSUME NEW u \in Servers
        PROVE  /\ todo'[u] \in Seq(Fit(u)') /\ pipe'[u] \in Seq(Fit(u)')
               /\ u \in Http => todo'[u] = <<>> /\ pipe'[u] = <<>>
    <3>1. /\ todo[u] \in Seq(Fit(u)) /\ pipe[u] \in Seq(Fit(u))
          /\ u \in Http => todo[u] = <<>> /\ pipe[u] = <<>>
      BY DEF ToolInv, Wires
    <3>2. <<>> \in Seq(Fit(u)')
      OBVIOUS
    <3> QED
      BY <1>7, <1>8, <3>1, <3>2
  <2> QED
    BY <1>8, <2>1 DEF Wires
<1> QED
  BY <1>2, <1>3, <1>6, <1>9 DEF ToolInv

LEMMA RegisterKeeps == ASSUME ToolInv, NEW s \in Servers, Tool!Register(s) PROVE ToolInv'
<1>1. /\ op = Tool!Free /\ Tool!Forget(s) /\ Tool!Connect("register", s, Tool!None)
      /\ UNCHANGED <<offers, replied>> /\ known' = known \ {s}
  BY DEF Tool!Register, Tool!Forget
<1>2. Tables'
  BY <1>1, ForgetKeeps
<1>3. Replies'
  BY <1>1 DEF ToolInv, Replies, Tool!AnswerIsOwn
<1>4. Clients' /\ Operation' /\ Wires'
  BY <1>1, ConnectKeeps
<1> QED
  BY <1>2, <1>3, <1>4 DEF ToolInv

LEMMA CallToolKeeps ==
    ASSUME ToolInv, NEW c \in Callers, NEW t \in Tools, NEW s \in Servers \cup {Tool!None}, Tool!CallTool(c, t, s)
    PROVE  ToolInv'
<1> DEFINE to == IF s # Tool!None THEN s ELSE routes[t]
<1>1. op = Tool!Free /\ UNCHANGED <<known, cache, routes, offers>>
  BY DEF Tool!CallTool, Tool!tables
<1>2. Tables'
  BY <1>1 DEF ToolInv, Tables
<1>3. CASE to \notin known
  <2>1. replied' = [replied EXCEPT ![c] = "error"] /\ UNCHANGED <<op, client, todo, pipe>>
    BY <1>3 DEF Tool!CallTool, Tool!wires
  <2>2. Replies'
    BY <2>1 DEF ToolInv, Replies, Tool!AnswerIsOwn
  <2>3. Clients' /\ Operation' /\ Wires'
    BY <1>1, <2>1, FreeKeeps, PipesStay
  <2> QED
    BY <1>2, <2>2, <2>3 DEF ToolInv
<1>4. CASE to \in known
  <2>1. UNCHANGED replied
    BY <1>4 DEF Tool!CallTool
  <2>2. Replies'
    BY <2>1 DEF ToolInv, Replies, Tool!AnswerIsOwn
  <2>3. to \in Servers
    BY <1>4 DEF ToolInv, Tables
  <2>4. CASE Tool!Connected(to)
    <3>1. Tool!Send(c, to, t, "call", c, TRUE) /\ UNCHANGED pipe
      BY <1>4, <2>4 DEF Tool!CallTool
    <3>2. client[to].id > 0
      BY <2>3, <2>4 DEF ToolInv, Clients, Tool!Connected
    <3>3. Clients' /\ Operation' /\ Wires'
      <4> HIDE DEF to
      <4> QED
        BY <1>1, <1>4, <2>3, <3>1, <3>2, PipesStay, CarryKeeps
    <3> QED
      BY <1>2, <2>2, <3>3 DEF ToolInv
  <2>5. CASE ~Tool!Connected(to)
    <3>1. Tool!Connect(c, to, t)
      BY <1>4, <2>5 DEF Tool!CallTool
    <3>2. Clients' /\ Operation' /\ Wires'
      <4> HIDE DEF to
      <4> QED
        BY <1>1, <2>3, <3>1, ConnectKeeps
    <3> QED
      BY <1>2, <2>2, <3>2 DEF ToolInv
  <2> QED
    BY <2>4, <2>5
<1> QED
  BY <1>3, <1>4

LEMMA ToolStep == ASSUME ToolInv, Tool!Next PROVE ToolInv'
<1>1. CASE Tool!ReadLine
  BY <1>1, ReadLineKeeps
<1>2. CASE Tool!EndOfFile
  BY <1>2, StepEndsKeeps, PipesStay DEF Tool!EndOfFile
<1>3. ASSUME NEW ok \in BOOLEAN, Tool!HttpAnswer(ok) PROVE ToolInv'
  <2>1. op # Tool!Free
    BY <1>3, NodeAssumption DEF NodeAssumption, Tool!HttpAnswer, Tool!Free, Tool!None
  <2> QED
    BY <1>3, <2>1, StepEndsKeeps, PipesStay DEF Tool!HttpAnswer
<1>4. ASSUME NEW s \in Servers, NEW tools \in SUBSET Tools, Tool!ChangeTools(s, tools) PROVE ToolInv'
  <2>1. /\ offers' = [offers EXCEPT ![s] = tools]
        /\ UNCHANGED <<known, cache, routes, client, todo, pipe, op, replied>>
    BY <1>4 DEF Tool!ChangeTools, Tool!tables, Tool!wires
  <2>2. offers' \in [Servers -> SUBSET Tools]
    BY <2>1 DEF ToolInv, Tables
  <2> QED
    BY <2>1, <2>2, WiresMove DEF ToolInv, Wires
<1> QED
  BY <1>1, <1>2, <1>3, <1>4, ServerAnswerKeeps, NoiseKeeps, DieKeeps, RegisterKeeps, UnregisterKeeps, CallToolKeeps
     DEF Tool!Next

LEMMA ToolRests == ASSUME ToolInv, UNCHANGED toolVars PROVE ToolInv'
<1>1. UNCHANGED <<known, cache, routes, client, todo, pipe, offers, op, replied>>
  BY DEF toolVars
<1> QED
  BY <1>1, WiresMove DEF ToolInv, Wires, Tables

LEMMA ToolImplies == ToolInv => Tool!TypeOK /\ Tool!AnswerIsOwn /\ Tool!RoutesLead
<1> SUFFICES ASSUME ToolInv PROVE Tool!TypeOK /\ Tool!AnswerIsOwn /\ Tool!RoutesLead
  OBVIOUS
<1>1. Tool!TypeOK
  BY NodeAssumption DEF NodeAssumption, ToolInv, Tables, Wires, Tool!TypeOK
<1> QED
  BY <1>1 DEF ToolInv, Replies, Tables, Clients, Tool!RoutesLead

\* A subtask's model is asked with its own knowledge and charged to its own task, whatever runs
\* beside it, and a caller of a tool gets the answer to its own call (agent_runtime,
\* MCPGateway.call_tool, MCPClient._request).
THEOREM AgentsAreSound == NodeSpec => []AgentsSound
<1>1. NodeInit => RunInv /\ ToolInv
  BY RunInit, ToolInit DEF NodeInit
<1>2. RunInv /\ [NodeNext]_nodeVars => RunInv'
  BY RunStep, RunRests DEF NodeNext, nodeVars
<1>3. ToolInv /\ [NodeNext]_nodeVars => ToolInv'
  BY ToolStep, ToolRests DEF NodeNext, nodeVars
<1>4. RunInv /\ ToolInv => AgentsSound
  BY RunImplies, ToolImplies DEF AgentsSound
<1> QED
  BY <1>1, <1>2, <1>3, <1>4, PTL DEF NodeSpec

-----------------------------------------------------------------------------
(* Copies of the station's files.                                          *)

Contents == [Stores -> Nat]
Makes ==
    [pc : {"idle", "before", "turn", "copy", "after", "compare", "publish", "write"},
     left : SUBSET Stores, before : Contents, copy : Contents, after : Contents]

SourceTypes ==
    /\ source \in Contents /\ writes \in Nat /\ source \in seen
    /\ \A f \in Stores : source[f] <= writes + 1

\* In what follows m is the backup under way, c the sources and w how often they were written,
\* S what they have been and R the files that were made again.
OneMoment(S, R, x) == \E s \in S : \A f \in Stores : s[f] = x[f] \/ (x[f] = 0 /\ f \in R)

\* A file that was looked at first, or copied, or looked at again.
FirstLook(m, f)  == m.pc # "before" \/ f \notin m.left
CopyMade(m, f)   == m.pc \in {"after", "compare"} \/ (m.pc = "copy" /\ f \notin m.left)
SecondLook(m, f) == m.pc = "compare" \/ (m.pc = "after" /\ f \notin m.left)

\* A file that was missing has been missing since, or was made again.
Looked(m, c, w, R) ==
    \A f \in Stores :
        /\ m.before[f] <= w + 1
        /\ FirstLook(m, f) /\ m.before[f] = 0 => c[f] = 0 \/ f \in R

\* What is still as it was at the first look, or was so at the second, is in s too.
Steady(s, m, c, R) ==
    \A f \in Stores :
        /\ m.before[f] # 0 /\ c[f] = m.before[f] => s[f] = m.before[f]
        /\ m.before[f] # 0 /\ SecondLook(m, f) /\ m.after[f] = m.before[f] => s[f] = m.before[f]
        /\ m.before[f] = 0 => s[f] = 0 \/ f \in R

\* The copy of such a file holds just that.
Copying(m, c) ==
    \A f \in Stores :
        /\ m.before[f] = 0 => m.copy[f] = 0 /\ (m.pc = "copy" => f \notin m.left)
        /\ CopyMade(m, f) /\ m.before[f] # 0 /\ c[f] = m.before[f] => m.copy[f] = m.before[f]
        /\ m.before[f] # 0 /\ SecondLook(m, f) /\ m.after[f] = m.before[f] => m.copy[f] = m.before[f]

Making(m, c, w, S, R) ==
    /\ m \in Makes
    /\ m.pc \in {"turn", "compare"} => m.left = {}
    /\ m.pc \in {"before", "turn", "copy", "after", "compare"} => Looked(m, c, w, R)
    /\ m.pc \in {"before", "turn"} => m.copy = Copy!Nothing
    /\ m.pc \in {"copy", "after", "compare"} => Copying(m, c) /\ \E s \in S : Steady(s, m, c, R)
    /\ m.pc \in {"publish", "write"} => OneMoment(S, R, m.copy)

Archived ==
    /\ DOMAIN archive = {"content", "whole", "there"}
    /\ archive.whole => archive.there /\ OneMoment(seen, remade, archive.content)

Extracting ==
    /\ target.there /\ OneMoment(seen, remade, undo.pinned)
    /\ DOMAIN undo = {"pc", "left", "pinned"} /\ undo.left \subseteq Stores
    /\ undo.pc = "mark" =>
           undo.left = {f \in Stores : undo.pinned[f] # 0} /\ \A f \in Stores : target.content[f] = 0
    /\ undo.pc = "extract" =>
           target.marker /\ \A f \in Stores : target.content[f] = IF f \in undo.left THEN 0 ELSE undo.pinned[f]

Undoing ==
    /\ DOMAIN target = {"there", "marker", "content"} /\ DOMAIN target.content = Stores
    /\ target.marker => target.there
    /\ ~target.there => \A f \in Stores : target.content[f] = 0
    /\ undo.pc \in {"idle", "mark", "extract"}
    /\ undo.pc = "idle" => \/ \A f \in Stores : target.content[f] = 0
                           \/ target.marker
                           \/ OneMoment(seen, remade, target.content)
    /\ undo.pc # "idle" => Extracting

CopyInv == SourceTypes /\ Making(make, source, writes, seen, remade) /\ Archived /\ Undoing

LEMMA NothingThere == Copy!Nothing \in Contents /\ \A f \in Stores : Copy!Nothing[f] = 0
BY DEF Copy!Nothing, Contents

LEMMA NotMakingIs ==
    \A c, w, S, R : Making(Copy!NotMaking, c, w, S, R)
BY NothingThere DEF Making, Makes, Copy!NotMaking

LEMMA CopyInit == Copy!Init => CopyInv
<1> SUFFICES ASSUME Copy!Init PROVE CopyInv
  OBVIOUS
<1>1. SourceTypes
  BY DEF Copy!Init, SourceTypes, Contents
<1>2. Making(make, source, writes, seen, remade)
  BY NotMakingIs DEF Copy!Init
<1>3. Archived
  BY DEF Copy!Init, Archived, Copy!NoArchive
<1>4. Undoing
  BY NothingThere DEF Copy!Init, Undoing, Copy!NotUndoing, Contents
<1> QED
  BY <1>1, <1>2, <1>3, <1>4 DEF CopyInv

\* What was so at one moment remains so.
LEMMA Moments ==
    \A S, T, R, Q, x : S \subseteq T /\ R \subseteq Q /\ OneMoment(S, R, x) => OneMoment(T, Q, x)
BY DEF OneMoment

\* The archive and the restoration rest while the sources go on.
LEMMA KeptRest ==
    ASSUME CopyInv, UNCHANGED <<archive, undo, target>>, seen \subseteq seen', remade \subseteq remade'
    PROVE  Archived' /\ Undoing'
<1>1. Archived'
  BY Moments DEF CopyInv, Archived
<1>2. Undoing'
  <2>1. undo.pc # "idle" => Extracting'
    BY Moments DEF CopyInv, Undoing, Extracting
  <2> QED
    BY <2>1, Moments DEF CopyInv, Undoing
<1> QED
  BY <1>1, <1>2

\* A content that is new is none that was seen before.
LEMMA NewContent ==
    \A w, n, b, c \in Nat : (n = 0 \/ n = w + 2) /\ b <= w + 1 /\ c <= w + 1 =>
        /\ n <= (w + 1) + 1 /\ c <= (w + 1) + 1 /\ b <= (w + 1) + 1 /\ w + 1 \in Nat
        /\ b # 0 /\ n = b => FALSE
OBVIOUS

LEMMA CopyWriteKeeps == ASSUME CopyInv, NEW f \in Stores, NEW removed \in BOOLEAN, Copy!Write(f, removed) PROVE CopyInv'
<1> DEFINE n == IF removed THEN 0 ELSE writes + 2
           m == make
<1>1. /\ writes' = writes + 1 /\ source' = [source EXCEPT ![f] = n]
      /\ seen' = seen \cup {source'}
      /\ remade' = IF source[f] = 0 /\ ~removed THEN remade \cup {f} ELSE remade
      /\ UNCHANGED <<make, archive, undo, target>>
  BY DEF Copy!Write
<1>2. /\ source \in Contents /\ writes \in Nat /\ \A g \in Stores : source[g] \in Nat /\ source[g] <= writes + 1
      /\ n \in Nat /\ (n = 0 \/ n = writes + 2)
  BY DEF CopyInv, SourceTypes, Contents
<1>3. n # 0 /\ source[f] = 0 => f \in remade'
  BY <1>1
<1> HIDE DEF n
<1>4. /\ source' \in Contents /\ source'[f] = n /\ \A g \in Stores \ {f} : source'[g] = source[g]
  BY <1>1, <1>2 DEF Contents
<1>5. seen \subseteq seen' /\ remade \subseteq remade' /\ source' \in seen'
  BY <1>1
<1>6. SourceTypes'
  <2> SUFFICES ASSUME NEW g \in Stores PROVE source'[g] <= writes' + 1
    BY <1>1, <1>2, <1>4, <1>5 DEF SourceTypes
  <2>1. CASE g = f
    BY <1>1, <1>2, <1>4, <2>1
  <2>2. CASE g # f
    BY <1>1, <1>2, <1>4, <2>2
  <2> QED
    BY <2>1, <2>2
<1>7. m \in Makes /\ \A g \in Stores : m.before[g] \in Nat
  BY DEF CopyInv, Making, Makes, Contents
<1>8. ASSUME Looked(m, source, writes, remade) PROVE Looked(m, source', writes', remade')
  <2> SUFFICES ASSUME NEW g \in Stores
               PROVE  /\ m.before[g] <= writes' + 1
                      /\ FirstLook(m, g) /\ m.before[g] = 0 => source'[g] = 0 \/ g \in remade'
    BY DEF Looked
  <2>1. /\ m.before[g] <= writes + 1
        /\ FirstLook(m, g) /\ m.before[g] = 0 => source[g] = 0 \/ g \in remade
    BY <1>8 DEF Looked
  <2>2. m.before[g] <= writes' + 1
    BY <1>1, <1>2, <1>7, <2>1
  <2> QED
    BY <1>3, <1>4, <1>5, <2>1, <2>2
<1>9. ASSUME Looked(m, source, writes, remade), NEW g \in Stores, m.before[g] # 0, source'[g] = m.before[g]
      PROVE  source[g] = m.before[g]
  <2>1. m.before[g] <= writes + 1
    BY <1>9 DEF Looked
  <2>2. CASE g = f
    <3>1. n = m.before[g]
      BY <1>4, <1>9, <2>2
    <3> QED
      BY <1>2, <1>7, <1>9, <2>1, <3>1
  <2>3. CASE g # f
    BY <1>4, <1>9, <2>3
  <2> QED
    BY <2>2, <2>3
<1>10. ASSUME Looked(m, source, writes, remade), NEW s, Steady(s, m, source, remade)
       PROVE  Steady(s, m, source', remade')
  BY <1>5, <1>9, <1>10 DEF Steady
<1>11. ASSUME Looked(m, source, writes, remade), Copying(m, source)
       PROVE  Copying(m, source')
  BY <1>9, <1>11 DEF Copying
<1>12. Making(m, source', writes', seen', remade')
  BY <1>5, <1>8, <1>10, <1>11, Moments DEF CopyInv, Making
<1>13. Archived' /\ Undoing'
  BY <1>1, <1>5, KeptRest
<1> QED
  BY <1>1, <1>6, <1>12, <1>13 DEF CopyInv

\* A step of the backup alone.
LEMMA MakeMoves ==
    ASSUME CopyInv, UNCHANGED <<source, writes, seen, remade, archive, undo, target>>,
           Making(make', source, writes, seen, remade)
    PROVE  CopyInv'
<1>1. SourceTypes'
  BY DEF CopyInv, SourceTypes
<1>2. Archived' /\ Undoing'
  BY KeptRest
<1> QED
  BY <1>1, <1>2 DEF CopyInv

LEMMA BeginKeeps == ASSUME CopyInv, Copy!Begin PROVE CopyInv'
<1> DEFINE m == [Copy!NotMaking EXCEPT !.pc = "before", !.left = Stores]
<1>1. make' = m /\ UNCHANGED <<source, writes, seen, remade, archive, undo, target>>
  BY DEF Copy!Begin
<1>2. m \in Makes /\ m.pc = "before" /\ m.left = Stores /\ m.copy = Copy!Nothing /\ m.before = Copy!Nothing
  BY NothingThere DEF Makes, Copy!NotMaking
<1>3. writes \in Nat
  BY DEF CopyInv, SourceTypes
<1> HIDE DEF m
<1>4. Looked(m, source, writes, remade)
  BY <1>2, <1>3, NothingThere DEF Looked, FirstLook
<1>5. Making(m, source, writes, seen, remade)
  BY <1>2, <1>4 DEF Making
<1> QED
  BY <1>1, <1>5, MakeMoves

LEMMA FirstVisitKeeps ==
    ASSUME CopyInv, NEW f \in Stores, Copy!Visit(f), make.pc = "before"
    PROVE  CopyInv'
<1> DEFINE pc == IF make.left = {f} THEN "turn" ELSE make.pc
           m == [make EXCEPT !.before = [make.before EXCEPT ![f] = source[f]], !.left = make.left \ {f}, !.pc = pc]
<1>1. /\ f \in make.left /\ make' = m
      /\ UNCHANGED <<source, writes, seen, remade, archive, undo, target>>
  BY DEF Copy!Visit
<1>2. make \in Makes /\ source \in Contents /\ source[f] <= writes + 1 /\ writes \in Nat
  BY DEF CopyInv, Making, SourceTypes
<1>3. m.pc \in {"before", "turn"} /\ (m.pc = "turn" => m.left = {}) /\ m.left = make.left \ {f}
  BY <1>2 DEF Makes
<1>4. /\ m \in Makes /\ m.copy = make.copy
      /\ m.before[f] = source[f] /\ \A g \in Stores \ {f} : m.before[g] = make.before[g]
  BY <1>2 DEF Makes, Contents
<1>5. m.copy = Copy!Nothing /\ Looked(make, source, writes, remade)
  BY <1>4 DEF CopyInv, Making
<1> HIDE DEF m
<1>6. Looked(m, source, writes, remade)
  <2> SUFFICES ASSUME NEW g \in Stores
               PROVE  /\ m.before[g] <= writes + 1
                      /\ FirstLook(m, g) /\ m.before[g] = 0 => source[g] = 0 \/ g \in remade
    BY DEF Looked
  <2>1. CASE g = f
    BY <1>2, <1>4, <2>1
  <2>2. CASE g # f
    <3>1. FirstLook(m, g) => FirstLook(make, g)
      BY <1>3, <2>2 DEF FirstLook
    <3> QED
      BY <1>4, <1>5, <2>2, <3>1 DEF Looked
  <2> QED
    BY <2>1, <2>2
<1>7. Making(m, source, writes, seen, remade)
  BY <1>3, <1>4, <1>5, <1>6 DEF Making
<1> QED
  BY <1>1, <1>7, MakeMoves

LEMMA SecondVisitKeeps ==
    ASSUME CopyInv, NEW f \in Stores, Copy!Visit(f), make.pc # "before"
    PROVE  CopyInv'
<1> DEFINE pc == IF make.left = {f} THEN "compare" ELSE make.pc
           m == [make EXCEPT !.after = [make.after EXCEPT ![f] = source[f]], !.left = make.left \ {f}, !.pc = pc]
<1>1. /\ make.pc = "after" /\ f \in make.left /\ make' = m
      /\ UNCHANGED <<source, writes, seen, remade, archive, undo, target>>
  BY DEF Copy!Visit
<1>2. make \in Makes /\ source \in Contents
  BY DEF CopyInv, Making, SourceTypes
<1>3. m.pc \in {"after", "compare"} /\ (m.pc = "compare" => m.left = {}) /\ m.left = make.left \ {f}
  BY <1>1, <1>2 DEF Makes
<1>4. /\ m \in Makes /\ m.copy = make.copy /\ m.before = make.before
      /\ m.after[f] = source[f] /\ \A g \in Stores \ {f} : m.after[g] = make.after[g]
  BY <1>1, <1>2 DEF Makes, Contents
<1>5. Looked(make, source, writes, remade) /\ Copying(make, source)
  BY <1>1 DEF CopyInv, Making
<1>6. PICK s \in seen : Steady(s, make, source, remade)
  BY <1>1 DEF CopyInv, Making
<1>7. /\ \A g \in Stores \ {f} : SecondLook(m, g) => SecondLook(make, g)
      /\ \A g \in Stores : CopyMade(make, g) /\ FirstLook(make, g)
  BY <1>1, <1>3 DEF SecondLook, CopyMade, FirstLook
<1> HIDE DEF m
<1>8. Looked(m, source, writes, remade)
  BY <1>4, <1>5, <1>7 DEF Looked
<1>9. Steady(s, m, source, remade)
  BY <1>4, <1>6, <1>7 DEF Steady
<1>10. Copying(m, source)
  BY <1>3, <1>4, <1>5, <1>7 DEF Copying
<1>11. Making(m, source, writes, seen, remade)
  BY <1>3, <1>4, <1>8, <1>9, <1>10 DEF Making
<1> QED
  BY <1>1, <1>11, MakeMoves

LEMMA StartCopyingKeeps == ASSUME CopyInv, Copy!StartCopying PROVE CopyInv'
<1> DEFINE m == [make EXCEPT !.pc = "copy", !.left = {f \in Stores : make.before[f] # 0}]
<1>1. make.pc = "turn" /\ make' = m /\ UNCHANGED <<source, writes, seen, remade, archive, undo, target>>
  BY DEF Copy!StartCopying
<1>2. make \in Makes /\ source \in seen
  BY DEF CopyInv, Making, SourceTypes
<1>3. /\ m \in Makes /\ m.pc = "copy" /\ m.copy = make.copy /\ m.before = make.before
      /\ m.left = {f \in Stores : make.before[f] # 0}
  BY <1>1, <1>2 DEF Makes
<1>4. make.copy = Copy!Nothing /\ Looked(make, source, writes, remade)
  BY <1>1 DEF CopyInv, Making
<1> HIDE DEF m
<1>5. Looked(m, source, writes, remade)
  BY <1>1, <1>3, <1>4 DEF Looked, FirstLook
<1>6. Copying(m, source)
  BY <1>3, <1>4, NothingThere DEF Copying, CopyMade, SecondLook
<1>7. Steady(source, m, source, remade)
  BY <1>1, <1>3, <1>4 DEF Steady, SecondLook, Looked, FirstLook
<1>8. Making(m, source, writes, seen, remade)
  BY <1>2, <1>3, <1>5, <1>6, <1>7 DEF Making
<1> QED
  BY <1>1, <1>8, MakeMoves

LEMMA GivenUp ==
    ASSUME CopyInv, make' = Copy!NotMaking, UNCHANGED <<source, writes, seen, remade, archive, undo, target>>
    PROVE  CopyInv'
<1>1. Making(make', source, writes, seen, remade)
  BY NotMakingIs
<1> QED
  BY <1>1, MakeMoves

LEMMA CopyFileKeeps == ASSUME CopyInv, NEW f \in Stores, Copy!Copy(f) PROVE CopyInv'
<1> DEFINE m == [make EXCEPT !.copy = [make.copy EXCEPT ![f] = source[f]], !.left = make.left \ {f}]
<1>1. /\ make.pc = "copy" /\ f \in make.left
      /\ make' = Copy!NotMaking \/ make' = m
      /\ UNCHANGED <<source, writes, seen, remade, archive, undo, target>>
  BY DEF Copy!Copy
<1>2. make \in Makes /\ source \in Contents
  BY DEF CopyInv, Making, SourceTypes
<1>3. /\ m \in Makes /\ m.pc = "copy" /\ m.before = make.before /\ m.after = make.after
      /\ m.left = make.left \ {f}
      /\ m.copy[f] = source[f] /\ \A g \in Stores \ {f} : m.copy[g] = make.copy[g]
  BY <1>1, <1>2 DEF Makes, Contents
<1>4. Looked(make, source, writes, remade) /\ Copying(make, source)
  BY <1>1 DEF CopyInv, Making
<1>5. PICK s \in seen : Steady(s, make, source, remade)
  BY <1>1 DEF CopyInv, Making
<1> HIDE DEF m
<1>6. Looked(m, source, writes, remade)
  BY <1>1, <1>3, <1>4 DEF Looked, FirstLook
<1>7. Steady(s, m, source, remade)
  BY <1>1, <1>3, <1>5 DEF Steady, SecondLook
<1>8. Copying(m, source)
  BY <1>1, <1>3, <1>4 DEF Copying, CopyMade, SecondLook
<1>9. Making(m, source, writes, seen, remade)
  BY <1>3, <1>6, <1>7, <1>8 DEF Making
<1> QED
  BY <1>1, <1>9, MakeMoves, GivenUp

LEMMA CopiedKeeps == ASSUME CopyInv, Copy!Copied PROVE CopyInv'
<1> DEFINE m == [make EXCEPT !.pc = "after", !.left = Stores]
<1>1. /\ make.pc = "copy" /\ make.left = {} /\ (make' = Copy!NotMaking \/ make' = m)
      /\ UNCHANGED <<source, writes, seen, remade, archive, undo, target>>
  BY DEF Copy!Copied
<1>2. make \in Makes
  BY DEF CopyInv, Making
<1>3. /\ m \in Makes /\ m.pc = "after" /\ m.before = make.before /\ m.copy = make.copy /\ m.left = Stores
  BY <1>1, <1>2 DEF Makes
<1>4. Looked(make, source, writes, remade) /\ Copying(make, source)
  BY <1>1 DEF CopyInv, Making
<1>5. PICK s \in seen : Steady(s, make, source, remade)
  BY <1>1 DEF CopyInv, Making
<1> HIDE DEF m
<1>6. Looked(m, source, writes, remade)
  BY <1>1, <1>3, <1>4 DEF Looked, FirstLook
<1>7. Steady(s, m, source, remade)
  BY <1>3, <1>5 DEF Steady, SecondLook
<1>8. Copying(m, source)
  BY <1>1, <1>3, <1>4 DEF Copying, CopyMade, SecondLook
<1>9. Making(m, source, writes, seen, remade)
  BY <1>3, <1>6, <1>7, <1>8 DEF Making
<1> QED
  BY <1>1, <1>9, MakeMoves, GivenUp

\* The two looks agree: what the copy holds is what s held.
LEMMA CompareKeeps == ASSUME CopyInv, Copy!Compare PROVE CopyInv'
<1> DEFINE m == [make EXCEPT !.pc = "publish"]
<1>1. /\ make.pc = "compare" /\ make' = IF make.before = make.after THEN m ELSE Copy!NotMaking
      /\ UNCHANGED <<source, writes, seen, remade, archive, undo, target>>
  BY DEF Copy!Compare, Copy!Unchanged
<1>2. CASE make.before = make.after
  <2>1. make \in Makes /\ Copying(make, source)
    BY <1>1 DEF CopyInv, Making
  <2>2. PICK s \in seen : Steady(s, make, source, remade)
    BY <1>1 DEF CopyInv, Making
  <2>3. \A f \in Stores : s[f] = make.copy[f] \/ (make.copy[f] = 0 /\ f \in remade)
    BY <1>1, <1>2, <2>1, <2>2 DEF Steady, Copying, SecondLook
  <2>4. OneMoment(seen, remade, make.copy)
    BY <2>3 DEF OneMoment
  <2>5. m \in Makes /\ m.pc = "publish" /\ m.copy = make.copy
    BY <2>1 DEF Makes
  <2>6. Making(m, source, writes, seen, remade)
    BY <2>4, <2>5 DEF Making
  <2> QED
    BY <1>1, <1>2, <2>6, MakeMoves
<1>3. CASE make.before # make.after
  BY <1>1, <1>3, GivenUp
<1> QED
  BY <1>2, <1>3

\* A step that changes the backup and the archive.
LEMMA ArchiveMoves ==
    ASSUME CopyInv, UNCHANGED <<source, writes, seen, remade, undo, target>>,
           Making(make', source, writes, seen, remade), Archived'
    PROVE  CopyInv'
<1>1. SourceTypes'
  BY DEF CopyInv, SourceTypes
<1>2. Undoing'
  BY DEF CopyInv, Undoing, Extracting
<1> QED
  BY <1>1, <1>2 DEF CopyInv

LEMMA OpenKeeps == ASSUME CopyInv, Copy!Open PROVE CopyInv'
<1>1. CASE archive.there
  BY <1>1, GivenUp DEF Copy!Open
<1>2. CASE ~archive.there
  <2> DEFINE m == [make EXCEPT !.pc = "write"]
  <2>1. /\ make.pc = "publish" /\ make' = m /\ archive' = [Copy!NoArchive EXCEPT !.there = TRUE]
        /\ UNCHANGED <<source, writes, seen, remade, undo, target>>
    BY <1>2 DEF Copy!Open
  <2>2. m \in Makes /\ m.pc = "write" /\ m.copy = make.copy /\ OneMoment(seen, remade, make.copy)
    BY <2>1 DEF CopyInv, Making, Makes
  <2>3. Making(m, source, writes, seen, remade)
    BY <2>2 DEF Making
  <2>4. Archived'
    BY <2>1 DEF Archived, Copy!NoArchive
  <2> QED
    BY <2>1, <2>3, <2>4, ArchiveMoves
<1> QED
  BY <1>1, <1>2

LEMMA PublishKeeps == ASSUME CopyInv, Copy!Publish PROVE CopyInv'
<1>1. /\ make.pc = "write" /\ make' = Copy!NotMaking
      /\ archive' = [content |-> make.copy, whole |-> TRUE, there |-> TRUE]
      /\ UNCHANGED <<source, writes, seen, remade, undo, target>>
  BY DEF Copy!Publish
<1>2. OneMoment(seen, remade, make.copy)
  BY <1>1 DEF CopyInv, Making
<1>3. Archived'
  BY <1>1, <1>2 DEF Archived
<1> QED
  BY <1>1, <1>3, ArchiveMoves, NotMakingIs

LEMMA ArchiveGoes == ASSUME CopyInv, Copy!RemoveArchive \/ Copy!Damage PROVE CopyInv'
<1>1. /\ archive' = Copy!NoArchive \/ archive' = [archive EXCEPT !.whole = FALSE]
      /\ UNCHANGED <<source, writes, seen, remade, make, undo, target>>
  BY DEF Copy!RemoveArchive, Copy!Damage
<1>2. Archived'
  BY <1>1 DEF CopyInv, Archived, Copy!NoArchive
<1>3. Making(make', source, writes, seen, remade)
  BY <1>1 DEF CopyInv
<1> QED
  BY <1>1, <1>2, <1>3, ArchiveMoves

\* A step of the restoration alone.
LEMMA UndoMoves ==
    ASSUME CopyInv, UNCHANGED <<source, writes, seen, remade, make, archive>>, Undoing'
    PROVE  CopyInv'
BY DEF CopyInv, SourceTypes, Archived

LEMMA PinKeeps == ASSUME CopyInv, Copy!Pin PROVE CopyInv'
<1>1. /\ archive.whole /\ ~target.there /\ target' = [target EXCEPT !.there = TRUE]
      /\ undo' = [pc |-> "mark", left |-> {f \in Stores : archive.content[f] # 0}, pinned |-> archive.content]
      /\ UNCHANGED <<source, writes, seen, remade, make, archive>>
  BY DEF Copy!Pin
<1>2. OneMoment(seen, remade, archive.content)
  BY <1>1 DEF CopyInv, Archived
<1>3. /\ DOMAIN target = {"there", "marker", "content"} /\ DOMAIN target.content = Stores
      /\ \A f \in Stores : target.content[f] = 0
  BY <1>1 DEF CopyInv, Undoing
<1>4. DOMAIN target' = {"there", "marker", "content"} /\ target'.there /\ target'.content = target.content
  BY <1>1, <1>3
<1>5. Extracting'
  BY <1>1, <1>2, <1>3, <1>4 DEF Extracting
<1>6. Undoing'
  BY <1>1, <1>3, <1>4, <1>5 DEF Undoing
<1> QED
  BY <1>1, <1>6, UndoMoves

LEMMA MarkKeeps == ASSUME CopyInv, Copy!Mark PROVE CopyInv'
<1>1. /\ undo.pc = "mark" /\ undo' = [undo EXCEPT !.pc = "extract"] /\ target' = [target EXCEPT !.marker = TRUE]
      /\ UNCHANGED <<source, writes, seen, remade, make, archive>>
  BY DEF Copy!Mark
<1>2. /\ DOMAIN target = {"there", "marker", "content"} /\ DOMAIN target.content = Stores
      /\ Extracting
  BY <1>1 DEF CopyInv, Undoing
<1>3. /\ DOMAIN target' = {"there", "marker", "content"} /\ target'.there = target.there
      /\ target'.marker /\ target'.content = target.content
  BY <1>1, <1>2
<1>4. /\ DOMAIN undo' = {"pc", "left", "pinned"} /\ undo'.pc = "extract"
      /\ undo'.left = undo.left /\ undo'.pinned = undo.pinned
  BY <1>1, <1>2 DEF Extracting
<1>5. Extracting'
  BY <1>1, <1>2, <1>3, <1>4 DEF Extracting
<1>6. Undoing'
  BY <1>2, <1>3, <1>4, <1>5 DEF Undoing, Extracting
<1> QED
  BY <1>1, <1>6, UndoMoves

LEMMA ExtractKeeps == ASSUME CopyInv, NEW f \in Stores, NEW ok \in BOOLEAN, Copy!Extract(f, ok) PROVE CopyInv'
<1> DEFINE left == undo.left \ {f}
<1>1. /\ undo.pc = "extract" /\ f \in undo.left
      /\ UNCHANGED <<source, writes, seen, remade, make, archive>>
  BY DEF Copy!Extract
<1>2. /\ DOMAIN target = {"there", "marker", "content"} /\ DOMAIN target.content = Stores
      /\ Extracting
  BY <1>1 DEF CopyInv, Undoing
<1>3. CASE ok
  <2>1. /\ undo' = IF left = {} THEN Copy!NotUndoing ELSE [undo EXCEPT !.left = left]
        /\ target' = [target EXCEPT !.content[f] = undo.pinned[f], !.marker = left # {}]
    BY <1>3 DEF Copy!Extract, Copy!Marker
  <2>2. target' = [target EXCEPT !.content = [target.content EXCEPT ![f] = undo.pinned[f]], !.marker = left # {}]
    BY <2>1
  <2>3. /\ DOMAIN target' = {"there", "marker", "content"} /\ target'.there = target.there
        /\ target'.marker = (left # {})
        /\ target'.content = [target.content EXCEPT ![f] = undo.pinned[f]]
    BY <1>2, <2>2
  <2>4. /\ DOMAIN target'.content = Stores
        /\ \A g \in Stores : target'.content[g] = IF g \in left THEN 0 ELSE undo.pinned[g]
    BY <1>1, <1>2, <2>3 DEF Extracting
  <2>5. CASE left = {}
    <3>1. undo'.pc = "idle"
      BY <2>1, <2>5 DEF Copy!NotUndoing
    <3>2. OneMoment(seen, remade, target'.content)
      BY <1>2, <2>4, <2>5 DEF Extracting, OneMoment
    <3>3. Undoing'
      BY <1>1, <1>2, <2>3, <2>4, <3>1, <3>2 DEF Undoing, Extracting
    <3> QED
      BY <1>1, <3>3, UndoMoves
  <2>6. CASE left # {}
    <3>1. /\ DOMAIN undo' = {"pc", "left", "pinned"} /\ undo'.pc = "extract"
          /\ undo'.left = left /\ undo'.pinned = undo.pinned
      BY <1>1, <1>2, <2>1, <2>6 DEF Extracting
    <3>2. OneMoment(seen', remade', undo'.pinned)
      BY <1>1, <1>2, <3>1 DEF Extracting
    <3>3. /\ target'.marker /\ undo'.left \subseteq Stores
          /\ \A g \in Stores : target'.content[g] = IF g \in undo'.left THEN 0 ELSE undo'.pinned[g]
      <4>1. target'.marker /\ left \subseteq Stores
        BY <1>1, <1>2, <2>3, <2>6 DEF Extracting
      <4> QED
        BY <2>4, <3>1, <4>1
    <3>4. Extracting'
      BY <1>2, <2>3, <3>1, <3>2, <3>3 DEF Extracting
    <3>5. Undoing'
      BY <1>2, <2>3, <2>4, <3>1, <3>4 DEF Undoing, Extracting
    <3> QED
      BY <1>1, <3>5, UndoMoves
  <2> QED
    BY <2>5, <2>6
<1>4. CASE ~ok
  <2>1. undo' = Copy!NotUndoing /\ UNCHANGED target
    BY <1>4 DEF Copy!Extract
  <2>2. undo'.pc = "idle"
    BY <2>1 DEF Copy!NotUndoing
  <2>3. target.marker
    BY <1>1, <1>2 DEF Extracting
  <2>4. Undoing'
    BY <1>2, <2>1, <2>2, <2>3 DEF CopyInv, Undoing
  <2> QED
    BY <1>1, <2>4, UndoMoves
<1> QED
  BY <1>3, <1>4

LEMMA CopyCrashKeeps == ASSUME CopyInv, Copy!Crash PROVE CopyInv'
<1>1. /\ make' = Copy!NotMaking /\ undo' = Copy!NotUndoing
      /\ UNCHANGED <<source, writes, seen, remade, archive, target>>
  BY DEF Copy!Crash
<1>2. undo'.pc = "idle"
  BY <1>1 DEF Copy!NotUndoing
<1>3. Undoing'
  BY <1>1, <1>2 DEF CopyInv, Undoing, Extracting
<1>4. SourceTypes' /\ Archived'
  BY <1>1 DEF CopyInv, SourceTypes, Archived
<1>5. Making(make', source', writes', seen', remade')
  BY <1>1, NotMakingIs
<1> QED
  BY <1>3, <1>4, <1>5 DEF CopyInv

LEMMA CopyRests ==
    ASSUME CopyInv, UNCHANGED <<source, writes, seen, remade, make, archive, undo, target>>
    PROVE  CopyInv'
BY MakeMoves DEF CopyInv

LEMMA CopyStep == ASSUME CopyInv, Copy!Next PROVE CopyInv'
<1>1. CASE Copy!StationComesAndGoes
  BY <1>1, CopyRests DEF Copy!StationComesAndGoes
<1>2. ASSUME NEW f \in Stores, Copy!Visit(f) PROVE CopyInv'
  BY <1>2, FirstVisitKeeps, SecondVisitKeeps
<1> QED
  BY <1>1, <1>2, ArchiveGoes, BeginKeeps, StartCopyingKeeps, CopiedKeeps, CompareKeeps, OpenKeeps, PublishKeeps,
     PinKeeps, MarkKeeps, CopyCrashKeeps, CopyFileKeeps, CopyWriteKeeps, ExtractKeeps DEF Copy!Next

LEMMA CopyImplies == CopyInv => Copy!TypeOK /\ Copy!SnapshotOfOneMoment
<1> SUFFICES ASSUME CopyInv PROVE Copy!TypeOK /\ Copy!SnapshotOfOneMoment
  OBVIOUS
<1>1. Copy!TypeOK
  BY DEF CopyInv, Making, Makes, Archived, Undoing, Copy!TypeOK
<1>2. ASSUME \E f \in Stores : target.content[f] # 0, ~target.marker PROVE OneMoment(seen, remade, target.content)
  BY <1>2 DEF CopyInv, Undoing, Extracting
<1>3. Copy!SnapshotOfOneMoment
  BY <1>2 DEF CopyInv, Archived, OneMoment, Copy!SnapshotOfOneMoment, Copy!OfOneMoment
<1> QED
  BY <1>1, <1>3

-----------------------------------------------------------------------------
(* The cloud.                                                              *)

Objects == [content : Nat, time : Nat]

CloudTypes ==
    /\ clock \in Nat /\ last \in Nat /\ last <= clock /\ raced \in BOOLEAN
    /\ local \in Objects /\ local.content <= clock /\ local.time <= clock
    /\ cloud \in Objects /\ cloud.content <= clock /\ cloud.time <= clock
    /\ sync \in [pc : {"idle", "up", "between", "down"}, content : Nat] /\ sync.content <= clock

\* What is newer in the store, or on its way, is what people wrote last.
Newest ==
    ~raced /\ last # 0 =>
        /\ local.content = last
        /\ cloud.content # 0 /\ local.time < cloud.time => cloud.content = last
        /\ sync.pc \in {"up", "down"} => sync.content = last

CloudInv == CloudTypes /\ Newest

LEMMA CloudInit == Cloud!Init => CloudInv
<1> SUFFICES ASSUME Cloud!Init PROVE CloudInv
  OBVIOUS
<1>1. clock = 2 /\ last = 2 /\ raced = FALSE /\ local = [content |-> 2, time |-> 2] /\ sync = Cloud!Idle
  BY DEF Cloud!Init
<1>2. cloud = [content |-> 0, time |-> 0] \/ cloud = [content |-> 1, time |-> 1]
  BY DEF Cloud!Init, Cloud!None
<1>3. cloud \in Objects /\ cloud.content <= 1 /\ cloud.time <= 1
  BY <1>2 DEF Objects
<1>4. local \in Objects /\ local.content = 2 /\ local.time = 2
  BY <1>1 DEF Objects
<1>5. /\ sync \in [pc : {"idle", "up", "between", "down"}, content : Nat] /\ sync.content = 0
      /\ sync.pc = "idle"
  BY <1>1 DEF Cloud!Idle
<1>6. cloud.content <= clock /\ cloud.time <= clock /\ ~(local.time < cloud.time)
      /\ local.content <= clock /\ local.time <= clock /\ sync.content <= clock
  BY <1>1, <1>3, <1>4, <1>5 DEF Objects
<1> QED
  BY <1>1, <1>3, <1>4, <1>5, <1>6 DEF CloudInv, CloudTypes, Newest

LEMMA CloudStep == ASSUME CloudInv, Cloud!Next PROVE CloudInv'
<1> USE DEF CloudInv, CloudTypes, Newest, Objects, Cloud!Tick, Cloud!Idle, Cloud!None, Cloud!There
<1>1. ASSUME NEW remove \in BOOLEAN, Cloud!Edit(remove) PROVE CloudInv'
  <2> DEFINE n == clock + 1
  <2>1. /\ clock' = n /\ local' = IF remove THEN Cloud!None ELSE [content |-> n, time |-> n]
        /\ last' = local'.content /\ raced' = (raced \/ sync.pc \in {"up", "down"})
        /\ cloud' = cloud /\ sync' = sync
    BY <1>1 DEF Cloud!Edit
  <2>2. n \in Nat /\ clock <= n /\ n # 0
    OBVIOUS
  <2>3. /\ cloud.content <= n /\ cloud.time <= n /\ sync.content <= n /\ ~(n < cloud.time)
    BY <2>2
  <2> HIDE DEF n
  <2>4. CASE remove
    <3>1. local' = [content |-> 0, time |-> 0] /\ last' = 0
      BY <2>1, <2>4
    <3>2. local' \in Objects /\ local'.content = 0 /\ local'.time = 0
      BY <3>1
    <3> QED
      BY <2>1, <2>2, <2>3, <3>1, <3>2
  <2>5. CASE ~remove
    <3>1. local' \in Objects /\ local'.content = n /\ local'.time = n /\ last' = n
      BY <2>1, <2>2, <2>5
    <3>2. CloudTypes'
      BY <2>1, <2>2, <2>3, <3>1
    <3>3. Newest'
      BY <2>1, <2>3, <3>1
    <3> QED
      BY <3>2, <3>3
  <2> QED
    BY <2>4, <2>5
<1>2. CASE Cloud!Upload
  BY <1>2 DEF Cloud!Upload
<1>3. ASSUME NEW ok \in BOOLEAN, Cloud!Uploaded(ok) PROVE CloudInv'
  BY <1>3 DEF Cloud!Uploaded
<1>4. CASE Cloud!Download
  BY <1>4 DEF Cloud!Download, Cloud!Older
<1>5. ASSUME NEW ok \in BOOLEAN, Cloud!Downloaded(ok) PROVE CloudInv'
  BY <1>5 DEF Cloud!Downloaded
<1>6. CASE Cloud!Crash
  BY <1>6 DEF Cloud!Crash
<1> QED
  BY <1>1, <1>2, <1>3, <1>4, <1>5, <1>6 DEF Cloud!Next

LEMMA CloudImplies == CloudInv => Cloud!TypeOK /\ Cloud!NewestKept
BY DEF CloudInv, CloudTypes, Newest, Objects, Cloud!TypeOK, Cloud!NewestKept

\* A whole archive and a restored directory hold what the sources held at one moment, and the
\* synchronisation keeps what people wrote last (backup.py, cloud_sync.py).
THEOREM CopiesAreSound == NodeSpec => []CopiesSound
<1>1. NodeInit => CopyInv /\ CloudInv
  BY CopyInit, CloudInit DEF NodeInit
<1>2. CopyInv /\ [NodeNext]_nodeVars => CopyInv'
  BY CopyStep, CopyRests DEF NodeNext, nodeVars, backupVars
<1>3. CloudInv /\ [NodeNext]_nodeVars => CloudInv'
  <2>1. CloudInv /\ UNCHANGED cloudVars => CloudInv'
    BY DEF cloudVars, CloudInv, CloudTypes, Newest
  <2> QED
    BY <2>1, CloudStep DEF NodeNext, nodeVars
<1>4. CopyInv /\ CloudInv => CopiesSound
  BY CopyImplies, CloudImplies DEF CopiesSound
<1> QED
  BY <1>1, <1>2, <1>3, <1>4, PTL DEF NodeSpec

-----------------------------------------------------------------------------
(* Assessing a recovery.                                                   *)

Steps == Recovery!Steps

\* What the checkpoint r says of the steps is so; t are the steps about to be sent, w the work.
Recorded(r, t, w) ==
    \A s \in Steps :
        /\ r.steps[s] = "none" => w[s] = "none" /\ s \notin t
        /\ r.steps[s] \in {"completed", "failed"} => w[s] = r.steps[s]
        /\ s \in t => r.steps[s] = "sent" /\ w[s] = "none"

\* A picture x, taken from the checkpoint's revision that it names, is so as long as that is the
\* latest; what it calls completed or failed is so for ever.
Shown(x, r, w) ==
    /\ x.revision <= r.revision
    /\ \A s \in Steps :
        /\ x.of[s] = "unstarted" => x.revision # 0 /\ (x.revision = r.revision => r.steps[s] = "none")
        /\ x.of[s] \in {"completed", "failed"} => w[s] = x.of[s]

\* The checkpoint as the assessment read it.
AsRead(x, r, w) ==
    x.stage \in {"collecting", "collected"} =>
        /\ x.revision # 0
        /\ \A s \in Steps :
            /\ x.steps[s] = "none" /\ x.revision = r.revision => r.steps[s] = "none"
            /\ x.steps[s] \in {"completed", "failed"} => w[s] = x.steps[s]

RecoveryInv ==
    /\ Recovery!TypeOK /\ row.revision # 0 /\ worker.request \in 0..Len(granted)
    /\ Recorded(row, worker.todo, work)
    /\ Shown(look, row, work) /\ Shown(pages, row, work) /\ AsRead(look, row, work)

Checkpoints == [owner : Nat, revision : Nat, request : {0} \cup Recovery!Ids, stopped : BOOLEAN,
                steps : [Steps -> Recovery!Kept]]
Helpers == [running : BOOLEAN, request : {0} \cup Recovery!Ids, todo : SUBSET Steps]
Works   == [Steps -> {"none", "started", "completed", "failed"}]
Looks   == [stage : {"none", "asked", "collecting", "collected"}, revision : Nat, next : Nat,
            task : {"open", "closed"}, steps : [Steps -> Recovery!Kept], of : [Steps -> Recovery!Evidence]]
Pages   == [revision : Nat, next : Nat, of : [Steps -> Recovery!Evidence]]

LEMMA RecoveryTypes ==
    Recovery!TypeOK <=>
        /\ standing \in {"open", "closed"} /\ granted \in Seq(Nat) /\ boot \in 1..MaxBoots
        /\ row \in Checkpoints /\ worker \in Helpers /\ work \in Works /\ look \in Looks /\ pages \in Pages
BY DEF Recovery!TypeOK, Checkpoints, Helpers, Works, Looks, Pages, Steps

LEMMA Blank ==
    /\ Recovery!NoLook \in Looks /\ Recovery!NoPages \in Pages
    /\ \A r, w : r.revision \in Nat =>
           Shown(Recovery!NoLook, r, w) /\ Shown(Recovery!NoPages, r, w) /\ AsRead(Recovery!NoLook, r, w)
<1>1. Recovery!NoLook \in Looks
  BY DEF Recovery!NoLook, Looks, Recovery!Kept, Recovery!Evidence, Steps
<1>2. Recovery!NoPages \in Pages
  BY DEF Recovery!NoPages, Pages, Recovery!Evidence, Steps
<1>3. /\ Recovery!NoLook.revision = 0 /\ Recovery!NoPages.revision = 0 /\ Recovery!NoLook.stage = "none"
      /\ \A s \in Steps : Recovery!NoLook.of[s] = "unchecked" /\ Recovery!NoPages.of[s] = "unchecked"
  BY DEF Recovery!NoLook, Recovery!NoPages, Steps
<1>4. \A n \in Nat : 0 <= n
  OBVIOUS
<1> QED
  BY <1>1, <1>2, <1>3, <1>4 DEF Shown, AsRead

LEMMA RecoveryInit == Recovery!Init => RecoveryInv
<1> SUFFICES ASSUME Recovery!Init PROVE RecoveryInv
  OBVIOUS
<1>1. /\ standing = "open" /\ granted = <<>> /\ boot = 1 /\ look = Recovery!NoLook /\ pages = Recovery!NoPages
      /\ row = [owner |-> 1, revision |-> 1, request |-> 0, stopped |-> FALSE, steps |-> [s \in Steps |-> "none"]]
      /\ worker = [running |-> TRUE, request |-> 0, todo |-> {}] /\ work = [s \in Steps |-> "none"]
  BY DEF Recovery!Init, Recovery!NoPM, Steps
<1>2. boot \in 1..MaxBoots
  BY <1>1, NodeAssumption
<1>3. row \in Checkpoints /\ row.revision = 1 /\ \A s \in Steps : row.steps[s] = "none"
  BY <1>1 DEF Checkpoints, Recovery!Kept
<1>4. worker \in Helpers /\ worker.request = 0 /\ worker.todo = {}
  BY <1>1 DEF Helpers
<1>5. work \in Works /\ \A s \in Steps : work[s] = "none"
  BY <1>1 DEF Works
<1>6. Recovery!TypeOK
  BY <1>1, <1>2, <1>3, <1>4, <1>5, Blank, RecoveryTypes
<1>7. Recorded(row, worker.todo, work)
  BY <1>3, <1>4, <1>5 DEF Recorded
<1>8. row.revision # 0 /\ row.revision \in Nat /\ worker.request \in 0..Len(granted)
  BY <1>1, <1>3, <1>4
<1> QED
  BY <1>1, <1>6, <1>7, <1>8, Blank DEF RecoveryInv

\* Pictures of earlier revisions stay true when the checkpoint moves on.
LEMMA RowMoves ==
    ASSUME RecoveryInv, NEW r \in Checkpoints, row.revision < r.revision
    PROVE  Shown(look, r, work) /\ Shown(pages, r, work) /\ AsRead(look, r, work)
<1>1. /\ look.revision \in Nat /\ pages.revision \in Nat /\ row.revision \in Nat /\ r.revision \in Nat
      /\ look.revision <= row.revision /\ pages.revision <= row.revision
  BY RecoveryTypes DEF RecoveryInv, Shown, Looks, Pages, Checkpoints
<1>2. /\ look.revision <= r.revision /\ look.revision # r.revision
      /\ pages.revision <= r.revision /\ pages.revision # r.revision
  BY <1>1
<1> QED
  BY <1>2 DEF RecoveryInv, Shown, AsRead

\* So do they when work is begun or finished.
LEMMA WorkMoves ==
    ASSUME RecoveryInv, NEW w \in Works,
           \A s \in Steps : work[s] \in {"completed", "failed"} => w[s] = work[s]
    PROVE  Shown(look, row, w) /\ Shown(pages, row, w) /\ AsRead(look, row, w)
BY DEF RecoveryInv, Shown, AsRead

\* A step that changes the checkpoint and the PM.
LEMMA RowKeeps ==
    ASSUME RecoveryInv, row' \in Checkpoints, row.revision < row'.revision,
           worker' \in Helpers, worker'.request \in 0..Len(granted), boot' \in 1..MaxBoots,
           Recorded(row', worker'.todo, work), UNCHANGED <<standing, granted, work, look, pages>>
    PROVE  RecoveryInv'
<1>1. row.revision \in Nat /\ row'.revision \in Nat
  BY RecoveryTypes DEF RecoveryInv, Checkpoints
<1>2. row'.revision # 0
  BY <1>1
<1>3. Shown(look, row', work) /\ Shown(pages, row', work) /\ AsRead(look, row', work)
  BY RowMoves
<1>4. Recovery!TypeOK'
  BY RecoveryTypes DEF RecoveryInv, Recovery!TypeOK, Checkpoints, Helpers, Steps
<1> QED
  BY <1>2, <1>3, <1>4 DEF RecoveryInv

LEMMA CloseKeeps == ASSUME RecoveryInv, Recovery!Close PROVE RecoveryInv'
BY DEF RecoveryInv, Recovery!TypeOK, Recovery!Close

LEMMA RefusedKeeps == ASSUME RecoveryInv, Recovery!Refused PROVE RecoveryInv'
<1> DEFINE n == row.revision + 1
<1>1. /\ worker' = [worker EXCEPT !.running = FALSE]
      /\ row' = [row EXCEPT !.revision = n, !.stopped = TRUE]
      /\ UNCHANGED <<standing, granted, boot, work, look, pages>>
  BY DEF Recovery!Refused
<1>2. row \in Checkpoints /\ worker \in Helpers /\ row.revision \in Nat /\ boot \in 1..MaxBoots
  BY RecoveryTypes DEF RecoveryInv, Checkpoints
<1>3. worker' \in Helpers /\ worker'.request = worker.request /\ worker'.todo = worker.todo
  BY <1>1, <1>2 DEF Helpers
<1>4. n \in Nat /\ row.revision < n
  BY <1>2
<1> HIDE DEF n
<1>5. row' \in Checkpoints /\ row'.revision = n /\ row'.steps = row.steps
  BY <1>1, <1>2, <1>4 DEF Checkpoints
<1>6. Recorded(row', worker'.todo, work)
  BY <1>3, <1>5 DEF RecoveryInv, Recorded
<1> QED
  BY <1>1, <1>2, <1>3, <1>4, <1>5, <1>6, RowKeeps DEF RecoveryInv

LEMMA SendStepKeeps == ASSUME RecoveryInv, NEW s \in Steps, Recovery!Send(s) PROVE RecoveryInv'
<1> DEFINE n == row.revision + 1
           kept == [row.steps EXCEPT ![s] = "sent"]
<1>1. /\ row.steps[s] = "none" /\ worker' = [worker EXCEPT !.todo = worker.todo \cup {s}]
      /\ row' = [row EXCEPT !.revision = n, !.steps = kept]
      /\ UNCHANGED <<standing, granted, boot, work, look, pages>>
  BY DEF Recovery!Send, Recovery!Record
<1>2. row \in Checkpoints /\ worker \in Helpers /\ row.revision \in Nat /\ boot \in 1..MaxBoots
  BY RecoveryTypes DEF RecoveryInv, Checkpoints
<1>3. worker' \in Helpers /\ worker'.request = worker.request /\ worker'.todo = worker.todo \cup {s}
  BY <1>1, <1>2 DEF Helpers
<1>4. n \in Nat /\ row.revision < n
  BY <1>2
<1>5. /\ kept \in [Steps -> Recovery!Kept] /\ kept[s] = "sent"
      /\ \A x \in Steps \ {s} : kept[x] = row.steps[x]
  BY <1>2 DEF Checkpoints, Recovery!Kept
<1> HIDE DEF n, kept
<1>6. row' \in Checkpoints /\ row'.revision = n /\ row'.steps = kept
  BY <1>1, <1>2, <1>4, <1>5 DEF Checkpoints
<1>7. Recorded(row', worker'.todo, work)
  BY <1>1, <1>3, <1>5, <1>6 DEF RecoveryInv, Recorded
<1> QED
  BY <1>1, <1>2, <1>3, <1>4, <1>6, <1>7, RowKeeps DEF RecoveryInv

LEMMA HearKeeps == ASSUME RecoveryInv, NEW s \in Steps, Recovery!Hear(s) PROVE RecoveryInv'
<1> DEFINE n == row.revision + 1
           kept == [row.steps EXCEPT ![s] = work[s]]
<1>1. /\ row.steps[s] = "sent" /\ work[s] \in {"completed", "failed"}
      /\ row' = [row EXCEPT !.revision = n, !.steps = kept]
      /\ UNCHANGED <<standing, granted, boot, worker, work, look, pages>>
  BY DEF Recovery!Hear, Recovery!Record
<1>2. row \in Checkpoints /\ worker \in Helpers /\ row.revision \in Nat /\ boot \in 1..MaxBoots
  BY RecoveryTypes DEF RecoveryInv, Checkpoints
<1>3. n \in Nat /\ row.revision < n
  BY <1>2
<1>4. /\ kept \in [Steps -> Recovery!Kept] /\ kept[s] = work[s]
      /\ \A x \in Steps \ {s} : kept[x] = row.steps[x]
  BY <1>1, <1>2 DEF Checkpoints, Recovery!Kept
<1> HIDE DEF n, kept
<1>5. row' \in Checkpoints /\ row'.revision = n /\ row'.steps = kept
  BY <1>1, <1>2, <1>3, <1>4 DEF Checkpoints
<1>6. Recorded(row', worker'.todo, work)
  BY <1>1, <1>4, <1>5 DEF RecoveryInv, Recorded
<1> QED
  BY <1>1, <1>2, <1>3, <1>5, <1>6, RowKeeps DEF RecoveryInv

LEMMA ResumeKeeps == ASSUME RecoveryInv, NEW i \in Recovery!Ids, Recovery!Resume(i) PROVE RecoveryInv'
<1> DEFINE n == row.revision + 2
<1>1. /\ i \in 1..Len(granted)
      /\ row' = [row EXCEPT !.owner = boot, !.revision = n, !.request = i]
      /\ worker' = [Recovery!NoPM EXCEPT !.running = TRUE, !.request = i]
      /\ UNCHANGED <<standing, granted, boot, work, look, pages>>
  BY DEF Recovery!Resume
<1>2. row \in Checkpoints /\ row.revision \in Nat /\ boot \in 1..MaxBoots /\ boot \in Nat
  BY RecoveryTypes DEF RecoveryInv, Checkpoints
<1>3. worker' \in Helpers /\ worker'.request = i /\ worker'.todo = {}
  BY <1>1 DEF Helpers, Recovery!NoPM
<1>4. n \in Nat /\ row.revision < n
  BY <1>2
<1> HIDE DEF n
<1>5. row' \in Checkpoints /\ row'.revision = n /\ row'.steps = row.steps
  BY <1>1, <1>2, <1>4 DEF Checkpoints
<1>6. Recorded(row', worker'.todo, work)
  BY <1>3, <1>5 DEF RecoveryInv, Recorded
<1>7. worker'.request \in 0..Len(granted)
  BY <1>1, <1>3
<1> QED
  BY <1>1, <1>2, <1>3, <1>4, <1>5, <1>6, <1>7, RowKeeps

LEMMA PostKeeps == ASSUME RecoveryInv, NEW s \in Steps, Recovery!Post(s) PROVE RecoveryInv'
<1>1. /\ s \in worker.todo /\ worker' = [worker EXCEPT !.todo = worker.todo \ {s}]
      /\ work' = [work EXCEPT ![s] = "started"]
      /\ UNCHANGED <<standing, granted, boot, row, look, pages>>
  BY DEF Recovery!Post
<1>2. worker \in Helpers /\ work \in Works
  BY RecoveryTypes DEF RecoveryInv
<1>3. worker' \in Helpers /\ worker'.request = worker.request /\ worker'.todo = worker.todo \ {s}
  BY <1>1, <1>2 DEF Helpers
<1>4. work' \in Works /\ work'[s] = "started" /\ \A x \in Steps \ {s} : work'[x] = work[x]
  BY <1>1, <1>2 DEF Works
<1>5. work[s] = "none" /\ row.steps[s] = "sent"
  BY <1>1 DEF RecoveryInv, Recorded
<1>6. Recorded(row, worker'.todo, work')
  BY <1>3, <1>4, <1>5 DEF RecoveryInv, Recorded
<1>7. Shown(look, row, work') /\ Shown(pages, row, work') /\ AsRead(look, row, work')
  BY <1>4, <1>5, WorkMoves
<1>8. Recovery!TypeOK'
  BY <1>1, <1>3, <1>4 DEF RecoveryInv, Recovery!TypeOK, Helpers, Works, Steps
<1> QED
  BY <1>1, <1>3, <1>6, <1>7, <1>8 DEF RecoveryInv

LEMMA FinishKeeps == ASSUME RecoveryInv, NEW s \in Steps, Recovery!Finish(s) PROVE RecoveryInv'
<1>1. PICK e \in {"completed", "failed"} : work' = [work EXCEPT ![s] = e]
  BY DEF Recovery!Finish
<1>2. work[s] = "started" /\ UNCHANGED <<standing, granted, boot, row, worker, look, pages>>
  BY DEF Recovery!Finish
<1>3. work \in Works
  BY RecoveryTypes DEF RecoveryInv
<1>4. work' \in Works /\ work'[s] = e /\ \A x \in Steps \ {s} : work'[x] = work[x]
  BY <1>1, <1>3 DEF Works
<1>5. Recorded(row, worker.todo, work')
  BY <1>2, <1>4 DEF RecoveryInv, Recorded
<1>6. Shown(look, row, work') /\ Shown(pages, row, work') /\ AsRead(look, row, work')
  BY <1>2, <1>4, WorkMoves
<1>7. Recovery!TypeOK'
  BY <1>2, <1>4 DEF RecoveryInv, Recovery!TypeOK, Works, Steps
<1> QED
  BY <1>2, <1>5, <1>6, <1>7 DEF RecoveryInv

LEMMA HaltKeeps == ASSUME RecoveryInv, Recovery!Halt PROVE RecoveryInv'
<1>1. /\ worker' = [worker EXCEPT !.running = FALSE]
      /\ UNCHANGED <<standing, granted, boot, row, work, look, pages>>
  BY DEF Recovery!Halt
<1>2. worker \in Helpers
  BY RecoveryTypes DEF RecoveryInv
<1>3. worker' \in Helpers /\ worker'.request = worker.request /\ worker'.todo = worker.todo
  BY <1>1, <1>2 DEF Helpers
<1>4. Recovery!TypeOK'
  BY <1>1, <1>3 DEF RecoveryInv, Recovery!TypeOK, Helpers, Steps
<1> QED
  BY <1>1, <1>3, <1>4 DEF RecoveryInv

LEMMA RebootKeeps == ASSUME RecoveryInv, Recovery!Crash PROVE RecoveryInv'
<1>1. /\ boot < MaxBoots /\ boot' = boot + 1 /\ worker' = Recovery!NoPM /\ look' = Recovery!NoLook
      /\ UNCHANGED <<standing, granted, row, work, pages>>
  BY DEF Recovery!Crash
<1>2. boot' \in 1..MaxBoots
  BY <1>1, RecoveryTypes, NodeAssumption DEF RecoveryInv
<1>3. worker' \in Helpers /\ worker'.request = 0 /\ worker'.todo = {}
  BY <1>1 DEF Helpers, Recovery!NoPM
<1>4. 0 \in 0..Len(granted) /\ row.revision \in Nat
  BY RecoveryTypes DEF RecoveryInv, Checkpoints
<1>5. look' \in Looks /\ Shown(look', row, work) /\ AsRead(look', row, work)
  BY <1>1, <1>4, Blank
<1>6. Recorded(row, worker'.todo, work)
  BY <1>3 DEF RecoveryInv, Recorded
<1>7. Recovery!TypeOK'
  BY <1>1, <1>2, <1>3, <1>5 DEF RecoveryInv, Recovery!TypeOK, Helpers, Looks, Steps
<1> QED
  BY <1>1, <1>3, <1>4, <1>5, <1>6, <1>7 DEF RecoveryInv

LEMMA PrepareKeeps == ASSUME RecoveryInv, NEW r \in 1..row.revision, Recovery!Prepare(r) PROVE RecoveryInv'
<1>1. /\ granted' = Append(granted, r) /\ UNCHANGED <<standing, boot, row, worker, work, look, pages>>
  BY DEF Recovery!Prepare
<1>2. granted \in Seq(Nat) /\ r \in Nat
  BY RecoveryTypes DEF RecoveryInv, Checkpoints
<1>3. granted' \in Seq(Nat) /\ Len(granted') = Len(granted) + 1
  BY <1>1, <1>2
<1>4. worker.request \in 0..Len(granted')
  BY <1>2, <1>3 DEF RecoveryInv
<1>5. Recovery!TypeOK'
  BY <1>1, <1>3 DEF RecoveryInv, Recovery!TypeOK
<1> QED
  BY <1>1, <1>4, <1>5 DEF RecoveryInv

\* A step of the assessment.
LEMMA LookKeeps ==
    ASSUME RecoveryInv, UNCHANGED <<standing, granted, boot, row, worker, work>>,
           look' \in Looks, pages' \in Pages,
           Shown(look', row, work), Shown(pages', row, work), AsRead(look', row, work)
    PROVE  RecoveryInv'
<1>1. Recovery!TypeOK'
  BY DEF RecoveryInv, Recovery!TypeOK, Looks, Pages, Steps
<1> QED
  BY <1>1 DEF RecoveryInv

LEMMA Known ==
    RecoveryInv => /\ row.revision \in Nat /\ look \in Looks /\ pages \in Pages /\ row \in Checkpoints
                   /\ standing \in {"open", "closed"} /\ work \in Works
BY RecoveryTypes DEF RecoveryInv, Checkpoints

LEMMA AskKeeps == ASSUME RecoveryInv, NEW first \in BOOLEAN, Recovery!Ask(first) PROVE RecoveryInv'
<1> DEFINE x == IF first THEN Recovery!NoPages ELSE pages
           n == IF first THEN 1 ELSE pages.next
<1>1. /\ look' = [Recovery!NoLook EXCEPT !.stage = "asked", !.task = standing, !.next = n,
                                          !.revision = x.revision, !.of = x.of]
      /\ UNCHANGED <<standing, granted, boot, row, worker, work, pages>>
  BY DEF Recovery!Ask, Recovery!NoPages
<1>2. x \in Pages /\ Shown(x, row, work) /\ n \in Nat
  BY Known, Blank DEF RecoveryInv, Pages
<1> HIDE DEF x, n
<1>3. look' \in Looks /\ look'.stage = "asked" /\ look'.revision = x.revision /\ look'.of = x.of
  BY <1>1, <1>2, Blank, Known DEF Looks, Pages
<1>4. Shown(look', row, work) /\ AsRead(look', row, work)
  BY <1>2, <1>3 DEF Shown, AsRead
<1> QED
  BY <1>1, <1>3, <1>4, Known, LookKeeps DEF RecoveryInv

LEMMA GiveKeeps ==
    ASSUME RecoveryInv, Recovery!Give, UNCHANGED <<standing, granted, boot, row, worker, work>>
    PROVE  RecoveryInv'
BY Known, Blank, LookKeeps DEF Recovery!Give

LEMMA ReadKeeps == ASSUME RecoveryInv, Recovery!Read PROVE RecoveryInv'
<1>1. CASE worker.running \/ ~Recovery!Expected(look)
  BY <1>1, GiveKeeps DEF Recovery!Read
<1>2. CASE ~(worker.running \/ ~Recovery!Expected(look))
  <2>1. /\ look' = [look EXCEPT !.stage = "collecting", !.revision = row.revision, !.steps = row.steps]
        /\ look.revision \in {0, row.revision}
        /\ UNCHANGED <<standing, granted, boot, row, worker, work, pages>>
    BY <1>2 DEF Recovery!Read, Recovery!Expected
  <2>2. /\ look' \in Looks /\ look'.stage = "collecting" /\ look'.revision = row.revision
        /\ look'.steps = row.steps /\ look'.of = look.of
    BY <2>1, Known DEF Looks, Checkpoints
  <2>3. row.revision <= row.revision
    BY Known
  <2>4. Shown(look', row, work)
    BY <2>1, <2>2, <2>3 DEF RecoveryInv, Shown
  <2>5. AsRead(look', row, work)
    BY <2>2 DEF RecoveryInv, AsRead, Recorded
  <2> QED
    BY <2>1, <2>2, <2>4, <2>5, Known, LookKeeps DEF RecoveryInv
<1> QED
  BY <1>1, <1>2

LEMMA CollectKeeps == ASSUME RecoveryInv, Recovery!Collect PROVE RecoveryInv'
<1> DEFINE s == look.next
<1>1. PICK e \in Recovery!Statuses(s) : look' = [look EXCEPT !.of[s] = e, !.next = look.next + 1]
  BY DEF Recovery!Collect
<1>2. /\ look.stage = "collecting" /\ s <= LastStep
      /\ UNCHANGED <<standing, granted, boot, row, worker, work, pages>>
  BY DEF Recovery!Collect
<1>3. /\ look.steps \in [Steps -> Recovery!Kept] /\ look.of \in [Steps -> Recovery!Evidence]
      /\ look.next \in Nat
  BY Known DEF Looks
<1>4. CASE s \in Steps
  <2>1. /\ e \in Recovery!Evidence
        /\ e = "unstarted" => look.steps[s] = "none"
        /\ e \in {"completed", "failed"} => work[s] = e
    <3>1. CASE look.steps[s] = "none"
      BY <3>1 DEF Recovery!Statuses, Recovery!Evidence
    <3>2. CASE look.steps[s] = "sent"
      <4>1. work[s] \in {"none", "started", "completed", "failed"} /\ e \in Recovery!Receipts(s)
        BY <1>4, <3>2, Known DEF Works, Recovery!Statuses
      <4> QED
        BY <4>1 DEF Recovery!Receipts, Recovery!Evidence
    <3>3. CASE look.steps[s] \in {"completed", "failed"}
      <4>1. e = look.steps[s]
        BY <3>3 DEF Recovery!Statuses
      <4> QED
        BY <1>2, <1>4, <3>3, <4>1 DEF RecoveryInv, AsRead, Recovery!Evidence
    <3> QED
      BY <1>3, <1>4, <3>1, <3>2, <3>3 DEF Recovery!Kept
  <2> DEFINE n == look.next + 1
             of == [look.of EXCEPT ![s] = e]
  <2>2. look' = [look EXCEPT !.of = of, !.next = n] /\ n \in Nat
    BY <1>1, <1>3
  <2>6. of \in [Steps -> Recovery!Evidence] /\ of[s] = e /\ \A y \in Steps \ {s} : of[y] = look.of[y]
    BY <1>3, <1>4, <2>1
  <2> HIDE DEF s, n, of
  <2>3. /\ look' \in Looks /\ look'.stage = look.stage /\ look'.revision = look.revision
        /\ look'.steps = look.steps
        /\ look'.of[s] = e /\ \A y \in Steps \ {s} : look'.of[y] = look.of[y]
    BY <2>2, <2>6, Known DEF Looks
  <2>4. AsRead(look', row, work)
    BY <2>3 DEF RecoveryInv, AsRead
  <2>5. Shown(look', row, work)
    BY <1>2, <1>4, <2>1, <2>3 DEF RecoveryInv, Shown, AsRead
  <2> QED
    BY <1>2, <2>3, <2>4, <2>5, Known, LookKeeps DEF RecoveryInv
<1>5. CASE s \notin Steps
  <2>1. look' = [look EXCEPT !.next = look.next + 1]
    BY <1>1, <1>3, <1>5, Known DEF Looks
  <2>2. /\ look' \in Looks /\ look'.stage = look.stage /\ look'.revision = look.revision
        /\ look'.steps = look.steps /\ look'.of = look.of
    BY <1>3, <2>1, Known DEF Looks
  <2>3. Shown(look', row, work) /\ AsRead(look', row, work)
    BY <2>2 DEF RecoveryInv, Shown, AsRead
  <2> QED
    BY <1>2, <2>2, <2>3, Known, LookKeeps DEF RecoveryInv
<1> QED
  BY <1>4, <1>5

LEMMA ConcludeKeeps == ASSUME RecoveryInv, Recovery!Conclude PROVE RecoveryInv'
<1>1. CASE ~Recovery!Unchanged(look)
  BY <1>1, GiveKeeps DEF Recovery!Conclude
<1>2. CASE Recovery!Unchanged(look)
  <2>1. /\ look.stage = "collecting" /\ look' = [look EXCEPT !.stage = "collected"]
        /\ UNCHANGED <<standing, granted, boot, row, worker, work, pages>>
    BY <1>2 DEF Recovery!Conclude
  <2>2. /\ look' \in Looks /\ look'.revision = look.revision
        /\ look'.steps = look.steps /\ look'.of = look.of
    BY <2>1, Known DEF Looks
  <2>3. Shown(look', row, work) /\ AsRead(look', row, work)
    BY <2>1, <2>2 DEF RecoveryInv, Shown, AsRead
  <2> QED
    BY <2>1, <2>2, <2>3, Known, LookKeeps DEF RecoveryInv
<1> QED
  BY <1>1, <1>2

LEMMA AnswerLookKeeps == ASSUME RecoveryInv, Recovery!Answer PROVE RecoveryInv'
<1> DEFINE n == IF look.next > LastStep THEN 0 ELSE look.next
           x == [revision |-> look.revision, of |-> look.of, next |-> n]
<1>1. /\ look' = Recovery!NoLook /\ (pages' = Recovery!NoPages \/ pages' = x)
      /\ UNCHANGED <<standing, granted, boot, row, worker, work>>
  BY DEF Recovery!Answer
<1>2. n \in Nat
  BY Known DEF Looks
<1>3. x \in Pages /\ x.revision = look.revision /\ x.of = look.of
  BY <1>2, Known DEF Looks, Pages
<1>4. Shown(x, row, work)
  BY <1>3 DEF RecoveryInv, Shown
<1> QED
  BY <1>1, <1>3, <1>4, Known, Blank, LookKeeps

LEMMA RecoveryRests == ASSUME RecoveryInv, UNCHANGED recoveryVars PROVE RecoveryInv'
BY DEF RecoveryInv, Recovery!TypeOK, recoveryVars

LEMMA RecoveryStep == ASSUME RecoveryInv, Recovery!Next PROVE RecoveryInv'
BY CloseKeeps, RefusedKeeps, HaltKeeps, RebootKeeps, SendStepKeeps, PostKeeps, FinishKeeps, HearKeeps, AskKeeps,
   ReadKeeps, CollectKeeps, ConcludeKeeps, AnswerLookKeeps, PrepareKeeps, ResumeKeeps DEF Recovery!Next, Steps

\* What is concluded is so when it is concluded.
LEMMA Concluded ==
    ASSUME RecoveryInv, Recovery!Next, look'.stage = "collected", look.stage # "collected", NEW s \in Steps
    PROVE  /\ look.of[s] = "unstarted" => work[s] = "none" /\ s \notin worker.todo
           /\ look.of[s] \in {"completed", "failed"} => work[s] = look.of[s]
<1>1. CASE Recovery!Conclude
  <2>1. Recovery!Unchanged(look)
    BY <1>1 DEF Recovery!Conclude, Recovery!Give, Recovery!NoLook
  <2> QED
    BY <2>1 DEF Recovery!Unchanged, RecoveryInv, Shown, Recorded
<1>2. CASE Recovery!Crash \/ Recovery!Answer
  BY <1>2 DEF Recovery!Crash, Recovery!Answer, Recovery!NoLook
<1>3. ASSUME NEW first \in BOOLEAN, Recovery!Ask(first) PROVE FALSE
  BY <1>3 DEF Recovery!Ask, Recovery!NoLook
<1>4. CASE Recovery!Read
  <2>1. \/ look' = Recovery!NoLook
        \/ look' = [look EXCEPT !.stage = "collecting", !.revision = row.revision, !.steps = row.steps]
    BY <1>4 DEF Recovery!Read, Recovery!Give
  <2>2. ASSUME look' = Recovery!NoLook PROVE look'.stage = "none"
    BY <2>2 DEF Recovery!NoLook
  <2>3. ASSUME look' = [look EXCEPT !.stage = "collecting", !.revision = row.revision, !.steps = row.steps]
        PROVE  look'.stage = "collecting"
    BY <2>3, Known DEF Looks
  <2> QED
    BY <2>1, <2>2, <2>3
<1>5. CASE Recovery!Collect
  <2>1. PICK e : look' = [look EXCEPT !.of[look.next] = e, !.next = look.next + 1]
    BY <1>5 DEF Recovery!Collect
  <2>2. look'.stage = look.stage
    BY <2>1, Known DEF Looks
  <2> QED
    BY <2>2
<1>6. CASE UNCHANGED look
  BY <1>6
<1>7. Recovery!Conclude \/ Recovery!Crash \/ Recovery!Answer \/ (\E first \in BOOLEAN : Recovery!Ask(first))
      \/ Recovery!Read \/ Recovery!Collect \/ UNCHANGED look
  BY DEF Recovery!Next, Recovery!Close, Recovery!Refused, Recovery!Halt, Recovery!Send, Recovery!Post,
         Recovery!Finish, Recovery!Hear, Recovery!Prepare, Recovery!Resume
<1> QED
  BY <1>1, <1>2, <1>3, <1>4, <1>5, <1>6, <1>7

\* An assessment shows one moment, and the request a restarted PM runs on stays valid
\* (pm_recovery.py, task_resume.py).
THEOREM RecoveryIsSound == NodeSpec => RecoverySound
<1>1. NodeInit => RecoveryInv
  BY RecoveryInit DEF NodeInit
<1>2. RecoveryInv /\ [NodeNext]_nodeVars => RecoveryInv'
  BY RecoveryStep, RecoveryRests DEF NodeNext, nodeVars
<1>3. RecoveryInv => Recovery!TypeOK /\ Recovery!RequestStaysValid
  <2>1. ASSUME RecoveryInv, worker.request # 0 PROVE worker.request \in 1..Len(granted)
    BY <2>1, RecoveryTypes DEF RecoveryInv
  <2> QED
    BY <2>1 DEF RecoveryInv, Recovery!RequestStaysValid, Recovery!Allowed, Recovery!Authorized
<1>4. RecoveryInv /\ [NodeNext]_nodeVars =>
          [look'.stage = "collected" /\ look.stage # "collected"
           => \A s \in Recovery!Steps :
                /\ look.of[s] = "unstarted" => work[s] = "none" /\ s \notin worker.todo
                /\ look.of[s] \in {"completed", "failed"} => work[s] = look.of[s]]_(Recovery!vars)
  BY Concluded DEF NodeNext, nodeVars, recoveryVars, Steps
<1> QED
  BY <1>1, <1>2, <1>3, <1>4, PTL DEF NodeSpec, RecoverySound, Recovery!PictureOfOneMoment

-----------------------------------------------------------------------------
(* Opening and upgrading the database.                                     *)

DataFiles == Schema!Files
Openings  == [stage : Schema!Stages, tx : DataFiles \cup {Schema!Half}, copy : DataFiles \cup {Schema!Half}]
Dailies   == [by : Procs, whole : BOOLEAN]

Holding == Schema!InTransaction

\* What a process that upgrades file f to version c has in its transaction t.
Upgrading(t, f, c) ==
    /\ t \in DataFiles /\ t.tables /\ t.rows = f.rows
    /\ f.version <= t.version /\ t.version <= c
    /\ 1..t.version \subseteq t.parts
    /\ f.tables /\ f.version = c => t.version = f.version /\ t.parts = f.parts

\* The process p in state x, when the file is f, l holds the lock and S is published.
Opener(p, x, f, l, S) ==
    /\ x.stage \in {"saving", "up"} => Code[p] <= f.version
    /\ x.stage \in Holding => l = p
    /\ x.stage \in {"begun", "staging", "copied", "linked", "creating"} => x.tx = f
    /\ x.stage \in Holding \ {"begun"} => f.version <= Code[p]
    /\ x.stage \in {"copied", "linked"} => x.copy = f
    /\ x.stage = "linked" => f \in S
    /\ x.stage \in {"creating", "migrating"} /\ f.tables /\ f.version < Code[p] => f \in S
    /\ x.stage = "migrating" => Upgrading(x.tx, f, Code[p])

SchemaInv ==
    /\ database \in DataFiles /\ 1..database.version \subseteq database.parts
    /\ writer \in Procs \cup {"nobody"}
    /\ opening \in [Procs -> Openings]
    /\ published \subseteq DataFiles
    /\ daily \in Seq(Dailies)
    /\ \A p \in Procs : Opener(p, opening[p], database, writer, published)

LEMMA HalfIsNoFile == Schema!Half \notin DataFiles
<1>1. Schema!Half.rows = -1
  BY DEF Schema!Half
<1>2. \A f \in DataFiles : f.rows \in 0..MaxRows
  BY DEF DataFiles, Schema!Files
<1>3. ~ (-1 \in 0..MaxRows)
  OBVIOUS
<1> QED
  BY <1>1, <1>2, <1>3

LEMMA Codes == ASSUME NEW p \in Procs PROVE Code[p] \in 1..Target /\ Code[p] \in Nat /\ Code[p] >= 1 /\ Target \in Nat
BY NodeAssumption

LEMMA FileFields ==
    ASSUME NEW f \in DataFiles
    PROVE  /\ f.version \in 0..Target /\ f.version \in Nat /\ f.tables \in BOOLEAN
           /\ f.parts \subseteq 1..Target /\ f.rows \in 0..MaxRows
BY NodeAssumption DEF DataFiles, Schema!Files, Schema!Versions

LEMMA DownIs ==
    /\ Schema!Down \in Openings /\ Schema!Down.stage = "down"
    /\ \A p, f, l, S : Opener(p, Schema!Down, f, l, S)
<1>1. Schema!Down \in Openings /\ Schema!Down.stage = "down"
  BY DEF Schema!Down, Openings, Schema!Stages
<1> QED
  BY <1>1 DEF Opener, Holding, Schema!InTransaction

LEMMA SchemaInit == Schema!Init => SchemaInv
<1> SUFFICES ASSUME Schema!Init PROVE SchemaInv
  OBVIOUS
<1>1. /\ writer = "nobody" /\ opening = [p \in Procs |-> Schema!Down] /\ published = {} /\ daily = <<>>
  BY DEF Schema!Init, Schema!NoOne
<1>2. PICK t \in BOOLEAN, v \in 0..Target : database = [tables |-> t, version |-> v, parts |-> 1..v, rows |-> 0]
  <2>1. CASE database = [tables |-> FALSE, version |-> 0, parts |-> {}, rows |-> 0]
    <3>1. 1..0 = {} /\ 0 \in 0..Target
      BY NodeAssumption
    <3> QED
      BY <2>1, <3>1
  <2>2. ASSUME NEW v \in 0..Target - 1, database = [tables |-> TRUE, version |-> v, parts |-> 1..v, rows |-> 0]
        PROVE  v \in 0..Target
    BY NodeAssumption
  <2> QED
    BY <2>1, <2>2 DEF Schema!Init
<1>3. 1..v \subseteq 1..Target /\ 0 \in 0..MaxRows
  BY NodeAssumption
<1>4. database \in DataFiles /\ database.parts = 1..v /\ database.version = v
  BY <1>2, <1>3 DEF DataFiles, Schema!Files, Schema!Versions
<1>5. \A p \in Procs : opening[p] = Schema!Down
  BY <1>1
<1> QED
  BY <1>1, <1>4, <1>5, DownIs DEF SchemaInv

\* A process that holds no lock notices only that the version has not become an earlier one.
LEMMA OthersRest ==
    ASSUME SchemaInv, NEW p \in Procs, NEW f \in DataFiles, NEW l, NEW S,
           opening[p].stage \notin Holding, database.version <= f.version
    PROVE  Opener(p, opening[p], f, l, S)
<1>1. opening[p].stage \in {"saving", "up"} => Code[p] <= database.version
  BY DEF SchemaInv, Opener
<1>2. Code[p] \in Nat /\ f.version \in Nat /\ database.version \in Nat
  BY Codes, FileFields DEF SchemaInv
<1>3. opening[p].stage \in {"saving", "up"} => Code[p] <= f.version
  BY <1>1, <1>2
<1> QED
  BY <1>3 DEF Opener, Holding, Schema!InTransaction

\* One process moves: the others hold no lock, or see nothing of it.
LEMMA OneMoves ==
    ASSUME SchemaInv, NEW p \in Procs, NEW x \in Openings,
           opening' = [opening EXCEPT ![p] = x],
           database' \in DataFiles, 1..database'.version \subseteq database'.parts,
           database.version <= database'.version,
           writer' \in Procs \cup {"nobody"}, published' \subseteq DataFiles, daily' \in Seq(Dailies),
           Opener(p, x, database', writer', published'),
           writer \in {p, "nobody"} \/ UNCHANGED <<database, writer, published>>
    PROVE  SchemaInv'
<1>1. opening \in [Procs -> Openings] /\ "nobody" \notin Procs
  BY NodeAssumption DEF SchemaInv
<1>2. opening' \in [Procs -> Openings] /\ opening'[p] = x /\ \A q \in Procs \ {p} : opening'[q] = opening[q]
  BY <1>1
<1>3. ASSUME NEW q \in Procs \ {p} PROVE Opener(q, opening[q], database', writer', published')
  <2>1. CASE UNCHANGED <<database, writer, published>>
    BY <2>1 DEF SchemaInv
  <2>2. CASE writer \in {p, "nobody"}
    <3>1. opening[q].stage \notin Holding
      BY <1>1, <2>2 DEF SchemaInv, Opener
    <3> QED
      BY <3>1, OthersRest
  <2> QED
    BY <2>1, <2>2
<1> QED
  BY <1>2, <1>3 DEF SchemaInv

\* A step after which the process holds the lock, and the file is as it was.
LEMMA StageMoves ==
    ASSUME SchemaInv, NEW p \in Procs, NEW x \in Openings,
           opening' = [opening EXCEPT ![p] = x], database' = database, daily' = daily,
           writer \in {p, "nobody"}, writer' \in {p, "nobody"}, published' \subseteq DataFiles,
           Opener(p, x, database, writer', published')
    PROVE  SchemaInv'
<1>1. database.version \in Nat /\ database.version <= database.version
  BY FileFields DEF SchemaInv
<1> QED
  BY <1>1, OneMoves DEF SchemaInv

LEMMA Held ==
    ASSUME SchemaInv, NEW p \in Procs, opening[p].stage \in Holding
    PROVE  writer = p /\ opening[p] \in Openings
BY DEF SchemaInv, Opener

LEMMA OpenBeginKeeps == ASSUME SchemaInv, NEW p \in Procs, Schema!Begin(p) PROVE SchemaInv'
<1> DEFINE x == [Schema!Down EXCEPT !.stage = "begun", !.tx = database]
<1>1. /\ writer = "nobody" /\ writer' = p /\ opening' = [opening EXCEPT ![p] = x]
      /\ UNCHANGED <<database, published, daily>>
  BY DEF Schema!Begin, Schema!NoOne
<1>2. x \in Openings /\ x.stage = "begun" /\ x.tx = database
  BY DownIs DEF SchemaInv, Openings, Schema!Stages, Schema!InTransaction
<1> HIDE DEF x
<1>3. Opener(p, x, database, p, published)
  BY <1>2 DEF Opener, Holding, Schema!InTransaction
<1>4. published' \subseteq DataFiles
  BY <1>1 DEF SchemaInv
<1> QED
  BY <1>1, <1>2, <1>3, <1>4, StageMoves

LEMMA InspectKeeps == ASSUME SchemaInv, NEW p \in Procs, Schema!Inspect(p) PROVE SchemaInv'
<1> DEFINE n == Schema!NeedsSnapshot(p)
           stage == IF n THEN "staging" ELSE "creating"
           x == [opening[p] EXCEPT !.stage = stage]
<1>1. opening[p].stage = "begun" /\ UNCHANGED <<database, daily>>
  BY DEF Schema!Inspect
<1>2. opening[p].tx = database /\ writer = p /\ opening[p] \in Openings
  BY <1>1, Held DEF SchemaInv, Opener, Holding, Schema!InTransaction
<1>3. CASE opening[p].tx.version > Code[p]
  <2>1. writer' = "nobody" /\ opening' = [opening EXCEPT ![p] = Schema!Down] /\ published' = published
    BY <1>3 DEF Schema!Inspect, Schema!NoOne
  <2> QED
    BY <1>1, <1>2, <2>1, DownIs, StageMoves DEF SchemaInv
<1>4. CASE ~(opening[p].tx.version > Code[p])
  <2>1. /\ opening' = [opening EXCEPT ![p] = x] /\ published' = published /\ writer' = writer
    BY <1>4 DEF Schema!Inspect, Schema!Now, Schema!Found
  <2>2. x \in Openings /\ x.stage = stage /\ x.tx = database
    BY <1>2 DEF Openings, Schema!Stages, Schema!InTransaction
  <2>3. database.version <= Code[p]
    BY <1>2, <1>4, Codes, FileFields DEF SchemaInv
  <2>4. ~n => ~(database.tables /\ database.version < Code[p])
    BY <1>2 DEF Schema!NeedsSnapshot
  <2> HIDE DEF x, n
  <2>5. Opener(p, x, database, p, published)
    BY <2>2, <2>3, <2>4 DEF Opener, Holding, Schema!InTransaction
  <2> QED
    BY <1>1, <1>2, <2>1, <2>2, <2>5, StageMoves DEF SchemaInv
<1> QED
  BY <1>3, <1>4

LEMMA StageKeeps == ASSUME SchemaInv, NEW p \in Procs, Schema!Stage(p) PROVE SchemaInv'
<1> DEFINE x == [opening[p] EXCEPT !.stage = "copied", !.copy = database]
<1>1. opening[p].stage = "staging" /\ UNCHANGED <<database, writer, published, daily>>
  BY DEF Schema!Stage
<1>2. writer = p /\ opening[p] \in Openings /\ Opener(p, opening[p], database, writer, published)
  BY <1>1, Held DEF SchemaInv, Holding, Schema!InTransaction
<1>3. opening' = [opening EXCEPT ![p] = x]
  BY <1>2 DEF Schema!Stage, SchemaInv
<1>4. x \in Openings /\ x.stage = "copied" /\ x.copy = database /\ x.tx = opening[p].tx
  BY <1>2 DEF SchemaInv, Openings, Schema!Stages, Schema!InTransaction
<1> HIDE DEF x
<1>5. Opener(p, x, database, p, published)
  BY <1>1, <1>2, <1>4 DEF Opener, Holding, Schema!InTransaction
<1> QED
  BY <1>1, <1>2, <1>3, <1>4, <1>5, StageMoves DEF SchemaInv

LEMMA PublishSnapshotKeeps == ASSUME SchemaInv, NEW p \in Procs, Schema!Publish(p) PROVE SchemaInv'
<1> DEFINE x == [opening[p] EXCEPT !.stage = "linked"]
<1>1. /\ opening[p].stage = "copied" /\ published' = published \cup {opening[p].copy}
      /\ opening' = [opening EXCEPT ![p] = x] /\ UNCHANGED <<database, writer, daily>>
  BY DEF Schema!Publish, Schema!Now
<1>2. writer = p /\ opening[p] \in Openings /\ Opener(p, opening[p], database, writer, published)
  BY <1>1, Held DEF SchemaInv, Holding, Schema!InTransaction
<1>3. opening[p].copy = database /\ database \in DataFiles /\ published \subseteq DataFiles
  BY <1>1, <1>2 DEF SchemaInv, Opener
<1>4. x \in Openings /\ x.stage = "linked" /\ x.copy = opening[p].copy /\ x.tx = opening[p].tx
  BY <1>2 DEF Openings, Schema!Stages, Schema!InTransaction
<1> HIDE DEF x
<1>5. Opener(p, x, database, p, published')
  BY <1>1, <1>2, <1>3, <1>4 DEF Opener, Holding, Schema!InTransaction
<1>6. published' \subseteq DataFiles
  BY <1>1, <1>3
<1> QED
  BY <1>1, <1>2, <1>4, <1>5, <1>6, StageMoves

LEMMA SyncFolderKeeps == ASSUME SchemaInv, NEW p \in Procs, Schema!SyncFolder(p) PROVE SchemaInv'
<1> DEFINE x == [opening[p] EXCEPT !.stage = "creating"]
<1>1. /\ opening[p].stage = "linked"
      /\ opening' = [opening EXCEPT ![p] = x] /\ UNCHANGED <<database, writer, published, daily>>
  BY DEF Schema!SyncFolder, Schema!Now
<1>2. writer = p /\ opening[p] \in Openings /\ Opener(p, opening[p], database, writer, published)
  BY <1>1, Held DEF SchemaInv, Holding, Schema!InTransaction
<1>3. x \in Openings /\ x.stage = "creating" /\ x.tx = opening[p].tx
  BY <1>2 DEF Openings, Schema!Stages, Schema!InTransaction
<1> HIDE DEF x
<1>4. Opener(p, x, database, p, published)
  BY <1>1, <1>2, <1>3 DEF Opener, Holding, Schema!InTransaction
<1> QED
  BY <1>1, <1>2, <1>3, <1>4, StageMoves DEF SchemaInv

LEMMA CreateTablesKeeps == ASSUME SchemaInv, NEW p \in Procs, Schema!Create(p) PROVE SchemaInv'
<1> DEFINE base == Schema!BaseParts(opening[p].tx)
           t == [opening[p].tx EXCEPT !.tables = TRUE, !.parts = opening[p].tx.parts \cup base]
           x == [opening[p] EXCEPT !.stage = "migrating", !.tx = t]
<1>1. opening[p].stage = "creating" /\ database' = database /\ UNCHANGED <<writer, published, daily>>
  BY DEF Schema!Create, Schema!Written
<1>2. writer = p /\ opening[p] \in Openings /\ Opener(p, opening[p], database, writer, published)
  BY <1>1, Held DEF SchemaInv, Holding, Schema!InTransaction
<1>3. opening' = [opening EXCEPT ![p] = x]
  BY <1>2 DEF Schema!Create, SchemaInv
<1>4. opening[p].tx = database /\ database \in DataFiles /\ 1..database.version \subseteq database.parts
  BY <1>1, <1>2 DEF SchemaInv, Opener
<1>5. base \subseteq 1..Target /\ (database.tables => base = {})
  BY <1>4, NodeAssumption DEF Schema!BaseParts
<1> HIDE DEF base
<1>6. /\ t \in DataFiles /\ t.tables /\ t.rows = database.rows /\ t.version = database.version
      /\ t.parts = database.parts \cup base
  BY <1>4, <1>5 DEF DataFiles, Schema!Files, Schema!Versions
<1> HIDE DEF t
<1>7. x \in Openings /\ x.stage = "migrating" /\ x.tx = t
  BY <1>2, <1>6 DEF Openings, Schema!Stages, Schema!InTransaction
<1> HIDE DEF x
<1>8. database.version \in Nat /\ Code[p] \in Nat /\ database.version <= Code[p]
  BY <1>1, <1>2, <1>4, Codes, FileFields DEF Opener, Holding, Schema!InTransaction
<1>9. Upgrading(t, database, Code[p])
  <2>1. database.version <= t.version /\ t.version <= Code[p]
    BY <1>6, <1>8
  <2>2. 1..t.version \subseteq t.parts
    BY <1>4, <1>6
  <2>3. database.tables => t.version = database.version /\ t.parts = database.parts
    BY <1>5, <1>6
  <2> QED
    BY <1>6, <2>1, <2>2, <2>3 DEF Upgrading
<1>10. Opener(p, x, database, p, published)
  BY <1>1, <1>2, <1>7, <1>8, <1>9 DEF Opener, Holding, Schema!InTransaction
<1> QED
  BY <1>1, <1>2, <1>3, <1>7, <1>10, StageMoves DEF SchemaInv

LEMMA MigrateKeeps == ASSUME SchemaInv, NEW p \in Procs, Schema!Migrate(p) PROVE SchemaInv'
<1> DEFINE s == opening[p].tx
           v == s.version + 1
           t == [s EXCEPT !.version = v, !.parts = s.parts \cup {v}]
           x == [opening[p] EXCEPT !.tx = t]
<1>1. opening[p].stage = "migrating" /\ v <= Code[p] /\ UNCHANGED <<database, writer, published, daily>>
  BY DEF Schema!Migrate
<1>2. writer = p /\ opening[p] \in Openings /\ Opener(p, opening[p], database, writer, published)
  BY <1>1, Held DEF SchemaInv, Holding, Schema!InTransaction
<1>3. Upgrading(s, database, Code[p])
  BY <1>1, <1>2 DEF Opener
<1>4. opening' = [opening EXCEPT ![p] = x]
  BY <1>2 DEF Schema!Migrate, SchemaInv
<1>5. /\ s \in DataFiles /\ s.version \in Nat /\ Code[p] \in 1..Target /\ database.version \in Nat
      /\ Target \in Nat /\ s.parts \subseteq 1..Target
  BY <1>3, Codes, FileFields DEF SchemaInv, Upgrading
<1>6. /\ v \in 1..Target /\ v \in 0..Target /\ v \in Nat /\ 1..v = (1..s.version) \cup {v} /\ s.version < Code[p]
      /\ \A n \in Nat : n <= s.version => n <= v
  BY <1>1, <1>5
<1> HIDE DEF v
<1>7. t \in DataFiles /\ t.tables = s.tables /\ t.rows = s.rows /\ t.version = v /\ t.parts = s.parts \cup {v}
  BY <1>5, <1>6 DEF DataFiles, Schema!Files, Schema!Versions
<1> HIDE DEF t
<1>8. database.version < Code[p]
  BY <1>3, <1>5, <1>6 DEF Upgrading
<1>9. database.version # Code[p]
  BY <1>5, <1>8
<1>10. Upgrading(t, database, Code[p])
  <2>1. t.tables /\ t.rows = database.rows
    BY <1>3, <1>7 DEF Upgrading
  <2>2. database.version <= t.version /\ t.version <= Code[p]
    BY <1>1, <1>3, <1>5, <1>6, <1>7 DEF Upgrading
  <2>3. 1..t.version \subseteq t.parts
    BY <1>3, <1>6, <1>7 DEF Upgrading
  <2> QED
    BY <1>7, <1>9, <2>1, <2>2, <2>3 DEF Upgrading
<1>11. x \in Openings /\ x.stage = "migrating" /\ x.tx = t
  BY <1>1, <1>2, <1>7 DEF Openings
<1> HIDE DEF x, s
<1>12. Opener(p, x, database, p, published)
  BY <1>1, <1>2, <1>10, <1>11 DEF Opener, Holding, Schema!InTransaction
<1> QED
  BY <1>1, <1>2, <1>4, <1>11, <1>12, StageMoves DEF SchemaInv

\* What a commit writes, and what it finds.
LEMMA Committed ==
    ASSUME SchemaInv, NEW p \in Procs, Schema!Commit(p)
    PROVE  /\ writer = p /\ database' = opening[p].tx /\ Upgrading(database', database, Code[p])
           /\ database'.version = Code[p]
           /\ database.tables /\ database.version < Code[p] => database \in published
           /\ writer' = "nobody" /\ published' = published
<1>1. /\ opening[p].stage = "migrating" /\ opening[p].tx.version >= Code[p] /\ database' = opening[p].tx
      /\ writer' = "nobody" /\ published' = published
  BY DEF Schema!Commit, Schema!NoOne
<1>2. writer = p /\ Opener(p, opening[p], database, writer, published)
  BY <1>1, Held DEF SchemaInv, Holding, Schema!InTransaction
<1>3. Upgrading(database', database, Code[p])
  BY <1>1, <1>2 DEF Opener
<1>4. database'.version = Code[p]
  BY <1>1, <1>3, Codes, FileFields DEF Upgrading
<1> QED
  BY <1>1, <1>2, <1>3, <1>4 DEF Opener

LEMMA Entering ==
    ASSUME NEW d \in Seq(Dailies), NEW p \in Procs
    PROVE  /\ Append(d, [by |-> p, whole |-> FALSE]) \in Seq(Dailies)
           /\ Schema!HasCopy(d) => Schema!HasCopy(Append(d, [by |-> p, whole |-> FALSE]))
<1> DEFINE e == [by |-> p, whole |-> FALSE]
           s == Append(d, e)
<1>1. e \in Dailies
  BY DEF Dailies
<1> HIDE DEF e
<1>2. s \in Seq(Dailies) /\ Len(s) = Len(d) + 1 /\ \A i \in 1..Len(d) : i \in 1..Len(s) /\ s[i] = d[i]
  BY <1>1
<1> HIDE DEF s
<1>3. Schema!HasCopy(d) => Schema!HasCopy(s)
  BY <1>2 DEF Schema!HasCopy
<1> QED
  BY <1>2, <1>3 DEF s, e

LEMMA CommitKeeps == ASSUME SchemaInv, NEW p \in Procs, Schema!Commit(p) PROVE SchemaInv'
<1> DEFINE x == [Schema!Down EXCEPT !.stage = "saving"]
<1>1. opening' = [opening EXCEPT ![p] = x] /\ daily' = Append(daily, [by |-> p, whole |-> FALSE])
  BY DEF Schema!Commit, Schema!Entered
<1>2. x \in Openings /\ x.stage = "saving"
  BY DownIs DEF Openings, Schema!Stages
<1> HIDE DEF x
<1>3. daily' \in Seq(Dailies)
  BY <1>1, Entering DEF SchemaInv
<1>4. /\ database' \in DataFiles /\ 1..database'.version \subseteq database'.parts
      /\ database.version <= database'.version
  BY Committed DEF Upgrading
<1>5. database'.version = Code[p] /\ Code[p] <= Code[p]
  BY Committed, Codes
<1>6. Opener(p, x, database', "nobody", published)
  BY <1>2, <1>5 DEF Opener, Holding, Schema!InTransaction
<1>7. published \subseteq DataFiles
  BY DEF SchemaInv
<1> QED
  BY <1>1, <1>2, <1>3, <1>4, <1>6, <1>7, Committed, OneMoves

LEMMA FailKeeps == ASSUME SchemaInv, NEW p \in Procs, Schema!Fail(p) PROVE SchemaInv'
<1>1. /\ opening[p].stage \in Holding /\ writer' = "nobody" /\ published' \subseteq published
      /\ opening' = [opening EXCEPT ![p] = Schema!Down] /\ UNCHANGED <<database, daily>>
  BY DEF Schema!Fail, Holding, Schema!NoOne
<1>2. writer = p /\ published' \subseteq DataFiles
  BY <1>1, Held DEF SchemaInv
<1> QED
  BY <1>1, <1>2, DownIs, StageMoves

\* The end of a process.
LEMMA EndKeeps == ASSUME SchemaInv, NEW p \in Procs, Schema!Crash(p) \/ Schema!Stop(p) PROVE SchemaInv'
<1>1. /\ opening' = [opening EXCEPT ![p] = Schema!Down] /\ UNCHANGED <<database, published, daily>>
      /\ (writer = p \/ writer' = writer) /\ writer' \in {writer, "nobody"}
  BY DEF Schema!Crash, Schema!Stop, Schema!NoOne
<1>2. /\ database.version <= database.version /\ writer' \in Procs \cup {"nobody"}
      /\ database \in DataFiles /\ 1..database.version \subseteq database.parts
      /\ published \subseteq DataFiles /\ daily \in Seq(Dailies)
  BY <1>1, FileFields DEF SchemaInv
<1> QED
  BY <1>1, <1>2, DownIs, OneMoves

LEMMA WorkKeeps == ASSUME SchemaInv, NEW p \in Procs, Schema!Work(p) PROVE SchemaInv'
<1> DEFINE n == database.rows + 1
<1>1. /\ writer = "nobody" /\ database.rows < MaxRows /\ database' = [database EXCEPT !.rows = n]
      /\ UNCHANGED <<writer, opening, published, daily>>
  BY DEF Schema!Work, Schema!NoOne
<1>2. database \in DataFiles /\ database.rows \in 0..MaxRows
  BY FileFields DEF SchemaInv
<1>3. n \in 0..MaxRows
  BY <1>1, <1>2, NodeAssumption
<1> HIDE DEF n
<1>4. database' \in DataFiles /\ database'.version = database.version /\ database'.parts = database.parts
  BY <1>1, <1>2, <1>3 DEF DataFiles, Schema!Files
<1>5. database.version <= database'.version
  BY <1>2, <1>4, FileFields
<1>6. ASSUME NEW q \in Procs PROVE Opener(q, opening[q], database', writer, published)
  <2>1. opening[q].stage \notin Holding
    BY <1>1, NodeAssumption DEF SchemaInv, Opener
  <2> QED
    BY <1>4, <1>5, <2>1, OthersRest
<1> QED
  BY <1>1, <1>4, <1>6 DEF SchemaInv

\* A process has a last entry, if it has one.
LEMMA LastEntry ==
    ASSUME NEW d \in Seq(Dailies), NEW p \in Procs, NEW i \in 1..Len(d), d[i].by = p
    PROVE  \E k \in 1..Len(d) : /\ d[k].by = p
                                /\ \A j \in k + 1..Len(d) : d[j].by # p
<1> DEFINE K == {k \in 1..Len(d) : d[k].by = p}
           n == Len(d)
           T == {n - k : k \in K}
<1>1. n \in Nat /\ i \in K /\ \A k \in K : k \in 1..n
  OBVIOUS
<1>2. \A k \in 1..n : n - k \in Nat
  BY <1>1
<1>3. T \in SUBSET Nat /\ T # {}
  BY <1>1, <1>2
<1>4. PICK x \in T : \A y \in T : x <= y
  BY <1>3, Least
<1>5. PICK k \in K : x = n - k
  BY <1>4
<1>6. \A j \in K : n - k <= n - j
  BY <1>4, <1>5
<1>7. ASSUME NEW j \in k + 1..n PROVE j \notin K
  <2>1. k \in 1..n /\ j \in 1..n /\ ~(n - k <= n - j)
    BY <1>1, <1>5, <1>7
  <2> QED
    BY <1>6, <2>1
<1>8. \A j \in k + 1..n : j \in 1..n
  BY <1>1, <1>5
<1> QED
  BY <1>5, <1>7, <1>8

\* The end of a sequence.
LEMMA EndOf ==
    ASSUME NEW S, NEW s \in Seq(S), NEW a \in 1..Len(s)
    PROVE  /\ SubSeq(s, a, Len(s)) \in Seq(S)
           /\ \A i \in a..Len(s) : \E j \in 1..Len(SubSeq(s, a, Len(s))) : SubSeq(s, a, Len(s))[j] = s[i]
<1> DEFINE t == SubSeq(s, a, Len(s))
           n == Len(s)
<1>1. n \in Nat /\ a \in Int /\ n \in Int /\ a <= n /\ \A i \in a..n : s[i] \in S
  OBVIOUS
<1>2. t \in Seq(S) /\ Len(t) = n - a + 1 /\ \A i \in 1..n - a + 1 : t[i] = s[a + i - 1]
  BY <1>1, SubSeqProperties
<1> HIDE DEF t
<1>3. ASSUME NEW i \in a..n PROVE \E j \in 1..Len(t) : t[j] = s[i]
  <2>1. i - a + 1 \in 1..Len(t) /\ a + (i - a + 1) - 1 = i
    BY <1>1, <1>2
  <2> QED
    BY <1>2, <2>1
<1> QED
  BY <1>2, <1>3 DEF t

\* Where the copies that are kept begin.
From(n) == IF n > Keep THEN n - Keep + 1 ELSE 1

LEMMA FromIs ==
    ASSUME NEW n \in Nat, n >= 1
    PROVE  From(n) \in 1..n /\ \A i \in 1..n : ~(i <= n - Keep) => i \in From(n)..n
BY NodeAssumption DEF From

\* What the daily copies are once that of p is complete.
LEMMA Saving ==
    ASSUME SchemaInv, NEW p \in Procs, Schema!Save(p)
    PROVE  /\ daily' \in Seq(Dailies)
           /\ Schema!HasCopy(daily) /\ ~Schema!Overtaken(p) => Schema!HasCopy(daily')
<1>1. daily \in Seq(Dailies)
  BY DEF SchemaInv
<1>2. CASE ~ \E i \in 1..Len(daily) : daily[i].by = p
  BY <1>1, <1>2 DEF Schema!Save
<1>3. CASE \E i \in 1..Len(daily) : daily[i].by = p
  <2> DEFINE Last(k) == k \in 1..Len(daily) /\ daily[k].by = p /\ \A j \in k + 1..Len(daily) : daily[j].by # p
             mine == CHOOSE k \in 1..Len(daily) : daily[k].by = p /\ \A j \in k + 1..Len(daily) : daily[j].by # p
             e == [daily[mine] EXCEPT !.whole = TRUE]
             all == [daily EXCEPT ![mine] = e]
  <2>1. \E k \in 1..Len(daily) : daily[k].by = p /\ \A j \in k + 1..Len(daily) : daily[j].by # p
    BY <1>1, <1>3, LastEntry
  <2>2. mine \in 1..Len(daily) /\ daily[mine].by = p /\ \A j \in mine + 1..Len(daily) : daily[j].by # p
    BY <2>1
  <2>3. daily' = SubSeq(all, From(Len(all)), Len(all))
    BY <1>3 DEF Schema!Save, From
  <2> HIDE DEF mine
  <2>4. daily[mine] \in Dailies
    BY <1>1, <2>2
  <2>5. e \in Dailies /\ e.whole
    BY <2>4 DEF Dailies
  <2> HIDE DEF e
  <2>6. all \in Seq(Dailies) /\ Len(all) = Len(daily) /\ all[mine] = e
    BY <1>1, <2>2, <2>5
  <2> HIDE DEF all
  <2> DEFINE n == Len(all)
  <2>7. n \in Nat /\ n >= 1 /\ mine \in 1..n
    BY <2>2, <2>6
  <2>8. From(n) \in 1..n /\ \A i \in 1..n : ~(i <= n - Keep) => i \in From(n)..n
    BY <2>7, FromIs
  <2>9. daily' \in Seq(Dailies)
    BY <2>3, <2>6, <2>8, EndOf
  <2>10. ASSUME ~Schema!Overtaken(p) PROVE Schema!HasCopy(daily')
    <3>1. PICK i \in 1..Len(daily) : daily[i].by = p /\ ~(i <= n - Keep)
      BY <1>3, <2>6, <2>10 DEF Schema!Overtaken
    <3>2. i <= mine
      <4>1. i \notin mine + 1..Len(daily)
        BY <2>2, <3>1
      <4> QED
        BY <2>2, <2>6, <2>7, <4>1
    <3>3. ~(mine <= n - Keep)
      BY <2>7, <3>1, <3>2, NodeAssumption
    <3>4. mine \in From(n)..n
      BY <2>7, <2>8, <3>3
    <3>5. \E j \in 1..Len(daily') : daily'[j] = e
      BY <2>3, <2>6, <2>8, <3>4, EndOf
    <3> QED
      BY <2>5, <3>5 DEF Schema!HasCopy
  <2> QED
    BY <2>9, <2>10
<1> QED
  BY <1>2, <1>3

\* The daily copy is done with.
LEMMA SavedCopyKeeps == ASSUME SchemaInv, NEW p \in Procs, Schema!Save(p) \/ Schema!SaveFails(p) PROVE SchemaInv'
<1> DEFINE x == [opening[p] EXCEPT !.stage = "up"]
<1>1. /\ opening[p].stage = "saving" /\ opening' = [opening EXCEPT ![p] = x]
      /\ UNCHANGED <<database, writer, published>>
  BY DEF Schema!Save, Schema!SaveFails, Schema!Now
<1>2. daily' \in Seq(Dailies)
  BY Saving DEF SchemaInv, Schema!SaveFails
<1>3. opening[p] \in Openings /\ Opener(p, opening[p], database, writer, published)
  BY DEF SchemaInv
<1>4. x \in Openings /\ x.stage = "up"
  BY <1>3 DEF Openings, Schema!Stages
<1> HIDE DEF x
<1>5. Opener(p, x, database, writer, published)
  BY <1>1, <1>3, <1>4 DEF Opener, Holding, Schema!InTransaction
<1>6. /\ database.version <= database.version /\ writer \in Procs \cup {"nobody"}
      /\ database \in DataFiles /\ 1..database.version \subseteq database.parts
      /\ published \subseteq DataFiles
  BY FileFields DEF SchemaInv
<1> QED
  BY <1>1, <1>2, <1>4, <1>5, <1>6, OneMoves

LEMMA SchemaRests == ASSUME SchemaInv, UNCHANGED schemaVars PROVE SchemaInv'
BY DEF SchemaInv, schemaVars

LEMMA SchemaStep == ASSUME SchemaInv, Schema!Next PROVE SchemaInv'
BY OpenBeginKeeps, InspectKeeps, StageKeeps, PublishSnapshotKeeps, SyncFolderKeeps, CreateTablesKeeps, MigrateKeeps,
   CommitKeeps, FailKeeps, SavedCopyKeeps, WorkKeeps, EndKeeps DEF Schema!Next

\* A change of the schema is a commit.
LEMMA SchemaChanges ==
    ASSUME SchemaInv, Schema!Next,
           database'.tables # database.tables \/ database'.version # database.version \/ database'.parts # database.parts
    PROVE  /\ 1..database'.version \subseteq database'.parts
           /\ \E p \in Procs : database'.version = Code[p]
           /\ database.tables => database \in published /\ database'.rows = database.rows
<1>1. PICK p \in Procs : Schema!Commit(p) \/ Schema!Work(p) \/ UNCHANGED database
  BY DEF Schema!Next, Schema!Begin, Schema!Inspect, Schema!Stage, Schema!Publish, Schema!SyncFolder, Schema!Create,
         Schema!Written, Schema!Migrate, Schema!Fail, Schema!Save, Schema!SaveFails, Schema!Stop, Schema!Crash
<1>2. CASE Schema!Commit(p)
  <2>1. Upgrading(database', database, Code[p]) /\ database'.version = Code[p]
    BY <1>2, Committed
  <2>2. ASSUME database.tables PROVE database \in published
    <3>1. database.version # Code[p]
      BY <2>1, <2>2 DEF Upgrading
    <3>2. database.version \in Nat /\ Code[p] \in Nat /\ database.version <= Code[p]
      BY <2>1, Codes, FileFields DEF SchemaInv, Upgrading
    <3>3. database.version < Code[p]
      BY <3>1, <3>2
    <3> QED
      BY <1>2, <2>2, <3>3, Committed
  <2> QED
    BY <2>1, <2>2 DEF Upgrading
<1>3. CASE Schema!Work(p)
  <2> DEFINE n == database.rows + 1
  <2>1. database' = [database EXCEPT !.rows = n] /\ database \in DataFiles
    BY <1>3 DEF Schema!Work, SchemaInv
  <2> HIDE DEF n
  <2>2. database'.tables = database.tables /\ database'.version = database.version /\ database'.parts = database.parts
    BY <2>1 DEF DataFiles, Schema!Files
  <2> QED
    BY <2>2
<1>4. CASE UNCHANGED database
  BY <1>4
<1> QED
  BY <1>1, <1>2, <1>3, <1>4

\* No step takes the last complete daily copy away.
LEMMA CopyStays ==
    ASSUME SchemaInv, Schema!Next, Schema!HasCopy(daily),
           \A p \in Procs : opening[p].stage = "saving" => ~Schema!Overtaken(p)
    PROVE  Schema!HasCopy(daily')
<1>1. PICK p \in Procs : Schema!Commit(p) \/ Schema!Save(p) \/ UNCHANGED daily
  BY DEF Schema!Next, Schema!Begin, Schema!Inspect, Schema!Stage, Schema!Publish, Schema!SyncFolder, Schema!Create,
         Schema!Migrate, Schema!Fail, Schema!SaveFails, Schema!Work, Schema!Stop, Schema!Crash
<1>2. CASE Schema!Commit(p)
  BY <1>2, Entering DEF SchemaInv, Schema!Commit, Schema!Entered
<1>3. CASE Schema!Save(p)
  <2>1. ~Schema!Overtaken(p)
    BY <1>3 DEF Schema!Save
  <2> QED
    BY <1>3, <2>1, Saving
<1>4. CASE UNCHANGED daily
  BY <1>4
<1> QED
  BY <1>1, <1>2, <1>3, <1>4

SchemaCounts == duty = "schema" => mishaps \in 0..SchemaFaults

LEMMA SchemaCounted == Schema!Next /\ mishaps \in 0..SchemaFaults => mishaps' \in 0..SchemaFaults
<1> SUFFICES ASSUME Schema!Next, mishaps \in 0..SchemaFaults PROVE mishaps' \in 0..SchemaFaults
  OBVIOUS
<1>1. mishaps' = mishaps \/ (mishaps < SchemaFaults /\ mishaps' = mishaps + 1)
  BY DEF Schema!Next, Schema!Begin, Schema!Inspect, Schema!Stage, Schema!Publish, Schema!SyncFolder, Schema!Create,
         Schema!Migrate, Schema!Commit, Schema!Fail, Schema!Save, Schema!SaveFails, Schema!Work, Schema!Stop,
         Schema!Crash
<1> QED
  BY <1>1, NodeAssumption

LEMMA SchemaImplies ==
    SchemaInv => /\ mishaps \in 0..SchemaFaults => Schema!TypeOK
                 /\ Schema!SchemaServed
<1> SUFFICES ASSUME SchemaInv
             PROVE  (mishaps \in 0..SchemaFaults => Schema!TypeOK) /\ Schema!SchemaServed
  OBVIOUS
<1>1. mishaps \in 0..SchemaFaults => Schema!TypeOK
  BY DEF SchemaInv, Schema!TypeOK, Openings, DataFiles, Dailies, Schema!NoOne
<1>2. ASSUME NEW p \in Procs, opening[p].stage \in {"saving", "up"}
      PROVE  database.version >= Code[p] /\ 1..Code[p] \subseteq database.parts
  <2>1. Code[p] <= database.version /\ 1..database.version \subseteq database.parts
    BY <1>2 DEF SchemaInv, Opener
  <2>2. Code[p] \in Nat /\ database.version \in Nat
    BY Codes, FileFields DEF SchemaInv
  <2>3. database.version >= Code[p] /\ 1..Code[p] \subseteq 1..database.version
    BY <2>1, <2>2
  <2> QED
    BY <2>1, <2>3
<1>3. Schema!Half \notin published
  BY HalfIsNoFile DEF SchemaInv
<1> QED
  BY <1>1, <1>2, <1>3 DEF Schema!SchemaServed

\* A process that serves has its whole schema, what an upgrade changes can be restored, and a
\* complete daily copy stays (database.py, schema_upgrade.py).
THEOREM SchemaIsSound == NodeSpec => SchemaSound
<1>1. NodeInit => SchemaInv /\ SchemaCounts
  <2>1. NodeInit => mishaps = 0
    BY DEF NodeInit, Schema!Init
  <2>2. 0 \in 0..SchemaFaults
    BY NodeAssumption
  <2> QED
    BY <2>1, <2>2, SchemaInit DEF NodeInit, SchemaCounts
<1>2. SchemaInv /\ [NodeNext]_nodeVars => SchemaInv'
  BY SchemaStep, SchemaRests DEF NodeNext, nodeVars
<1>3. SchemaCounts /\ [NodeNext]_nodeVars => SchemaCounts'
  BY SchemaCounted DEF SchemaCounts, NodeNext, nodeVars
<1>4. SchemaInv /\ SchemaCounts => (duty = "schema" => Schema!TypeOK /\ Schema!SchemaServed)
  BY SchemaImplies DEF SchemaCounts
<1>5. SchemaInv /\ [NodeNext]_nodeVars => [Schema!Next]_schemaVars
  BY DEF NodeNext, nodeVars
<1>6. SchemaInv /\ [NodeNext]_nodeVars =>
          [database'.tables # database.tables \/ database'.version # database.version
              \/ database'.parts # database.parts
           => /\ 1..database'.version \subseteq database'.parts
              /\ \E p \in Procs : database'.version = Code[p]
              /\ database.tables => database \in published /\ database'.rows = database.rows]_(Schema!vars)
  <2>1. CASE UNCHANGED schemaVars
    BY <2>1 DEF schemaVars
  <2>2. CASE Schema!Next
    BY <2>2, SchemaChanges
  <2> QED
    BY <1>5, <2>1, <2>2
<1>7. SchemaInv /\ [NodeNext]_nodeVars =>
          [Schema!HasCopy(daily) /\ (\A p \in Procs : opening[p].stage = "saving" => ~Schema!Overtaken(p))
           => Schema!HasCopy(daily')]_(Schema!vars)
  <2>1. CASE UNCHANGED schemaVars
    BY <2>1 DEF schemaVars
  <2>2. CASE Schema!Next
    BY <2>2, CopyStays
  <2> QED
    BY <1>5, <2>1, <2>2
<1> QED
  BY <1>1, <1>2, <1>3, <1>4, <1>6, <1>7, PTL DEF NodeSpec, SchemaSound, Schema!Restorable, Schema!DailyKept

-----------------------------------------------------------------------------
(* Starting a station.                                                     *)

Life == {"unborn", "check", "kill", "write", "start", "run", "closing", "clear", "unlink", "gone"}
Processes ==
    [pc : Life, ver : Releases \cup {0}, dev : BOOLEAN, port : {"none", "main", "other"},
     target : Pids \cup {0}, watch : {"idle", "asked", "spawned"}]
Locks  == [pid : Pids \cup {0}, ver : Releases \cup {0}]
Blames == {"overlap", "kill", "lock", "version", "stopped", "outrun"}

\* In what follows s are the processes and i is the one that the lock names.
Lives(s, p)    == s[p].pc \notin {"unborn", "gone"}
Settled(s, p)  == s[p].pc \in {"start", "run"}
Judges(s, p)   == s[p].pc \in {"kill", "write"}
Owner(s, i, p) == Lives(s, p) /\ (i = p \/ Settled(s, p))

Started(s, l) ==
    /\ s \in [Pids -> Processes] /\ l \in Locks
    /\ \A p \in Pids :
        /\ s[p].port # "none" => s[p].pc \in {"run", "closing"}
        /\ s[p].watch # "idle" => s[p].pc \in {"closing", "clear", "unlink"}
        /\ l.pid = p => s[p].pc \notin {"unborn", "check", "kill", "write"}
    /\ \A p, q \in Pids : s[p].port = "main" /\ s[q].port = "main" => p = q

\* One process judges at a time, and what it found alive is its target until it is dead.
OneOwner(s, i) ==
    /\ \A p, q \in Pids : Judges(s, p) /\ Judges(s, q) => p = q
    /\ \A p \in Pids :
        /\ Settled(s, p) => i = p \/ (i = 0 /\ s[p].port = "main")
        /\ s[p].pc = "unlink" => i = p
    /\ \A p, q \in Pids :
        /\ s[q].pc = "kill" /\ Owner(s, i, p) => s[q].target = p
        /\ s[q].pc = "write" => ~Owner(s, i, p)

\* A process that does not end without a successor; only one that starts may still give way.
Stays(s, p) == Lives(s, p) /\ s[p].watch # "spawned" /\ (s[p].pc = "check" => s[p].dev)
Manned(s, i) ==
    \A p \in Pids :
        /\ s[p].pc \in {"closing", "clear", "unlink"} => s[p].watch # "idle"
        /\ Lives(s, p) /\ i = p => \E r \in Pids : Stays(s, r)
        /\ s[p].pc # "unborn" => \E r \in Pids : Stays(s, r) \/ s[r].pc = "check"

Unexcused(b) == b \cap {"overlap", "kill", "lock"} = {}
Kept(b)  == b \cap {"stopped", "version", "outrun"} = {}

StartInv ==
    /\ Started(station, lock) /\ head \in Releases /\ blame \subseteq Blames
    /\ Unexcused(blame) => OneOwner(station, lock.pid)
    /\ Kept(blame) => Manned(station, lock.pid)

LEMMA NoOneIsZero == 0 \notin Pids
BY NodeAssumption

LEMMA UnbornIs ==
    /\ Start!Unborn \in Processes /\ Start!Gone \in Processes
    /\ Start!Unborn.pc = "unborn" /\ Start!Unborn.port = "none" /\ Start!Unborn.watch = "idle"
    /\ Start!Gone.pc = "gone" /\ Start!Gone.port = "none" /\ Start!Gone.watch = "idle"
BY DEF Start!Unborn, Start!Gone, Start!None, Processes, Life

LEMMA LaunchedIs ==
    ASSUME head \in Releases, NEW d \in BOOLEAN
    PROVE  /\ Start!Launched(d) \in Processes /\ Start!Launched(d).pc = "check" /\ Start!Launched(d).dev = d
           /\ Start!Launched(d).port = "none" /\ Start!Launched(d).watch = "idle"
BY DEF Start!Launched, Start!Unborn, Start!None, Processes, Life

LEMMA AliveIs == \A p \in Pids : Start!Alive(p) <=> Lives(station, p)
BY NoOneIsZero DEF Start!Alive, Start!None, Lives

LEMMA StartInit == Start!Init => StartInv
<1> SUFFICES ASSUME Start!Init PROVE StartInv
  OBVIOUS
<1>1. head \in Releases /\ lock = Start!NoLock /\ blame = {}
  BY DEF Start!Init
<1>2. lock \in Locks /\ lock.pid = 0 /\ \A p \in Pids : lock.pid # p
  BY <1>1, NoOneIsZero DEF Locks, Start!NoLock, Start!None
<1>3. CASE station = [p \in Pids |-> Start!Unborn]
  <2>1. station \in [Pids -> Processes] /\ \A p \in Pids : station[p] = Start!Unborn
    BY <1>3, UnbornIs
  <2> QED
    BY <1>1, <1>2, <2>1, UnbornIs DEF StartInv, Started, OneOwner, Manned, Judges, Settled, Owner, Lives
<1>4. ASSUME NEW v \in Releases, station = [p \in Pids |-> IF p = Start!First THEN Start!Legacy(v) ELSE Start!Unborn]
      PROVE  StartInv
  <2> DEFINE x == Start!Legacy(v)  l == Start!First
  <2>2. x \in Processes /\ x.pc = "run" /\ x.port = "main" /\ x.watch = "idle"
    BY <1>4 DEF Start!Legacy, Start!Unborn, Start!None, Processes, Life
  <2>3. station = [p \in Pids |-> IF p = l THEN x ELSE Start!Unborn]
    BY <1>4
  <2> HIDE DEF x, l
  <2>4. station \in [Pids -> Processes] /\ \A p \in Pids : station[p] = IF p = l THEN x ELSE Start!Unborn
    BY <2>2, <2>3, UnbornIs
  <2>5. Started(station, lock)
    BY <1>2, <2>2, <2>4, UnbornIs DEF Started
  <2>6. OneOwner(station, lock.pid)
    BY <1>2, <2>2, <2>4, UnbornIs DEF OneOwner, Judges, Settled
  <2>7. Manned(station, lock.pid)
    <3>1. ASSUME NEW p \in Pids, station[p].pc # "unborn" PROVE Stays(station, p)
      <4>1. station[p] = x
        BY <2>4, <3>1, UnbornIs
      <4> QED
        BY <2>2, <4>1 DEF Stays, Lives
    <3>2. \A p \in Pids : station[p].pc \notin {"closing", "clear", "unlink"}
      BY <2>2, <2>4, UnbornIs
    <3> QED
      BY <1>2, <3>1, <3>2 DEF Manned
  <2> QED
    BY <1>1, <2>5, <2>6, <2>7 DEF StartInv
<1> QED
  BY <1>3, <1>4 DEF Start!Init

\* What is blamed is blamed for ever.
LEMMA StartMoves ==
    ASSUME StartInv, Started(station', lock'), head' \in Releases, blame \subseteq blame', blame' \subseteq Blames,
           OneOwner(station, lock.pid) /\ Unexcused(blame') => OneOwner(station', lock'.pid),
           Manned(station, lock.pid) /\ Kept(blame') => Manned(station', lock'.pid)
    PROVE  StartInv'
<1>1. (Unexcused(blame') => Unexcused(blame)) /\ (Kept(blame') => Kept(blame))
  BY DEF Unexcused, Kept
<1> QED
  BY <1>1 DEF StartInv, Unexcused, Kept

\* One process goes on to x.
LEMMA OneStarts ==
    ASSUME Started(station, lock), NEW p \in Pids, NEW x \in Processes, station' = [station EXCEPT ![p] = x],
           x.port # "none" => x.pc \in {"run", "closing"},
           x.watch # "idle" => x.pc \in {"closing", "clear", "unlink"},
           lock.pid = p => x.pc \notin {"unborn", "check", "kill", "write"},
           x.port = "main" => station[p].port = "main" \/ \A q \in Pids : station[q].port # "main"
    PROVE  Started(station', lock) /\ station'[p] = x /\ \A q \in Pids \ {p} : station'[q] = station[q]
<1>1. station \in [Pids -> Processes]
  BY DEF Started
<1>2. station' \in [Pids -> Processes] /\ station'[p] = x /\ \A q \in Pids \ {p} : station'[q] = station[q]
  BY <1>1
<1>3. Started(station', lock)
  BY <1>2 DEF Started
<1> QED
  BY <1>2, <1>3

LEMMA LaunchStationKeeps == ASSUME StartInv, NEW p \in Pids, NEW d \in BOOLEAN, Start!Launch(p, d) PROVE StartInv'
<1> DEFINE x == Start!Launched(d)
<1>1. /\ station[p].pc = "unborn" /\ station' = [station EXCEPT ![p] = x]
      /\ UNCHANGED <<lock, head, blame>>
  BY DEF Start!Launch, Start!Fresh, Start!At
<1>2. /\ x \in Processes /\ x.pc = "check" /\ x.port = "none" /\ x.watch = "idle"
      /\ Started(station, lock) /\ lock.pid # p
  BY <1>1, LaunchedIs DEF StartInv, Started
<1> HIDE DEF x
<1>3. Started(station', lock') /\ station'[p] = x /\ \A q \in Pids \ {p} : station'[q] = station[q]
  BY <1>1, <1>2, OneStarts
<1>4. OneOwner(station, lock.pid) => OneOwner(station', lock'.pid)
  BY <1>1, <1>2, <1>3 DEF OneOwner, Judges, Settled, Owner, Lives
<1>5. \A r \in Pids : Stays(station, r) => Stays(station', r)
  BY <1>1, <1>2, <1>3 DEF Stays, Lives
<1>6. Manned(station, lock.pid) => Manned(station', lock'.pid)
  BY <1>1, <1>2, <1>3, <1>5 DEF Manned, Lives
<1> QED
  BY <1>1, <1>3, <1>4, <1>6, StartMoves DEF StartInv

\* Of the main port there is one holder, and it is found.
LEMMA HolderIs ==
    ASSUME StartInv
    PROVE  /\ \A p \in Pids : station[p].port = "main" => Start!Holder("main") = p
           /\ Start!Holder("main") \in Pids \cup {0}
           /\ Start!Holder("main") = 0 => \A p \in Pids : station[p].port # "main"
<1> DEFINE on == {p \in Pids : Start!Alive(p) /\ station[p].port = "main"}
<1>1. ASSUME NEW p \in Pids, station[p].port = "main" PROVE on = {p}
  <2>1. Lives(station, p)
    BY <1>1 DEF StartInv, Started, Lives
  <2> QED
    BY <1>1, <2>1, AliveIs DEF StartInv, Started
<1>2. Start!Holder("main") = IF on = {} THEN 0 ELSE CHOOSE p \in on : TRUE
  BY DEF Start!Holder, Start!None
<1>3. \A p : on = {p} => Start!Holder("main") = p
  BY <1>2
<1>4. on \subseteq Pids
  OBVIOUS
<1>5. Start!Holder("main") \in Pids \cup {0}
  BY <1>2, <1>4
<1> HIDE DEF on
<1> QED
  BY <1>1, <1>3, <1>5, NoOneIsZero

LEMMA JudgeKeeps == ASSUME StartInv, NEW p \in Pids, Start!ReadLock(p) PROVE StartInv'
<1> DEFINE victim == IF ~Start!Alive(lock.pid) THEN Start!Holder("main") ELSE lock.pid
           x == [station[p] EXCEPT !.pc = "kill", !.target = victim]
<1>1. /\ station[p].pc = "check" /\ UNCHANGED <<lock, head>>
      /\ blame \subseteq blame' /\ blame' \subseteq blame \cup {"overlap", "version"}
      /\ (\E q \in Pids : Judges(station, q)) => "overlap" \in blame'
      /\ Start!Alive(lock.pid) /\ Start!Verdict(p) = "exit" /\ station[p].ver # lock.ver => "version" \in blame'
  BY DEF Start!ReadLock, Start!At, Start!Arbitrates, Judges
<1>2. \/ station' = [station EXCEPT ![p] = x]
      \/ Start!Alive(lock.pid) /\ Start!Verdict(p) # "proceed" /\ station' = [station EXCEPT ![p] = Start!Gone]
  BY DEF Start!ReadLock
<1>3. /\ Started(station, lock) /\ station[p] \in Processes /\ lock.pid # p /\ lock.pid \in Pids \cup {0}
      /\ station[p].port = "none" /\ station[p].watch = "idle"
  BY <1>1 DEF StartInv, Started, Locks
<1>4. blame' \subseteq Blames
  BY <1>1 DEF StartInv, Blames
<1>5. CASE station' = [station EXCEPT ![p] = x]
  <2>1. victim \in Pids \cup {0}
    BY <1>3, HolderIs
  <2>2. \A q \in Pids : lock.pid = q /\ Lives(station, q) => victim = q
    BY AliveIs
  <2>3. \A q \in Pids : ~ (lock.pid = q /\ Lives(station, q)) /\ lock.pid = 0 /\ station[q].port = "main" => victim = q
    BY HolderIs DEF Start!Alive, Start!None
  <2>4. /\ x \in Processes /\ x.pc = "kill" /\ x.target = victim /\ x.port = station[p].port
        /\ x.watch = station[p].watch
    BY <1>3, <2>1 DEF Processes, Life
  <2> HIDE DEF x, victim
  <2>5. Started(station', lock') /\ station'[p] = x /\ \A q \in Pids \ {p} : station'[q] = station[q]
    BY <1>1, <1>3, <1>5, <2>4, OneStarts
  <2>6. OneOwner(station, lock.pid) /\ Unexcused(blame') => OneOwner(station', lock'.pid)
    <3> SUFFICES ASSUME OneOwner(station, lock.pid), Unexcused(blame') PROVE OneOwner(station', lock.pid)
      BY <1>1
    <3>1. \A q \in Pids : ~Judges(station, q)
      BY <1>1 DEF Unexcused
    <3>2. \A q \in Pids : Owner(station, lock.pid, q) => victim = q
      BY <2>2, <2>3 DEF OneOwner, Owner
    <3>3. \A q \in Pids : Owner(station', lock.pid, q) => Owner(station, lock.pid, q)
      BY <1>3, <2>4, <2>5 DEF Owner, Settled, Lives
    <3>4. \A q \in Pids : Judges(station', q) => q = p
      BY <2>5, <3>1 DEF Judges
    <3>5. \A q \in Pids : Settled(station', q) => q # p
      BY <2>4, <2>5 DEF Settled
    <3> QED
      BY <2>4, <2>5, <3>2, <3>3, <3>4, <3>5 DEF OneOwner, Settled, Judges
  <2>7. Stays(station', p)
    BY <1>3, <2>4, <2>5 DEF Stays, Lives
  <2>8. Manned(station, lock.pid) => Manned(station', lock'.pid)
    BY <2>4, <2>5, <2>7 DEF Manned
  <2> QED
    BY <1>1, <1>4, <2>5, <2>6, <2>8, StartMoves DEF StartInv
<1>6. CASE Start!Alive(lock.pid) /\ Start!Verdict(p) # "proceed" /\ station' = [station EXCEPT ![p] = Start!Gone]
  <2>1. Started(station', lock') /\ station'[p] = Start!Gone /\ \A q \in Pids \ {p} : station'[q] = station[q]
    BY <1>1, <1>3, <1>6, UnbornIs, OneStarts
  <2>2. Start!Verdict(p) = "exit" /\ (station[p].ver = lock.ver => ~station[p].dev)
    BY <1>6 DEF Start!Verdict
  <2>3. OneOwner(station, lock.pid) => OneOwner(station', lock'.pid)
    BY <1>1, <1>3, <2>1, UnbornIs DEF OneOwner, Judges, Settled, Owner, Lives
  <2>4. ASSUME Manned(station, lock.pid), Kept(blame') PROVE Manned(station', lock.pid)
    <3>1. ~station[p].dev
      BY <1>1, <1>6, <2>2, <2>4 DEF Kept
    <3>2. lock.pid \in Pids /\ Lives(station, lock.pid)
      BY <1>3, <1>6, AliveIs DEF Start!Alive, Start!None
    <3>3. PICK r \in Pids : Stays(station, r)
      BY <2>4, <3>2 DEF Manned
    <3>4. r # p
      BY <1>1, <3>1, <3>3 DEF Stays
    <3>5. Stays(station', r)
      BY <2>1, <3>3, <3>4 DEF Stays, Lives
    <3> QED
      BY <2>1, <2>4, <3>5, UnbornIs DEF Manned
  <2> QED
    BY <1>1, <1>4, <2>1, <2>3, <2>4, StartMoves DEF StartInv
<1> QED
  BY <1>2, <1>5, <1>6

LEMMA KillKeeps == ASSUME StartInv, NEW p \in Pids, NEW ok \in BOOLEAN, Start!Kill(p, ok) PROVE StartInv'
<1> DEFINE victim == station[p].target
           x == [station[p] EXCEPT !.pc = "write", !.target = 0]
<1>1. /\ station[p].pc = "kill" /\ UNCHANGED <<lock, head>>
      /\ IF ok THEN blame' = blame ELSE blame' = blame \cup {"kill"}
      /\ station' = [q \in Pids |-> IF q = p THEN x ELSE IF q = victim /\ ok THEN Start!Gone ELSE station[q]]
  BY DEF Start!Kill, Start!At, Start!None
<1>2. /\ Started(station, lock) /\ station[p] \in Processes /\ lock.pid # p
      /\ station[p].port = "none" /\ station[p].watch = "idle"
  BY <1>1 DEF StartInv, Started
<1>3. x \in Processes /\ x.pc = "write" /\ x.port = "none" /\ x.watch = "idle"
  BY <1>2 DEF Processes, Life
<1> HIDE DEF x
<1>4. /\ station' \in [Pids -> Processes] /\ station'[p] = x
      /\ \A q \in Pids \ {p} : station'[q] = IF q = victim /\ ok THEN Start!Gone ELSE station[q]
  BY <1>1, <1>2, <1>3, UnbornIs DEF Started
<1>5. Started(station', lock')
  BY <1>1, <1>2, <1>3, <1>4, UnbornIs DEF Started
<1>6. OneOwner(station, lock.pid) /\ Unexcused(blame') => OneOwner(station', lock'.pid)
  <2> SUFFICES ASSUME OneOwner(station, lock.pid), Unexcused(blame') PROVE OneOwner(station', lock.pid)
    BY <1>1
  <2>1. ok
    BY <1>1 DEF Unexcused
  <2>2. \A q \in Pids : Judges(station', q) => q = p
    BY <1>1, <1>4, <2>1, UnbornIs DEF OneOwner, Judges
  <2>3. ASSUME NEW q \in Pids PROVE ~Owner(station', lock.pid, q)
    <3>1. CASE q = p
      BY <1>2, <1>3, <1>4, <3>1 DEF Owner, Settled
    <3>2. CASE q # p /\ q = victim
      BY <1>4, <2>1, <3>2, UnbornIs DEF Owner, Lives
    <3>3. CASE q # p /\ q # victim
      <4>1. station'[q] = station[q]
        BY <1>4, <3>3
      <4> QED
        BY <1>1, <3>3, <4>1 DEF OneOwner, Owner, Settled, Lives
    <3> QED
      BY <3>1, <3>2, <3>3
  <2>4. \A q \in Pids : Settled(station', q) => Owner(station', lock.pid, q)
    BY DEF Settled, Owner, Lives
  <2>5. \A q \in Pids : station'[q].pc = "unlink" => lock.pid = q
    BY <1>3, <1>4, UnbornIs DEF OneOwner
  <2> QED
    BY <1>3, <1>4, <2>2, <2>3, <2>4, <2>5 DEF OneOwner, Judges
<1>7. Stays(station', p)
  BY <1>3, <1>4 DEF Stays, Lives
<1>8. Manned(station, lock.pid) => Manned(station', lock'.pid)
  BY <1>1, <1>3, <1>4, <1>7, UnbornIs DEF Manned
<1>9. blame \subseteq blame' /\ blame' \subseteq Blames
  BY <1>1 DEF StartInv, Blames
<1> QED
  BY <1>1, <1>5, <1>6, <1>8, <1>9, StartMoves DEF StartInv

LEMMA WriteLockKeeps == ASSUME StartInv, NEW p \in Pids, NEW ok \in BOOLEAN, Start!WriteLock(p, ok) PROVE StartInv'
<1> DEFINE x == [station[p] EXCEPT !.pc = "start"]
<1>1. /\ station[p].pc = "write" /\ station' = [station EXCEPT ![p] = x] /\ head' = head
      /\ IF ok THEN lock' = [pid |-> p, ver |-> station[p].ver] /\ blame' = blame
         ELSE lock' = lock /\ blame' = blame \cup {"lock"}
  BY DEF Start!WriteLock, Start!At, Start!To
<1>2. /\ Started(station, lock) /\ station[p] \in Processes /\ lock.pid # p
      /\ station[p].port = "none" /\ station[p].watch = "idle"
  BY <1>1 DEF StartInv, Started
<1>3. x \in Processes /\ x.pc = "start" /\ x.port = "none" /\ x.watch = "idle"
  BY <1>2 DEF Processes, Life
<1> HIDE DEF x
<1>4. Started(station', lock) /\ station'[p] = x /\ \A q \in Pids \ {p} : station'[q] = station[q]
  BY <1>1, <1>2, <1>3, OneStarts
<1>5. ok => lock'.pid = p /\ lock' \in Locks
  BY <1>1, <1>2 DEF Locks, Processes
<1>6. Started(station', lock')
  BY <1>1, <1>3, <1>4, <1>5 DEF Started
<1>7. OneOwner(station, lock.pid) /\ Unexcused(blame') => OneOwner(station', lock'.pid)
  <2> SUFFICES ASSUME OneOwner(station, lock.pid), Unexcused(blame') PROVE OneOwner(station', p)
    BY <1>1, <1>5 DEF Unexcused
  <2>1. \A q \in Pids : ~Owner(station, lock.pid, q)
    BY <1>1 DEF OneOwner
  <2>2. \A q \in Pids : ~Settled(station, q) /\ (lock.pid = q => ~Lives(station, q))
    BY <2>1 DEF Owner, Settled, Lives
  <2>3. \A q \in Pids : ~Judges(station', q)
    BY <1>1, <1>3, <1>4 DEF OneOwner, Judges
  <2>4. \A q \in Pids : Settled(station', q) => q = p
    BY <1>4, <2>2 DEF Settled
  <2>5. \A q \in Pids : station'[q].pc # "unlink"
    BY <1>3, <1>4, <2>2 DEF OneOwner, Lives
  <2> QED
    BY <2>3, <2>4, <2>5 DEF OneOwner, Judges
<1>8. Stays(station', p)
  BY <1>3, <1>4 DEF Stays, Lives
<1>9. Manned(station, lock.pid) => Manned(station', lock'.pid)
  BY <1>3, <1>4, <1>8 DEF Manned
<1>10. blame \subseteq blame' /\ blame' \subseteq Blames
  BY <1>1 DEF StartInv, Blames
<1> QED
  BY <1>1, <1>6, <1>7, <1>9, <1>10, StartMoves DEF StartInv

LEMMA ServeKeeps == ASSUME StartInv, NEW p \in Pids, NEW ok \in BOOLEAN, Start!Start(p, ok) PROVE StartInv'
<1> DEFINE port == IF Start!Holder("main") = 0 THEN "main" ELSE "other"
           y == [station[p] EXCEPT !.pc = "run", !.port = port]
           z == [station[p] EXCEPT !.pc = "clear"]
           x == IF ok THEN y ELSE z
<1>1. /\ station[p].pc = "start" /\ UNCHANGED <<lock, head>> /\ station \in [Pids -> Processes]
      /\ IF ok THEN blame' = blame ELSE blame' = blame \cup {"stopped"}
  BY DEF Start!Start, Start!At, StartInv, Started
<1>2. station' = [station EXCEPT ![p] = x]
  BY <1>1 DEF Start!Start, Start!To, Start!None
<1>3. /\ Started(station, lock) /\ station[p] \in Processes /\ station[p].port = "none" /\ station[p].watch = "idle"
  BY <1>1 DEF StartInv, Started
<1>4. port = "main" => \A q \in Pids : station[q].port # "main"
  BY HolderIs
<1>5. y \in Processes /\ y.pc = "run" /\ y.port = port /\ y.watch = "idle"
  BY <1>3 DEF Processes, Life
<1>6. z \in Processes /\ z.pc = "clear" /\ z.port = "none" /\ z.watch = "idle"
  BY <1>3 DEF Processes, Life
<1>7. /\ x \in Processes /\ x.watch = "idle" /\ x.pc = IF ok THEN "run" ELSE "clear"
      /\ x.port = "main" => \A q \in Pids : station[q].port # "main"
      /\ x.port # "none" => x.pc = "run"
  BY <1>4, <1>5, <1>6
<1> HIDE DEF x, y, z, port
<1>8. Started(station', lock') /\ station'[p] = x /\ \A q \in Pids \ {p} : station'[q] = station[q]
  BY <1>1, <1>2, <1>3, <1>7, OneStarts
<1>9. OneOwner(station, lock.pid) => OneOwner(station', lock'.pid)
  <2> SUFFICES ASSUME OneOwner(station, lock.pid) PROVE OneOwner(station', lock.pid)
    BY <1>1
  <2>1. lock.pid = p
    BY <1>1, <1>3 DEF OneOwner, Settled
  <2>2. \A q \in Pids : Owner(station', lock.pid, q) => Owner(station, lock.pid, q)
    BY <1>1, <1>8, <2>1 DEF Owner, Settled, Lives
  <2> QED
    BY <1>1, <1>7, <1>8, <2>1, <2>2 DEF OneOwner, Judges, Settled
<1>10. Manned(station, lock.pid) /\ Kept(blame') => Manned(station', lock'.pid)
  <2> SUFFICES ASSUME Manned(station, lock.pid), Kept(blame') PROVE Manned(station', lock.pid)
    BY <1>1
  <2>1. ok
    BY <1>1 DEF Kept
  <2>2. Stays(station', p)
    BY <1>7, <1>8, <2>1 DEF Stays, Lives
  <2> QED
    BY <1>7, <1>8, <2>1, <2>2 DEF Manned
<1>11. blame \subseteq blame' /\ blame' \subseteq Blames
  BY <1>1 DEF StartInv, Blames
<1> QED
  BY <1>1, <1>8, <1>9, <1>10, <1>11, StartMoves DEF StartInv

\* A process leaves: on its way to the end it judges nobody, serves nobody and holds no lock that
\* is not its own.
LEMMA Leaving ==
    ASSUME StartInv, NEW p \in Pids, NEW x \in Processes, station' = [station EXCEPT ![p] = x],
           UNCHANGED <<lock, head>>, blame \subseteq blame', blame' \subseteq Blames,
           Lives(station, p), x.pc \in {"closing", "clear", "unlink", "gone"},
           x.port # "none" => x.pc = "closing" /\ x.port = station[p].port,
           x.watch # "idle" => x.pc # "gone",
           x.pc = "unlink" => lock.pid = p,
           Manned(station, lock.pid) /\ Kept(blame') => Manned(station', lock.pid)
    PROVE  StartInv'
<1>1. Started(station, lock)
  BY DEF StartInv
<1>2. Started(station', lock') /\ station'[p] = x /\ \A q \in Pids \ {p} : station'[q] = station[q]
  BY <1>1, OneStarts
<1>3. OneOwner(station, lock.pid) => OneOwner(station', lock'.pid)
  <2> SUFFICES ASSUME OneOwner(station, lock.pid) PROVE OneOwner(station', lock.pid)
    OBVIOUS
  <2>1. \A q \in Pids : Owner(station', lock.pid, q) => Owner(station, lock.pid, q)
    BY <1>2 DEF Owner, Settled, Lives
  <2>2. ~Judges(station', p) /\ ~Settled(station', p)
    BY <1>2 DEF Judges, Settled
  <2>3. \A q \in Pids : Judges(station', q) \/ Settled(station', q) => q # p /\ station'[q] = station[q]
    BY <1>2, <2>2
  <2>4. \A q \in Pids : station'[q].pc = "unlink" => lock.pid = q
    BY <1>2 DEF OneOwner
  <2>5. \A q, r \in Pids : Judges(station', q) /\ Judges(station', r) => q = r
    BY <2>3 DEF OneOwner, Judges
  <2>6. \A q \in Pids : Settled(station', q) => lock.pid = q \/ (lock.pid = 0 /\ station'[q].port = "main")
    BY <2>3 DEF OneOwner, Settled
  <2>7. \A q, r \in Pids :
            /\ station'[q].pc = "kill" /\ Owner(station', lock.pid, r) => station'[q].target = r
            /\ station'[q].pc = "write" => ~Owner(station', lock.pid, r)
    <3> SUFFICES ASSUME NEW q \in Pids, NEW r \in Pids, Judges(station', q), Owner(station', lock.pid, r)
                 PROVE  /\ station'[q].pc = "kill" => station'[q].target = r
                        /\ station'[q].pc # "write"
      BY DEF Judges
    <3>1. station'[q] = station[q] /\ Owner(station, lock.pid, r)
      BY <2>1, <2>3
    <3> QED
      BY <3>1 DEF OneOwner
  <2> QED
    BY <2>4, <2>5, <2>6, <2>7 DEF OneOwner
<1> QED
  BY <1>2, <1>3, StartMoves DEF StartInv

LEMMA StopStationKeeps == ASSUME StartInv, NEW p \in Pids, Start!Stop(p) PROVE StartInv'
<1> DEFINE x == [station[p] EXCEPT !.pc = "closing"]
<1>1. /\ station[p].pc = "run" /\ station' = [station EXCEPT ![p] = x] /\ UNCHANGED <<lock, head>>
      /\ blame' = blame \cup {"stopped"}
  BY DEF Start!Stop, Start!At, Start!To
<1>2. station[p] \in Processes
  BY DEF StartInv, Started
<1>3. x \in Processes /\ x.pc = "closing" /\ x.port = station[p].port
  BY <1>2 DEF Processes, Life
<1>4. ~Kept(blame') /\ blame' \subseteq Blames
  BY <1>1 DEF Kept, StartInv, Blames
<1> QED
  BY <1>1, <1>3, <1>4, Leaving DEF Lives

LEMMA ChangedKeeps == ASSUME StartInv, NEW p \in Pids, Start!Changed(p) PROVE StartInv'
<1> DEFINE x == [station[p] EXCEPT !.pc = "closing", !.watch = "asked"]
<1>1. station[p].pc = "run" /\ UNCHANGED <<lock, head, blame>> /\ station \in [Pids -> Processes]
  BY DEF Start!Changed, Start!At, StartInv, Started
<1>2. station' = [station EXCEPT ![p] = x]
  BY <1>1 DEF Start!Changed
<1>3. x \in Processes /\ x.pc = "closing" /\ x.port = station[p].port /\ x.watch = "asked"
  BY <1>1 DEF Processes, Life
<1> HIDE DEF x
<1>4. station'[p] = x /\ \A q \in Pids \ {p} : station'[q] = station[q]
  BY <1>1, <1>2
<1>5. Stays(station', p)
  BY <1>3, <1>4 DEF Stays, Lives
<1>6. Manned(station, lock.pid) => Manned(station', lock.pid)
  BY <1>3, <1>4, <1>5 DEF Manned
<1> QED
  BY <1>1, <1>2, <1>3, <1>6, Leaving DEF StartInv, Lives

\* A process that is asked to restart, or has its successor, goes one step on.
LEMMA StepOn ==
    ASSUME StartInv, NEW p \in Pids, NEW x \in Processes, station' = [station EXCEPT ![p] = x],
           station[p].pc \in {"closing", "clear"}, x.pc \in {"clear", "unlink"}, x.watch = station[p].watch,
           Manned(station, lock.pid)
    PROVE  Manned(station', lock.pid)
<1>1. station \in [Pids -> Processes]
  BY DEF StartInv, Started
<1>2. station'[p] = x /\ \A q \in Pids \ {p} : station'[q] = station[q]
  BY <1>1
<1>3. \A r \in Pids : Stays(station, r) => Stays(station', r)
  BY <1>2 DEF Stays, Lives
<1>4. \A r \in Pids : Lives(station', r) <=> Lives(station, r)
  BY <1>2 DEF Lives
<1> QED
  BY <1>2, <1>3, <1>4 DEF Manned

LEMMA ServerEndsKeeps == ASSUME StartInv, NEW p \in Pids, Start!ServerEnds(p) PROVE StartInv'
<1> DEFINE x == [station[p] EXCEPT !.pc = "clear", !.port = "none"]
<1>1. station[p].pc = "closing" /\ UNCHANGED <<lock, head, blame>> /\ station \in [Pids -> Processes]
  BY DEF Start!ServerEnds, Start!At, StartInv, Started
<1>2. station' = [station EXCEPT ![p] = x]
  BY <1>1 DEF Start!ServerEnds
<1>3. x \in Processes /\ x.pc = "clear" /\ x.port = "none" /\ x.watch = station[p].watch
  BY <1>1 DEF Processes, Life
<1> HIDE DEF x
<1> QED
  BY <1>1, <1>2, <1>3, StepOn, Leaving DEF StartInv, Lives

\* A process that ends has a successor, or is blamed.
LEMMA EndStays ==
    ASSUME StartInv, NEW p \in Pids, station' = [station EXCEPT ![p] = Start!Gone],
           station[p].watch = "spawned", Manned(station, lock.pid), NEW i \in {lock.pid, 0}
    PROVE  Manned(station', i)
<1>1. station \in [Pids -> Processes] /\ station[p].pc \in {"closing", "clear", "unlink"}
  BY DEF StartInv, Started
<1>2. station'[p] = Start!Gone /\ \A q \in Pids \ {p} : station'[q] = station[q]
  BY <1>1
<1>3. \A r \in Pids : Stays(station, r) => Stays(station', r)
  BY <1>2 DEF Stays, Lives
<1>4. \A r \in Pids : station[r].pc = "check" => station'[r].pc = "check"
  BY <1>1, <1>2
<1>5. \A r \in Pids : Lives(station', r) => Lives(station, r)
  BY <1>2, UnbornIs DEF Lives
<1>6. \A q \in Pids : i = q => lock.pid = q
  BY NoOneIsZero
<1>7. \A q \in Pids : /\ station'[q].pc # "unborn" => station[q].pc # "unborn"
                      /\ station'[q].pc \in {"closing", "clear", "unlink"} => station'[q] = station[q]
  BY <1>1, <1>2, UnbornIs
<1> SUFFICES ASSUME NEW q \in Pids
             PROVE  /\ station'[q].pc \in {"closing", "clear", "unlink"} => station'[q].watch # "idle"
                    /\ Lives(station', q) /\ i = q => \E r \in Pids : Stays(station', r)
                    /\ station'[q].pc # "unborn" => \E r \in Pids : Stays(station', r) \/ station'[r].pc = "check"
  BY DEF Manned
<1>8. station'[q].pc \in {"closing", "clear", "unlink"} => station'[q].watch # "idle"
  BY <1>7 DEF Manned
<1>9. Lives(station', q) /\ i = q => \E r \in Pids : Stays(station', r)
  BY <1>3, <1>5, <1>6 DEF Manned
<1>10. station'[q].pc # "unborn" => \E r \in Pids : Stays(station', r) \/ station'[r].pc = "check"
  BY <1>3, <1>4, <1>7 DEF Manned
<1> QED
  BY <1>8, <1>9, <1>10

LEMMA Ending ==
    ASSUME StartInv, NEW p \in Pids, station[p].pc \in {"clear", "unlink"}, Start!Ends(p)
    PROVE  /\ station' = [station EXCEPT ![p] = Start!Gone] /\ blame \subseteq blame' /\ blame' \subseteq Blames
           /\ Manned(station, lock.pid) /\ Kept(blame') => \A i \in {lock.pid, 0} : Manned(station', i)
<1>1. /\ station' = [station EXCEPT ![p] = Start!Gone]
      /\ blame' = blame \cup (IF station[p].watch = "asked" THEN {"outrun"} ELSE {})
  BY DEF Start!Ends
<1>2. blame \subseteq blame' /\ blame' \subseteq Blames
  BY <1>1 DEF StartInv, Blames
<1>3. station[p].watch \in {"idle", "asked", "spawned"}
  BY DEF StartInv, Started, Processes
<1>4. ASSUME Manned(station, lock.pid), Kept(blame') PROVE station[p].watch = "spawned"
  BY <1>1, <1>3, <1>4 DEF Manned, Kept
<1> QED
  BY <1>1, <1>2, <1>4, EndStays

LEMMA ReadOwnLockKeeps == ASSUME StartInv, NEW p \in Pids, Start!ReadOwnLock(p) PROVE StartInv'
<1>1. station[p].pc = "clear" /\ UNCHANGED <<lock, head>>
  BY DEF Start!ReadOwnLock, Start!At
<1>2. CASE lock.pid = p
  <2> DEFINE x == [station[p] EXCEPT !.pc = "unlink"]
  <2>1. station' = [station EXCEPT ![p] = x] /\ blame' = blame
    BY <1>2 DEF Start!ReadOwnLock, Start!To
  <2>2. station[p] \in Processes /\ station[p].port = "none"
    BY <1>1 DEF StartInv, Started
  <2>3. x \in Processes /\ x.pc = "unlink" /\ x.port = "none" /\ x.watch = station[p].watch
    BY <2>2 DEF Processes, Life
  <2> HIDE DEF x
  <2> QED
    BY <1>1, <1>2, <2>1, <2>3, StepOn, Leaving DEF StartInv, Lives
<1>3. CASE lock.pid # p
  <2>1. Start!Ends(p)
    BY <1>3 DEF Start!ReadOwnLock
  <2> QED
    BY <1>1, <2>1, Ending, UnbornIs, Leaving DEF Lives
<1> QED
  BY <1>2, <1>3

LEMMA RemoveLockKeeps == ASSUME StartInv, NEW p \in Pids, Start!RemoveLock(p) PROVE StartInv'
<1>1. station[p].pc = "unlink" /\ Start!Ends(p) /\ lock' = [pid |-> 0, ver |-> 0] /\ head' = head
  BY DEF Start!RemoveLock, Start!At, Start!NoLock, Start!None
<1>2. station' = [station EXCEPT ![p] = Start!Gone] /\ Started(station, lock)
  BY <1>1, Ending DEF StartInv
<1>3. Started(station', lock) /\ station'[p] = Start!Gone /\ \A q \in Pids \ {p} : station'[q] = station[q]
  BY <1>2, UnbornIs, OneStarts
<1>4. lock' \in Locks /\ lock'.pid = 0 /\ \A q \in Pids : lock'.pid # q
  BY <1>1, NoOneIsZero DEF Locks
<1>5. Started(station', lock')
  BY <1>3, <1>4 DEF Started
<1>6. OneOwner(station, lock.pid) => OneOwner(station', lock'.pid)
  <2> SUFFICES ASSUME OneOwner(station, lock.pid) PROVE OneOwner(station', 0)
    BY <1>4
  <2>1. lock.pid = p /\ \A q \in Pids : ~Settled(station, q) /\ (station[q].pc = "unlink" => q = p)
    BY <1>1, NoOneIsZero DEF OneOwner, Settled
  <2>2. \A q \in Pids : ~Settled(station', q) /\ station'[q].pc # "unlink"
    BY <1>3, <2>1, UnbornIs DEF Settled
  <2>3. \A q \in Pids : ~Owner(station', 0, q)
    BY <2>2, NoOneIsZero DEF Owner
  <2> QED
    BY <1>3, <2>2, <2>3, UnbornIs DEF OneOwner, Judges
<1>7. Manned(station, lock.pid) /\ Kept(blame') => Manned(station', lock'.pid)
  BY <1>1, <1>4, Ending
<1> QED
  BY <1>1, <1>5, <1>6, <1>7, Ending, StartMoves DEF StartInv

LEMMA StationCrashKeeps == ASSUME StartInv, NEW p \in Pids, Start!Crash(p) PROVE StartInv'
<1>1. /\ Lives(station, p) /\ station' = [station EXCEPT ![p] = Start!Gone] /\ UNCHANGED <<lock, head>>
      /\ blame' = blame \cup {"stopped"}
  BY AliveIs DEF Start!Crash
<1>2. ~Kept(blame') /\ blame' \subseteq Blames
  BY <1>1 DEF Kept, StartInv, Blames
<1> QED
  BY <1>1, <1>2, UnbornIs, Leaving DEF Lives

LEMMA ExitNowKeeps == ASSUME StartInv, NEW p \in Pids, Start!ExitNow(p) PROVE StartInv'
<1>1. /\ Lives(station, p) /\ station[p].watch = "spawned" /\ station' = [station EXCEPT ![p] = Start!Gone]
      /\ UNCHANGED <<lock, head, blame>>
  BY AliveIs DEF Start!ExitNow
<1> QED
  BY <1>1, EndStays, UnbornIs, Leaving DEF Lives, StartInv

LEMMA ChangeKeeps == ASSUME StartInv, NEW v \in Releases, Start!Change(v) PROVE StartInv'
BY DEF StartInv, Start!Change

LEMMA SpawnKeeps == ASSUME StartInv, NEW p \in Pids, NEW q \in Pids, Start!Spawn(p, q) PROVE StartInv'
<1> DEFINE x == [station[p] EXCEPT !.watch = "spawned"]
           y == Start!Launched(TRUE)
<1>1. /\ Lives(station, p) /\ station[p].watch = "asked" /\ station[q].pc = "unborn" /\ p # q
      /\ UNCHANGED <<lock, head, blame>> /\ Started(station, lock) /\ station \in [Pids -> Processes]
  BY AliveIs DEF Start!Spawn, Start!Fresh, Start!At, StartInv, Started, Lives
<1>2. station' = [[station EXCEPT ![q] = y] EXCEPT ![p] = x]
  BY <1>1 DEF Start!Spawn
<1>3. /\ x \in Processes /\ x.pc = station[p].pc /\ x.port = station[p].port /\ x.target = station[p].target
      /\ x.watch = "spawned"
  BY <1>1 DEF Processes
<1>4. y \in Processes /\ y.pc = "check" /\ y.dev /\ y.port = "none" /\ y.watch = "idle"
  BY LaunchedIs DEF StartInv
<1> HIDE DEF x, y
<1>5. /\ station' \in [Pids -> Processes] /\ station'[p] = x /\ station'[q] = y
      /\ \A r \in Pids \ {p, q} : station'[r] = station[r]
  BY <1>1, <1>2, <1>3, <1>4
<1>6. \A r \in Pids \ {q} : station'[r].pc = station[r].pc /\ station'[r].port = station[r].port
                            /\ station'[r].target = station[r].target
  BY <1>3, <1>5
<1>7. Started(station', lock')
  <2>1. lock.pid # q /\ station[p].pc \in {"closing", "clear", "unlink"}
    BY <1>1 DEF Started
  <2>2. \A r \in Pids : station'[r].watch # "idle" => station'[r].pc \in {"closing", "clear", "unlink"}
    BY <1>1, <1>3, <1>4, <1>5, <2>1 DEF Started
  <2> QED
    BY <1>1, <1>4, <1>5, <1>6, <2>1, <2>2 DEF Started
<1>8. OneOwner(station, lock.pid) => OneOwner(station', lock'.pid)
  <2>1. lock.pid # q
    BY <1>1 DEF Started
  <2> QED
    BY <1>1, <1>4, <1>5, <1>6, <2>1 DEF OneOwner, Judges, Settled, Owner, Lives
<1>9. Stays(station', q)
  BY <1>4, <1>5 DEF Stays, Lives
<1>10. Manned(station, lock.pid) => Manned(station', lock'.pid)
  BY <1>1, <1>3, <1>4, <1>5, <1>9 DEF Manned
<1> QED
  BY <1>1, <1>7, <1>8, <1>10, StartMoves DEF StartInv

LEMMA StartStep == ASSUME StartInv, Start!Next PROVE StartInv'
BY JudgeKeeps, StopStationKeeps, ServerEndsKeeps, ReadOwnLockKeeps, RemoveLockKeeps, StationCrashKeeps, ChangedKeeps,
   ExitNowKeeps, SpawnKeeps, LaunchStationKeeps, KillKeeps, WriteLockKeeps, ServeKeeps, ChangeKeeps DEF Start!Next

LEMMA StartRests == ASSUME StartInv, UNCHANGED startVars PROVE StartInv'
BY DEF StartInv, startVars

LEMMA StartImplies == StartInv => Start!TypeOK /\ Start!OneStation /\ Start!NotLeft
<1> SUFFICES ASSUME StartInv PROVE Start!TypeOK /\ Start!OneStation /\ Start!NotLeft
  OBVIOUS
<1>1. Start!TypeOK
  BY DEF StartInv, Started, Locks, Blames, Start!TypeOK, Start!None
<1>2. ASSUME Unexcused(blame), NEW p \in Pids, NEW q \in Pids, Start!At(p, "run"), Start!At(q, "run") PROVE p = q
  <2>1. OneOwner(station, lock.pid) /\ Started(station, lock)
    BY <1>2 DEF StartInv
  <2>2. /\ lock.pid = p \/ (lock.pid = 0 /\ station[p].port = "main")
        /\ lock.pid = q \/ (lock.pid = 0 /\ station[q].port = "main")
    BY <1>2, <2>1 DEF OneOwner, Settled, Start!At
  <2> QED
    BY <2>1, <2>2, NoOneIsZero DEF Started
<1>3. ASSUME Kept(blame), NEW p \in Pids, Start!At(p, "gone") PROVE Start!Live # {}
  <2>1. station[p].pc # "unborn" /\ Manned(station, lock.pid)
    BY <1>3 DEF Start!At, StartInv
  <2>2. PICK r \in Pids : Stays(station, r) \/ station[r].pc = "check"
    BY <2>1 DEF Manned
  <2>3. Lives(station, r)
    BY <2>2 DEF Stays, Lives
  <2> QED
    BY <2>3, AliveIs DEF Start!Live
<1>4. Start!OneStation
  BY <1>2 DEF Start!OneStation, Unexcused
<1>5. Start!NotLeft
  BY <1>3 DEF Start!NotLeft, Kept
<1> QED
  BY <1>1, <1>4, <1>5

\* A start and the station it finds end with one station: but for what the code does not exclude, and
\* blame records, never with two and never with none (singleton.py, station_controller.py).
THEOREM StartIsSound == NodeSpec => []StartSound
<1>1. NodeInit => StartInv
  BY StartInit DEF NodeInit
<1>2. StartInv /\ [NodeNext]_nodeVars => StartInv'
  BY StartStep, StartRests DEF NodeNext, nodeVars
<1>3. StartInv => StartSound
  BY StartImplies DEF StartSound
<1> QED
  BY <1>1, <1>2, <1>3, PTL DEF NodeSpec

-----------------------------------------------------------------------------
(* The election.  A station remembers only that it has stepped down for a      *)
(* smaller id, whatever datagrams are late or lost.                            *)

\* A station steps down for smaller ids only.
YieldsDownward == \A s \in Stations : yieldedTo[s] # Nobody => yieldedTo[s] < s

IInv == TypeOK /\ YieldsDownward

LEMMA Identities == Stations \subseteq Nat /\ Stations \subseteq Nodes /\ Nobody \notin Stations
BY ElectionAssumption DEF Nodes, Nobody

\* What is entered of a host, and sent to a station.
LEMMA Entered ==
    ASSUME TypeOK, NEW s \in Stations, NEW n \in Nodes, NEW role \in Roles, NEW online \in BOOLEAN
    PROVE  [hosts EXCEPT ![s][n] = [role |-> role, online |-> online]]
               \in [Stations -> [Nodes -> {Unknown} \cup [role : Roles, online : BOOLEAN]]]
<1>1. [role |-> role, online |-> online] \in [role : Roles, online : BOOLEAN]
  OBVIOUS
<1>2. hosts[s] \in [Nodes -> {Unknown} \cup [role : Roles, online : BOOLEAN]]
  BY DEF TypeOK
<1>3. [hosts[s] EXCEPT ![n] = [role |-> role, online |-> online]]
          \in [Nodes -> {Unknown} \cup [role : Roles, online : BOOLEAN]]
  BY <1>1, <1>2
<1> QED
  BY <1>3 DEF TypeOK

LEMMA Marked ==
    ASSUME NEW host \in [role : Roles, online : BOOLEAN], NEW online \in BOOLEAN
    PROVE  [host EXCEPT !.online = online] = [role |-> host.role, online |-> online]
OBVIOUS

LEMMA Sent ==
    ASSUME TypeOK, NEW n \in Stations, NEW s \in Stations, NEW data \in Roles \cup {NoData}
    PROVE  [wire EXCEPT ![n][s] = data] \in [Stations -> [Stations -> Roles \cup {NoData}]]
<1>1. wire[n] \in [Stations -> Roles \cup {NoData}]
  BY DEF TypeOK
<1>2. [wire[n] EXCEPT ![s] = data] \in [Stations -> Roles \cup {NoData}]
  BY <1>1
<1> QED
  BY <1>2 DEF TypeOK

\* The bound on faults is kept.
LEMMA FaultsBounded == TypeOK /\ (Fault \/ UNCHANGED faults) => faults' \in 0..MaxFaults
BY ElectionAssumption DEF TypeOK, Fault

LEMMA InitIInv == Init => IInv
BY ElectionAssumption DEF Init, IInv, TypeOK, YieldsDownward, Roles

\* The steps that change neither the hosts nor the datagrams.
LEMMA ProcessesKeep ==
    ASSUME IInv,
           \/ \E n \in Nodes : Boot(n) \/ Crash(n)
           \/ \E s \in Stations : \/ Activate(s) \/ Elect(s) \/ Failover(s)
                                  \/ ActivateByHand(s) \/ DeactivateByHand(s)
    PROVE  IInv'
<1> USE DEF IInv
<1>1. ASSUME NEW n \in Nodes, Boot(n)
      PROVE  IInv'
  <2>1. TypeOK'
    BY <1>1 DEF Boot, TypeOK
  <2>2. YieldsDownward'
    BY <1>1, Identities DEF Boot, TypeOK, YieldsDownward
  <2> QED
    BY <2>1, <2>2
<1>2. ASSUME NEW n \in Nodes, Crash(n)
      PROVE  IInv'
  <2>1. TypeOK'
    BY <1>2, FaultsBounded DEF Crash, TypeOK
  <2> QED
    BY <1>2, <2>1 DEF Crash, YieldsDownward
<1>3. ASSUME NEW s \in Stations,
             \/ Activate(s) \/ Elect(s) \/ Failover(s) \/ ActivateByHand(s) \/ DeactivateByHand(s)
      PROVE  IInv'
  <2>1. TypeOK'
    BY <1>3, FaultsBounded
    DEF Activate, Elect, Failover, ActivateByHand, DeactivateByHand, Begin, TypeOK
  <2>2. yieldedTo' = yieldedTo
    BY <1>3 DEF Activate, Elect, Failover, ActivateByHand, DeactivateByHand
  <2> QED
    BY <2>1, <2>2 DEF YieldsDownward
<1> QED
  BY <1>1, <1>2, <1>3

\* A station that hears of a Secretary steps down only for a smaller one.
LEMMA ReceiveKeeps ==
    ASSUME IInv, NEW s \in Stations, NEW n \in Stations, Receive(s, n)
    PROVE  IInv'
<1> USE DEF IInv
<1>1. wire[n][s] \in Roles
  BY DEF Receive, TypeOK
<1>2. hosts' \in [Stations -> [Nodes -> {Unknown} \cup [role : Roles, online : BOOLEAN]]]
  BY <1>1, Entered, Identities DEF Receive
<1>3. wire' \in [Stations -> [Stations -> Roles \cup {NoData}]]
  BY Sent DEF Receive
<1>4. /\ active' \subseteq Stations
      /\ yieldedTo' \in [Stations -> Stations \cup {Nobody}]
      /\ YieldsDownward'
  <2>1. CASE Yields(s, n, wire[n][s])
    BY <2>1 DEF Receive, Yields, TypeOK, YieldsDownward
  <2>2. CASE ~Yields(s, n, wire[n][s])
    BY <2>2 DEF Receive, TypeOK, YieldsDownward
  <2> QED
    BY <2>1, <2>2
<1> QED
  BY <1>2, <1>3, <1>4 DEF Receive, TypeOK

\* The other steps of presence decide nothing.
LEMMA PresenceKeeps ==
    ASSUME IInv,
           \/ \E s, n \in Stations : Announce(n, s) \/ Lose(s, n)
           \/ \E s \in Stations, w \in Workers : Register(s, w)
           \/ \E s \in Stations, n \in Nodes : Prune(s, n)
    PROVE  IInv'
<1> USE DEF IInv
<1>1. UNCHANGED <<up, active, starting, window, yieldedTo>>
  BY DEF Announce, Lose, Register, Prune
<1>2. ASSUME NEW s \in Stations, NEW n \in Stations, Announce(n, s) \/ Lose(s, n)
      PROVE  TypeOK'
  <2>1. Role(n) \in Roles
    BY DEF Role, Roles
  <2>2. wire' \in [Stations -> [Stations -> Roles \cup {NoData}]]
    BY <1>2, <2>1, Sent DEF Announce, Lose
  <2>3. faults' \in 0..MaxFaults
    BY <1>2, FaultsBounded DEF Announce, Lose
  <2>4. hosts' = hosts
    BY <1>2 DEF Announce, Lose
  <2> QED
    BY <1>1, <2>2, <2>3, <2>4 DEF TypeOK
<1>3. ASSUME NEW s \in Stations, NEW w \in Workers, Register(s, w)
      PROVE  TypeOK'
  <2>1. w \in Nodes /\ "worker" \in Roles
    BY DEF Nodes, Roles
  <2>2. hosts' \in [Stations -> [Nodes -> {Unknown} \cup [role : Roles, online : BOOLEAN]]]
    BY <1>3, <2>1, Entered DEF Register
  <2> QED
    BY <1>1, <1>3, <2>2 DEF Register, TypeOK
<1>4. ASSUME NEW s \in Stations, NEW n \in Nodes, Prune(s, n)
      PROVE  TypeOK'
  <2>1. hosts[s][n] \in [role : Roles, online : BOOLEAN]
    BY <1>4 DEF Prune, TypeOK, Unknown
  <2>2. hosts' = [hosts EXCEPT ![s][n] = [role |-> hosts[s][n].role, online |-> FALSE]]
    <3>1. [hosts[s][n] EXCEPT !.online = FALSE] = [role |-> hosts[s][n].role, online |-> FALSE]
      BY <2>1, Marked
    <3> QED
      BY <1>4, <3>1 DEF Prune
  <2>3. hosts' \in [Stations -> [Nodes -> {Unknown} \cup [role : Roles, online : BOOLEAN]]]
    BY <2>1, <2>2, Entered
  <2>4. faults' \in 0..MaxFaults
    BY <1>4, FaultsBounded DEF Prune
  <2> QED
    BY <1>1, <1>4, <2>3, <2>4 DEF Prune, TypeOK
<1> QED
  BY <1>1, <1>2, <1>3, <1>4 DEF YieldsDownward

LEMMA StepIInv == IInv /\ [Next]_vars => IInv'
<1> SUFFICES ASSUME IInv, [Next]_vars PROVE IInv'
  OBVIOUS
<1>1. CASE UNCHANGED vars
  BY <1>1 DEF vars, IInv, TypeOK, YieldsDownward
<1>2. CASE Next
  BY <1>2, ProcessesKeep, ReceiveKeeps, PresenceKeeps DEF Next
<1> QED
  BY <1>1, <1>2

\* Two rivals never step down for each other: an arbitration that both lose would need each of
\* the two ids to be smaller than the other.
THEOREM ArbitrationOrders == Spec => []NoMutualYield
<1>1. IInv => NoMutualYield
  BY Identities DEF IInv, YieldsDownward, TypeOK, NoMutualYield
<1>2. Spec => []IInv
  BY InitIInv, StepIInv, PTL DEF Spec
<1> QED
  BY <1>1, <1>2, PTL
=============================================================================
