----------------------------- MODULE ModelCalls -----------------------------
(***************************************************************************)
(* Calls of a language model and what pays for them: the choice of the     *)
(* model and its fallbacks (model_router), the attempts one after another  *)
(* (agent_runtime), and the resource pools, their use, expiry, probing and *)
(* warnings (model_resources, balance_probe).                              *)
(*                                                                         *)
(* Scores only order what is available: a choice by score is any choice.   *)
(* Reporting the use to another station is the module UsageReport's.       *)
(***************************************************************************)
EXTENDS Naturals, Sequences, FiniteSets

CONSTANTS Calls,
          Models, Keyed, Default, \* models, those with an API key, the configured default
          Pools, Covers,   \* Covers[p]: the models pool p pays for
          Quota,           \* of every pool
          Renews, Expires, \* Renews[p]: days of a period, Expires[p]: a day; 0 is none
          Strict,          \* a model without a pool is not available
          LastDay, MaxUsed, MaxFaults \* bounds: days, use of a pool, failures to record

VARIABLES used,       \* of the pool's quota in the present period
          status,     \* "active", "paused", "exhausted"
          day,
          alertState, \* the highest level warned of so far
          pushed,     \* history: the levels of the warnings that were pushed, in order
          call,       \* call[c]: [pc, model, rest], the rest of the chain
          charged,    \* history: how often a call was recorded
          faults

pools == <<used, status, day>>
alerts == <<alertState, pushed>>
vars == <<pools, alerts, call, charged, faults>>

Kinds == {"quota", "expire"}

Init ==
    /\ used = [p \in Pools |-> 0] /\ status = [p \in Pools |-> "active"] /\ day = 0
    /\ alertState = [p \in Pools |-> [k \in Kinds |-> 0]]
    /\ pushed = [p \in Pools |-> [k \in Kinds |-> <<>>]]
    /\ call = [c \in Calls |-> [pc |-> "idle", model |-> Default, rest |-> {}]]
    /\ charged = [c \in Calls |-> 0]
    /\ faults = 0

Fault == faults < MaxFaults /\ faults' = faults + 1

-----------------------------------------------------------------------------
(* Pools.                                                                  *)

Candidates(m) == {p \in Pools : m \in Covers[p]}

Live(p) == status[p] = "active" /\ (Expires[p] > 0 => day <= Expires[p])

\* _find_pool: the pool that pays is one of these, by a priority that changes with the time
\* and the use.  A pool that is used up stays among them.
PoolsFor(m) ==
    LET live == {p \in Candidates(m) : Live(p)}
    IN  IF live = {} THEN Candidates(m) ELSE live

\* is_available, when the pool is p
Usable(p) == Live(p) /\ used[p] < Quota

MayBeOpen(m) == IF Candidates(m) = {} THEN ~Strict ELSE \E p \in PoolsFor(m) : Usable(p)
MayBeShut(m) == IF Candidates(m) = {} THEN Strict ELSE \E p \in PoolsFor(m) : ~Usable(p)

NextDay ==
    /\ day < LastDay /\ day' = day + 1
    /\ used' = [p \in Pools |-> IF Renews[p] > 0 /\ day' % Renews[p] = 0 THEN 0 ELSE used[p]]
    /\ UNCHANGED <<status, alerts, call, charged, faults>>

\* The provider says that nothing is left.  Nothing but a new configuration takes that back.
ProbeBalance(p) ==
    /\ status[p] # "exhausted" /\ status' = [status EXCEPT ![p] = "exhausted"]
    /\ UNCHANGED <<used, day, alerts, call, charged, faults>>

\* The levels already warned of are not forgotten.
Reload(p, st) ==
    /\ status[p] # st /\ status' = [status EXCEPT ![p] = st]
    /\ UNCHANGED <<used, day, alerts, call, charged, faults>>

\* 14, 7 and 3 days before its end and the threshold below its quota are one unit each.
Level(p, kind) ==
    IF status[p] = "paused" THEN 0
    ELSE IF kind = "quota" THEN IF used[p] >= Quota THEN 3 ELSE IF used[p] + 1 >= Quota THEN 2 ELSE 0
    ELSE LET left == Expires[p] + 1 - day
         IN  IF Expires[p] = 0 THEN 0
             ELSE IF day >= Expires[p] THEN 3 ELSE IF left > 3 THEN 0 ELSE 4 - left

\* Faulty: whatever is not the level warned of last is news.
IsNewsChanged(p, k) == Level(p, k) > 0 /\ Level(p, k) # alertState[p][k]

IsNews(p, k) == Level(p, k) > alertState[p][k]

\* check_alerts
CheckAlerts ==
    /\ \E p \in Pools, k \in Kinds : IsNews(p, k)
    /\ alertState' = [p \in Pools |-> [k \in Kinds |-> IF IsNews(p, k) THEN Level(p, k) ELSE alertState[p][k]]]
    /\ pushed' = [p \in Pools |-> [k \in Kinds |->
                     IF IsNews(p, k) THEN Append(pushed[p][k], Level(p, k)) ELSE pushed[p][k]]]
    /\ UNCHANGED <<pools, call, charged, faults>>

-----------------------------------------------------------------------------
(* Calls.                                                                  *)

Start(c, model, rest) ==
    /\ call[c].pc = "idle"
    /\ call' = [call EXCEPT ![c] = [pc |-> "calling", model |-> model, rest |-> rest \ {model}]]
    /\ UNCHANGED <<pools, alerts, charged, faults>>

Open == {m \in Keyed : MayBeOpen(m)}

\* route, and get_fallback_chain
Routed(c) == \E m \in Open : \E fallback \in SUBSET Open : Start(c, m, fallback)

\* No model is available: the default is called without a look at its pool.
RoutedToDefault(c) == (\A m \in Keyed : MayBeShut(m)) /\ Start(c, Default, {})

\* The Secretary's own chat prefers the configured default, with the fallbacks as they are.
Preferred(c) == \E fallback \in SUBSET Models : Start(c, Default, fallback)

\* Without any preference all providers that have a key are tried.
Unrouted(c) == \E m \in Keyed : Start(c, m, Keyed)

\* The next of the chain, or the text that the call has failed.
Fallback(c) ==
    IF call[c].rest = {} THEN call' = [call EXCEPT ![c].pc = "failed"]
    ELSE \E m \in call[c].rest : call' = [call EXCEPT ![c].model = m, ![c].rest = @ \ {m}]

\* The provider cannot be told from the model's name, or refuses, or is silent too long.
AttemptFails(c) ==
    /\ call[c].pc = "calling"
    /\ Fallback(c)
    /\ UNCHANGED <<pools, alerts, charged, faults>>

\* Faulty: what was used is recorded as soon as the stream has ended.
RecordedEarly(content) == TRUE

\* An answer without content counts as a failure, and is not recorded.
Recorded(content) == content

\* The stream has ended: a broken one is an answer if it has brought anything.
StreamEnds(c, content) ==
    LET m == call[c].model
    IN  /\ call[c].pc = "calling" /\ m \in Keyed
        /\ IF content THEN call' = [call EXCEPT ![c].pc = "answered"] ELSE Fallback(c)
        /\ \/ /\ Recorded(content) /\ charged' = [charged EXCEPT ![c] = @ + 1]
              /\ \E p \in PoolsFor(m) : used[p] < MaxUsed /\ used' = [used EXCEPT ![p] = @ + 1]
              /\ UNCHANGED faults
           \/ /\ Recorded(content) /\ Candidates(m) # {} /\ Fault \* recording fails
              /\ UNCHANGED <<used, charged>>
           \/ (Recorded(content) => Candidates(m) = {}) /\ UNCHANGED <<used, charged, faults>>
        /\ UNCHANGED <<status, day, alerts>>

Next ==
    \/ NextDay \/ CheckAlerts
    \/ \E p \in Pools : ProbeBalance(p) \/ \E st \in {"active", "paused"} : Reload(p, st)
    \/ \E c \in Calls :
          \/ Routed(c) \/ RoutedToDefault(c) \/ Preferred(c) \/ Unrouted(c) \/ AttemptFails(c)
          \/ \E content \in BOOLEAN : StreamEnds(c, content)

Spec == Init /\ [][Next]_vars

-----------------------------------------------------------------------------
(* Properties.                                                             *)

TypeOK ==
    /\ \A p \in Pools : used[p] <= MaxUsed /\ status[p] \in {"active", "paused", "exhausted"}
    /\ \A c \in Calls : call[c].model \in Models /\ call[c].rest \subseteq Models
    /\ day \in 0..LastDay

\* However many models of the chain were tried, a call that was answered is charged once, to
\* one pool (unless none pays for the model, or the record could not be written), and one
\* that has failed is charged to none.
ChargedOnce ==
    \A c \in Calls :
        LET must == call[c].pc = "answered" /\ Candidates(call[c].model) # {} /\ faults = 0
        IN  charged[c] = IF must THEN 1 ELSE IF call[c].pc = "answered" THEN charged[c] % 2 ELSE 0

\* The warnings of a pool only climb: none is repeated while levels fall and rise again.
\* (So none comes again in a later period, either.)
WarningsClimb ==
    \A p \in Pools, k \in Kinds :
        \A i, j \in DOMAIN pushed[p][k] : i < j => pushed[p][k][i] < pushed[p][k][j]
=============================================================================
