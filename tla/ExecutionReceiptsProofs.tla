---------------------- MODULE ExecutionReceiptsProofs ----------------------
(***************************************************************************)
(* The execution receipts keep their promises for any number of execution  *)
(* numbers, requests and processes, in the asynchronous station and the    *)
(* synchronous worker.  The argument is one inductive invariant: a thread  *)
(* exists only for an open claim of its own live process, a number has at  *)
(* most one thread, and the run counter says how far that thread has come. *)
(***************************************************************************)
EXTENDS ExecutionReceipts, TLAPS

\* A thread works on an open claim, and the claim is its own.
OwnClaim ==
    \A t \in threads :
        /\ t.owner \in alive
        /\ rows[t.id] = [fingerprint |-> t.fingerprint, owner |-> t.owner, result |-> None]

OneThread == \A t, u \in threads : t.id = u.id => t = u

\* How far a thread has come is how often its work was started.
ThreadStage(t) ==
    /\ t.step \in {"claimed", "refused"} => started[t.id] = 0
    /\ t.step \in {"running", "publishing"} => started[t.id] = 1
    /\ t.step \in {"refused", "publishing"} => t.result # None
    /\ t.step = "refused" => t.result = "failed"

ThreadStages == \A t \in threads : ThreadStage(t)

\* Nothing runs without a claim, and nothing succeeds without a run.
CountsRuns ==
    \A i \in Ids :
        /\ started[i] \in {0, 1}
        /\ rows[i] = NoRow => started[i] = 0
        /\ rows[i].result = "completed" => started[i] = 1

Apart == alive \cap retired = {}

IInv ==
    TypeOK /\ OwnClaim /\ OneThread /\ ThreadStages /\ CountsRuns /\ Apart /\ OneStory
-----------------------------------------------------------------------------
LEMMA InitIInv == Init => IInv
BY ReceiptsAssumption, SMT
DEF Init, IInv, TypeOK, OwnClaim, OneThread, ThreadStages, CountsRuns, Apart, OneStory,
    NoRow, Row, Outcomes

\* Moving a thread on to its next step disturbs no other thread.
LEMMA MoveThread ==
    ASSUME TypeOK, OwnClaim, OneThread, NEW t \in threads, NEW u \in Thread,
           u.id = t.id, u.fingerprint = t.fingerprint, u.owner = t.owner,
           threads' = (threads \ {t}) \cup {u}, UNCHANGED <<rows, alive, retired>>
    PROVE  /\ OwnClaim' /\ OneThread'
           /\ \A w \in threads' : w = u \/ (w \in threads /\ w.id # t.id)
BY DEF TypeOK, OwnClaim, OneThread

LEMMA StepIInv == IInv /\ [Next]_vars => IInv'
<1> SUFFICES ASSUME IInv, [Next]_vars PROVE IInv'
  OBVIOUS
<1> USE ReceiptsAssumption DEF IInv, Outcomes, Views
<1>t. \A t \in threads : t \in Thread /\ t.id \in Ids /\ t.owner \in Owners
  BY DEF TypeOK, Thread
<1>o. \A t \in threads : /\ rows[t.id].owner = t.owner /\ rows[t.id].result = None
                           /\ rows[t.id] # NoRow
  <2> SUFFICES ASSUME NEW t \in threads
               PROVE /\ rows[t.id].owner = t.owner /\ rows[t.id].result = None
                     /\ rows[t.id] # NoRow
    OBVIOUS
  <2>1. rows[t.id] = [fingerprint |-> t.fingerprint, owner |-> t.owner, result |-> None]
    BY DEF OwnClaim
  <2>2. t.owner # None
    BY <1>t
  <2>3. NoRow.owner = None
    BY DEF NoRow
  <2> QED
    BY <2>1, <2>2, <2>3
<1>1. ASSUME NEW p \in Owners, Boot(p) PROVE IInv'
  BY <1>1 DEF Boot, TypeOK, OwnClaim, OneThread, ThreadStages, ThreadStage, CountsRuns, Apart, OneStory
<1>2. ASSUME NEW p \in Owners, Crash(p) PROVE IInv'
  BY <1>2 DEF Crash, TypeOK, OwnClaim, OneThread, ThreadStages, ThreadStage, CountsRuns, Apart, OneStory
<1>3. ASSUME NEW p \in Owners, NEW i \in Ids, UNCHANGED <<rows, alive, retired, threads, started>>,
             Claimed(i), Told(i, View(rows[i], p))
      PROVE IInv'
  <2>1. View(rows[i], p) \in Views /\ \A r \in Outcomes : View(rows[i], p) = r => rows[i].result = r
    BY <1>3 DEF View, TypeOK, Row, Claimed
  <2>2. TypeOK' /\ OneStory'
    BY <1>3, <2>1 DEF TypeOK, OneStory, Told
  <2> QED
    BY <1>3, <2>2 DEF OwnClaim, OneThread, ThreadStages, ThreadStage, CountsRuns, Apart
<1>4. ASSUME NEW p \in Owners, NEW i \in Ids, NEW f \in Fingerprints, ClaimRequest(p, i, f)
      PROVE IInv'
  <2> DEFINE new == [id |-> i, fingerprint |-> f, owner |-> p, step |-> "claimed", result |-> None]
             row == [fingerprint |-> f, owner |-> p, result |-> None]
  <2>1. /\ p \in alive /\ rows[i] = NoRow
        /\ rows' = [rows EXCEPT ![i] = row]
        /\ threads' = threads \cup {new}
        /\ UNCHANGED <<alive, retired, started, seen>>
    BY <1>4 DEF ClaimRequest, InsertClaim, Claimed
  <2>2. \A t \in threads : t.id # i
    BY <1>o, <2>1
  <2>3. new \in Thread /\ row \in Row
    BY DEF Thread, Row
  <2>4. rows'[i] = row /\ \A j \in Ids : j # i => rows'[j] = rows[j]
    BY <2>1 DEF TypeOK
  <2>5. TypeOK'
    BY <2>1, <2>3 DEF TypeOK
  <2>6. OwnClaim' /\ OneThread'
    BY <1>t, <2>1, <2>2, <2>4 DEF OwnClaim, OneThread
  <2>7. started[i] = 0
    BY <2>1 DEF CountsRuns
  <2>8. ThreadStages' /\ CountsRuns'
    BY <2>1, <2>4, <2>7 DEF ThreadStages, ThreadStage, CountsRuns
  <2>9. Apart' /\ OneStory'
    BY <2>1, <2>4 DEF Apart, OneStory, NoRow
  <2> QED
    BY <2>5, <2>6, <2>8, <2>9
<1>5. ASSUME NEW t \in threads, StartRun(t) PROVE IInv'
  <2> DEFINE u == [t EXCEPT !.step = "running"]
  <2>1. /\ u \in Thread /\ u.id = t.id /\ u.fingerprint = t.fingerprint /\ u.owner = t.owner
        /\ u.step = "running" /\ u.result = t.result
    BY <1>t DEF Thread
  <2>2. /\ threads' = (threads \ {t}) \cup {u} /\ UNCHANGED <<rows, alive, retired>>
        /\ started' = [started EXCEPT ![t.id] = @ + 1]
        /\ started[t.id] = 0
    BY <1>5 DEF StartRun, ThreadStages, ThreadStage
  <2>3. started'[t.id] = 1 /\ \A j \in Ids : j # t.id => started'[j] = started[j]
    BY <1>t, <2>2 DEF TypeOK
  <2>4. OwnClaim' /\ OneThread' /\ \A w \in threads' : w = u \/ (w \in threads /\ w.id # t.id)
    BY <2>1, <2>2, MoveThread
  <2>5. ThreadStages'
    BY <1>t, <2>1, <2>3, <2>4 DEF ThreadStages, ThreadStage
  <2>6. CountsRuns'
    BY <2>2, <2>3, <1>t, <1>o DEF CountsRuns
  <2>7. TypeOK' /\ OneStory' /\ Apart'
    BY <1>5, <1>t, <2>1, <2>2 DEF StartRun, Told, TypeOK, OneStory, Apart
  <2> QED
    BY <2>4, <2>5, <2>6, <2>7
<1>6. ASSUME NEW t \in threads, StartFails(t) PROVE IInv'
  <2> DEFINE u == [t EXCEPT !.step = "refused", !.result = "failed"]
  <2>1. /\ u \in Thread /\ u.id = t.id /\ u.fingerprint = t.fingerprint /\ u.owner = t.owner
        /\ u.step = "refused" /\ u.result = "failed"
    BY <1>t DEF Thread
  <2>2. /\ threads' = (threads \ {t}) \cup {u}
        /\ UNCHANGED <<rows, alive, retired, started, seen>>
        /\ started[t.id] = 0
    BY <1>6 DEF StartFails, ThreadStages, ThreadStage
  <2>3. threads' = (threads \ {t}) \cup {u} /\ UNCHANGED <<rows, alive, retired>>
    BY <2>2
  <2> HIDE DEF u
  <2>4. OwnClaim' /\ OneThread' /\ \A w \in threads' : w = u \/ (w \in threads /\ w.id # t.id)
    BY <2>1, <2>3, MoveThread
  <2>5. ThreadStages'
    BY <1>t, <2>1, <2>2, <2>4 DEF ThreadStages, ThreadStage
  <2>6. TypeOK' /\ CountsRuns' /\ OneStory' /\ Apart'
    BY <2>1, <2>2 DEF TypeOK, CountsRuns, OneStory, Apart
  <2> QED
    BY <2>4, <2>5, <2>6
<1>7. ASSUME NEW t \in threads, NEW r \in Outcomes, RunEnds(t, r) PROVE IInv'
  <2> DEFINE u == [t EXCEPT !.step = "publishing", !.result = r]
  <2>1. /\ u \in Thread /\ u.id = t.id /\ u.fingerprint = t.fingerprint /\ u.owner = t.owner
        /\ u.step = "publishing" /\ u.result = r
    BY <1>t DEF Thread
  <2>2. /\ threads' = (threads \ {t}) \cup {u}
        /\ UNCHANGED <<rows, alive, retired, started, seen>>
        /\ started[t.id] = 1
    BY <1>7 DEF RunEnds, ThreadStages, ThreadStage
  <2>3. threads' = (threads \ {t}) \cup {u} /\ UNCHANGED <<rows, alive, retired>>
    BY <2>2
  <2> HIDE DEF u
  <2>4. OwnClaim' /\ OneThread' /\ \A w \in threads' : w = u \/ (w \in threads /\ w.id # t.id)
    BY <2>1, <2>3, MoveThread
  <2>5. ThreadStages'
    BY <1>t, <2>1, <2>2, <2>4 DEF ThreadStages, ThreadStage
  <2>6. TypeOK' /\ CountsRuns' /\ OneStory' /\ Apart'
    BY <2>1, <2>2 DEF TypeOK, CountsRuns, OneStory, Apart
  <2> QED
    BY <2>4, <2>5, <2>6
<1>8. ASSUME NEW t \in threads, PublishRun(t) PROVE IInv'
  <2>1. /\ t.result \in Outcomes /\ rows[t.id].owner = t.owner /\ rows[t.id].result = None
        /\ t.result = "completed" => started[t.id] = 1
        /\ rows[t.id] \in Row
    BY <1>8, <1>t, <1>o DEF PublishRun, ThreadStages, ThreadStage, Thread, TypeOK
  <2>2. /\ rows' = [rows EXCEPT ![t.id].result = t.result]
        /\ threads' = threads \ {t} /\ UNCHANGED <<alive, retired, started>>
        /\ seen' = seen \/ Told(t.id, View(rows'[t.id], t.owner))
    BY <1>8, <2>1 DEF PublishRun, PublishResult, MayPublish
  <2>3. /\ rows'[t.id].result = t.result /\ rows'[t.id] \in Row
        /\ \A j \in Ids : j # t.id => rows'[j] = rows[j]
    BY <1>t, <2>1, <2>2 DEF TypeOK, Row
  <2>4. View(rows'[t.id], t.owner) = t.result
    BY <2>1, <2>3 DEF View
  <2>5. TypeOK'
    BY <1>t, <2>1, <2>2, <2>3, <2>4 DEF TypeOK, Told
  <2>6. \A w \in threads' : w \in threads /\ w.id # t.id
    BY <2>2 DEF OneThread
  <2>7. OwnClaim' /\ OneThread' /\ ThreadStages'
    BY <1>t, <2>2, <2>3, <2>6 DEF OwnClaim, OneThread, ThreadStages, ThreadStage
  <2>8. CountsRuns'
    BY <1>t, <2>1, <2>2, <2>3 DEF CountsRuns, NoRow, Row
  <2>9. OneStory' /\ Apart'
    BY <1>t, <2>1, <2>2, <2>3, <2>4 DEF OneStory, Apart, Told, TypeOK
  <2> QED
    BY <2>5, <2>7, <2>8, <2>9
<1>9. ASSUME NEW t \in threads, PublishFails(t) PROVE IInv'
  <2>1. /\ threads' = threads \ {t} /\ UNCHANGED <<rows, alive, retired, started>>
        /\ seen' = seen \/ Told(t.id, View(rows[t.id], t.owner))
    BY <1>9 DEF PublishFails
  <2>2. View(rows[t.id], t.owner) = "started"
    BY <1>o DEF View
  <2>3. TypeOK' /\ OneStory'
    BY <2>1, <2>2 DEF TypeOK, OneStory, Told
  <2> QED
    BY <2>1, <2>3 DEF OwnClaim, OneThread, ThreadStages, ThreadStage, CountsRuns, Apart
<1>10. CASE UNCHANGED vars
  BY <1>10 DEF vars, TypeOK, OwnClaim, OneThread, ThreadStages, ThreadStage, CountsRuns, Apart, OneStory
<1> QED
  BY <1>1, <1>2, <1>3, <1>4, <1>5, <1>6, <1>7, <1>8, <1>9, <1>10 DEF Next, PollReceipt, RepeatRequest

LEMMA Invariant == Spec => []IInv
BY InitIInv, StepIInv, PTL DEF Spec
-----------------------------------------------------------------------------
\* The variables of ExecutionReceipts always have their declared types.
THEOREM TypeCorrect == Spec => []TypeOK
<1>1. IInv => TypeOK
  BY DEF IInv
<1> QED
  BY <1>1, Invariant, PTL

\* Whatever is repeated, lost or crashed, the work behind an execution number is
\* started at most once (claim() of execution_receipts.py).
THEOREM StartedAtMostOnce == Spec => []AtMostOnce
<1>1. IInv => AtMostOnce
  BY DEF IInv, CountsRuns, AtMostOnce
<1> QED
  BY <1>1, Invariant, PTL

\* Every final answer a caller heard is the answer of the table, for ever.
THEOREM AnswersAgree == Spec => []OneStory
<1>1. IInv => OneStory
  BY DEF IInv
<1> QED
  BY <1>1, Invariant, PTL

\* Each step changes a row only by claiming a free number or by letting the
\* living claimant publish.
LEMMA RowChanges ==
    IInv /\ [Next]_vars =>
        \A i \in Ids :
            \/ rows'[i] = rows[i]
            \/ rows[i] = NoRow
            \/ rows[i].result = None /\ rows[i].owner \in alive
<1> SUFFICES ASSUME IInv, [Next]_vars, NEW i \in Ids, rows'[i] # rows[i], rows[i] # NoRow
             PROVE rows[i].result = None /\ rows[i].owner \in alive
  OBVIOUS
<1>1. ASSUME NEW p \in Owners, NEW j \in Ids, NEW f \in Fingerprints, ClaimRequest(p, j, f)
      PROVE FALSE
  BY <1>1 DEF ClaimRequest, InsertClaim, Claimed, IInv, TypeOK
<1>2. ASSUME NEW t \in threads, PublishRun(t)
      PROVE rows[i].result = None /\ rows[i].owner \in alive
  <2>1. t.id = i
    BY <1>2 DEF PublishRun, PublishResult, MayPublish, IInv, TypeOK
  <2>2. /\ t.owner \in alive
        /\ rows[i] = [fingerprint |-> t.fingerprint, owner |-> t.owner, result |-> None]
    BY <2>1 DEF IInv, OwnClaim
  <2> QED
    BY <2>2
<1>3. UNCHANGED rows => FALSE
  OBVIOUS
<1> QED
  BY <1>1, <1>2, <1>3
  DEF Next, vars, Boot, Crash, PollReceipt, RepeatRequest, StartRun, StartFails, RunEnds, PublishFails

\* A claim whose process is gone is never closed, taken over or freed.
THEOREM AbandonedStays == Spec => AbandonedUntouched
<1>1. IInv /\ [Next]_vars => [\A i \in Ids : Abandoned(i) => rows'[i] = rows[i]]_vars
  BY RowChanges DEF Abandoned, Claimed, IInv, Apart
<1> QED
  BY <1>1, Invariant, PTL DEF Spec, AbandonedUntouched
-----------------------------------------------------------------------------
(* The refinement: each step of the receipts is a step of ExecutionOnce or *)
(* leaves the request, the run count and the answer of every number alone. *)

LEMMA InitOnce == Init => Once!Init
BY DEF Init, Once!Init, NoRow

LEMMA StepOnce == IInv /\ [Next]_vars => [Once!Next]_(Once!vars)
<1> SUFFICES ASSUME IInv, [Next]_vars PROVE [Once!Next]_(Once!vars)
  OBVIOUS
<1> USE ReceiptsAssumption
<1>t. \A t \in threads : t \in Thread /\ t.id \in Ids
  BY DEF IInv, TypeOK, Thread
<1>1. UNCHANGED <<rows, started>> => [Once!Next]_(Once!vars)
  BY DEF Once!vars
<1>2. ASSUME NEW p \in Owners, NEW i \in Ids, NEW f \in Fingerprints, ClaimRequest(p, i, f)
      PROVE Once!Next
  <2> DEFINE row == [fingerprint |-> f, owner |-> p, result |-> None]
  <2>1. rows[i] = NoRow /\ rows' = [rows EXCEPT ![i] = row] /\ UNCHANGED started
    BY <1>2 DEF ClaimRequest, InsertClaim, Claimed
  <2>2. rows'[i] = row /\ \A j \in Ids : j # i => rows'[j] = rows[j]
    BY <2>1 DEF IInv, TypeOK
  <2>3. [j \in Ids |-> rows[j].fingerprint][i] = None
    BY <2>1 DEF NoRow
  <2>4. [j \in Ids |-> rows'[j].fingerprint]
            = [[j \in Ids |-> rows[j].fingerprint] EXCEPT ![i] = f]
    <3>1. rows'[i].fingerprint = f
      BY <2>2
    <3>2. \A j \in Ids : j # i => rows'[j].fingerprint = rows[j].fingerprint
      BY <2>2
    <3> HIDE DEF row
    <3> QED
      BY <3>1, <3>2
  <2>5. [j \in Ids |-> rows'[j].result] = [j \in Ids |-> rows[j].result]
    BY <2>1, <2>2 DEF NoRow
  <2>6. Once!Bind(i, f)
    BY <2>1, <2>3, <2>4, <2>5 DEF Once!Bind
  <2> QED
    BY <2>6 DEF Once!Next
<1>3. ASSUME NEW t \in threads, StartRun(t) PROVE Once!Next
  <2>1. /\ UNCHANGED rows /\ started[t.id] = 0
        /\ started' = [started EXCEPT ![t.id] = @ + 1]
    BY <1>3 DEF StartRun, IInv, ThreadStages, ThreadStage
  <2>2. started' = [started EXCEPT ![t.id] = 1]
    BY <2>1
  <2>3. rows[t.id] = [fingerprint |-> t.fingerprint, owner |-> t.owner, result |-> None]
    BY DEF IInv, OwnClaim
  <2>4. t.fingerprint # None
    BY <1>t DEF Thread
  <2>5. /\ [j \in Ids |-> rows[j].fingerprint][t.id] # None
        /\ [j \in Ids |-> rows[j].result][t.id] = None
    BY <1>t, <2>3, <2>4
  <2>6. Once!Start(t.id)
    BY <2>1, <2>2, <2>5 DEF Once!Start
  <2> QED
    BY <1>t, <2>6 DEF Once!Next
<1>4. ASSUME NEW t \in threads, PublishRun(t) PROVE Once!Next
  <2>1. rows[t.id] = [fingerprint |-> t.fingerprint, owner |-> t.owner, result |-> None]
    BY DEF IInv, OwnClaim
  <2>2. rows' = [rows EXCEPT ![t.id].result = t.result] /\ UNCHANGED started
    BY <1>4, <2>1 DEF PublishRun, PublishResult, MayPublish
  <2>3. t.fingerprint # None /\ t.result \in Outcomes
        /\ (t.result = "completed" => started[t.id] = 1)
    BY <1>4, <1>t DEF PublishRun, IInv, ThreadStages, ThreadStage, Thread
  <2>4. /\ rows'[t.id].result = t.result /\ rows'[t.id].fingerprint = t.fingerprint
        /\ \A j \in Ids : j # t.id => rows'[j] = rows[j]
    BY <1>t, <2>1, <2>2 DEF IInv, TypeOK
  <2>5. [j \in Ids |-> rows'[j].fingerprint] = [j \in Ids |-> rows[j].fingerprint]
    BY <2>1, <2>4
  <2>6. [j \in Ids |-> rows'[j].result]
            = [[j \in Ids |-> rows[j].result] EXCEPT ![t.id] = t.result]
    BY <2>4
  <2>7. /\ [j \in Ids |-> rows[j].fingerprint][t.id] # None
        /\ [j \in Ids |-> rows[j].result][t.id] = None
    BY <1>t, <2>1, <2>3
  <2>8. Once!Publish(t.id, t.result)
    BY <2>2, <2>3, <2>5, <2>6, <2>7 DEF Once!Publish
  <2> QED
    BY <1>t, <2>3, <2>8 DEF Once!Next, Once!Outcomes, Outcomes
<1> QED
  BY <1>1, <1>2, <1>3, <1>4
  DEF Next, vars, Boot, Crash, PollReceipt, RepeatRequest, StartFails, RunEnds, PublishFails

\* The receipts implement ExecutionOnce: callers cannot tell crashes, repeats and
\* lost answers from a service that runs each request at most once.
THEOREM Refinement == Spec => ImplementsOnce
BY InitOnce, StepOnce, Invariant, PTL DEF Spec, Once!Spec, ImplementsOnce
=============================================================================
