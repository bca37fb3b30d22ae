------------------------------ MODULE DeskProofs ------------------------------
(***************************************************************************)
(* What holds on the Secretary's desk for any numbers of notices, updates, *)
(* questions, tries and faults.  Each part has an invariant of its own,    *)
(* which the steps of the other parts leave alone.                         *)
(***************************************************************************)
EXTENDS Desk, SequenceTheorems, FiniteSetTheorems, WellFoundedInduction, TLAPS

-----------------------------------------------------------------------------
(* The bot.                                                                *)

Messaged == [items : SUBSET Nat, tries : 0..MaxRetry - 1]

NoticeTypes ==
    /\ noticed \in Nat /\ buffer \in SUBSET Nat
    /\ sending \in SUBSET Messaged /\ queue \in Seq(SUBSET Nat)
    /\ Len(queue) <= QueueLength

UpdateTypes ==
    /\ written \in 0..MaxUpdates /\ lastId \in 0..written /\ forgotten \in 0..lastId
    /\ batch \in Seq(Nat) /\ restarts \in Nat
    /\ handled \in [1..MaxUpdates -> Nat]

\* A batch goes on behind the last update that was handled.
BatchFollows ==
    /\ lastId + Len(batch) <= written
    /\ \A i \in 1..Len(batch) : batch[i] = lastId + i

\* An update has been handled at least once up to the last one, and behind it once for each restart.
Handlings ==
    \A u \in 1..MaxUpdates :
        /\ handled[u] <= 1 + restarts
        /\ u <= lastId => handled[u] >= 1
        /\ u > lastId => handled[u] <= restarts

BotInv == NoticeTypes /\ UpdateTypes /\ BatchFollows /\ Handlings /\ Bot!Accounted

LEMMA BotBounds == MaxRetry - 1 \in Nat /\ 0 \in 0..MaxRetry - 1 /\ MaxUpdates \in Nat
BY DeskAssumption DEF DeskAssumption

\* A message that goes into the queue is last in it; others stay, but for the first of a full one.
LEMMA Queueing ==
    ASSUME NEW q \in Seq(SUBSET Nat), NEW x \in SUBSET Nat, NEW L \in Nat \ {0}, Len(q) <= L,
           NEW r, r = Append(IF Len(q) = L THEN Tail(q) ELSE q, x)
    PROVE  /\ r \in Seq(SUBSET Nat) /\ Len(r) <= L /\ Len(r) \in Nat
           /\ Len(r) = L \/ /\ \A i \in DOMAIN q : i \in DOMAIN r /\ r[i] = q[i]
                            /\ Len(r) \in DOMAIN r /\ r[Len(r)] = x
<1>1. CASE Len(q) = L
  <2>1. q # <<>>
    BY <1>1, EmptySeq
  <2>2. Tail(q) \in Seq(SUBSET Nat) /\ Len(Tail(q)) = L - 1
    BY <1>1, <2>1, HeadTailProperties
  <2>3. r = Append(Tail(q), x)
    BY <1>1
  <2>4. r \in Seq(SUBSET Nat) /\ Len(r) = Len(Tail(q)) + 1
    BY <2>2, <2>3, AppendProperties
  <2>5. Len(r) = L
    BY <2>2, <2>4
  <2> QED
    BY <2>4, <2>5
<1>2. CASE Len(q) # L
  <2>0. r = Append(q, x)
    BY <1>2
  <2>1. /\ r \in Seq(SUBSET Nat) /\ Len(r) = Len(q) + 1 /\ r[Len(q) + 1] = x
        /\ \A i \in 1..Len(q) : r[i] = q[i]
    BY <2>0, AppendProperties
  <2>2. Len(q) \in Nat /\ DOMAIN q = 1..Len(q) /\ DOMAIN r = 1..Len(r)
    BY <2>1, LenProperties
  <2>3. Len(r) <= L /\ Len(r) \in Nat /\ Len(r) \in 1..Len(r) /\ 1..Len(q) \subseteq 1..Len(r)
    <3> DEFINE m == Len(q)  n == Len(r)
    <3>1. m \in Nat /\ n = m + 1 /\ m <= L /\ m # L
      BY <1>2, <2>1, <2>2
    <3> HIDE DEF m, n
    <3>2. n <= L /\ n \in Nat /\ n \in 1..n /\ 1..m \subseteq 1..n
      BY <3>1
    <3> QED
      BY <3>2 DEF m, n
  <2>4. \A i \in DOMAIN q : i \in DOMAIN r /\ r[i] = q[i]
    BY <2>1, <2>2, <2>3
  <2> QED
    BY <2>1, <2>2, <2>3, <2>4
<1> QED
  BY <1>1, <1>2

LEMMA BotInit == Bot!Init => BotInv
<1> SUFFICES ASSUME Bot!Init PROVE BotInv
  OBVIOUS
<1> USE DEF Bot!Init
<1>1. queue \in Seq(SUBSET Nat) /\ batch \in Seq(Nat) /\ Len(queue) = 0 /\ Len(batch) = 0
  BY EmptySeq
<1>2. NoticeTypes
  BY <1>1, DeskAssumption DEF NoticeTypes, DeskAssumption
<1>3. UpdateTypes
  BY <1>1, BotBounds DEF UpdateTypes
<1>4. BatchFollows /\ Handlings
  BY <1>1, BotBounds DEF BatchFollows, Handlings
<1>5. Bot!Accounted
  BY DEF Bot!Accounted
<1> QED
  BY <1>2, <1>3, <1>4, <1>5 DEF BotInv

\* Notices: the updates stay as they are.
LEMMA UpdatesStay ==
    ASSUME UpdateTypes, BatchFollows, Handlings, UNCHANGED <<Bot!updates, restarts>>
    PROVE  UpdateTypes' /\ BatchFollows' /\ Handlings'
BY DEF UpdateTypes, BatchFollows, Handlings, Bot!updates

LEMMA NoticesStay ==
    ASSUME NoticeTypes, Bot!Accounted, UNCHANGED Bot!notices
    PROVE  NoticeTypes' /\ Bot!Accounted'
BY DEF NoticeTypes, Bot!Accounted, Bot!notices

LEMMA NotifyKeeps ==
    ASSUME NoticeTypes, Bot!Accounted, NEW p, Bot!Notify(p)
    PROVE  NoticeTypes' /\ Bot!Accounted'
<1>1. /\ noticed' = noticed + 1 /\ accepted' = accepted \cup {noticed'}
      /\ queue' = queue /\ arrived' = arrived /\ noticed' \in Nat
  BY DEF Bot!Notify, NoticeTypes
<1>2. CASE p = "high"
  <2>1. sending' = sending \cup {Bot!Sending({noticed'})} /\ UNCHANGED <<buffer, timer>>
    BY <1>2 DEF Bot!Notify
  <2>2. Bot!Sending({noticed'}) \in Messaged /\ Bot!Sending({noticed'}).items = {noticed'}
    BY <1>1, BotBounds DEF Bot!Sending, Messaged
  <2> QED
    BY <1>1, <2>1, <2>2 DEF NoticeTypes, Bot!Accounted
<1>3. CASE p # "high"
  <2>1. buffer' = buffer \cup {noticed'} /\ timer' = TRUE /\ sending' = sending
    BY <1>3 DEF Bot!Notify
  <2> QED
    BY <1>1, <2>1 DEF NoticeTypes, Bot!Accounted
<1> QED
  BY <1>2, <1>3

LEMMA QuestionNoticeKeeps ==
    ASSUME NoticeTypes, Bot!Accounted, Bot!NotifyQuestion
    PROVE  NoticeTypes' /\ Bot!Accounted'
<1>1. /\ noticed' = noticed + 1 /\ arrived \subseteq arrived'
      /\ UNCHANGED <<buffer, timer, sending, queue, accepted>>
  BY DEF Bot!NotifyQuestion
<1> QED
  BY <1>1 DEF NoticeTypes, Bot!Accounted

LEMMA TimerKeeps ==
    ASSUME NoticeTypes, Bot!Accounted, Bot!TimerFires
    PROVE  NoticeTypes' /\ Bot!Accounted'
<1>1. /\ buffer' = {} /\ sending' = sending \cup {Bot!Sending(buffer)}
      /\ UNCHANGED <<queue, accepted, arrived, noticed>>
  BY DEF Bot!TimerFires
<1>2. Bot!Sending(buffer) \in Messaged /\ Bot!Sending(buffer).items = buffer
  BY BotBounds DEF Bot!Sending, Messaged, NoticeTypes
<1> QED
  BY <1>1, <1>2 DEF NoticeTypes, Bot!Accounted

LEMMA SendDoneKeeps ==
    ASSUME NoticeTypes, Bot!Accounted, NEW s \in sending, Bot!SendDone(s)
    PROVE  NoticeTypes' /\ Bot!Accounted'
<1>1. /\ sending' = sending \ {s} /\ arrived' = arrived \cup s.items
      /\ UNCHANGED <<buffer, timer, queue, accepted, noticed>>
  BY DEF Bot!SendDone
<1> QED
  BY <1>1 DEF NoticeTypes, Bot!Accounted

LEMMA Tries == \A n \in Nat \ {0} : \A i \in 0..n - 1 :
                   /\ i + 1 # n => i + 1 \in 0..n - 1 /\ i + 1 < n
                   /\ i + 1 = n => ~(i + 1 < n)
OBVIOUS

LEMMA SendFailsKeeps ==
    ASSUME NoticeTypes, Bot!Accounted, NEW s \in sending, Bot!SendFails(s)
    PROVE  NoticeTypes' /\ Bot!Accounted'
<1> DEFINE t == [s EXCEPT !.tries = @ + 1]
<1>1. /\ s \in Messaged /\ MaxRetry \in Nat \ {0} /\ QueueLength \in Nat \ {0}
      /\ queue \in Seq(SUBSET Nat) /\ Len(queue) <= QueueLength
  BY DeskAssumption DEF NoticeTypes, DeskAssumption
<1>2. s.items \in SUBSET Nat /\ s.tries \in 0..MaxRetry - 1 /\ t = [items |-> s.items, tries |-> s.tries + 1]
  BY <1>1 DEF Messaged
<1>3. /\ arrived \subseteq arrived' /\ UNCHANGED <<buffer, timer, accepted, noticed>>
      /\ sending' = (sending \ {s}) \cup {x \in {t} : x.tries < MaxRetry}
      /\ queue' = IF ~Bot!LastTry(s) THEN queue
                  ELSE Append(IF Len(queue) = QueueLength THEN Tail(queue) ELSE queue, s.items)
  BY DEF Bot!SendFails
<1> HIDE DEF t
<1>4. CASE s.tries + 1 # MaxRetry
  <2>1. t \in Messaged /\ t.items = s.items /\ t.tries < MaxRetry
    BY <1>1, <1>2, <1>4, Tries DEF Messaged
  <2>2. sending' = (sending \ {s}) \cup {t} /\ queue' = queue
    BY <1>3, <1>4, <2>1 DEF Bot!LastTry
  <2> QED
    BY <1>3, <2>1, <2>2 DEF NoticeTypes, Bot!Accounted
<1>5. CASE s.tries + 1 = MaxRetry
  <2>1. /\ sending' = sending \ {s}
        /\ queue' = Append(IF Len(queue) = QueueLength THEN Tail(queue) ELSE queue, s.items)
    BY <1>1, <1>2, <1>3, <1>5, Tries DEF Bot!LastTry
  <2>2. /\ queue' \in Seq(SUBSET Nat) /\ Len(queue') <= QueueLength
        /\ Len(queue') = QueueLength \/ /\ \A i \in DOMAIN queue : i \in DOMAIN queue' /\ queue'[i] = queue[i]
                                        /\ Len(queue') \in DOMAIN queue' /\ queue'[Len(queue')] = s.items
    BY <1>1, <1>2, <2>1, Queueing
  <2>3. Len(queue) = QueueLength => Len(queue') = QueueLength
    <3>1. ASSUME Len(queue) = QueueLength PROVE Len(queue') = QueueLength
      <4>1. queue # <<>>
        BY <1>1, <3>1, EmptySeq
      <4>2. Tail(queue) \in Seq(SUBSET Nat) /\ Len(Tail(queue)) = QueueLength - 1
        BY <1>1, <3>1, <4>1, HeadTailProperties
      <4>3. Len(queue') = Len(Tail(queue)) + 1
        BY <1>2, <2>1, <3>1, <4>2, AppendProperties
      <4> QED
        BY <1>1, <4>2, <4>3
    <3> QED
      BY <3>1
  <2>4. NoticeTypes'
    BY <1>3, <2>1, <2>2 DEF NoticeTypes
  <2>5. Bot!Accounted'
    <3> SUFFICES ASSUME NEW n \in accepted, Len(queue') # QueueLength
                 PROVE  \/ n \in arrived'
                        \/ n \in buffer' /\ timer'
                        \/ \E x \in sending' : n \in x.items
                        \/ \E i \in DOMAIN queue' : n \in queue'[i]
      BY <1>3 DEF Bot!Accounted
    <3>1. CASE \E i \in DOMAIN queue : n \in queue[i]
      BY <2>2, <3>1
    <3>2. CASE \E x \in sending : n \in x.items
      BY <2>1, <2>2, <3>2
    <3>3. CASE n \in arrived \/ (n \in buffer /\ timer)
      BY <1>3, <3>3
    <3> QED
      BY <2>3, <3>1, <3>2, <3>3 DEF Bot!Accounted
  <2> QED
    BY <2>4, <2>5
<1> QED
  BY <1>4, <1>5

\* Updates: the notices stay as they are, except in a crash.
LEMMA FetchKeeps ==
    ASSUME UpdateTypes, BatchFollows, Handlings, Bot!Fetch
    PROVE  UpdateTypes' /\ BatchFollows' /\ Handlings'
<1>1. /\ forgotten' = lastId /\ UNCHANGED <<written, lastId, handled, restarts>>
      /\ batch' = [i \in 1..(written - lastId) |-> lastId + i] \/ (batch' = batch /\ batch = <<>>)
      /\ written > lastId
  BY DEF Bot!Fetch
<1>2. written \in Nat /\ lastId \in Nat /\ forgotten \in 0..lastId /\ written - lastId \in Nat
  BY <1>1, BotBounds DEF UpdateTypes
<1>3. batch' \in Seq(Nat) /\ BatchFollows'
  <2>1. CASE batch' = batch
    BY <1>1, <2>1 DEF UpdateTypes, BatchFollows
  <2>2. CASE batch' = [i \in 1..(written - lastId) |-> lastId + i]
    <3>1. \A i \in 1..(written - lastId) : lastId + i \in Nat
      BY <1>2
    <3>2. batch' \in Seq(Nat) /\ Len(batch') = written - lastId
      BY <1>2, <2>2, <3>1
    <3> QED
      BY <1>1, <1>2, <2>2, <3>2 DEF BatchFollows
  <2> QED
    BY <1>1, <2>1, <2>2
<1>4. UpdateTypes'
  BY <1>1, <1>2, <1>3 DEF UpdateTypes
<1> QED
  BY <1>1, <1>3, <1>4 DEF Handlings

LEMMA HandleKeeps ==
    ASSUME UpdateTypes, BatchFollows, Handlings, Bot!Handle
    PROVE  UpdateTypes' /\ BatchFollows' /\ Handlings'
<1> DEFINE u == Head(batch)
<1>1. /\ batch # <<>> /\ handled' = [handled EXCEPT ![u] = @ + 1] /\ lastId' = u
      /\ batch' = Tail(batch) \/ batch' = <<>>
      /\ UNCHANGED <<written, forgotten, restarts>>
  BY DEF Bot!Handle, Bot!Noted
<1>2. /\ batch \in Seq(Nat) /\ Len(batch) \in Nat /\ Len(batch) >= 1 /\ u = batch[1]
      /\ Tail(batch) \in Seq(Nat) /\ Len(Tail(batch)) = Len(batch) - 1
      /\ \A i \in 1..Len(Tail(batch)) : Tail(batch)[i] = batch[i + 1]
  <2>1. batch \in Seq(Nat) /\ batch # <<>>
    BY <1>1 DEF UpdateTypes
  <2> QED
    BY <2>1, HeadTailProperties, EmptySeq, LenProperties
<1>3. /\ lastId \in Nat /\ written \in Nat /\ written <= MaxUpdates /\ forgotten \in 0..lastId
      /\ lastId + Len(batch) <= written /\ \A i \in 1..Len(batch) : batch[i] = lastId + i
      /\ handled \in [1..MaxUpdates -> Nat] /\ restarts \in Nat
  BY BotBounds DEF UpdateTypes, BatchFollows
<1>4. u = lastId + 1 /\ u \in 1..written /\ u \in 1..MaxUpdates
  BY <1>2, <1>3, BotBounds
<1> HIDE DEF u
<1>5. batch' \in Seq(Nat) /\ BatchFollows'
  <2>1. CASE batch' = <<>>
    BY <1>1, <1>3, <1>4, <2>1, EmptySeq DEF BatchFollows
  <2>2. CASE batch' = Tail(batch)
    BY <1>1, <1>2, <1>3, <1>4, <2>2 DEF BatchFollows
  <2> QED
    BY <1>1, <2>1, <2>2
<1>6. UpdateTypes'
  <2>1. lastId' \in 0..written' /\ forgotten' \in 0..lastId'
    BY <1>1, <1>3, <1>4
  <2>2. handled' \in [1..MaxUpdates -> Nat]
    <3>1. handled[u] + 1 \in Nat
      BY <1>3, <1>4
    <3> QED
      BY <1>1, <1>3, <3>1
  <2>3. written' \in 0..MaxUpdates /\ restarts' \in Nat
    BY <1>1 DEF UpdateTypes
  <2> QED
    BY <1>5, <2>1, <2>2, <2>3 DEF UpdateTypes
<1>7. Handlings'
  <2> SUFFICES ASSUME NEW v \in 1..MaxUpdates
               PROVE  /\ handled'[v] <= 1 + restarts
                      /\ v <= u => handled'[v] >= 1
                      /\ v > u => handled'[v] <= restarts
    BY <1>1 DEF Handlings
  <2>1. /\ handled[v] \in Nat /\ handled[v] <= 1 + restarts
        /\ v <= lastId => handled[v] >= 1
        /\ v > lastId => handled[v] <= restarts
    BY <1>3 DEF Handlings
  <2>2. CASE v = u
    <3>1. handled'[v] = handled[v] + 1
      BY <1>1, <1>3, <1>4, <2>2
    <3> QED
      BY <1>3, <1>4, <2>1, <2>2, <3>1
  <2>3. CASE v # u
    <3>1. handled'[v] = handled[v]
      BY <1>1, <1>3, <1>4, <2>3
    <3> QED
      BY <1>3, <1>4, <2>1, <2>3, <3>1
  <2> QED
    BY <2>2, <2>3
<1> QED
  BY <1>5, <1>6, <1>7

LEMMA WriteKeeps ==
    ASSUME UpdateTypes, BatchFollows, Handlings, Bot!Write
    PROVE  UpdateTypes' /\ BatchFollows' /\ Handlings'
<1>1. /\ written < MaxUpdates /\ written' = written + 1
      /\ UNCHANGED <<forgotten, lastId, batch, handled, restarts>>
  BY DEF Bot!Write
<1>2. written \in 0..MaxUpdates /\ lastId \in 0..written /\ MaxUpdates \in Nat
  BY BotBounds DEF UpdateTypes
<1>3. written' \in 0..MaxUpdates /\ lastId' \in 0..written'
  BY <1>1, <1>2
<1>4. BatchFollows'
  <2>1. Len(batch) \in Nat
    BY DEF UpdateTypes
  <2> QED
    BY <1>1, <1>2, <2>1 DEF BatchFollows
<1> QED
  BY <1>1, <1>3, <1>4 DEF UpdateTypes, Handlings

LEMMA BotCrashKeeps ==
    ASSUME BotInv, Bot!Crash
    PROVE  BotInv'
<1>1. /\ buffer' = {} /\ sending' = {} /\ queue' = <<>> /\ accepted' = {}
      /\ lastId' = forgotten /\ batch' = <<>> /\ restarts' = restarts + 1
      /\ UNCHANGED <<noticed, written, forgotten, handled>>
  BY DEF Bot!Crash
<1>2. queue' \in Seq(SUBSET Nat) /\ batch' \in Seq(Nat) /\ Len(queue') = 0 /\ Len(batch') = 0
  BY <1>1, EmptySeq
<1>3. /\ written \in Nat /\ lastId \in Nat /\ forgotten \in Nat /\ forgotten <= lastId
      /\ lastId <= written /\ restarts \in Nat /\ QueueLength \in Nat
      /\ handled \in [1..MaxUpdates -> Nat]
  BY BotBounds, DeskAssumption DEF BotInv, UpdateTypes, DeskAssumption
<1>4. NoticeTypes'
  BY <1>1, <1>2, <1>3 DEF NoticeTypes, BotInv
<1>5. UpdateTypes'
  <2>1. lastId' \in 0..written' /\ forgotten' \in 0..lastId' /\ restarts' \in Nat
    BY <1>1, <1>3
  <2> QED
    BY <1>1, <1>2, <2>1 DEF UpdateTypes, BotInv
<1>6. BatchFollows'
  BY <1>1, <1>2, <1>3 DEF BatchFollows
<1>7. Handlings'
  BY <1>1, <1>3 DEF Handlings, BotInv
<1>8. Bot!Accounted'
  BY <1>1 DEF Bot!Accounted
<1> QED
  BY <1>4, <1>5, <1>6, <1>7, <1>8 DEF BotInv

LEMMA BotStep == BotInv /\ Bot!Next => BotInv'
<1> SUFFICES ASSUME BotInv, Bot!Next PROVE BotInv'
  OBVIOUS
<1> USE DEF BotInv
<1>1. ASSUME NEW p \in {"normal", "high"}, Bot!Notify(p) PROVE BotInv'
  BY <1>1, NotifyKeeps, UpdatesStay DEF Bot!Notify
<1>2. CASE Bot!NotifyQuestion
  <2>1. UNCHANGED <<Bot!updates, restarts>>
    BY <1>2 DEF Bot!NotifyQuestion
  <2> QED
    BY <1>2, <2>1, QuestionNoticeKeeps, UpdatesStay
<1>3. CASE Bot!TimerFires
  BY <1>3, TimerKeeps, UpdatesStay DEF Bot!TimerFires
<1>4. ASSUME NEW s \in sending, Bot!SendDone(s) PROVE BotInv'
  BY <1>4, SendDoneKeeps, UpdatesStay DEF Bot!SendDone
<1>5. ASSUME NEW s \in sending, Bot!SendFails(s) PROVE BotInv'
  BY <1>5, SendFailsKeeps, UpdatesStay DEF Bot!SendFails
<1>6. CASE Bot!RemoveChannel
  BY <1>6, NoticesStay, UpdatesStay DEF Bot!RemoveChannel
<1>7. ASSUME NEW enabled \in BOOLEAN, Bot!SetChannel(enabled) PROVE BotInv'
  BY <1>7, NoticesStay DEF Bot!SetChannel, UpdateTypes, BatchFollows, Handlings
<1>8. CASE Bot!Write
  BY <1>8, NoticesStay, WriteKeeps DEF Bot!Write
<1>9. CASE Bot!Fetch
  BY <1>9, NoticesStay, FetchKeeps DEF Bot!Fetch
<1>10. CASE Bot!Handle
  BY <1>10, NoticesStay, HandleKeeps DEF Bot!Handle
<1>11. CASE Bot!Crash
  BY <1>11, BotCrashKeeps
<1> QED
  BY <1>1, <1>2, <1>3, <1>4, <1>5, <1>6, <1>7, <1>8, <1>9, <1>10, <1>11 DEF Bot!Next

LEMMA BotRests == BotInv /\ UNCHANGED botVars => BotInv'
BY DEF BotInv, NoticeTypes, UpdateTypes, BatchFollows, Handlings, Bot!Accounted, botVars

LEMMA BotImplies == BotInv => BotFaithful
<1> SUFFICES ASSUME BotInv PROVE Bot!CommandsOnce
  BY DEF BotInv, BotFaithful
<1>1. lastId \in Nat /\ forgotten \in Nat /\ forgotten <= lastId
  BY BotBounds DEF BotInv, UpdateTypes
<1> QED
  BY <1>1 DEF BotInv, Handlings, Bot!CommandsOnce

\* No notice that passed the filters is forgotten before its queue is full, and a command of the
\* phone is carried out once between two starts of the station, and not given up unhandled.
THEOREM BotIsFaithful == Spec => []BotFaithful
<1>1. Init => BotInv
  BY BotInit DEF Init
<1>2. BotInv /\ [Next]_<<part, faults, briefVars, directVars, botVars, chatVars, graphVars, boardVars>> => BotInv'
  BY BotStep, BotRests DEF Next
<1> QED
  BY <1>1, <1>2, BotImplies, PTL DEF Spec

-----------------------------------------------------------------------------
(* The task a PM does by itself.                                           *)

Given == Answers \cup {"timeout"}
Responses == Answers \cup {"none", "timeout"}
Histories == UNION {[X -> Given] : X \in SUBSET Nat}
Phases == {"starting", "refining", "awaiting_input", "refined", "planning", "planned",
           "executing_single", "executed_single", "delivering", "completed", "failed",
           "recovery_blocked", "cancelled"}
Asking == [id : Nat, round : Nat, consumed : BOOLEAN]
States == [phase : Phases, round : Nat, context : Seq(Answers), complete : BOOLEAN,
           request : Asking, response : Responses, history : Histories, planned : BOOLEAN,
           direct : {"none", "active", "returned", "completed"}, result : {"none", "ok", "failed"},
           payload : BOOLEAN]

\* What a checkpoint says of the questions, and of the execution.
Talk(s) == <<s.round, s.context, s.request, s.response, s.history>>
Work(s) == <<s.direct, s.result>>

\* The question that waits has the next number and no place in the history; a question that
\* was consumed is the last in it; and the task knows the answers of the history.
WaitsRight(s) == s.request.id > 0 /\ ~s.request.consumed =>
                     /\ s.request.id = s.round + 1 /\ s.request.round = s.round
                     /\ s.request.id \notin DOMAIN s.history
ConsumedRight(s) == s.request.consumed => s.request.id = s.round /\ s.request.id \in DOMAIN s.history
NoneRight(s) == s.request.id = 0 => s.round = 0 /\ s.response = "none" /\ ~s.request.consumed
HistoryRight(s) ==
    /\ DOMAIN s.history \subseteq 1..s.request.id
    /\ {s.history[q] : q \in DOMAIN s.history} \ {"timeout"} = {s.context[i] : i \in DOMAIN s.context}
Sound(s) == WaitsRight(s) /\ ConsumedRight(s) /\ NoneRight(s) /\ HistoryRight(s)

\* The answer s has of a question.
Kept(s, q, a) == IF q \in DOMAIN s.history THEN s.history[q] = a
                 ELSE s.request.id = q /\ s.response = a
SameKept(s, t) == \A q \in Nat, a \in Answers : Kept(s, q, a) <=> Kept(t, q, a)

\* The checkpoint and the memory: as long as the PM runs, both know the same answers, and
\* the memory of one that has stopped knows none that the checkpoint does not.
Documents ==
    /\ disk \in States /\ mem \in States /\ questions \in Nat
    /\ Sound(disk) /\ disk.request.id = questions
    /\ \A q \in Nat, a \in Answers : Kept(mem, q, a) => Kept(disk, q, a)
    /\ stop = "" => /\ Sound(mem) /\ mem.request.id = questions
                    /\ SameKept(mem, disk) /\ Work(mem) = Work(disk)

\* What was confirmed is in the checkpoint, and only that is in the thread.
Confirmations ==
    /\ \A l \in letters : l.id \in Nat \ {0} /\ l.answer \in Answers
    /\ acked \subseteq Nat \X Answers
    /\ told \subseteq acked \cup (Nat \X {"question"})
    /\ \A x \in acked : Kept(disk, x[1], x[2])

\* Where the thread is, there is a question without an end, or an answer to it.
Waits ==
    /\ pc \in {"waiting", "answered"} /\ stop = "" => mem.request.id > 0 /\ ~mem.request.consumed
    /\ pc = "answered" /\ stop = "" => mem.response # "none"

\* The runtime has run when the checkpoint says it has returned, and not before it says so.
Runs ==
    /\ executions \in 0..1 /\ delivered \in Nat
    /\ disk.direct = "none" => executions = 0
    /\ disk.direct \in {"returned", "completed"} => executions = 1 /\ disk.result # "none"
    /\ pc = "launch" => executions = 0
    /\ pc = "launch" /\ stop = "" => disk.direct # "none"
    /\ pc = "running" => executions = 1 /\ delivered = 0
    /\ pc = "check" /\ stop = "" => disk.direct \in {"returned", "completed"}
    /\ pc \in {"deliver", "send"} /\ stop = "" => executions = 1 /\ disk.result = "ok"
    /\ delivered > 0 => executions = 1 /\ disk.result = "ok"

DirectInv == Documents /\ Confirmations /\ Waits /\ Runs

\* A field that is neither talked about nor the work of the PM.
LEMMA PhaseOf ==
    ASSUME NEW s \in States, NEW p \in Phases, NEW t, t = [s EXCEPT !.phase = p]
    PROVE  t \in States /\ Talk(t) = Talk(s) /\ Work(t) = Work(s)
BY DEF States, Talk, Work

LEMMA SameTalk ==
    ASSUME NEW s, NEW t, Talk(t) = Talk(s)
    PROVE  /\ Sound(s) => Sound(t)
           /\ SameKept(t, s) /\ SameKept(s, t) /\ t.request.id = s.request.id
<1>1. /\ t.round = s.round /\ t.context = s.context /\ t.request = s.request
      /\ t.response = s.response /\ t.history = s.history
  BY DEF Talk
<1>2. Sound(s) => Sound(t)
  BY <1>1 DEF Sound, WaitsRight, ConsumedRight, NoneRight, HistoryRight
<1>3. SameKept(t, s) /\ SameKept(s, t)
  BY <1>1 DEF SameKept, Kept
<1> QED
  BY <1>1, <1>2, <1>3

LEMMA DirectInit == Direct!Init => DirectInv
<1> SUFFICES ASSUME Direct!Init PROVE DirectInv
  OBVIOUS
<1>1. PICK clear \in BOOLEAN :
        disk = [phase |-> "starting", round |-> 0, context |-> <<>>, complete |-> clear,
                request |-> [id |-> 0, round |-> 0, consumed |-> FALSE], response |-> "none",
                history |-> <<>>, planned |-> FALSE, direct |-> "none", result |-> "none",
                payload |-> FALSE]
  BY DEF Direct!Init, Direct!NoRequest, Direct!NoAnswer
<1>2. /\ mem = disk /\ pc = "refine" /\ stop = "" /\ questions = 0 /\ executions = 0 /\ delivered = 0
      /\ letters = {} /\ acked = {} /\ told = {}
  BY DEF Direct!Init
<1>3. <<>> \in Histories /\ DOMAIN <<>> = {} /\ <<>> \in Seq(Answers)
  <2>1. <<>> \in [{} -> Given] /\ DOMAIN <<>> = {}
    BY EmptySeq
  <2>2. {} \in SUBSET Nat
    OBVIOUS
  <2> QED
    BY <2>1, <2>2, EmptySeq DEF Histories
<1>4. disk \in States
  BY <1>1, <1>3 DEF States, Phases, Asking, Responses
<1>5. Sound(disk) /\ disk.request.id = 0
  <2>1. /\ disk.request.id = 0 /\ disk.request.consumed = FALSE /\ disk.round = 0
        /\ disk.response = "none" /\ DOMAIN disk.history = {} /\ DOMAIN disk.context = {}
    BY <1>1, <1>3
  <2> QED
    BY <2>1 DEF Sound, WaitsRight, ConsumedRight, NoneRight, HistoryRight
<1>6. Documents
  BY <1>2, <1>4, <1>5 DEF Documents, SameKept
<1>7. Confirmations /\ Waits
  BY <1>2 DEF Confirmations, Waits
<1>8. Runs
  <2>1. disk.direct = "none"
    BY <1>1
  <2>2. executions \in 0..1 /\ delivered \in Nat /\ ~(delivered > 0) /\ executions = 0
    <3>1. executions = 0 /\ delivered = 0
      BY <1>2
    <3> QED
      BY <3>1
  <2>3. pc = "refine"
    BY <1>2
  <2> QED
    BY <2>1, <2>2, <2>3 DEF Runs
<1> QED
  BY <1>6, <1>7, <1>8 DEF DirectInv

\* What a checkpoint does to the two documents.
Outcome(next) ==
    /\ mem' = next
    /\ \/ disk' = next /\ stop' = ""
       \/ disk' = disk /\ stop' # ""

LEMMA StepOutcome ==
    ASSUME NEW from, NEW next, NEW to, Direct!Step(from, next, to)
    PROVE  /\ pc = from /\ stop = "" /\ Outcome(next)
           /\ stop' = "" => pc' = to
           /\ stop' # "" => pc' = "ended"
BY DEF Direct!Step, Direct!Saved, Direct!SaveFails, Outcome

LEMMA DocumentsKeep ==
    ASSUME Documents, Confirmations, stop = "", NEW next \in States, Sound(next),
           SameKept(next, mem), Outcome(next),
           questions' = IF stop' = "" THEN next.request.id ELSE questions,
           UNCHANGED <<letters, acked>>, told' \subseteq told \cup (Nat \X {"question"})
    PROVE  Documents' /\ Confirmations'
<1>1. next.request.id \in Nat
  BY DEF States, Asking
<1>2. \A q \in Nat, a \in Answers : Kept(next, q, a) <=> Kept(disk, q, a)
  BY DEF Documents, SameKept
<1>3. CASE disk' = next /\ stop' = ""
  <2>1. mem' = next
    BY DEF Outcome
  <2>2. Documents'
    BY <1>1, <1>3, <2>1 DEF Documents, SameKept
  <2>3. \A x \in acked : Kept(next, x[1], x[2])
    BY <1>2 DEF Confirmations
  <2> QED
    BY <1>3, <2>2, <2>3 DEF Confirmations
<1>4. CASE disk' = disk /\ stop' # ""
  <2>1. mem' = next
    BY DEF Outcome
  <2>2. Documents'
    BY <1>2, <1>4, <2>1 DEF Documents
  <2> QED
    BY <1>4, <2>2 DEF Confirmations
<1> QED
  BY <1>3, <1>4 DEF Outcome

\* A step that says nothing new of the questions.
LEMMA PlainStep ==
    ASSUME Documents, Confirmations, stop = "", NEW next \in States, Talk(next) = Talk(mem),
           Outcome(next), UNCHANGED <<questions, Direct!answering>>
    PROVE  Documents' /\ Confirmations'
<1>1. Sound(next) /\ SameKept(next, mem) /\ next.request.id = questions
  BY SameTalk DEF Documents
<1> QED
  BY <1>1, DocumentsKeep DEF Direct!answering

LEMMA RunsRest ==
    ASSUME Runs, Work(disk') = Work(disk), UNCHANGED <<executions, delivered>>,
           pc' \notin {"launch", "running", "check", "deliver", "send"}
    PROVE  Runs'
BY DEF Runs, Work

LEMMA WaitsRest == pc' \notin {"waiting", "answered"} => Waits'
BY DEF Waits

LEMMA OutcomeWork ==
    ASSUME Documents, stop = "", NEW next, Outcome(next), Work(next) = Work(mem)
    PROVE  Work(disk') = Work(disk)
BY DEF Documents, Outcome

\* A new question, or the old one once more.
LEMMA AskKeeps ==
    ASSUME DirectInv, Direct!Ask
    PROVE  DirectInv'
<1> DEFINE reused == mem.request.id > 0 /\ ~mem.request.consumed /\ mem.request.round = mem.round
           request == IF reused THEN mem.request
                      ELSE [id |-> questions + 1, round |-> mem.round, consumed |-> FALSE]
           response == IF reused THEN mem.response ELSE "none"
           next == [mem EXCEPT !.phase = "awaiting_input", !.request = request, !.response = response]
<1>1. /\ Direct!Step("ask", next, "waiting")
      /\ questions' = IF reused \/ stop' # "" THEN questions ELSE questions + 1
      /\ told' \in {told, IF stop' = "" THEN told \cup {<<request.id, "question">>} ELSE told}
      /\ UNCHANGED <<letters, acked, executions, delivered>>
  BY DEF Direct!Ask, Direct!Reusable, Direct!NoAnswer
<1>2. /\ mem \in States /\ questions \in Nat /\ mem.request \in Asking /\ mem.round \in Nat
      /\ mem.response \in Responses
  BY DEF DirectInv, Documents, States
<1>3. request \in Asking /\ response \in Responses /\ request.id \in Nat
  BY <1>2 DEF Asking, Responses
<1> HIDE DEF request, response
<1>4. /\ next \in States /\ Work(next) = Work(mem) /\ next.request = request /\ next.response = response
      /\ next.round = mem.round /\ next.context = mem.context /\ next.history = mem.history
  BY <1>2, <1>3 DEF States, Phases, Work
<1> HIDE DEF next
<1>5. stop = "" /\ Outcome(next) /\ pc' \in {"waiting", "ended"} /\ (stop' = "" => pc' = "waiting")
  BY <1>1, StepOutcome
<1>6. Documents /\ Confirmations /\ Sound(mem) /\ mem.request.id = questions
  BY <1>5 DEF DirectInv, Documents
<1>7. /\ Sound(next) /\ SameKept(next, mem) /\ request.id > 0 /\ ~request.consumed
      /\ request.id = IF reused THEN questions ELSE questions + 1
  <2>1. CASE reused
    <3>1. Talk(next) = Talk(mem)
      BY <1>4, <2>1 DEF Talk, request, response
    <3> QED
      BY <1>6, <2>1, <3>1, SameTalk DEF request
  <2>2. CASE ~reused
    <3>1. request = [id |-> questions + 1, round |-> mem.round, consumed |-> FALSE] /\ response = "none"
      BY <2>2 DEF request, response
    <3>2. mem.request.id = 0 \/ mem.request.consumed
      BY <1>2, <1>6, <2>2 DEF Sound, WaitsRight, Asking
    <3>3. questions = mem.round /\ (questions > 0 => questions \in DOMAIN mem.history)
      BY <1>2, <1>6, <3>2 DEF Sound, ConsumedRight, NoneRight
    <3>4. DOMAIN mem.history \subseteq 1..questions
      BY <1>6 DEF Sound, HistoryRight
    <3>5. questions + 1 \notin DOMAIN mem.history /\ DOMAIN mem.history \subseteq 1..(questions + 1)
      BY <1>2, <3>4
    <3>6. /\ next.request.id = questions + 1 /\ next.request.round = mem.round
          /\ ~next.request.consumed /\ questions + 1 > 0 /\ questions + 1 # 0
      BY <1>2, <1>4, <3>1
    <3>7. Sound(next)
      BY <1>4, <1>6, <3>3, <3>5, <3>6 DEF Sound, WaitsRight, ConsumedRight, NoneRight, HistoryRight
    <3>8. SameKept(next, mem)
      <4> SUFFICES ASSUME NEW q \in Nat, NEW a \in Answers, q \notin DOMAIN mem.history
                   PROVE  ~(mem.request.id = q /\ mem.response = a) /\ ~(next.response = a)
        BY <1>4 DEF SameKept, Kept
      <4>1. a # "none"
        BY DeskAssumption DEF DeskAssumption
      <4>2. CASE questions = 0
        BY <1>4, <1>6, <3>1, <4>1, <4>2 DEF Sound, NoneRight
      <4>3. CASE questions # 0
        BY <1>2, <1>4, <1>6, <3>1, <3>3, <4>1, <4>3
      <4> QED
        BY <4>2, <4>3
    <3> QED
      BY <1>2, <2>2, <3>1, <3>6, <3>7, <3>8
  <2> QED
    BY <2>1, <2>2
<1>8. Documents' /\ Confirmations'
  <2>1. questions' = IF stop' = "" THEN next.request.id ELSE questions
    BY <1>1, <1>4, <1>7
  <2>2. told' \subseteq told \cup (Nat \X {"question"})
    <3>1. told' \subseteq told \cup {<<request.id, "question">>}
      BY <1>1
    <3>2. <<request.id, "question">> \in Nat \X {"question"}
      BY <1>3
    <3> QED
      BY <3>1, <3>2
  <2> QED
    BY <1>1, <1>4, <1>5, <1>6, <1>7, <2>1, <2>2, DocumentsKeep
<1>9. Waits'
  <2>1. mem'.request = request
    BY <1>4, <1>5 DEF Outcome
  <2> QED
    BY <1>5, <1>7, <2>1 DEF Waits
<1>10. Runs'
  BY <1>1, <1>4, <1>5, <1>6, OutcomeWork, RunsRest DEF DirectInv
<1> QED
  BY <1>8, <1>9, <1>10 DEF DirectInv

LEMMA WakeKeeps ==
    ASSUME DirectInv, Direct!Wake
    PROVE  DirectInv'
<1> USE DEF DirectInv
<1>1. /\ pc = "waiting" /\ stop = "" /\ UNCHANGED <<questions, executions, delivered, Direct!answering>>
      /\ mem \in States /\ Sound(mem) /\ mem.request.id > 0 /\ ~mem.request.consumed
  BY DEF Direct!Wake, Direct!effects, Direct!Quiet, Waits, Documents
<1>2. CASE mem.response # "none" /\ pc' = "answered" /\ UNCHANGED <<disk, mem, stop>>
  <2>1. Documents' /\ Confirmations'
    BY <1>1, <1>2 DEF Documents, Confirmations, Direct!answering
  <2>2. Waits' /\ Runs'
    BY <1>1, <1>2, RunsRest DEF Waits
  <2> QED
    BY <2>1, <2>2
<1>3. CASE mem.response = "none" /\ Direct!Step("waiting", [mem EXCEPT !.response = "timeout"], "answered")
  <2> DEFINE next == [mem EXCEPT !.response = "timeout"]
  <2>1. /\ next \in States /\ Work(next) = Work(mem) /\ next.request = mem.request
        /\ next.response = "timeout" /\ next.round = mem.round /\ next.context = mem.context
        /\ next.history = mem.history
    BY <1>1 DEF States, Work, Responses
  <2>2. Outcome(next) /\ pc' \in {"answered", "ended"} /\ (stop' = "" => pc' = "answered")
    BY <1>3, StepOutcome
  <2> HIDE DEF next
  <2>3. Sound(next)
    <3>1. mem.request.id # 0
      <4>1. mem.request.id \in Nat
        BY <1>1 DEF States, Asking
      <4>2. mem.request.id > 0
        BY <1>1
      <4> QED
        BY <4>1, <4>2
    <3>2. WaitsRight(next)
      BY <1>1, <2>1 DEF Sound, WaitsRight
    <3>3. ConsumedRight(next) /\ NoneRight(next)
      BY <1>1, <2>1, <3>1 DEF ConsumedRight, NoneRight
    <3>4. HistoryRight(next)
      BY <1>1, <2>1 DEF Sound, HistoryRight
    <3> QED
      BY <3>2, <3>3, <3>4 DEF Sound
  <2>4. SameKept(next, mem)
    BY <1>3, <2>1, DeskAssumption DEF SameKept, Kept, DeskAssumption
  <2>5. Documents' /\ Confirmations'
    <3>1. questions' = IF stop' = "" THEN next.request.id ELSE questions
      BY <1>1, <2>1 DEF Documents
    <3> QED
      BY <1>1, <2>1, <2>2, <2>3, <2>4, <3>1, DocumentsKeep DEF Direct!answering
  <2>6. Waits'
    <3>1. mem'.request = mem.request /\ mem'.response = "timeout"
      BY <2>1, <2>2 DEF Outcome
    <3> QED
      BY <1>1, <2>2, <3>1 DEF Waits
  <2>7. Runs'
    BY <1>1, <2>1, <2>2, OutcomeWork, RunsRest
  <2> QED
    BY <2>5, <2>6, <2>7
<1> QED
  BY <1>1, <1>2, <1>3 DEF Direct!Wake, Direct!NoAnswer, Direct!saved

\* The answer becomes part of the task; that of a question whose time is over says nothing.
LEMMA Consumption ==
    ASSUME NEW s \in States, Sound(s), s.request.id > 0, ~s.request.consumed, s.response # "none",
           NEW n, n = [s EXCEPT !.round = @ + 1, !.request.consumed = TRUE,
                                !.context = IF s.response = "timeout" THEN @ ELSE Append(@, s.response),
                                !.history = [q \in DOMAIN @ \cup {s.request.id} |->
                                                IF q = s.request.id THEN s.response ELSE s.history[q]]]
    PROVE  /\ n \in States /\ Work(n) = Work(s) /\ n.request.id = s.request.id
           /\ Sound(n) /\ SameKept(n, s) /\ n.request.consumed
<1> DEFINE i == s.request.id
           h == [q \in DOMAIN s.history \cup {i} |-> IF q = i THEN s.response ELSE s.history[q]]
           c == IF s.response = "timeout" THEN s.context ELSE Append(s.context, s.response)
           r == [s.request EXCEPT !.consumed = TRUE]
           m == s.round + 1
<1>1. /\ s.round \in Nat /\ s.context \in Seq(Answers) /\ s.request \in Asking
      /\ s.response \in Responses /\ s.history \in Histories
  BY DEF States
<1>2. n = [s EXCEPT !.round = m, !.request = r, !.context = c, !.history = h]
  BY DEF States, Asking
<1>3. r \in Asking /\ r.id = i /\ r.consumed = TRUE /\ i \in Nat
  BY <1>1 DEF Asking
<1>4. PICK X \in SUBSET Nat : s.history \in [X -> Given]
  BY <1>1 DEF Histories
<1>5. s.response \in Given
  BY <1>1 DEF Responses, Given
<1>6. DOMAIN s.history = X /\ DOMAIN h = X \cup {i} /\ h[i] = s.response
      /\ \A q \in X \ {i} : h[q] = s.history[q]
  BY <1>4
<1>7. h \in [X \cup {i} -> Given]
  BY <1>4, <1>5
<1>8. h \in Histories
  <2>1. X \cup {i} \in SUBSET Nat
    BY <1>3
  <2> QED
    BY <1>7, <2>1 DEF Histories
<1>9. c \in Seq(Answers)
  BY <1>1, <1>5, AppendProperties DEF Given
<1>0. m \in Nat
  BY <1>1
<1> HIDE DEF r, c, h, m
<1>10. /\ n \in States /\ Work(n) = Work(s) /\ n.round = m /\ n.request = r
       /\ n.context = c /\ n.history = h /\ n.response = s.response
  <2>1. n \in States
    BY <1>0, <1>2, <1>3, <1>8, <1>9 DEF States
  <2>2. /\ n.round = m /\ n.request = r /\ n.context = c /\ n.history = h
        /\ n.response = s.response /\ n.direct = s.direct /\ n.result = s.result
    BY <1>2 DEF States
  <2> QED
    BY <2>1, <2>2 DEF Work
<1>11. i = s.round + 1 /\ i \notin X /\ X \subseteq 1..i
  <2>1. WaitsRight(s) /\ HistoryRight(s)
    BY DEF Sound
  <2>2. i = s.round + 1 /\ i \notin DOMAIN s.history
    BY <2>1 DEF WaitsRight
  <2>3. DOMAIN s.history \subseteq 1..i
    BY <2>1 DEF HistoryRight
  <2> QED
    BY <1>6, <2>2, <2>3
<1>12. {h[q] : q \in DOMAIN h} \ {"timeout"} = {c[j] : j \in DOMAIN c}
  <2>1. {h[q] : q \in DOMAIN h} = {s.history[q] : q \in X} \cup {s.response}
    BY <1>6, <1>11
  <2>2. {s.history[q] : q \in X} \ {"timeout"} = {s.context[j] : j \in DOMAIN s.context}
    BY <1>6 DEF Sound, HistoryRight
  <2>3. CASE s.response = "timeout"
    BY <2>1, <2>2, <2>3 DEF c
  <2>4. CASE s.response # "timeout"
    <3>1. c = Append(s.context, s.response) /\ s.response \in Answers
      BY <1>5, <2>4 DEF c, Given
    <3>2. {c[j] : j \in DOMAIN c} = {s.context[j] : j \in DOMAIN s.context} \cup {s.response}
      <4>1. /\ Len(c) = Len(s.context) + 1 /\ c[Len(s.context) + 1] = s.response
            /\ \A j \in 1..Len(s.context) : c[j] = s.context[j]
        BY <1>1, <3>1, AppendProperties
      <4>2. /\ DOMAIN c = 1..Len(c) /\ DOMAIN s.context = 1..Len(s.context) /\ Len(s.context) \in Nat
        BY <1>1, <1>9, LenProperties
      <4>3. DOMAIN c = DOMAIN s.context \cup {Len(s.context) + 1}
        BY <4>1, <4>2
      <4> QED
        BY <4>1, <4>2, <4>3
    <3> QED
      BY <2>1, <2>2, <2>4, <3>2
  <2> QED
    BY <2>3, <2>4
<1>13. i = s.round + 1 /\ i # 0 /\ X \cup {i} \subseteq 1..i
  BY <1>1, <1>3, <1>11
<1>14. Sound(n)
  <2>1. /\ n.request.consumed = TRUE /\ n.request.id = i /\ n.round = i
        /\ n.history = h /\ n.context = c
    BY <1>3, <1>10, <1>13 DEF m
  <2>2. WaitsRight(n)
    BY <2>1 DEF WaitsRight
  <2>3. ConsumedRight(n)
    BY <1>6, <2>1 DEF ConsumedRight
  <2>4. NoneRight(n)
    BY <1>13, <2>1 DEF NoneRight
  <2>5. HistoryRight(n)
    <3>1. DOMAIN n.history \subseteq 1..n.request.id
      BY <1>6, <1>13, <2>1
    <3>2. {n.history[q] : q \in DOMAIN n.history} = {h[q] : q \in DOMAIN h}
      BY <2>1
    <3>3. {n.context[j] : j \in DOMAIN n.context} = {c[j] : j \in DOMAIN c}
      BY <2>1
    <3> QED
      BY <1>12, <3>1, <3>2, <3>3 DEF HistoryRight
  <2> QED
    BY <2>2, <2>3, <2>4, <2>5 DEF Sound
<1>15. SameKept(n, s)
  <2> SUFFICES ASSUME NEW q \in Nat, NEW a \in Answers
               PROVE  Kept(n, q, a) <=> Kept(s, q, a)
    BY DEF SameKept
  <2>1. CASE q = i
    BY <1>6, <1>10, <1>11, <2>1 DEF Kept
  <2>2. CASE q # i
    BY <1>3, <1>6, <1>10, <2>2 DEF Kept
  <2> QED
    BY <2>1, <2>2
<1> QED
  BY <1>3, <1>10, <1>14, <1>15

LEMMA ConsumeKeeps ==
    ASSUME DirectInv, Direct!Consume
    PROVE  DirectInv'
<1> USE DEF DirectInv
<1> DEFINE next == [mem EXCEPT !.round = @ + 1, !.request.consumed = TRUE,
                               !.context = IF mem.response = "timeout" THEN @ ELSE Append(@, mem.response),
                               !.history = [q \in DOMAIN @ \cup {mem.request.id} |->
                                               IF q = mem.request.id THEN mem.response ELSE mem.history[q]]]
           saved == [next EXCEPT !.phase = "refining"]
<1>1. /\ IF mem.response = "timeout"
         THEN pc = "answered" /\ stop = "" /\ mem' = next /\ pc' = "refined" /\ UNCHANGED <<disk, stop>>
         ELSE Direct!Step("answered", saved, "ask")
      /\ UNCHANGED <<questions, executions, delivered, letters, acked, told>>
  BY DEF Direct!Consume, Direct!effects, Direct!Quiet, Direct!answering
<1>2. pc = "answered" /\ stop = ""
  BY <1>1, StepOutcome
<1>3. /\ mem \in States /\ Sound(mem) /\ mem.request.id > 0 /\ ~mem.request.consumed
      /\ mem.response # "none" /\ mem.request.id = questions
  BY <1>2 DEF Documents, Waits
<1>4. /\ next \in States /\ Work(next) = Work(mem) /\ next.request.id = mem.request.id
      /\ Sound(next) /\ SameKept(next, mem)
  BY <1>3, Consumption
<1> HIDE DEF next
<1>5. saved \in States /\ Talk(saved) = Talk(next) /\ Work(saved) = Work(next)
  BY <1>4, PhaseOf DEF Phases
<1> HIDE DEF saved
<1>6. CASE mem.response = "timeout"
  <2>1. mem' = next /\ disk' = disk /\ stop' = "" /\ pc' = "refined"
    BY <1>1, <1>6
  <2>2. Documents'
    BY <1>1, <1>2, <1>3, <1>4, <2>1 DEF Documents, SameKept
  <2>3. Confirmations'
    BY <1>1, <2>1 DEF Confirmations
  <2>4. Waits' /\ Runs'
    BY <1>1, <2>1, RunsRest, WaitsRest
  <2> QED
    BY <2>2, <2>3, <2>4
<1>7. CASE mem.response # "timeout"
  <2>1. Outcome(saved) /\ pc' \in {"ask", "ended"}
    BY <1>1, <1>7, StepOutcome
  <2>2. Sound(saved) /\ SameKept(saved, mem) /\ saved.request.id = questions
    BY <1>3, <1>4, <1>5, SameTalk DEF SameKept
  <2>3. Documents' /\ Confirmations'
    BY <1>1, <1>2, <1>5, <2>1, <2>2, DocumentsKeep
  <2>4. Waits' /\ Runs'
    BY <1>1, <1>2, <1>4, <1>5, <2>1, OutcomeWork, RunsRest, WaitsRest
  <2> QED
    BY <2>3, <2>4
<1> QED
  BY <1>6, <1>7

\* A step of the thread that changes nothing but the phase, and what is neither of the
\* questions nor of the execution.
LEMMA PhaseStep ==
    ASSUME DirectInv, NEW from, NEW to, NEW next \in States, Talk(next) = Talk(mem),
           Work(next) = Work(mem), Direct!Step(from, next, to),
           UNCHANGED <<questions, executions, delivered, Direct!answering>>,
           to \notin {"waiting", "answered", "launch", "running", "check", "deliver", "send"}
    PROVE  DirectInv'
<1> USE DEF DirectInv
<1>1. stop = "" /\ Outcome(next) /\ pc' \in {to, "ended"}
  BY StepOutcome
<1>2. Documents' /\ Confirmations'
  BY <1>1, PlainStep
<1>3. Waits' /\ Runs'
  BY <1>1, OutcomeWork, RunsRest, WaitsRest
<1> QED
  BY <1>2, <1>3

LEMMA PlanningKeeps ==
    ASSUME DirectInv, Direct!Refine \/ Direct!Refined \/ Direct!Plan \/ Direct!Planning
    PROVE  DirectInv'
<1>1. mem \in States /\ UNCHANGED <<questions, executions, delivered, Direct!answering>>
  BY DEF DirectInv, Documents, Direct!Refine, Direct!Refined, Direct!Plan, Direct!Planning,
         Direct!effects, Direct!Quiet
<1>2. ASSUME NEW p \in Phases, NEW from, NEW to \in {"ended", "plan", "ask"},
             Direct!Step(from, [mem EXCEPT !.phase = p], to)
      PROVE  DirectInv'
  BY <1>1, <1>2, PhaseOf, PhaseStep
<1>3. CASE Direct!Refine
  BY <1>2, <1>3 DEF Direct!Refine, Phases
<1>4. CASE Direct!Refined
  <2> DEFINE next == [mem EXCEPT !.phase = "refined", !.complete = TRUE]
  <2>1. next \in States /\ Talk(next) = Talk(mem) /\ Work(next) = Work(mem)
    BY <1>1 DEF States, Phases, Talk, Work
  <2>2. PICK from \in {"ask", "refined"} : Direct!Step(from, next, "plan")
    BY <1>4 DEF Direct!Refined
  <2> HIDE DEF next
  <2> QED
    BY <1>1, <2>1, <2>2, PhaseStep
<1>5. CASE Direct!Plan
  <2>1. CASE expired
    BY <1>2, <1>5, <2>1 DEF Direct!Plan, Phases
  <2>2. CASE ~expired
    <3> DEFINE next == [mem EXCEPT !.phase = "planned", !.planned = TRUE]
    <3>1. next \in States /\ Talk(next) = Talk(mem) /\ Work(next) = Work(mem)
      BY <1>1 DEF States, Phases, Talk, Work
    <3>2. Direct!Step("plan", next, "execute")
      BY <1>5, <2>2 DEF Direct!Plan
    <3> HIDE DEF next
    <3> QED
      BY <1>1, <3>1, <3>2, PhaseStep
  <2> QED
    BY <2>1, <2>2
<1>6. CASE Direct!Planning
  BY <1>2, <1>6 DEF Direct!Planning, Phases
<1> QED
  BY <1>3, <1>4, <1>5, <1>6

\* Answers.
LEMMA OneKept == \A s, q, a, b : Kept(s, q, a) /\ Kept(s, q, b) => a = b
BY DEF Kept

\* What is confirmed is in the checkpoint by then.
LEMMA ConfirmKeeps ==
    ASSUME Confirmations, NEW l \in letters, letters' = letters \ {l}, Direct!Confirmed(l),
           \A x \in acked : Kept(disk', x[1], x[2]), Kept(disk', l.id, l.answer)
    PROVE  Confirmations'
<1>1. l.id \in Nat /\ l.answer \in Answers
  BY DEF Confirmations
<1>2. /\ acked' = acked \cup {<<l.id, l.answer>>}
      /\ told' \in {told, told \cup {<<l.id, l.answer>>}}
  BY DEF Direct!Confirmed
<1>3. acked' \subseteq Nat \X Answers
  BY <1>1, <1>2 DEF Confirmations
<1>4. told' \subseteq acked' \cup (Nat \X {"question"})
  BY <1>2 DEF Confirmations
<1>5. \A x \in acked' : Kept(disk', x[1], x[2])
  BY <1>2
<1> QED
  BY <1>3, <1>4, <1>5 DEF Confirmations

LEMMA ReceiveKeeps ==
    ASSUME DirectInv, NEW l \in letters, Direct!Receive(l)
    PROVE  DirectInv'
<1> USE DEF DirectInv
<1>1. letters' = letters \ {l} /\ UNCHANGED <<pc, questions, executions, delivered>>
  BY DEF Direct!Receive, Direct!effects
<1>2. l.id \in Nat /\ l.id # 0 /\ l.answer \in Answers
  BY DEF Confirmations
<1>3. CASE UNCHANGED <<disk, mem, stop, acked, told>>
  BY <1>1, <1>3 DEF Documents, Confirmations, Waits, Runs
<1>4. CASE Direct!Same(l) /\ Direct!Confirmed(l) /\ UNCHANGED <<disk, mem, stop>>
  <2>1. Kept(mem, l.id, l.answer)
    BY <1>4 DEF Direct!Same, Kept
  <2>2. Kept(disk', l.id, l.answer)
    BY <1>2, <1>4, <2>1 DEF Documents
  <2>3. Confirmations'
    BY <1>1, <1>4, <2>2, ConfirmKeeps DEF Confirmations
  <2> QED
    BY <1>1, <1>4, <2>3 DEF Documents, Waits, Runs
<1>5. CASE ~Direct!Same(l) /\ Direct!Open(l)
           /\ mem' = [mem EXCEPT !.response = l.answer] /\ disk' = mem' /\ UNCHANGED stop /\ Direct!Confirmed(l)
  <2> DEFINE next == [mem EXCEPT !.response = l.answer]
  <2>1. /\ stop = "" /\ mem.response = "none" /\ ~mem.request.consumed
        /\ mem.request.id = l.id /\ l.id \notin DOMAIN mem.history
    BY <1>5 DEF Direct!Open, Direct!NoAnswer
  <2>2. mem \in States /\ Sound(mem) /\ mem.request.id = questions /\ SameKept(mem, disk)
    BY <2>1 DEF Documents
  <2>3. /\ next \in States /\ Work(next) = Work(mem) /\ next.request = mem.request
        /\ next.response = l.answer /\ next.round = mem.round /\ next.context = mem.context
        /\ next.history = mem.history
    BY <1>2, <2>2 DEF States, Work, Responses
  <2>4. mem' = next /\ disk' = next /\ stop' = ""
    BY <1>5, <2>1
  <2> HIDE DEF next
  <2>5. Sound(next)
    BY <1>2, <2>1, <2>2, <2>3 DEF Sound, WaitsRight, ConsumedRight, NoneRight, HistoryRight
  <2>6. \A q \in Nat, a \in Answers : Kept(mem, q, a) => Kept(next, q, a)
    BY <2>1, <2>3, DeskAssumption DEF Kept, DeskAssumption
  <2>7. Documents'
    BY <1>1, <2>2, <2>3, <2>4, <2>5 DEF Documents, SameKept
  <2>8. Confirmations'
    <3>1. Kept(next, l.id, l.answer)
      BY <2>1, <2>3 DEF Kept
    <3>2. \A x \in acked : Kept(next, x[1], x[2])
      BY <2>2, <2>6 DEF Confirmations, SameKept
    <3> QED
      BY <1>1, <1>5, <2>4, <3>1, <3>2, ConfirmKeeps
  <2>9. Waits'
    <3>1. l.answer # "none"
      BY <1>2, DeskAssumption DEF DeskAssumption
    <3> QED
      BY <1>1, <2>1, <2>3, <2>4, <3>1 DEF Waits
  <2>10. Work(disk') = Work(disk)
    BY <2>1, <2>3, <2>4 DEF Documents
  <2> QED
    BY <1>1, <2>1, <2>4, <2>7, <2>8, <2>9, <2>10 DEF Runs, Work
<1>6. CASE Direct!SaveFails(mem) /\ UNCHANGED <<acked, told>>
  <2>1. mem' = mem /\ disk' = disk /\ stop' # ""
    BY <1>6 DEF Direct!SaveFails
  <2> QED
    BY <1>1, <1>6, <2>1 DEF Documents, Confirmations, Waits, Runs
<1> QED
  BY <1>3, <1>4, <1>5, <1>6 DEF Direct!Receive, Direct!saved

\* The execution and the delivery.
LEMMA ExecuteKeeps ==
    ASSUME DirectInv, Direct!Execute
    PROVE  DirectInv'
<1> USE DEF DirectInv
<1>1. /\ pc = "execute" /\ stop = "" /\ mem \in States /\ Work(mem) = Work(disk)
      /\ UNCHANGED <<questions, executions, delivered, Direct!answering>>
  BY DEF Direct!Execute, Direct!effects, Direct!Quiet, Documents
<1>2. mem.direct = disk.direct /\ mem.direct \in {"none", "active", "returned", "completed"}
  BY <1>1 DEF Work, States
<1>3. CASE mem.direct = "none"
  <2> DEFINE next == [mem EXCEPT !.phase = "executing_single", !.direct = "active"]
  <2>1. next \in States /\ Talk(next) = Talk(mem) /\ next.direct = "active" /\ next.result = mem.result
    BY <1>1 DEF States, Phases, Talk
  <2>2. Direct!Noted(next)
    BY <1>1, <1>3 DEF Direct!Execute
  <2> HIDE DEF next
  <2>3. Outcome(next) /\ pc' \in {"launch", "ended"} /\ (stop' = "" => pc' = "launch" /\ disk' = next)
                      /\ (stop' # "" => pc' = "ended" /\ disk' = disk)
    BY <1>1, <2>2 DEF Direct!Noted, Direct!Saved, Direct!SaveFails, Outcome
  <2>4. Documents' /\ Confirmations'
    BY <1>1, <2>1, <2>3, PlainStep
  <2>5. Waits'
    BY <2>3, WaitsRest
  <2>6. executions = 0
    BY <1>2, <1>3 DEF Runs
  <2>7. Runs'
    <3>1. CASE stop' # ""
      BY <1>1, <2>3, <3>1, RunsRest
    <3>2. CASE stop' = ""
      <4>1. disk'.direct = "active" /\ pc' = "launch" /\ disk'.result = disk.result
        BY <1>1, <2>1, <2>3, <3>2 DEF Work
      <4> QED
        BY <1>1, <2>6, <4>1 DEF Runs
    <3> QED
      BY <3>1, <3>2
  <2> QED
    BY <2>4, <2>5, <2>7
<1>4. CASE mem.direct # "none"
  <2>1. UNCHANGED <<disk, mem, stop>> /\ pc' \in {"check", "ended"}
        /\ (pc' = "check" => disk.direct \in {"returned", "completed"})
    BY <1>1, <1>2, <1>4 DEF Direct!Execute, Direct!saved
  <2>2. Documents' /\ Confirmations'
    BY <1>1, <2>1 DEF Documents, Confirmations, Direct!answering
  <2>3. Waits' /\ Runs'
    BY <1>1, <2>1, WaitsRest DEF Runs
  <2> QED
    BY <2>2, <2>3
<1> QED
  BY <1>3, <1>4

LEMMA LaunchKeeps ==
    ASSUME DirectInv, Direct!Launch
    PROVE  DirectInv'
<1> USE DEF DirectInv
<1>1. /\ pc = "launch" /\ stop = "" /\ pc' = "running" /\ executions' = executions + 1
      /\ UNCHANGED <<disk, mem, stop, questions, delivered, Direct!answering>>
  BY DEF Direct!Launch, Direct!Quiet, Direct!saved
<1>2. /\ executions = 0 /\ executions # 1 /\ disk.direct # "none"
      /\ disk.direct \notin {"returned", "completed"}
  <2>1. executions = 0
    BY <1>1 DEF Runs
  <2>2. executions # 1
    BY <2>1
  <2> QED
    BY <1>1, <2>1, <2>2 DEF Runs
<1>3. executions' = 1 /\ executions' \in 0..1
  <2>1. executions' = executions + 1 /\ executions = 0
    BY <1>1, <1>2
  <2> QED
    BY <2>1
<1>4. delivered = 0
  <2>1. delivered \in Nat /\ ~(delivered > 0)
    BY <1>2 DEF Runs
  <2> QED
    BY <2>1
<1>5. Runs'
  BY <1>1, <1>2, <1>3, <1>4 DEF Runs
<1>6. Documents' /\ Confirmations' /\ Waits'
  BY <1>1, WaitsRest DEF Documents, Confirmations, Direct!answering
<1> QED
  BY <1>5, <1>6

LEMMA ReturnKeeps ==
    ASSUME DirectInv, NEW result \in {"ok", "failed"}, Direct!Return(result)
    PROVE  DirectInv'
<1> USE DEF DirectInv
<1>1. pc = "running" /\ UNCHANGED <<questions, executions, delivered, Direct!answering>>
  BY DEF Direct!Return, Direct!effects, Direct!Quiet
<1>2. executions = 1 /\ delivered = 0
  BY <1>1 DEF Runs
<1>3. CASE stop # ""
  <2>1. UNCHANGED <<disk, mem, stop>> /\ pc' = "ended"
    BY <1>3 DEF Direct!Return, Direct!saved
  <2> QED
    BY <1>1, <2>1, RunsRest, WaitsRest DEF Documents, Confirmations, Direct!answering
<1>4. CASE stop = ""
  <2> DEFINE next == [mem EXCEPT !.direct = "returned", !.result = result]
  <2>1. next \in States /\ Talk(next) = Talk(mem) /\ next.direct = "returned" /\ next.result = result
    BY <1>4 DEF Documents, States, Talk
  <2>2. Direct!Step("running", next, "check")
    BY <1>4 DEF Direct!Return
  <2> HIDE DEF next
  <2>3. Outcome(next) /\ (stop' = "" => pc' = "check") /\ (stop' # "" => pc' = "ended")
    BY <2>2, StepOutcome
  <2>4. Documents' /\ Confirmations'
    BY <1>1, <1>4, <2>1, <2>3, PlainStep
  <2>5. Waits'
    BY <2>3, WaitsRest
  <2>6. Runs'
    <3>1. CASE stop' # ""
      BY <1>1, <2>3, <3>1, RunsRest DEF Outcome
    <3>2. CASE stop' = ""
      <4>1. disk'.direct = "returned" /\ disk'.result = result /\ pc' = "check"
        BY <2>1, <2>3, <3>2 DEF Outcome
      <4>2. ~(delivered > 0) /\ result # "none"
        BY <1>2
      <4> QED
        BY <1>1, <1>2, <4>1, <4>2 DEF Runs
    <3> QED
      BY <3>1, <3>2
  <2> QED
    BY <2>4, <2>5, <2>6
<1> QED
  BY <1>3, <1>4

LEMMA CheckKeeps ==
    ASSUME DirectInv, Direct!Check
    PROVE  DirectInv'
<1> USE DEF DirectInv
<1>1. UNCHANGED <<questions, executions, delivered, Direct!answering>>
  BY DEF Direct!Check, Direct!effects, Direct!Quiet
<1>2. CASE mem.result = "failed"
  <2>1. Direct!Step("check", [mem EXCEPT !.phase = "failed"], "ended")
    BY <1>2 DEF Direct!Check
  <2>2. mem \in States /\ "failed" \in Phases
    BY DEF Documents, Phases
  <2> QED
    BY <1>1, <2>1, <2>2, PhaseOf, PhaseStep
<1>3. CASE mem.result # "failed"
  <2> DEFINE next == [mem EXCEPT !.phase = "executed_single", !.direct = "completed"]
  <2>1. next \in States /\ Talk(next) = Talk(mem) /\ next.direct = "completed" /\ next.result = mem.result
    BY DEF Documents, States, Phases, Talk
  <2>2. Direct!Step("check", next, "deliver")
    BY <1>3 DEF Direct!Check
  <2> HIDE DEF next
  <2>3. pc = "check" /\ stop = "" /\ Outcome(next) /\ (stop' = "" => pc' = "deliver") /\ (stop' # "" => pc' = "ended")
    BY <2>2, StepOutcome
  <2>4. Documents' /\ Confirmations'
    BY <1>1, <2>1, <2>3, PlainStep
  <2>5. Waits'
    BY <2>3, WaitsRest
  <2>6. executions = 1 /\ mem.result = disk.result /\ disk.result = "ok"
    <3>1. executions = 1 /\ disk.result # "none" /\ mem.result = disk.result
      BY <2>3 DEF Runs, Documents, Work
    <3>2. mem.result \in {"none", "ok", "failed"}
      BY DEF Documents, States
    <3> QED
      BY <1>3, <3>1, <3>2
  <2>7. Runs'
    <3>1. CASE stop' # ""
      BY <1>1, <2>3, <3>1, RunsRest DEF Outcome
    <3>2. CASE stop' = ""
      <4>1. disk'.direct = "completed" /\ disk'.result = "ok" /\ pc' = "deliver"
        BY <2>1, <2>3, <2>6, <3>2 DEF Outcome
      <4> QED
        BY <1>1, <2>6, <4>1 DEF Runs
    <3> QED
      BY <3>1, <3>2
  <2> QED
    BY <2>4, <2>5, <2>7
<1> QED
  BY <1>2, <1>3

LEMMA DeliverKeeps ==
    ASSUME DirectInv, Direct!Deliver
    PROVE  DirectInv'
<1> USE DEF DirectInv
<1> DEFINE next == [mem EXCEPT !.phase = "delivering", !.payload = TRUE]
<1>1. Direct!Step("deliver", next, "send") /\ UNCHANGED <<questions, executions, delivered, Direct!answering>>
  BY DEF Direct!Deliver, Direct!effects, Direct!Quiet
<1>2. next \in States /\ Talk(next) = Talk(mem) /\ Work(next) = Work(mem)
  BY DEF Documents, States, Phases, Talk, Work
<1> HIDE DEF next
<1>3. pc = "deliver" /\ stop = "" /\ Outcome(next) /\ (stop' = "" => pc' = "send") /\ (stop' # "" => pc' = "ended")
  BY <1>1, StepOutcome
<1>4. Documents' /\ Confirmations'
  BY <1>1, <1>2, <1>3, PlainStep
<1>5. Work(disk') = Work(disk)
  BY <1>2, <1>3, OutcomeWork
<1>6. Waits' /\ Runs'
  BY <1>1, <1>3, <1>5, WaitsRest DEF Runs, Work
<1> QED
  BY <1>4, <1>6

LEMMA PostKeeps ==
    ASSUME DirectInv, Direct!Post
    PROVE  DirectInv'
<1> USE DEF DirectInv
<1>1. UNCHANGED <<questions, executions, Direct!answering>>
  BY DEF Direct!Post, Direct!Quiet
<1>2. PICK p \in {"completed", "failed"} :
        /\ pc = "send" /\ stop = "" /\ pc' = "ended" /\ Outcome([mem EXCEPT !.phase = p])
        /\ delivered' \in {delivered, delivered + 1}
  <2>1. CASE Direct!Step("send", [mem EXCEPT !.phase = "completed"], "ended") /\ delivered' = delivered + 1
    BY <2>1, StepOutcome
  <2>2. CASE /\ pc = "send" /\ stop = "" /\ disk' = [mem EXCEPT !.phase = "failed"] /\ mem' = disk'
             /\ pc' = "ended" /\ delivered' \in {delivered, delivered + 1} /\ UNCHANGED stop
    BY <2>2 DEF Outcome
  <2> QED
    BY <2>1, <2>2 DEF Direct!Post
<1> DEFINE next == [mem EXCEPT !.phase = p]
<1>3. next \in States /\ Talk(next) = Talk(mem) /\ Work(next) = Work(mem)
  BY <1>2, PhaseOf DEF Documents, Phases
<1> HIDE DEF next
<1>4. Outcome(next)
  BY <1>2 DEF next
<1>5. Documents' /\ Confirmations'
  BY <1>1, <1>2, <1>3, <1>4, PlainStep
<1>6. Work(disk') = Work(disk)
  BY <1>2, <1>3, <1>4, OutcomeWork
<1>7. executions = 1 /\ disk.result = "ok" /\ delivered \in Nat
  BY <1>2 DEF Runs
<1>8. delivered' \in Nat
  <2>1. delivered \in Nat /\ delivered' \in {delivered, delivered + 1}
    BY <1>2, <1>7
  <2> QED
    BY <2>1
<1>9. Waits' /\ Runs'
  BY <1>1, <1>2, <1>6, <1>7, <1>8, WaitsRest DEF Runs, Work
<1> QED
  BY <1>5, <1>9

\* The Secretary does not let a resumed PM go on.
LEMMA BlockedKeeps ==
    ASSUME DirectInv, Direct!Blocked
    PROVE  DirectInv'
<1> USE DEF DirectInv
<1> DEFINE next == [mem EXCEPT !.phase = "recovery_blocked"]
<1>1. /\ stop = "" /\ stop' = "recovery_blocked" /\ pc' = "ended" /\ mem' = mem
      /\ disk' \in {disk, next}
      /\ UNCHANGED <<questions, executions, delivered, Direct!answering>>
  BY DEF Direct!Blocked, Direct!effects, Direct!Quiet
<1>2. next \in States /\ Talk(next) = Talk(mem) /\ Work(next) = Work(mem)
  BY PhaseOf DEF Documents, Phases
<1> HIDE DEF next
<1>3. Sound(next) /\ SameKept(next, disk) /\ next.request.id = questions /\ Work(next) = Work(disk)
  BY <1>1, <1>2, SameTalk DEF Documents, SameKept
<1>4. /\ disk' \in States /\ Sound(disk') /\ disk'.request.id = questions
      /\ SameKept(disk', disk) /\ Work(disk') = Work(disk)
  BY <1>1, <1>2, <1>3 DEF Documents, SameKept
<1>5. Documents'
  BY <1>1, <1>4 DEF Documents, SameKept
<1>6. Confirmations'
  <2>1. \A x \in acked : Kept(disk', x[1], x[2])
    BY <1>4 DEF Confirmations, SameKept
  <2> QED
    BY <1>1, <2>1 DEF Confirmations, Direct!answering
<1>7. Waits' /\ Runs'
  BY <1>1, <1>4, RunsRest, WaitsRest
<1> QED
  BY <1>5, <1>6, <1>7

LEMMA DirectCrashKeeps ==
    ASSUME DirectInv, Direct!Crash
    PROVE  DirectInv'
<1> USE DEF DirectInv
<1>1. /\ pc' = "ended" /\ stop' = "" /\ mem' = disk
      /\ UNCHANGED <<disk, questions, executions, delivered, Direct!answering>>
  BY DEF Direct!Crash, Direct!effects
<1>2. Documents'
  BY <1>1 DEF Documents, SameKept
<1>3. Confirmations' /\ Waits' /\ Runs'
  BY <1>1, RunsRest, WaitsRest DEF Confirmations, Direct!answering
<1> QED
  BY <1>2, <1>3

\* The PM is stopped by a cancellation, which the checkpoint may not show.
LEMMA CancelKeeps ==
    ASSUME DirectInv, Direct!Cancel
    PROVE  DirectInv'
<1> USE DEF DirectInv
<1>1. /\ stop = "" /\ stop' = "cancelled" /\ UNCHANGED <<pc, questions, executions, delivered, Direct!answering>>
      /\ mem \in States /\ Sound(mem) /\ mem.request.id = questions /\ SameKept(mem, disk) /\ Work(mem) = Work(disk)
  BY DEF Direct!Cancel, Direct!effects, Documents
<1>2. CASE UNCHANGED <<disk, mem>>
  BY <1>1, <1>2 DEF Documents, Confirmations, Waits, Runs, Direct!answering
<1>3. CASE mem' = (IF mem.phase \in Direct!Ends THEN mem ELSE [mem EXCEPT !.phase = "cancelled"]) /\ disk' = mem'
  <2>1. PICK next : /\ mem' = next /\ disk' = next /\ next \in States
                    /\ Talk(next) = Talk(mem) /\ Work(next) = Work(mem)
    <3>1. CASE mem.phase \in Direct!Ends
      BY <1>1, <1>3, <3>1
    <3>2. CASE mem.phase \notin Direct!Ends
      <4> DEFINE n == [mem EXCEPT !.phase = "cancelled"]
      <4>1. n \in States /\ Talk(n) = Talk(mem) /\ Work(n) = Work(mem)
        BY <1>1, PhaseOf DEF Phases
      <4>2. mem' = n /\ disk' = n
        BY <1>3, <3>2
      <4> HIDE DEF n
      <4> QED
        BY <4>1, <4>2
    <3> QED
      BY <3>1, <3>2
  <2>2. Sound(next) /\ SameKept(next, disk) /\ next.request.id = questions /\ Work(next) = Work(disk)
    BY <1>1, <2>1, SameTalk DEF SameKept
  <2>3. Documents'
    BY <1>1, <2>1, <2>2 DEF Documents, SameKept
  <2>4. Confirmations'
    <3>1. \A x \in acked : Kept(next, x[1], x[2])
      BY <2>2 DEF Confirmations, SameKept
    <3> QED
      BY <1>1, <2>1, <3>1 DEF Confirmations, Direct!answering
  <2>5. Waits' /\ Runs'
    BY <1>1, <2>1, <2>2 DEF Waits, Runs, Work
  <2> QED
    BY <2>3, <2>4, <2>5
<1> QED
  BY <1>2, <1>3 DEF Direct!Cancel, Direct!saved

\* The rest leaves the documents alone.
LEMMA WorldKeeps ==
    ASSUME DirectInv,
           \/ Direct!Stopped \/ Direct!Resume \/ Direct!Withdraw \/ Direct!QuestionLate \/ Direct!TaskLate
           \/ \E l \in letters : Direct!LoseLetter(l)
           \/ \E q \in 1..questions, a \in Answers : Direct!Send(q, a)
    PROVE  DirectInv'
<1> USE DEF DirectInv
<1>1. /\ UNCHANGED <<disk, mem, stop, questions, executions, delivered, acked, told>>
      /\ pc' \in {pc, "ended", "execute", "refine"}
  BY DEF Direct!Stopped, Direct!Resume, Direct!Withdraw, Direct!QuestionLate, Direct!TaskLate,
         Direct!LoseLetter, Direct!Send, Direct!saved, Direct!answering, Direct!effects, Direct!Quiet,
         Direct!outside
<1>2. \A l \in letters' : l.id \in Nat \ {0} /\ l.answer \in Answers
  <2>1. CASE letters' \subseteq letters
    BY <2>1 DEF Confirmations
  <2>2. ASSUME NEW q \in 1..questions, NEW a \in Answers, Direct!Send(q, a)
        PROVE  \A l \in letters' : l.id \in Nat \ {0} /\ l.answer \in Answers
    <3>1. questions \in Nat
      BY DEF Documents
    <3>2. q \in Nat \ {0}
      BY <3>1
    <3>3. letters' = letters \cup {[id |-> q, answer |-> a, known |-> withdrawn]}
      BY <2>2 DEF Direct!Send
    <3> QED
      BY <3>2, <3>3 DEF Confirmations
  <2> QED
    BY <2>1, <2>2 DEF Direct!Stopped, Direct!Resume, Direct!Withdraw, Direct!QuestionLate, Direct!TaskLate,
         Direct!LoseLetter, Direct!answering, Direct!Quiet
<1>3. Documents' /\ Confirmations'
  BY <1>1, <1>2 DEF Documents, Confirmations
<1>4. Waits' /\ Runs'
  BY <1>1 DEF Waits, Runs
<1> QED
  BY <1>3, <1>4

LEMMA DirectStep == DirectInv /\ Direct!Next => DirectInv'
<1> SUFFICES ASSUME DirectInv, Direct!Next PROVE DirectInv'
  OBVIOUS
<1>1. CASE Direct!Ask
  BY <1>1, AskKeeps
<1>2. CASE Direct!Wake
  BY <1>2, WakeKeeps
<1>3. CASE Direct!Consume
  BY <1>3, ConsumeKeeps
<1>4. CASE Direct!Refine \/ Direct!Refined \/ Direct!Plan \/ Direct!Planning
  BY <1>4, PlanningKeeps
<1>5. CASE Direct!Execute \/ Direct!Launch \/ Direct!Return("ok") \/ Direct!Return("failed")
  BY <1>5, ExecuteKeeps, LaunchKeeps, ReturnKeeps
<1>6. CASE Direct!Check \/ Direct!Deliver \/ Direct!Post
  BY <1>6, CheckKeeps, DeliverKeeps, PostKeeps
<1>7. CASE Direct!Blocked \/ Direct!Crash \/ Direct!Cancel
  BY <1>7, BlockedKeeps, DirectCrashKeeps, CancelKeeps
<1>8. ASSUME NEW l \in letters, Direct!Receive(l) PROVE DirectInv'
  BY <1>8, ReceiveKeeps
<1>9. CASE \/ Direct!Stopped \/ Direct!Resume \/ Direct!Withdraw \/ Direct!QuestionLate \/ Direct!TaskLate
           \/ \E l \in letters : Direct!LoseLetter(l)
           \/ \E q \in 1..questions, a \in Answers : Direct!Send(q, a)
  BY <1>9, WorldKeeps
<1> QED
  BY <1>1, <1>2, <1>3, <1>4, <1>5, <1>6, <1>7, <1>8, <1>9 DEF Direct!Next

LEMMA DirectRests == DirectInv /\ UNCHANGED directVars => DirectInv'
BY DEF DirectInv, Documents, Confirmations, Waits, Runs, directVars

LEMMA DirectImplies == DirectInv => DirectFaithful
<1> SUFFICES ASSUME DirectInv PROVE DirectFaithful
  OBVIOUS
<1> USE DEF DirectInv
<1>1. ASSUME NEW x \in acked, NEW y \in acked \cup {t \in told : t[2] \in Answers}, y[1] = x[1]
      PROVE  y = x
  <2>1. y \in acked
    BY DeskAssumption DEF Confirmations, DeskAssumption
  <2>2. Kept(disk, x[1], x[2]) /\ Kept(disk, x[1], y[2])
    BY <1>1, <2>1 DEF Confirmations
  <2>3. y[2] = x[2]
    BY <2>2, OneKept
  <2> QED
    BY <1>1, <2>1, <2>3 DEF Confirmations
<1>2. ASSUME NEW x \in acked
      PROVE  \/ x[1] \in DOMAIN disk.history /\ disk.history[x[1]] = x[2]
             \/ disk.request.id = x[1] /\ disk.response = x[2]
  BY DEF Confirmations, Kept
<1>3. {disk.history[q] : q \in DOMAIN disk.history} \ {"timeout"} = {disk.context[i] : i \in DOMAIN disk.context}
  BY DEF Documents, Sound, HistoryRight
<1>4. questions <= disk.round + 1
  <2>1. disk.request.id = questions /\ questions \in Nat /\ disk.round \in Nat /\ disk.request.consumed \in BOOLEAN
    BY DEF Documents, States, Asking
  <2>2. questions = 0 \/ questions = disk.round \/ questions = disk.round + 1
    <3>1. CASE questions = 0
      BY <3>1
    <3>2. CASE disk.request.consumed
      BY <2>1, <3>2 DEF Documents, Sound, ConsumedRight
    <3>3. CASE ~disk.request.consumed /\ questions # 0
      <4>1. questions > 0
        BY <2>1, <3>3
      <4> QED
        BY <2>1, <3>3, <4>1 DEF Documents, Sound, WaitsRight
    <3> QED
      BY <3>1, <3>2, <3>3
  <2> QED
    BY <2>1, <2>2
<1>5. Direct!AnswerKept
  BY <1>1, <1>2, <1>3, <1>4 DEF Direct!AnswerKept
<1>6. Direct!DirectOnce
  <2>1. executions <= 1
    <3>1. executions \in 0..1
      BY DEF Runs
    <3> QED
      BY <3>1
  <2> QED
    BY <2>1 DEF Runs, Direct!DirectOnce
<1> QED
  BY <1>5, <1>6 DEF DirectFaithful

\* An answer that was confirmed is the one its question gets, whatever crashes; the runtime runs
\* the task at most once, and what is delivered is a run that has returned.
THEOREM DirectIsFaithful == Spec => []DirectFaithful
<1>1. Init => DirectInv
  BY DirectInit DEF Init
<1>2. DirectInv /\ [Next]_<<part, faults, briefVars, directVars, botVars, chatVars, graphVars, boardVars>> => DirectInv'
  BY DirectStep, DirectRests DEF Next
<1> QED
  BY <1>1, <1>2, DirectImplies, PTL DEF Spec

-----------------------------------------------------------------------------
(* The conversations.                                                      *)

\* Of numbers there is a least one.
LEMMA Least ==
    ASSUME NEW T \in SUBSET Nat, T # {}
    PROVE  \E x \in T : \A y \in T : x <= y
<1> DEFINE R == OpToRel(<, Nat)
<1>1. IsWellFoundedOn(R, Nat)
  BY NatLessThanWellFounded, Zenon
<1>2. \A x, y \in Nat : <<x, y>> \in R <=> x < y
  BY Zenon DEF OpToRel
<1> HIDE DEF R
<1>3. PICK x \in T : \A y \in T : ~ (<<y, x>> \in R)
  BY <1>1, WFMin
<1>4. \A y \in T : x <= y
  <2> SUFFICES ASSUME NEW y \in T PROVE x <= y
    OBVIOUS
  <2>1. x \in Nat /\ y \in Nat /\ ~(y < x)
    BY <1>2, <1>3
  <2> QED
    BY <2>1
<1> QED
  BY <1>4

LEMMA FirstIs ==
    ASSUME NEW T \in SUBSET Nat
    PROVE  Chat!First(T) \in T \cup {0} /\ (Chat!First(T) # 0 => Chat!First(T) \in T)
BY Least DEF Chat!First

LEMMA WithIs ==
    \A f, x, y : /\ DOMAIN Chat!With(f, x, y) = DOMAIN f \cup {x} /\ Chat!With(f, x, y)[x] = y
                 /\ \A z \in DOMAIN f \ {x} : Chat!With(f, x, y)[z] = f[z]
BY DEF Chat!With

LEMMA WithoutIs ==
    \A f, x : /\ DOMAIN Chat!Without(f, x) = DOMAIN f \ {x}
              /\ \A z \in DOMAIN f \ {x} : Chat!Without(f, x)[z] = f[z]
BY DEF Chat!Without

\* What is listed has been created, and is loaded.
Listed ==
    /\ created \in 1..MaxConvs /\ DOMAIN file = 1..MaxConvs
    /\ DOMAIN index \subseteq 1..created /\ DOMAIN indexFile \subseteq 1..created
    /\ DOMAIN index \subseteq DOMAIN talk /\ DOMAIN talk \subseteq 1..created
    /\ active \in 0..created

Calls == {"idle", "entering", "asking", "acted", "done", "lost"}
Chats ==
    /\ chat \in [Messages -> [pc : Calls, conv : 0..created]]
    /\ \A m \in Messages : chat[m].pc # "idle" => chat[m].conv # 0
    /\ asked \subseteq pms /\ pms \subseteq Tasks

\* Nothing is said before the call has begun, and what is said is in its conversation.
Spoken(m, c) == Chat!Talk(m) \in file[c] \/ (c \in DOMAIN talk /\ Chat!Talk(m) \in talk[c])
Said == \A m \in Messages, c \in 1..MaxConvs :
            Spoken(m, c) => chat[m].pc # "idle" /\ c = chat[m].conv

\* The file of a thread has nothing twice, and nothing that the thread has not when it was loaded.
Entries == {"question", "answer"}
Once(s) == s \in Seq(Entries) /\ Chat!IsInjective(s)
Told ==
    /\ DOMAIN tfile = Tasks /\ DOMAIN tmem \subseteq Tasks
    /\ \A p \in Tasks \ hidden :
          /\ Once(tfile[p])
          /\ p \in DOMAIN tmem => /\ Once(tmem[p])
                                  /\ \A e \in Entries : Chat!Contains(tfile[p], e) => Chat!Contains(tmem[p], e)

ChatInv == Listed /\ Chats /\ Said /\ Told

LEMMA ChatBounds == MaxConvs \in Nat /\ MaxConvs >= 1
BY DeskAssumption DEF DeskAssumption

LEMMA ChatInit == Chat!Init => ChatInv
<1> SUFFICES ASSUME Chat!Init PROVE ChatInv
  OBVIOUS
<1> USE DEF Chat!Init
<1>1. Listed
  <2>1. /\ DOMAIN index = {1} /\ DOMAIN indexFile = {1} /\ DOMAIN talk = {1} /\ created = 1 /\ active = 1
        /\ DOMAIN file = 1..MaxConvs
    BY DEF Chat!Convs
  <2> QED
    BY <2>1, ChatBounds DEF Listed
<1>2. Chats
  <2>1. \A m \in Messages : chat[m] = [pc |-> "idle", conv |-> 0]
    OBVIOUS
  <2>2. 0 \in 0..created /\ "idle" \in Calls
    BY DEF Calls
  <2> QED
    BY <2>1, <2>2 DEF Chats
<1>3. Said
  BY DEF Said, Spoken, Chat!Convs
<1>4. Told
  <2>1. tmem = <<>> /\ tfile = [p \in Tasks |-> <<>>] /\ DOMAIN tmem = {}
    BY EmptySeq
  <2>2. Once(<<>>)
    BY EmptySeq DEF Once, Chat!IsInjective
  <2> QED
    BY <2>1, <2>2 DEF Told
<1> QED
  BY <1>1, <1>2, <1>3, <1>4 DEF ChatInv

\* Parts that a step leaves alone.
LEMMA SaidStays ==
    ASSUME Said, UNCHANGED <<talk, file, chat>>
    PROVE  Said'
BY DEF Said, Spoken

LEMMA ToldStays ==
    ASSUME Told, UNCHANGED Chat!threads
    PROVE  Told'
BY DEF Told, Chat!threads

LEMMA ChatsStay ==
    ASSUME Listed, Chats, UNCHANGED chat, created' \in {created, created + 1}, asked' = asked, pms' = pms
    PROVE  Chats'
<1>1. 0..created \subseteq 0..created'
  <2>1. created \in Nat
    BY ChatBounds DEF Listed
  <2> QED
    BY <2>1
<1> QED
  BY <1>1 DEF Chats

\* A call changes, but keeps its conversation; or it begins.
LEMMA CallKeeps ==
    ASSUME Chats, NEW m \in Messages, NEW p \in Calls, chat[m].pc # "idle", p # "idle",
           chat' = [chat EXCEPT ![m].pc = p], created' = created
    PROVE  /\ chat' \in [Messages -> [pc : Calls, conv : 0..created']]
           /\ \A n \in Messages : /\ chat'[n].conv = chat[n].conv /\ (chat'[n].pc # "idle") = (chat[n].pc # "idle")
                                  /\ chat'[n].pc # "idle" => chat'[n].conv # 0
<1>1. chat[m] \in [pc : Calls, conv : 0..created] /\ chat \in [Messages -> [pc : Calls, conv : 0..created]]
  BY DEF Chats
<1>2. chat'[m] = [chat[m] EXCEPT !.pc = p] /\ \A n \in Messages \ {m} : chat'[n] = chat[n]
  BY <1>1
<1>3. chat'[m] \in [pc : Calls, conv : 0..created] /\ chat'[m].conv = chat[m].conv /\ chat'[m].pc = p
  BY <1>1, <1>2
<1>4. chat' \in [Messages -> [pc : Calls, conv : 0..created]]
  BY <1>1, <1>3
<1> QED
  BY <1>2, <1>3, <1>4 DEF Chats

LEMMA IndexSaved ==
    ASSUME NEW next, Chat!SaveIndex(next)
    PROVE  index' = next /\ indexFile' \in {next, indexFile}
BY DEF Chat!SaveIndex, Chat!Writes

LEMMA SavedKeeps ==
    ASSUME Listed, NEW next, DOMAIN next = DOMAIN index, index' = next, indexFile' \in {next, indexFile},
           active' = active \/ active' \in DOMAIN index \/ active' \in 1..created,
           UNCHANGED created, DOMAIN talk \subseteq DOMAIN talk', DOMAIN talk' \subseteq 1..created,
           DOMAIN file' = DOMAIN file
    PROVE  Listed'
<1>1. created \in Nat
  BY ChatBounds DEF Listed
<1>2. active' \in 0..created
  BY <1>1 DEF Listed
<1> QED
  BY <1>2 DEF Listed

\* Nothing more is said, and a call that has begun stays where it is.
LEMMA SaidKeeps ==
    ASSUME Said, \A m \in Messages, c \in 1..MaxConvs : Spoken(m, c)' => Spoken(m, c),
           \A m \in Messages : chat[m].pc # "idle" => chat'[m].pc # "idle" /\ chat'[m].conv = chat[m].conv
    PROVE  Said'
BY DEF Said

LEMMA CreateKeeps ==
    ASSUME ChatInv, Chat!Create
    PROVE  ChatInv'
<1> USE DEF ChatInv
<1>1. /\ created < MaxConvs /\ created' = created + 1 /\ active' = created'
      /\ talk' = Chat!With(talk, created', {}) /\ index' = Chat!With(index, created', {})
      /\ indexFile' \in {index', indexFile} /\ UNCHANGED <<file, chat, pms, asked, Chat!threads>>
  BY IndexSaved DEF Chat!Create
<1>2. /\ DOMAIN talk' = DOMAIN talk \cup {created'} /\ talk'[created'] = {}
      /\ \A c \in DOMAIN talk \ {created'} : talk'[c] = talk[c]
  <2>1. DOMAIN talk' = DOMAIN talk \cup {created'}
    BY <1>1, WithIs
  <2>2. talk'[created'] = {}
    BY <1>1, WithIs
  <2>3. \A c \in DOMAIN talk \ {created'} : talk'[c] = talk[c]
    BY <1>1, WithIs
  <2> QED
    BY <2>1, <2>2, <2>3
<1>3. DOMAIN index' = DOMAIN index \cup {created'}
  BY <1>1, WithIs
<1>4. /\ created \in Nat /\ created' \in 1..MaxConvs /\ 1..created \subseteq 1..created'
      /\ created' \in 1..created' /\ active' \in 0..created'
  BY <1>1, ChatBounds DEF Listed
<1>5. DOMAIN indexFile' \subseteq 1..created'
  BY <1>1, <1>3, <1>4 DEF Listed
<1>6. Listed'
  BY <1>1, <1>2, <1>3, <1>4, <1>5 DEF Listed
<1>7. Chats'
  BY <1>1, ChatsStay
<1>8. Said'
  <2>1. \A m \in Messages, c \in 1..MaxConvs : Spoken(m, c)' => Spoken(m, c)
    BY <1>1, <1>2 DEF Spoken
  <2> QED
    BY <1>1, <2>1, SaidKeeps
<1>9. Told'
  BY <1>1, ToldStays
<1> QED
  BY <1>6, <1>7, <1>8, <1>9

LEMMA DeleteKeeps ==
    ASSUME ChatInv, NEW c \in 1..MaxConvs, Chat!Delete(c)
    PROVE  ChatInv'
<1> USE DEF ChatInv
<1>1. /\ index' = Chat!Without(index, c) /\ talk' = Chat!Without(talk, c)
      /\ active' = IF active = c THEN Chat!First(DOMAIN index') ELSE active
      /\ indexFile' \in {index', indexFile} /\ file' \in {file, [file EXCEPT ![c] = {}]}
      /\ UNCHANGED <<created, chat, pms, asked, Chat!threads>>
  BY DEF Chat!Delete, Chat!Writes
<1>2. DOMAIN talk' = DOMAIN talk \ {c} /\ \A d \in DOMAIN talk \ {c} : talk'[d] = talk[d]
  BY <1>1, WithoutIs
<1>3. DOMAIN index' = DOMAIN index \ {c}
  BY <1>1, WithoutIs
<1>4. created \in Nat /\ DOMAIN index' \in SUBSET Nat
  BY <1>3, ChatBounds DEF Listed
<1>5. Chat!First(DOMAIN index') \in DOMAIN index' \cup {0}
  BY <1>4, FirstIs
<1>6. active' \in 0..created
  BY <1>1, <1>3, <1>4, <1>5 DEF Listed
<1>7. DOMAIN file' = DOMAIN file /\ \A d \in DOMAIN file : file'[d] = file[d] \/ file'[d] = {}
  BY <1>1
<1>8. DOMAIN indexFile' \subseteq 1..created
  BY <1>1, <1>3 DEF Listed
<1>9. Listed'
  BY <1>1, <1>2, <1>3, <1>6, <1>7, <1>8 DEF Listed
<1>10. Chats'
  BY <1>1 DEF Chats
<1>11. Said'
  <2>1. \A m \in Messages, d \in 1..MaxConvs : Spoken(m, d)' => Spoken(m, d)
    BY <1>2, <1>7 DEF Spoken, Listed
  <2> QED
    BY <1>1, <2>1, SaidKeeps
<1>12. Told'
  BY <1>1, ToldStays
<1> QED
  BY <1>9, <1>10, <1>11, <1>12

\* A conversation is loaded from its file, if it is not there yet.
LEMMA LoadKeeps ==
    ASSUME Listed, Said, NEW c \in 1..created, active' = c,
           talk' = IF c \in DOMAIN talk THEN talk ELSE Chat!With(talk, c, file[c]),
           UNCHANGED <<index, indexFile, created, file>>
    PROVE  Listed' /\ \A m \in Messages, d \in 1..MaxConvs : Spoken(m, d)' => Spoken(m, d)
<1>1. /\ DOMAIN talk' = DOMAIN talk \cup {c}
      /\ \A d \in DOMAIN talk' : \/ d \in DOMAIN talk /\ talk'[d] = talk[d]
                                 \/ talk'[d] = file[d]
  <2>1. CASE c \in DOMAIN talk
    BY <2>1
  <2>2. CASE c \notin DOMAIN talk
    <3>1. DOMAIN talk' = DOMAIN talk \cup {c}
      BY <2>2, WithIs
    <3>2. talk'[c] = file[c] /\ \A d \in DOMAIN talk \ {c} : talk'[d] = talk[d]
      BY <2>2, WithIs
    <3> QED
      BY <3>1, <3>2
  <2> QED
    BY <2>1, <2>2
<1>2. c \in 0..created /\ DOMAIN talk' \subseteq 1..created
  BY <1>1, ChatBounds DEF Listed
<1>3. Listed'
  BY <1>1, <1>2 DEF Listed
<1> QED
  BY <1>1, <1>3 DEF Spoken

LEMMA SwitchKeeps ==
    ASSUME ChatInv, NEW c \in 1..MaxConvs, Chat!Switch(c)
    PROVE  ChatInv'
<1> USE DEF ChatInv
<1>1. /\ c \in 1..created /\ active' = c
      /\ talk' = IF c \in DOMAIN talk THEN talk ELSE Chat!With(talk, c, file[c])
      /\ UNCHANGED <<index, indexFile, created, file, chat, pms, asked, Chat!threads>>
  BY DEF Chat!Switch, Listed, Chat!indexes
<1>2. Listed' /\ \A m \in Messages, d \in 1..MaxConvs : Spoken(m, d)' => Spoken(m, d)
  BY <1>1, LoadKeeps
<1> QED
  BY <1>1, <1>2, SaidKeeps, ToldStays DEF Chats

LEMMA ClearKeeps ==
    ASSUME ChatInv, Chat!ClearHistory
    PROVE  ChatInv'
<1> USE DEF ChatInv
<1>1. /\ active # 0 /\ talk' = Chat!With(talk, active, {})
      /\ file' \in {file, [file EXCEPT ![active] = {}]}
      /\ UNCHANGED <<index, indexFile, created, active, chat, pms, asked, Chat!threads>>
  BY DEF Chat!ClearHistory, Chat!Writes, Chat!indexes
<1>2. DOMAIN talk' = DOMAIN talk \cup {active} /\ talk'[active] = {}
      /\ \A d \in DOMAIN talk \ {active} : talk'[d] = talk[d]
  <2>1. DOMAIN talk' = DOMAIN talk \cup {active}
    BY <1>1, WithIs
  <2>2. talk'[active] = {} /\ \A d \in DOMAIN talk \ {active} : talk'[d] = talk[d]
    BY <1>1, WithIs
  <2> QED
    BY <2>1, <2>2
<1>3. active \in 1..created
  BY <1>1, ChatBounds DEF Listed
<1>4. DOMAIN file' = DOMAIN file /\ \A d \in DOMAIN file : file'[d] = file[d] \/ file'[d] = {}
  BY <1>1
<1>5. Listed'
  BY <1>1, <1>2, <1>3, <1>4 DEF Listed
<1>6. \A m \in Messages, d \in 1..MaxConvs : Spoken(m, d)' => Spoken(m, d)
  BY <1>2, <1>4 DEF Spoken, Listed
<1> QED
  BY <1>1, <1>5, <1>6, SaidKeeps, ToldStays DEF Chats

\* A chat.
LEMMA BeginKeeps ==
    ASSUME ChatInv, NEW m \in Messages, NEW c \in 1..MaxConvs, Chat!Begin(m, c)
    PROVE  ChatInv'
<1> USE DEF ChatInv
<1>1. /\ chat[m].pc = "idle"
      /\ c \in DOMAIN index \/ (c = active /\ c # 0)
      /\ chat' = [chat EXCEPT ![m] = [pc |-> "entering", conv |-> c]]
      /\ UNCHANGED <<index, indexFile, created, active, talk, file, pms, asked, Chat!threads>>
  BY DEF Chat!Begin, Chat!indexes, Chat!talks
<1>2. c \in 0..created /\ c # 0
  BY <1>1, ChatBounds DEF Listed
<1>3. /\ chat' \in [Messages -> [pc : Calls, conv : 0..created]]
      /\ \A n \in Messages \ {m} : chat'[n] = chat[n]
      /\ chat'[m].pc = "entering" /\ chat'[m].conv = c
  <2>1. [pc |-> "entering", conv |-> c] \in [pc : Calls, conv : 0..created]
    BY <1>2 DEF Calls
  <2> QED
    BY <1>1, <2>1 DEF Chats
<1>4. Chats'
  BY <1>1, <1>2, <1>3 DEF Chats
<1>5. Said'
  <2> SUFFICES ASSUME NEW n \in Messages, NEW d \in 1..MaxConvs, Spoken(n, d)'
               PROVE  chat'[n].pc # "idle" /\ d = chat'[n].conv
    BY DEF Said
  <2>1. Spoken(n, d)
    BY <1>1 DEF Spoken
  <2>2. n # m
    BY <1>1, <2>1 DEF Said
  <2> QED
    BY <1>3, <2>1, <2>2 DEF Said
<1> QED
  BY <1>1, <1>4, <1>5, ToldStays DEF Listed

LEMMA EnterKeeps ==
    ASSUME ChatInv, NEW m \in Messages, Chat!Enter(m)
    PROVE  ChatInv'
<1> USE DEF ChatInv
<1> DEFINE c == chat[m].conv
<1>1. /\ chat[m].pc = "entering" /\ chat' = [chat EXCEPT ![m].pc = "asking"] /\ active' = c
      /\ talk' = IF c \in DOMAIN talk THEN talk ELSE Chat!With(talk, c, file[c])
      /\ UNCHANGED <<index, indexFile, created, file, pms, asked, Chat!threads>>
  BY DEF Chat!Enter, Chat!indexes
<1>2. c \in 1..created
  <2>1. c \in 0..created /\ c # 0 /\ created \in Nat
    BY <1>1, ChatBounds DEF Chats, Listed
  <2> QED
    BY <2>1
<1>3. Listed' /\ \A n \in Messages, d \in 1..MaxConvs : Spoken(n, d)' => Spoken(n, d)
  BY <1>1, <1>2, LoadKeeps
<1>4. /\ chat' \in [Messages -> [pc : Calls, conv : 0..created']]
      /\ \A n \in Messages : /\ chat'[n].conv = chat[n].conv /\ (chat'[n].pc # "idle") = (chat[n].pc # "idle")
                             /\ chat'[n].pc # "idle" => chat'[n].conv # 0
  BY <1>1, CallKeeps DEF Calls
<1> QED
  BY <1>1, <1>3, <1>4, SaidKeeps, ToldStays DEF Chats

\* What is added to a conversation, of whose messages.
LEMMA AddKeeps ==
    ASSUME Listed, NEW c \in 1..created, NEW what, Chat!Add(c, what),
           UNCHANGED <<index, created, active>>
    PROVE  /\ Listed'
           /\ \A m \in Messages, d \in 1..MaxConvs :
                 Spoken(m, d)' => Spoken(m, d) \/ (d = c /\ what = Chat!Talk(m))
<1> DEFINE old == IF c \in DOMAIN talk THEN talk[c] ELSE {}
<1>1. /\ talk' = Chat!With(talk, c, {what} \cup old)
      /\ file' \in {file, [file EXCEPT ![c] = @ \cup {what}]} /\ indexFile' \in {index, indexFile}
  BY DEF Chat!Add, Chat!Writes
<1>2. DOMAIN talk' = DOMAIN talk \cup {c}
  BY <1>1, WithIs
<1>3. talk'[c] = {what} \cup old /\ \A d \in DOMAIN talk \ {c} : talk'[d] = talk[d]
  BY <1>1, WithIs
<1>4. DOMAIN file' = DOMAIN file /\ \A d \in DOMAIN file : file'[d] = file[d] \/ (d = c /\ file'[d] = file[d] \cup {what})
  BY <1>1
<1>5. Listed'
  BY <1>1, <1>2, <1>4 DEF Listed
<1> QED
  BY <1>2, <1>3, <1>4, <1>5 DEF Spoken, Listed

LEMMA TalksApart == \A m, n : Chat!Talk(m) = Chat!Talk(n) => m = n
BY DEF Chat!Talk

LEMMA NoticesApart == \A m, p : Chat!Talk(m) # Chat!Notice(p)
BY DEF Chat!Talk, Chat!Notice

LEMMA FinishKeeps ==
    ASSUME ChatInv, NEW m \in Messages, Chat!Finish(m)
    PROVE  ChatInv'
<1> USE DEF ChatInv
<1> DEFINE c == chat[m].conv
<1>1. /\ chat[m].pc # "idle" /\ chat' = [chat EXCEPT ![m].pc = "done"]
      /\ Chat!Add(c, Chat!Talk(m))
      /\ UNCHANGED <<index, created, active, pms, asked, Chat!threads>>
  BY DEF Chat!Finish, Chat!Here
<1>2. c \in 1..created
  <2>1. c \in 0..created /\ c # 0 /\ created \in Nat
    BY <1>1, ChatBounds DEF Chats, Listed
  <2> QED
    BY <2>1
<1>3. /\ Listed'
      /\ \A n \in Messages, d \in 1..MaxConvs : Spoken(n, d)' => Spoken(n, d) \/ (d = c /\ Chat!Talk(m) = Chat!Talk(n))
  BY <1>1, <1>2, AddKeeps
<1>4. /\ chat' \in [Messages -> [pc : Calls, conv : 0..created']]
      /\ \A n \in Messages : /\ chat'[n].conv = chat[n].conv /\ (chat'[n].pc # "idle") = (chat[n].pc # "idle")
                             /\ chat'[n].pc # "idle" => chat'[n].conv # 0
  BY <1>1, CallKeeps DEF Calls
<1>5. Said'
  <2> SUFFICES ASSUME NEW n \in Messages, NEW d \in 1..MaxConvs, Spoken(n, d)'
               PROVE  chat'[n].pc # "idle" /\ d = chat'[n].conv
    BY DEF Said
  <2>1. CASE Spoken(n, d)
    BY <1>4, <2>1 DEF Said
  <2>2. CASE d = c /\ n = m
    BY <1>1, <1>4, <2>2
  <2> QED
    BY <1>3, <2>1, <2>2, TalksApart
<1> QED
  BY <1>1, <1>3, <1>4, <1>5, ToldStays DEF Chats

\* A thread that gets its entry; one that is not loaded has an empty one, or is hidden.
LEMMA AttachKeeps ==
    ASSUME Listed, Told, NEW c \in DOMAIN index, NEW p \in Tasks, Chat!Attach(c, p),
           UNCHANGED <<created, active, Chat!talks>>
    PROVE  Listed' /\ Told'
<1>1. /\ DOMAIN index' = DOMAIN index /\ indexFile' \in {index', indexFile} /\ tfile' = tfile
      /\ tmem' = IF p \in DOMAIN tmem THEN tmem ELSE Chat!With(tmem, p, <<>>)
      /\ hidden' = IF p \notin DOMAIN tmem /\ tfile[p] # <<>> THEN hidden \cup {p} ELSE hidden
  BY IndexSaved DEF Chat!Attach
<1>2. Listed'
  <2>1. DOMAIN indexFile' \subseteq 1..created
    BY <1>1 DEF Listed
  <2> QED
    BY <1>1, <2>1 DEF Listed, Chat!talks
<1>3. Told'
  <2>1. CASE p \in DOMAIN tmem
    BY <1>1, <2>1 DEF Told
  <2>2. CASE p \notin DOMAIN tmem
    <3>1. DOMAIN tmem' = DOMAIN tmem \cup {p}
      BY <1>1, <2>2, WithIs
    <3>2. tmem'[p] = <<>> /\ \A q \in DOMAIN tmem : tmem'[q] = tmem[q]
      BY <1>1, <2>2, WithIs
    <3>3. tfile[p] # <<>> => p \in hidden'
      BY <1>1, <2>2
    <3>4. hidden \subseteq hidden'
      BY <1>1
    <3> QED
      BY <1>1, <2>2, <3>1, <3>2, <3>3, <3>4 DEF Told
  <2> QED
    BY <2>1, <2>2
<1> QED
  BY <1>2, <1>3

LEMMA SubmitKeeps ==
    ASSUME ChatInv, NEW m \in Messages, Chat!SubmitTask(m)
    PROVE  ChatInv'
<1> USE DEF ChatInv
<1>1. /\ chat[m].pc # "idle" /\ m \in Tasks /\ chat' = [chat EXCEPT ![m].pc = "acted"]
      /\ pms' = pms \cup {m} /\ asked' = asked
      /\ IF active \in DOMAIN index THEN Chat!Attach(active, m)
         ELSE UNCHANGED <<index, indexFile, Chat!threads>>
      /\ UNCHANGED <<created, active, Chat!talks>>
  BY DEF Chat!SubmitTask, Chat!AttachActive
<1>2. Listed' /\ Told'
  <2>1. CASE active \in DOMAIN index
    BY <1>1, <2>1, AttachKeeps
  <2>2. CASE active \notin DOMAIN index
    BY <1>1, <2>2, ToldStays DEF Listed, Chat!talks
  <2> QED
    BY <2>1, <2>2
<1>3. /\ chat' \in [Messages -> [pc : Calls, conv : 0..created']]
      /\ \A n \in Messages : /\ chat'[n].conv = chat[n].conv /\ (chat'[n].pc # "idle") = (chat[n].pc # "idle")
                             /\ chat'[n].pc # "idle" => chat'[n].conv # 0
  BY <1>1, CallKeeps DEF Calls
<1>4. Chats'
  BY <1>1, <1>3 DEF Chats
<1>5. Said'
  <2>1. \A n \in Messages, d \in 1..MaxConvs : Spoken(n, d)' => Spoken(n, d)
    BY <1>1 DEF Spoken, Chat!talks
  <2> QED
    BY <1>3, <2>1, SaidKeeps
<1> QED
  BY <1>2, <1>4, <1>5

LEMMA AttachAgainKeeps ==
    ASSUME ChatInv, NEW c \in 1..MaxConvs, NEW p \in Tasks, Chat!AttachAgain(c, p)
    PROVE  ChatInv'
<1> USE DEF ChatInv
<1>1. /\ c \in DOMAIN index /\ Chat!Attach(c, p)
      /\ UNCHANGED <<created, active, Chat!talks, chat, pms, asked>>
  BY DEF Chat!AttachAgain
<1>2. Listed' /\ Told'
  BY <1>1, AttachKeeps
<1> QED
  BY <1>1, <1>2, SaidStays DEF Chats, Chat!talks

LEMMA DetachKeeps ==
    ASSUME ChatInv, NEW c \in 1..MaxConvs, NEW p \in Tasks, Chat!Detach(c, p)
    PROVE  ChatInv'
<1> USE DEF ChatInv
<1>1. /\ DOMAIN index' = DOMAIN index /\ indexFile' \in {index', indexFile}
      /\ UNCHANGED <<created, active, talk, file, chat, pms, asked, Chat!threads>>
  BY IndexSaved DEF Chat!Detach, Chat!talks
<1>2. Listed'
  <2>1. DOMAIN indexFile' \subseteq 1..created
    BY <1>1 DEF Listed
  <2> QED
    BY <1>1, <2>1 DEF Listed
<1> QED
  BY <1>1, <1>2, SaidStays, ToldStays DEF Chats

\* The threads.
LEMMA EmptyOnce == Once(<<>>) /\ \A e : ~Chat!Contains(<<>>, e)
<1>1. Len(<<>>) = 0 /\ <<>> \in Seq(Entries) /\ DOMAIN <<>> = {}
  BY EmptySeq
<1>2. 1..Len(<<>>) = {}
  BY <1>1
<1> QED
  BY <1>1, <1>2 DEF Once, Chat!IsInjective, Chat!Contains

LEMMA AppendedOnce ==
    ASSUME NEW s, Once(s), NEW e \in Entries, ~Chat!Contains(s, e)
    PROVE  /\ Once(Append(s, e))
           /\ \A x : Chat!Contains(Append(s, e), x) <=> Chat!Contains(s, x) \/ x = e
<1> DEFINE t == Append(s, e)  n == Len(s)
<1>1. s \in Seq(Entries) /\ n \in Nat /\ DOMAIN s = 1..n
  BY LenProperties DEF Once
<1>2. /\ t \in Seq(Entries) /\ Len(t) = n + 1 /\ t[n + 1] = e
      /\ \A i \in 1..n : t[i] = s[i]
  BY <1>1, AppendProperties
<1>3. DOMAIN t = 1..(n + 1)
  BY <1>2, LenProperties
<1>4. 1..(n + 1) = 1..n \cup {n + 1} /\ n + 1 \notin 1..n
  BY <1>1
<1> HIDE DEF t, n
<1>5. \A i \in 1..n : s[i] # e
  BY DEF Chat!Contains, n
<1>6. Chat!IsInjective(t)
  <2> SUFFICES ASSUME NEW i \in 1..n \cup {n + 1}, NEW j \in 1..n \cup {n + 1}, t[i] = t[j] PROVE i = j
    BY <1>3, <1>4 DEF Chat!IsInjective
  <2>1. CASE i \in 1..n /\ j \in 1..n
    BY <1>1, <1>2, <2>1 DEF Once, Chat!IsInjective
  <2>2. CASE i = n + 1 /\ j = n + 1
    BY <2>2
  <2>3. CASE i \in 1..n /\ j = n + 1
    BY <1>2, <1>5, <2>3
  <2>4. CASE i = n + 1 /\ j \in 1..n
    BY <1>2, <1>5, <2>4
  <2> QED
    BY <2>1, <2>2, <2>3, <2>4
<1>7. ASSUME NEW x PROVE Chat!Contains(t, x) <=> Chat!Contains(s, x) \/ x = e
  <2>1. Chat!Contains(t, x) <=> \E i \in 1..n \cup {n + 1} : t[i] = x
    BY <1>2, <1>4 DEF Chat!Contains
  <2>2. Chat!Contains(s, x) <=> \E i \in 1..n : s[i] = x
    BY DEF Chat!Contains, n
  <2> QED
    BY <1>2, <2>1, <2>2
<1> QED
  BY <1>2, <1>6, <1>7 DEF Once, t

\* An entry is recorded in a thread that does not have it.
LEMMA RecordKeeps ==
    ASSUME Told, NEW p \in Tasks, NEW e \in Entries, NEW new \in BOOLEAN,
           new = ~Chat!Contains(Chat!Thread(p), e), Chat!Record(p, e, new),
           tfile' = tfile \/ (new /\ tfile' = [tfile EXCEPT ![p] = Append(@, e)]), hidden' = hidden
    PROVE  Told'
<1> DEFINE t == Chat!Thread(p)
           u == IF new THEN Append(t, e) ELSE t
<1>1. tmem' = Chat!With(tmem, p, u)
  BY DEF Chat!Record
<1>2. DOMAIN tmem' = DOMAIN tmem \cup {p}
  BY <1>1, WithIs
<1>3. tmem'[p] = u /\ \A q \in DOMAIN tmem \ {p} : tmem'[q] = tmem[q]
  BY <1>1, WithIs
<1>4. DOMAIN tfile' = Tasks /\ \A q \in Tasks \ {p} : tfile'[q] = tfile[q]
  BY DEF Told
<1>5. tfile'[p] = tfile[p] \/ (new /\ tfile'[p] = Append(tfile[p], e))
  BY DEF Told
<1>6. ASSUME p \notin hidden
      PROVE  /\ Once(tfile'[p]) /\ Once(tmem'[p])
             /\ \A x \in Entries : Chat!Contains(tfile'[p], x) => Chat!Contains(tmem'[p], x)
  <2>1. /\ Once(tfile[p]) /\ Once(t)
        /\ \A x \in Entries : Chat!Contains(tfile[p], x) => Chat!Contains(t, x)
    BY <1>6 DEF Told, Chat!Thread
  <2>2. CASE ~new
    BY <1>3, <1>5, <2>1, <2>2
  <2>3. CASE new
    <3>1. ~Chat!Contains(t, e) /\ ~Chat!Contains(tfile[p], e)
      BY <2>1, <2>3
    <3> HIDE DEF t
    <3>2. /\ Once(Append(t, e)) /\ Once(Append(tfile[p], e))
          /\ \A x : Chat!Contains(Append(t, e), x) <=> Chat!Contains(t, x) \/ x = e
          /\ \A x : Chat!Contains(Append(tfile[p], e), x) <=> Chat!Contains(tfile[p], x) \/ x = e
      BY <2>1, <3>1, AppendedOnce
    <3> QED
      BY <1>3, <1>5, <2>1, <2>3, <3>2
  <2> QED
    BY <2>2, <2>3
<1> HIDE DEF t, u
<1> QED
  BY <1>2, <1>3, <1>4, <1>6 DEF Told

LEMMA NotifyClarificationKeeps ==
    ASSUME ChatInv, NEW p \in Tasks, Chat!NotifyClarification(p)
    PROVE  ChatInv'
<1> USE DEF ChatInv
<1> DEFINE new == ~Chat!Contains(Chat!Thread(p), "question")
           c == Chat!Bound(p)
           tfiled == IF new THEN [tfile EXCEPT ![p] = Append(@, "question")] ELSE tfile
           filed == IF new /\ c # 0 THEN [file EXCEPT ![c] = @ \cup {Chat!Notice(p)}] ELSE file
<1>1. /\ p \in pms /\ asked' = asked \cup {p} /\ Chat!Record(p, "question", new)
      /\ talk' = (IF new /\ c # 0 THEN Chat!With(talk, c, talk[c] \cup {Chat!Notice(p)}) ELSE talk)
      /\ tfile' \in {tfile, tfiled} /\ file' \in {file, filed} /\ indexFile' \in {indexFile, index}
      /\ UNCHANGED <<index, created, active, chat, pms, hidden>>
  BY DEF Chat!NotifyClarification, Chat!Writes
<1>2. c # 0 => c \in DOMAIN index
  <2>1. {d \in DOMAIN index : p \in index[d]} \in SUBSET Nat
    BY ChatBounds DEF Listed
  <2> QED
    BY <2>1, FirstIs DEF Chat!Bound
<1>3. Told'
  <2>1. "question" \in Entries /\ new \in BOOLEAN
    BY DEF Entries
  <2>2. tfile' = tfile \/ (new /\ tfile' = [tfile EXCEPT ![p] = Append(@, "question")])
    BY <1>1
  <2> QED
    BY <1>1, <2>1, <2>2, RecordKeeps
<1> HIDE DEF new, c
<1>4. /\ DOMAIN talk' = DOMAIN talk
      /\ \A d \in DOMAIN talk : talk'[d] = talk[d] \/ talk'[d] = talk[d] \cup {Chat!Notice(p)}
  <2>1. CASE ~(new /\ c # 0)
    BY <1>1, <2>1
  <2>2. CASE new /\ c # 0
    <3>1. talk' = Chat!With(talk, c, talk[c] \cup {Chat!Notice(p)}) /\ c \in DOMAIN talk
      BY <1>1, <1>2, <2>2 DEF Listed
    <3>2. DOMAIN talk' = DOMAIN talk
      <4>1. DOMAIN talk' = DOMAIN talk \cup {c}
        BY <3>1, WithIs
      <4> QED
        BY <3>1, <4>1
    <3>3. /\ talk'[c] = talk[c] \cup {Chat!Notice(p)}
          /\ \A d \in DOMAIN talk \ {c} : talk'[d] = talk[d]
      BY <3>1, WithIs
    <3> QED
      BY <3>2, <3>3
  <2> QED
    BY <2>1, <2>2
<1>5. /\ DOMAIN file' = DOMAIN file
      /\ \A d \in DOMAIN file : file'[d] = file[d] \/ file'[d] = file[d] \cup {Chat!Notice(p)}
  BY <1>1
<1>6. Listed'
  <2>1. DOMAIN indexFile' \subseteq 1..created
    BY <1>1 DEF Listed
  <2> QED
    BY <1>1, <1>4, <1>5, <2>1 DEF Listed
<1>7. Said'
  <2>1. \A m \in Messages, d \in 1..MaxConvs : Spoken(m, d)' => Spoken(m, d)
    BY <1>4, <1>5, NoticesApart DEF Spoken, Listed
  <2> QED
    BY <1>1, <2>1, SaidKeeps
<1>8. Chats'
  BY <1>1 DEF Chats
<1> QED
  BY <1>3, <1>6, <1>7, <1>8

LEMMA ReplyKeeps ==
    ASSUME ChatInv, NEW p \in Tasks, Chat!Reply(p)
    PROVE  ChatInv'
<1> USE DEF ChatInv
<1> DEFINE new == ~Chat!Contains(Chat!Thread(p), "answer")
<1>1. /\ Chat!Record(p, "answer", new)
      /\ tfile' = tfile \/ (new /\ tfile' = [tfile EXCEPT ![p] = Append(@, "answer")])
      /\ active' \in {active} \cup DOMAIN index
      /\ UNCHANGED <<index, indexFile, created, talk, file, chat, pms, asked, hidden>>
  BY DEF Chat!Reply, Chat!Writes, Chat!indexes, Chat!talks
<1>2. Told'
  <2>1. "answer" \in Entries /\ new \in BOOLEAN
    BY DEF Entries
  <2> QED
    BY <1>1, <2>1, RecordKeeps
<1>3. active' \in 0..created
  <2>1. active' \in 0..created \cup 1..created
    BY <1>1 DEF Listed
  <2>2. created \in Nat
    BY ChatBounds DEF Listed
  <2> QED
    BY <2>1, <2>2
<1>4. Listed' /\ Chats'
  BY <1>1, <1>3 DEF Listed, Chats
<1> QED
  BY <1>1, <1>2, <1>4, SaidStays

LEMMA ReadThreadKeeps ==
    ASSUME ChatInv, NEW p \in Tasks, Chat!ReadThread(p)
    PROVE  ChatInv'
<1> USE DEF ChatInv
<1>1. /\ p \notin DOMAIN tmem /\ tmem' = Chat!With(tmem, p, tfile[p])
      /\ UNCHANGED <<index, indexFile, created, active, talk, file, chat, pms, asked, tfile, hidden>>
  BY DEF Chat!ReadThread, Chat!Thread, Chat!indexes, Chat!talks
<1>2. DOMAIN tmem' = DOMAIN tmem \cup {p}
  BY <1>1, WithIs
<1>3. tmem'[p] = tfile[p] /\ \A q \in DOMAIN tmem : tmem'[q] = tmem[q]
  BY <1>1, WithIs
<1>4. Told'
  BY <1>1, <1>2, <1>3 DEF Told
<1> QED
  BY <1>1, <1>4, SaidStays DEF Listed, Chats

LEMMA DeleteTaskKeeps ==
    ASSUME ChatInv, NEW p \in Tasks, Chat!DeleteTask(p)
    PROVE  ChatInv'
<1> USE DEF ChatInv
<1>1. /\ pms' = pms \ {p} /\ asked' = asked \ {p} /\ tmem' = Chat!Without(tmem, p)
      /\ DOMAIN index' = DOMAIN index /\ indexFile' \in {index', indexFile}
      /\ tfile' \in {tfile, [tfile EXCEPT ![p] = <<>>]}
      /\ UNCHANGED <<created, active, talk, file, chat, hidden>>
  <2>1. CASE Chat!Bound(p) # 0
    BY <2>1, IndexSaved DEF Chat!DeleteTask, Chat!talks
  <2>2. CASE Chat!Bound(p) = 0
    BY <2>2 DEF Chat!DeleteTask, Chat!talks, Chat!Writes
  <2> QED
    BY <2>1, <2>2
<1>2. Listed'
  <2>1. DOMAIN indexFile' \subseteq 1..created
    BY <1>1 DEF Listed
  <2> QED
    BY <1>1, <2>1 DEF Listed
<1>3. DOMAIN tmem' = DOMAIN tmem \ {p} /\ \A q \in DOMAIN tmem \ {p} : tmem'[q] = tmem[q]
  BY <1>1, WithoutIs
<1>4. DOMAIN tfile' = DOMAIN tfile /\ \A q \in Tasks : tfile'[q] = tfile[q] \/ (q = p /\ tfile'[q] = <<>>)
  BY <1>1 DEF Told
<1>5. Told'
  BY <1>1, <1>3, <1>4, EmptyOnce DEF Told
<1> QED
  BY <1>1, <1>2, <1>5, SaidStays DEF Chats

LEMMA ChatCrashKeeps ==
    ASSUME ChatInv, Chat!Crash
    PROVE  ChatInv'
<1> USE DEF ChatInv
<1>1. /\ talk' = [c \in DOMAIN index' |-> file[c]] /\ active' = Chat!First(DOMAIN index')
      /\ chat' = [m \in Messages |-> IF chat[m].pc \in {"idle", "done"} THEN chat[m]
                                     ELSE [chat[m] EXCEPT !.pc = "lost"]]
      /\ tmem' = <<>> /\ UNCHANGED <<file, pms, asked, tfile, hidden>>
  BY DEF Chat!Crash
<1>2. /\ created' \in {created, created + 1} /\ created' \in 1..MaxConvs
      /\ DOMAIN index' \subseteq 1..created' /\ DOMAIN indexFile' \subseteq 1..created'
  <2>1. CASE index' = indexFile /\ UNCHANGED <<indexFile, created>>
    BY <2>1 DEF Listed
  <2>2. CASE /\ created < MaxConvs /\ created' = created + 1
             /\ index' = [c \in {created'} |-> {}] /\ indexFile' = index'
    <3>1. created' \in 1..MaxConvs /\ created' \in 1..created'
      BY <2>2, ChatBounds DEF Listed
    <3>2. DOMAIN index' = {created'} /\ DOMAIN indexFile' = {created'}
      BY <2>2
    <3> QED
      BY <2>2, <3>1, <3>2
  <2> QED
    BY <2>1, <2>2 DEF Chat!Crash
<1>3. DOMAIN talk' = DOMAIN index' /\ \A c \in DOMAIN talk' : talk'[c] = file[c]
  BY <1>1
<1>4. active' \in 0..created'
  <2>1. created' \in Nat /\ DOMAIN index' \in SUBSET Nat
    BY <1>2, ChatBounds
  <2>2. active' \in DOMAIN index' \cup {0}
    BY <1>1, <2>1, FirstIs
  <2> QED
    BY <1>2, <2>1, <2>2
<1>5. Listed'
  BY <1>1, <1>2, <1>3, <1>4 DEF Listed
<1>6. /\ chat' \in [Messages -> [pc : Calls, conv : 0..created]]
      /\ \A n \in Messages : /\ chat'[n].conv = chat[n].conv
                             /\ chat'[n].pc # "idle" <=> chat[n].pc # "idle"
  <2>1. ASSUME NEW n \in Messages
        PROVE  /\ chat'[n] \in [pc : Calls, conv : 0..created] /\ chat'[n].conv = chat[n].conv
               /\ chat'[n].pc # "idle" <=> chat[n].pc # "idle"
    <3>1. chat[n] \in [pc : Calls, conv : 0..created]
      BY DEF Chats
    <3>2. CASE chat[n].pc \in {"idle", "done"}
      BY <1>1, <3>1, <3>2
    <3>3. CASE chat[n].pc \notin {"idle", "done"}
      <4>1. chat'[n] = [chat[n] EXCEPT !.pc = "lost"]
        BY <1>1, <3>3
      <4>2. [chat[n] EXCEPT !.pc = "lost"] = [pc |-> "lost", conv |-> chat[n].conv]
        BY <3>1
      <4> QED
        BY <3>1, <3>3, <4>1, <4>2 DEF Calls
    <3> QED
      BY <3>2, <3>3
  <2>2. chat' = [m \in Messages |-> chat'[m]]
    BY <1>1
  <2> QED
    BY <2>1, <2>2
<1>7. Chats'
  <2>1. 0..created \subseteq 0..created'
    <3>1. created \in Nat
      BY ChatBounds DEF Listed
    <3> QED
      BY <1>2, <3>1
  <2> QED
    BY <1>1, <1>6, <2>1 DEF Chats
<1>8. Said'
  <2>1. \A m \in Messages, d \in 1..MaxConvs : Spoken(m, d)' => Spoken(m, d)
    BY <1>1, <1>3 DEF Spoken
  <2> QED
    BY <1>6, <2>1, SaidKeeps
<1>9. Told'
  <2>1. DOMAIN tmem' = {}
    BY <1>1, EmptySeq
  <2> QED
    BY <1>1, <2>1 DEF Told
<1> QED
  BY <1>5, <1>7, <1>8, <1>9

LEMMA ChatStep == ChatInv /\ Chat!Next => ChatInv'
<1> SUFFICES ASSUME ChatInv, Chat!Next PROVE ChatInv'
  OBVIOUS
<1>1. CASE Chat!Create \/ Chat!ClearHistory \/ Chat!Crash
  BY <1>1, CreateKeeps, ClearKeeps, ChatCrashKeeps
<1>2. ASSUME NEW m \in Messages, Chat!Enter(m) \/ Chat!SubmitTask(m) \/ Chat!Finish(m) PROVE ChatInv'
  BY <1>2, EnterKeeps, SubmitKeeps, FinishKeeps
<1>3. ASSUME NEW p \in Tasks, Chat!NotifyClarification(p) \/ Chat!Reply(p) \/ Chat!ReadThread(p) \/ Chat!DeleteTask(p)
      PROVE  ChatInv'
  BY <1>3, NotifyClarificationKeeps, ReplyKeeps, ReadThreadKeeps, DeleteTaskKeeps
<1>4. ASSUME NEW c \in 1..MaxConvs, Chat!Delete(c) \/ Chat!Switch(c) PROVE ChatInv'
  BY <1>4, DeleteKeeps, SwitchKeeps
<1>5. ASSUME NEW c \in 1..MaxConvs, NEW m \in Messages, Chat!Begin(m, c) PROVE ChatInv'
  BY <1>5, BeginKeeps
<1>6. ASSUME NEW c \in 1..MaxConvs, NEW p \in Tasks, Chat!AttachAgain(c, p) \/ Chat!Detach(c, p) PROVE ChatInv'
  BY <1>6, AttachAgainKeeps, DetachKeeps
<1> QED
  BY <1>1, <1>2, <1>3, <1>4, <1>5, <1>6 DEF Chat!Next, Chat!Convs

LEMMA ChatRests == ChatInv /\ UNCHANGED chatVars => ChatInv'
BY DEF ChatInv, Listed, Chats, Said, Spoken, Told, chatVars

LEMMA ChatImplies == ChatInv => ChatFaithful
<1> SUFFICES ASSUME ChatInv PROVE ChatFaithful
  OBVIOUS
<1> USE DEF ChatInv
<1>1. Chat!TypeOK
  BY DEF Chat!TypeOK, Listed, Chats, Calls
<1>2. Chat!TalkStaysHere
  BY DEF Chat!TalkStaysHere, Chat!Convs, Said, Spoken
<1>3. Chat!ThreadToldOnce
  BY DEF Chat!ThreadToldOnce, Told, Once
<1> QED
  BY <1>1, <1>2, <1>3 DEF ChatFaithful

\* What is said in a conversation stays in it, and a PM's thread tells its question and its
\* answer once, whatever is switched, deleted or lost meanwhile.
THEOREM ChatIsFaithful == Spec => []ChatFaithful
<1>1. Init => ChatInv
  BY ChatInit DEF Init
<1>2. ChatInv /\ [Next]_<<part, faults, briefVars, directVars, botVars, chatVars, graphVars, boardVars>> => ChatInv'
  BY ChatStep, ChatRests DEF Next
<1> QED
  BY <1>1, <1>2, ChatImplies, PTL DEF Spec

-----------------------------------------------------------------------------
(* The briefs.                                                             *)

JobEnds == {"review", "no_changes", "conflict", "failed", "interrupted"}
Jobs == {[status |-> "none"]} \cup
        [base : 0..MaxRevision, status : {"queued", "running"} \cup JobEnds]
Proposals == {[base |-> 0]} \cup [base : 0..MaxRevision, document : [Sections -> Texts]]
Briefs == [revision : 0..MaxRevision, document : [Sections -> Texts], proposal : Proposals,
           jobs : [Requests -> Jobs]]

\* The history has the present revision, and none after it.
Chronicle ==
    /\ DOMAIN snapshots \subseteq 0..brief.revision
    /\ \A r \in DOMAIN snapshots : snapshots[r] \in [Sections -> Texts]
    /\ snapshots # <<>> => brief.revision \in DOMAIN snapshots

\* A revision is handed over from when it is prepared, and becomes a task before that ends.
Handed ==
    /\ handoffs \in [0..MaxRevision -> {"none", "prepared", "submitted", "uncertain"}]
    /\ handing \in [0..MaxRevision -> {"no", "prepared", "answered", "error"}]
    /\ DOMAIN tasks = 0..MaxRevision
    /\ \A r \in 0..MaxRevision :
          /\ handoffs[r] = "none" => tasks[r] = <<>> /\ handing[r] = "no"
          /\ handing[r] = "prepared" => tasks[r] = <<>> /\ r \in DOMAIN Brief!Entries
    /\ Brief!OneFaithfulTask

\* A request without a record has not asked, and so has one whose thread has not begun.
Generated ==
    /\ thread \in [Requests -> {"none", "queued", "asking", "ending"}]
    /\ live \subseteq Requests /\ calls \in [Requests -> 0..1]
    /\ \A j \in Requests :
          /\ brief.jobs[j] = [status |-> "none"] => calls[j] = 0
          /\ thread[j] = "queued" => calls[j] = 0
          /\ j \in live => thread[j] # "none"

BriefInv ==
    /\ brief \in Briefs /\ Chronicle /\ Handed /\ Generated
    /\ part = "brief" => faults \in 0..BriefFaults

LEMMA BriefBounds == MaxRevision \in Nat /\ MaxRevision >= 1 /\ BriefFaults \in Nat /\ Blank \in Texts
BY DeskAssumption DEF DeskAssumption

LEMMA BriefInit == Brief!Init => BriefInv
<1> SUFFICES ASSUME Brief!Init PROVE BriefInv
  OBVIOUS
<1> USE DEF Brief!Init
<1>1. brief \in Briefs
  <2>1. PICK legacy \in {0, 1} :
          brief = [revision |-> legacy, document |-> [s \in Sections |-> Blank],
                   proposal |-> [base |-> 0], jobs |-> [j \in Requests |-> [status |-> "none"]]]
    BY DEF Brief!None, Brief!NoJob
  <2>2. legacy \in 0..MaxRevision
    BY BriefBounds
  <2>3. [s \in Sections |-> Blank] \in [Sections -> Texts]
    BY BriefBounds
  <2>4. [j \in Requests |-> [status |-> "none"]] \in [Requests -> Jobs] /\ [base |-> 0] \in Proposals
    BY DEF Jobs, Proposals
  <2> QED
    BY <2>1, <2>2, <2>3, <2>4 DEF Briefs
<1>2. Chronicle
  <2>1. snapshots = <<>> /\ DOMAIN <<>> = {}
    BY EmptySeq
  <2> QED
    BY <2>1 DEF Chronicle
<1>3. Handed
  <2>1. \A r \in 0..MaxRevision : handoffs[r] = "none" /\ handing[r] = "no" /\ tasks[r] = <<>>
    BY DEF Brief!Revisions
  <2>2. Brief!OneFaithfulTask
    BY <2>1 DEF Brief!OneFaithfulTask, Brief!Revisions
  <2> QED
    BY <2>1, <2>2 DEF Handed, Brief!Revisions
<1>4. Generated
  BY DEF Generated
<1>5. faults \in 0..BriefFaults
  BY BriefBounds
<1> QED
  BY <1>1, <1>2, <1>3, <1>4, <1>5 DEF BriefInv

LEMMA BriefImplies == BriefInv => /\ part = "brief" => Brief!TypeOK
                                  /\ Brief!OneFaithfulTask /\ Brief!AskedOnce
<1> SUFFICES ASSUME BriefInv
             PROVE  /\ part = "brief" => Brief!TypeOK
                    /\ Brief!OneFaithfulTask /\ Brief!AskedOnce
  OBVIOUS
<1> USE DEF BriefInv
<1>1. ASSUME part = "brief" PROVE Brief!TypeOK
  <2>1. brief.revision \in Brief!Revisions /\ brief.document \in Brief!Documents
    BY DEF Briefs, Brief!Revisions, Brief!Documents
  <2>2. brief.proposal = Brief!None \/ brief.proposal.document \in Brief!Documents
    <3>1. brief.proposal \in Proposals
      BY DEF Briefs
    <3> QED
      BY <3>1 DEF Proposals, Brief!None, Brief!Documents
  <2>3. \A j \in Requests : brief.jobs[j].status \in
            {"none", "queued", "running", "review", "no_changes", "conflict", "failed", "interrupted"}
    <3>1. \A j \in Requests : brief.jobs[j] \in Jobs
      BY DEF Briefs
    <3> QED
      BY <3>1 DEF Jobs, JobEnds
  <2>4. DOMAIN snapshots \subseteq Brief!Revisions
    <3>1. brief.revision \in 0..MaxRevision
      BY DEF Briefs
    <3>2. 0..brief.revision \subseteq 0..MaxRevision
      BY <3>1, BriefBounds
    <3> QED
      BY <3>2 DEF Chronicle, Brief!Revisions
  <2> QED
    BY <1>1, <2>1, <2>2, <2>3, <2>4 DEF Brief!TypeOK, Handed, Generated, Brief!Revisions
<1>2. Brief!OneFaithfulTask
  BY DEF Handed
<1>3. Brief!AskedOnce
  <2>1. \A j \in Requests : calls[j] <= 1
    BY DEF Generated
  <2> QED
    BY <2>1 DEF Brief!AskedOnce, Generated
<1> QED
  BY <1>1, <1>2, <1>3

\* Entries are the same while the revision, its document and the history are.
LEMMA EntriesStay ==
    ASSUME brief'.revision = brief.revision, brief'.document = brief.document, snapshots' = snapshots
    PROVE  Brief!Entries' = Brief!Entries
BY DEF Brief!Entries

EntriesKept == \A r \in DOMAIN Brief!Entries :
                   r \in DOMAIN Brief!Entries' /\ Brief!Entries'[r] = Brief!Entries[r]

\* What is handed over, while the history is only added to.
LEMMA HandedStays ==
    ASSUME Handed, EntriesKept, UNCHANGED Brief!dispatching
    PROVE  Handed'
<1>1. UNCHANGED <<handoffs, handing, tasks>>
  BY DEF Brief!dispatching
<1>2. Brief!OneFaithfulTask'
  BY <1>1 DEF Handed, EntriesKept, Brief!OneFaithfulTask
<1> QED
  BY <1>1, <1>2 DEF Handed, EntriesKept

LEMMA GeneratedStays ==
    ASSUME Generated, UNCHANGED Brief!jobbing,
           \A j \in Requests : brief'.jobs[j] = [status |-> "none"] => brief.jobs[j] = [status |-> "none"]
    PROVE  Generated'
BY DEF Generated, Brief!jobbing

LEMMA EntriesAre ==
    ASSUME brief \in Briefs, Chronicle
    PROVE  /\ DOMAIN Brief!Entries \subseteq 0..brief.revision
           /\ brief.revision > 0 => brief.revision \in DOMAIN Brief!Entries
           /\ \A r \in DOMAIN Brief!Entries : Brief!Entries[r] \in [Sections -> Texts]
<1>1. brief.revision \in 0..MaxRevision /\ brief.revision \in Nat
  <2>1. brief.revision \in 0..MaxRevision
    BY DEF Briefs
  <2> QED
    BY <2>1, BriefBounds
<1>2. DOMAIN <<>> = {}
  BY EmptySeq
<1>3. CASE snapshots = <<>> /\ brief.revision > 0
  <2>1. Brief!Entries = [r \in {brief.revision} |-> brief.document]
    BY <1>3 DEF Brief!Entries
  <2>2. brief.revision \in 0..brief.revision
    BY <1>1
  <2>3. brief.document \in [Sections -> Texts]
    BY DEF Briefs
  <2> QED
    BY <2>1, <2>2, <2>3
<1>4. CASE ~(snapshots = <<>> /\ brief.revision > 0)
  <2>1. Brief!Entries = snapshots
    BY <1>4 DEF Brief!Entries
  <2> QED
    BY <1>2, <1>4, <2>1 DEF Chronicle
<1> QED
  BY <1>3, <1>4

\* A new revision gets its snapshot behind those there are.
LEMMA PublishKeeps ==
    ASSUME BriefInv, NEW d \in [Sections -> Texts], NEW p \in Proposals, Brief!Publish(d, p)
    PROVE  /\ brief' \in Briefs /\ Chronicle' /\ EntriesKept
           /\ brief'.jobs = brief.jobs
<1> USE DEF BriefInv
<1> DEFINE n == brief.revision + 1
<1>1. /\ brief.revision < MaxRevision
      /\ snapshots' = [r \in DOMAIN Brief!Entries \cup {n} |-> IF r = n THEN d ELSE Brief!Entries[r]]
      /\ brief' = [brief EXCEPT !.revision = n, !.document = d, !.proposal = p]
  BY DEF Brief!Publish, Brief!Kept, Briefs
<1>2. brief.revision \in 0..MaxRevision
  BY DEF Briefs
<1>3. n \in 0..MaxRevision /\ n \in 0..n /\ n \notin 0..brief.revision /\ n > 0 /\ 0..brief.revision \subseteq 0..n
  BY <1>1, <1>2, BriefBounds
<1> HIDE DEF n
<1>4. /\ brief' \in Briefs /\ brief'.revision = n /\ brief'.document = d /\ brief'.jobs = brief.jobs
  BY <1>1, <1>3 DEF Briefs
<1>5. /\ DOMAIN Brief!Entries \subseteq 0..brief.revision
      /\ \A r \in DOMAIN Brief!Entries : Brief!Entries[r] \in [Sections -> Texts]
  BY EntriesAre
<1>6. /\ DOMAIN snapshots' = DOMAIN Brief!Entries \cup {n}
      /\ \A r \in DOMAIN Brief!Entries : snapshots'[r] = Brief!Entries[r]
      /\ snapshots'[n] = d
  BY <1>1, <1>3, <1>5
<1>7. snapshots' # <<>>
  BY <1>6, EmptySeq
<1>8. Chronicle'
  BY <1>3, <1>4, <1>5, <1>6 DEF Chronicle
<1>9. Brief!Entries' = snapshots'
  BY <1>7 DEF Brief!Entries
<1>10. EntriesKept
  BY <1>6, <1>9 DEF EntriesKept
<1> QED
  BY <1>4, <1>8, <1>10

\* A step of the store that publishes.
LEMMA PublishingKeeps ==
    ASSUME BriefInv, NEW d \in [Sections -> Texts], NEW p \in Proposals, Brief!Publish(d, p),
           UNCHANGED <<Brief!dispatching, listed, Brief!jobbing, faults, part>>
    PROVE  BriefInv' /\ EntriesKept
<1>1. /\ brief' \in Briefs /\ Chronicle' /\ EntriesKept /\ brief'.jobs = brief.jobs
  BY PublishKeeps
<1> QED
  BY <1>1, HandedStays, GeneratedStays DEF BriefInv

\* A step that changes the jobs or the proposal only.
LEMMA QuietKeeps ==
    ASSUME BriefInv, brief' \in Briefs, brief'.revision = brief.revision, brief'.document = brief.document,
           UNCHANGED <<snapshots, Brief!dispatching>>
    PROVE  Chronicle' /\ Handed' /\ EntriesKept
<1>1. Brief!Entries' = Brief!Entries
  BY EntriesStay
<1>2. EntriesKept
  BY <1>1 DEF EntriesKept
<1> QED
  BY <1>2, HandedStays DEF BriefInv, Chronicle

LEMMA StoreKeeps ==
    ASSUME BriefInv, part' = part,
           \/ \E d \in Brief!Documents : Brief!Save(d) \/ Brief!Propose(d)
           \/ \E selected \in SUBSET Sections : Brief!Review(selected)
           \/ \E r \in Brief!Revisions : Brief!Restore(r)
           \/ Brief!DeleteConversation
    PROVE  BriefInv' /\ EntriesKept
<1> USE DEF BriefInv
<1>1. brief.proposal \in Proposals /\ brief.document \in [Sections -> Texts] /\ [base |-> 0] \in Proposals
      /\ brief.revision \in 0..MaxRevision
  BY DEF Briefs, Proposals
<1>2. ASSUME NEW d \in Brief!Documents, Brief!Save(d) PROVE BriefInv' /\ EntriesKept
  BY <1>1, <1>2, PublishingKeeps DEF Brief!Save, Brief!Documents
<1>3. ASSUME NEW d \in Brief!Documents, Brief!Propose(d) PROVE BriefInv' /\ EntriesKept
  <2> DEFINE q == [base |-> brief.revision, document |-> d]
  <2>1. q \in Proposals
    BY <1>1 DEF Proposals, Brief!Documents
  <2>2. brief' = [brief EXCEPT !.proposal = q]
        /\ UNCHANGED <<snapshots, Brief!dispatching, listed, Brief!jobbing, faults>>
    BY <1>3 DEF Brief!Propose
  <2> HIDE DEF q
  <2>3. brief' \in Briefs /\ brief'.revision = brief.revision /\ brief'.document = brief.document
        /\ brief'.jobs = brief.jobs
    BY <2>1, <2>2 DEF Briefs
  <2> QED
    BY <2>2, <2>3, QuietKeeps, GeneratedStays
<1>4. ASSUME NEW selected \in SUBSET Sections, Brief!Review(selected) PROVE BriefInv' /\ EntriesKept
  <2>1. /\ brief.proposal # [base |-> 0] /\ UNCHANGED <<Brief!dispatching, listed, Brief!jobbing, faults>>
    BY <1>4 DEF Brief!Review, Brief!None
  <2>2. CASE selected = {}
    <3>1. brief' = [brief EXCEPT !.proposal = [base |-> 0]] /\ UNCHANGED snapshots
      BY <1>4, <2>2 DEF Brief!Review, Brief!None
    <3>2. brief' \in Briefs /\ brief'.revision = brief.revision /\ brief'.document = brief.document
          /\ brief'.jobs = brief.jobs
      BY <1>1, <3>1 DEF Briefs
    <3> QED
      BY <2>1, <3>1, <3>2, QuietKeeps, GeneratedStays
  <2>3. CASE selected # {}
    <3> DEFINE m == Brief!Merged(brief.proposal.document, selected)
    <3>1. Brief!Publish(m, [base |-> 0])
      BY <1>4, <2>3 DEF Brief!Review, Brief!None
    <3>2. brief.proposal.document \in [Sections -> Texts]
      BY <1>1, <2>1 DEF Proposals
    <3>3. m \in [Sections -> Texts]
      BY <1>1, <3>2 DEF Brief!Merged
    <3> QED
      BY <1>1, <2>1, <3>1, <3>3, PublishingKeeps
  <2> QED
    BY <2>2, <2>3
<1>5. ASSUME NEW r \in Brief!Revisions, Brief!Restore(r) PROVE BriefInv' /\ EntriesKept
  <2>1. /\ r \in DOMAIN Brief!Entries /\ Brief!Publish(Brief!Entries[r], brief.proposal)
        /\ UNCHANGED <<Brief!dispatching, listed, Brief!jobbing, faults>>
    BY <1>5 DEF Brief!Restore
  <2>2. Brief!Entries[r] \in [Sections -> Texts]
    BY <2>1, EntriesAre
  <2> QED
    BY <1>1, <2>1, <2>2, PublishingKeeps
<1>6. CASE Brief!DeleteConversation
  <2>1. UNCHANGED <<brief, snapshots, Brief!dispatching, Brief!jobbing, faults>>
    BY <1>6 DEF Brief!DeleteConversation
  <2> QED
    BY <2>1, QuietKeeps, GeneratedStays
<1> QED
  BY <1>2, <1>3, <1>4, <1>5, <1>6

\* The handoff: the brief stays as it is, and so do the jobs.
LEMMA DispatchKeeps ==
    ASSUME BriefInv, Brief!Dispatch, part' = part
    PROVE  BriefInv' /\ EntriesKept
<1> USE DEF BriefInv
<1> DEFINE r == brief.revision
<1>1. /\ r > 0 /\ handoffs[r] = "none"
      /\ handoffs' = [handoffs EXCEPT ![r] = "prepared"] /\ handing' = [handing EXCEPT ![r] = "prepared"]
      /\ UNCHANGED <<brief, snapshots, tasks, listed, Brief!jobbing, faults>>
  BY DEF Brief!Dispatch, Brief!Dispatchable
<1>2. r \in 0..MaxRevision /\ r \in DOMAIN Brief!Entries
  BY <1>1, EntriesAre DEF Briefs
<1> HIDE DEF r
<1>3. Brief!Entries' = Brief!Entries
  BY <1>1, EntriesStay
<1>4. tasks[r] = <<>>
  BY <1>1, <1>2 DEF Handed
<1>5. Handed'
  <2>1. /\ handoffs' \in [0..MaxRevision -> {"none", "prepared", "submitted", "uncertain"}]
        /\ handing' \in [0..MaxRevision -> {"no", "prepared", "answered", "error"}]
    BY <1>1 DEF Handed
  <2>2. ASSUME NEW q \in 0..MaxRevision
        PROVE  /\ handoffs'[q] = "none" => tasks[q] = <<>> /\ handing'[q] = "no"
               /\ handing'[q] = "prepared" => tasks[q] = <<>> /\ q \in DOMAIN Brief!Entries
    BY <1>1, <1>2, <1>4 DEF Handed
  <2>3. Brief!OneFaithfulTask'
    BY <1>1, <1>3 DEF Handed, Brief!OneFaithfulTask
  <2> QED
    BY <1>1, <1>3, <2>1, <2>2, <2>3 DEF Handed
<1> QED
  BY <1>1, <1>3, <1>5, GeneratedStays DEF Chronicle, EntriesKept

LEMMA SubmittingKeeps ==
    ASSUME BriefInv, NEW r \in 0..MaxRevision, Brief!Submit(r), part' = part
    PROVE  BriefInv' /\ EntriesKept
<1> USE DEF BriefInv
<1>1. /\ handing[r] = "prepared"
      /\ UNCHANGED <<brief, snapshots, handoffs, listed, Brief!jobbing>>
  BY DEF Brief!Submit
<1>2. PICK outcome \in {"answered", "error"} : handing' = [handing EXCEPT ![r] = outcome]
  BY DEF Brief!Submit
<1>3. tasks' = tasks \/ tasks' = [tasks EXCEPT ![r] = Append(@, Brief!Entries[r])]
  BY DEF Brief!Submit, Brief!Create, Brief!HandedText
<1>4. faults' = faults \/ (faults < BriefFaults /\ faults' = faults + 1)
  BY DEF Brief!Submit, Brief!Fault
<1>5. Brief!Entries' = Brief!Entries
  BY <1>1, EntriesStay
<1>6. tasks[r] = <<>> /\ r \in DOMAIN Brief!Entries /\ handoffs[r] # "none"
  BY <1>1 DEF Handed
<1>7. /\ DOMAIN tasks' = 0..MaxRevision /\ \A q \in 0..MaxRevision \ {r} : tasks'[q] = tasks[q]
      /\ tasks'[r] = <<>> \/ tasks'[r] = <<Brief!Entries[r]>>
  <2>1. Append(<<>>, Brief!Entries[r]) = <<Brief!Entries[r]>>
    OBVIOUS
  <2> QED
    BY <1>3, <1>6, <2>1 DEF Handed
<1>8. Handed'
  <2>1. handing' \in [0..MaxRevision -> {"no", "prepared", "answered", "error"}]
    BY <1>2 DEF Handed
  <2>2. ASSUME NEW q \in 0..MaxRevision
        PROVE  /\ handoffs[q] = "none" => tasks'[q] = <<>> /\ handing'[q] = "no"
               /\ handing'[q] = "prepared" => tasks'[q] = <<>> /\ q \in DOMAIN Brief!Entries
    BY <1>2, <1>6, <1>7 DEF Handed
  <2>3. Brief!OneFaithfulTask'
    BY <1>5, <1>6, <1>7 DEF Handed, Brief!OneFaithfulTask, Brief!Revisions
  <2> QED
    BY <1>1, <1>5, <1>7, <2>1, <2>2, <2>3 DEF Handed
<1>9. part = "brief" => faults' \in 0..BriefFaults
  BY <1>4, BriefBounds
<1> QED
  BY <1>1, <1>5, <1>8, <1>9, GeneratedStays DEF Chronicle, EntriesKept

LEMMA ConcludeKeeps ==
    ASSUME BriefInv, NEW r \in 0..MaxRevision, Brief!Conclude(r), part' = part
    PROVE  BriefInv' /\ EntriesKept
<1> USE DEF BriefInv
<1>1. /\ handing[r] \in {"answered", "error"} /\ handing' = [handing EXCEPT ![r] = "no"]
      /\ UNCHANGED <<brief, snapshots, tasks, listed, Brief!jobbing>>
  BY DEF Brief!Conclude
<1>2. handoffs' = handoffs \/ \E o \in {"submitted", "uncertain"} : handoffs' = [handoffs EXCEPT ![r] = o]
  BY DEF Brief!Conclude
<1>3. faults' = faults \/ (faults < BriefFaults /\ faults' = faults + 1)
  BY DEF Brief!Conclude, Brief!Fault
<1>4. Brief!Entries' = Brief!Entries
  BY <1>1, EntriesStay
<1>5. Handed'
  <2>1. /\ handoffs' \in [0..MaxRevision -> {"none", "prepared", "submitted", "uncertain"}]
        /\ handing' \in [0..MaxRevision -> {"no", "prepared", "answered", "error"}]
    BY <1>1, <1>2 DEF Handed
  <2>2. ASSUME NEW q \in 0..MaxRevision
        PROVE  /\ handoffs'[q] = "none" => tasks[q] = <<>> /\ handing'[q] = "no"
               /\ handing'[q] = "prepared" => tasks[q] = <<>> /\ q \in DOMAIN Brief!Entries
    BY <1>1, <1>2 DEF Handed
  <2>3. Brief!OneFaithfulTask'
    BY <1>1, <1>4 DEF Handed, Brief!OneFaithfulTask
  <2> QED
    BY <1>1, <1>4, <2>1, <2>2, <2>3 DEF Handed
<1>6. part = "brief" => faults' \in 0..BriefFaults
  BY <1>3, BriefBounds
<1> QED
  BY <1>1, <1>4, <1>5, <1>6, GeneratedStays DEF Chronicle, EntriesKept

LEMMA BriefCrashKeeps ==
    ASSUME BriefInv, Brief!Crash, part' = part
    PROVE  BriefInv' /\ EntriesKept
<1> USE DEF BriefInv
<1>1. /\ live' = {} /\ thread' = [j \in Requests |-> "none"] /\ handing' = [r \in 0..MaxRevision |-> "no"]
      /\ UNCHANGED <<brief, snapshots, handoffs, tasks, listed, calls>>
      /\ faults < BriefFaults /\ faults' = faults + 1
  BY DEF Brief!Crash, Brief!Fault, Brief!Revisions
<1>2. Brief!Entries' = Brief!Entries
  BY <1>1, EntriesStay
<1>3. Handed'
  <2>1. Brief!OneFaithfulTask'
    BY <1>1, <1>2 DEF Handed, Brief!OneFaithfulTask
  <2> QED
    BY <1>1, <1>2, <2>1 DEF Handed
<1>4. Generated'
  BY <1>1 DEF Generated
<1>5. part = "brief" => faults' \in 0..BriefFaults
  BY <1>1, BriefBounds
<1> QED
  BY <1>1, <1>2, <1>3, <1>4, <1>5 DEF Chronicle, EntriesKept

\* The jobs.
NoJobs == [status |-> "none"]
Statuses == {"queued", "running"} \cup JobEnds

LEMMA StatusSet ==
    ASSUME NEW job \in Jobs, job.status # "none", NEW s \in Statuses
    PROVE  /\ [job EXCEPT !.status = s] \in Jobs /\ [job EXCEPT !.status = s].status = s
           /\ [job EXCEPT !.status = s] # NoJobs
<1>1. job \in [base : 0..MaxRevision, status : Statuses]
  BY DEF Jobs, Statuses
<1>2. [job EXCEPT !.status = s] \in [base : 0..MaxRevision, status : Statuses]
      /\ [job EXCEPT !.status = s].status = s
  BY <1>1
<1>3. s # "none"
  BY DEF Statuses, JobEnds
<1> QED
  BY <1>2, <1>3 DEF Jobs, Statuses, NoJobs

\* Records that keep what has no record without one.
KeepsJobs(next) ==
    /\ next \in [Requests -> Jobs]
    /\ \A j \in Requests : next[j] = NoJobs => brief.jobs[j] = NoJobs

LEMMA InterruptedKeeps ==
    ASSUME brief \in Briefs
    PROVE  /\ KeepsJobs(Brief!Interrupted(brief.jobs))
           /\ \A j \in Requests : brief.jobs[j] = NoJobs => Brief!Interrupted(brief.jobs)[j] = NoJobs
<1>1. brief.jobs \in [Requests -> Jobs]
  BY DEF Briefs
<1>2. ASSUME NEW j \in Requests
      PROVE  /\ Brief!Interrupted(brief.jobs)[j] \in Jobs
             /\ Brief!Interrupted(brief.jobs)[j] = NoJobs <=> brief.jobs[j] = NoJobs
  <2>1. CASE brief.jobs[j].status \in Brief!Active /\ j \notin live
    <3>1. Brief!Interrupted(brief.jobs)[j] = [brief.jobs[j] EXCEPT !.status = "interrupted"]
      BY <2>1 DEF Brief!Interrupted
    <3>2. brief.jobs[j].status # "none" /\ brief.jobs[j] # NoJobs /\ "interrupted" \in Statuses
      BY <2>1 DEF Brief!Active, NoJobs, Statuses, JobEnds
    <3> QED
      BY <1>1, <3>1, <3>2, StatusSet
  <2>2. CASE ~(brief.jobs[j].status \in Brief!Active /\ j \notin live)
    <3>1. Brief!Interrupted(brief.jobs)[j] = brief.jobs[j]
      BY <2>2 DEF Brief!Interrupted
    <3> QED
      BY <1>1, <3>1
  <2> QED
    BY <2>1, <2>2
<1>3. Brief!Interrupted(brief.jobs) = [j \in Requests |-> Brief!Interrupted(brief.jobs)[j]]
  BY DEF Brief!Interrupted
<1> QED
  BY <1>2, <1>3 DEF KeepsJobs

\* A step of the jobs changes nothing that is handed over.
LEMMA JobsKeep ==
    ASSUME BriefInv, NEW next, KeepsJobs(next), brief' = [brief EXCEPT !.jobs = next],
           UNCHANGED <<snapshots, Brief!dispatching>>
    PROVE  brief' \in Briefs /\ Chronicle' /\ Handed' /\ EntriesKept /\ brief'.jobs = next
<1>1. /\ brief' \in Briefs /\ brief'.revision = brief.revision /\ brief'.document = brief.document
      /\ brief'.jobs = next
  BY DEF BriefInv, Briefs, KeepsJobs
<1> QED
  BY <1>1, QuietKeeps

LEMMA UpdateKeeps ==
    ASSUME BriefInv, NEW j \in Requests, NEW s \in Statuses, Brief!Update(j, s)
    PROVE  \E next : KeepsJobs(next) /\ brief' = [brief EXCEPT !.jobs = next]
<1> USE DEF BriefInv
<1> DEFINE jobs == Brief!Interrupted(brief.jobs)
           one == [jobs[j] EXCEPT !.status = s]
           next == [jobs EXCEPT ![j] = one]
<1>1. KeepsJobs(jobs)
  BY InterruptedKeeps
<1>2. CASE jobs[j].status \in Brief!Active
  <2>1. brief' = [brief EXCEPT !.jobs = next]
    BY <1>2 DEF Brief!Update
  <2>2. jobs[j] \in Jobs /\ jobs[j].status # "none"
    BY <1>1, <1>2 DEF KeepsJobs, Brief!Active
  <2>3. one \in Jobs /\ one # NoJobs
    BY <2>2, StatusSet
  <2> HIDE DEF jobs, one
  <2>4. KeepsJobs(next)
    BY <1>1, <2>3 DEF KeepsJobs
  <2> QED
    BY <2>1, <2>4
<1>3. CASE jobs[j].status \notin Brief!Active
  BY <1>1, <1>3 DEF Brief!Update
<1> QED
  BY <1>2, <1>3

LEMMA Unasked ==
    ASSUME NEW next, KeepsJobs(next), brief'.jobs = next
    PROVE  \A j \in Requests : brief'.jobs[j] = [status |-> "none"] => brief.jobs[j] = [status |-> "none"]
BY DEF KeepsJobs, NoJobs

LEMMA FaultBound ==
    ASSUME BriefInv, part' = part, faults' = faults \/ Brief!Fault
    PROVE  part' = "brief" => faults' \in 0..BriefFaults
<1>1. ASSUME faults \in 0..BriefFaults, faults < BriefFaults, faults' = faults + 1
      PROVE  faults' \in 0..BriefFaults
  BY <1>1, BriefBounds
<1> QED
  BY <1>1 DEF BriefInv, Brief!Fault

LEMMA QueryKeeps ==
    ASSUME BriefInv, Brief!Query, part' = part
    PROVE  BriefInv' /\ EntriesKept
<1> USE DEF BriefInv
<1> DEFINE next == Brief!Interrupted(brief.jobs)
<1>1. /\ brief' = [brief EXCEPT !.jobs = next]
      /\ UNCHANGED <<snapshots, Brief!dispatching, listed, Brief!jobbing, faults>>
  BY DEF Brief!Query
<1>2. KeepsJobs(next)
  BY InterruptedKeeps
<1> HIDE DEF next
<1>3. brief' \in Briefs /\ Chronicle' /\ Handed' /\ EntriesKept /\ brief'.jobs = next
  BY <1>1, <1>2, JobsKeep
<1>4. Generated'
  BY <1>1, <1>2, <1>3, Unasked, GeneratedStays
<1> QED
  BY <1>1, <1>3, <1>4

LEMMA StartJobKeeps ==
    ASSUME BriefInv, NEW j \in Requests, Brief!StartJob(j), part' = part
    PROVE  BriefInv' /\ EntriesKept
<1> USE DEF BriefInv
<1> DEFINE jobs == Brief!Interrupted(brief.jobs)
           job(s) == [base |-> brief.revision, status |-> s]
           with(s) == [jobs EXCEPT ![j] = job(s)]
<1>1. /\ jobs[j] = NoJobs /\ UNCHANGED <<snapshots, Brief!dispatching, listed, calls>>
      /\ \/ /\ brief' = [brief EXCEPT !.jobs = with("queued")]
            /\ live' = live \cup {j} /\ thread' = [thread EXCEPT ![j] = "queued"] /\ UNCHANGED faults
         \/ /\ Brief!Fault
            /\ \/ brief' = [brief EXCEPT !.jobs = with("failed")]
               \/ brief' = [brief EXCEPT !.jobs = with("queued")]
               \/ brief' = [brief EXCEPT !.jobs = jobs]
            /\ UNCHANGED <<live, thread>>
  BY DEF Brief!StartJob, Brief!Unknown, Brief!NoJob, NoJobs
<1>2. KeepsJobs(jobs)
  BY InterruptedKeeps
<1>3. calls[j] = 0
  <2>1. brief.jobs[j] = NoJobs
    BY <1>1, <1>2 DEF KeepsJobs
  <2> QED
    BY <2>1 DEF Generated, NoJobs
<1>4. ASSUME NEW s \in {"queued", "failed"} PROVE KeepsJobs(with(s))
  <2>1. job(s) \in Jobs
    BY DEF Jobs, JobEnds, Briefs
  <2>2. job(s) # NoJobs
    <3>1. job(s).status = s /\ NoJobs.status = "none"
      BY DEF NoJobs
    <3> QED
      BY <3>1
  <2> HIDE DEF jobs, job
  <2> QED
    BY <1>2, <2>1, <2>2 DEF KeepsJobs
<1>5. PICK next : KeepsJobs(next) /\ brief' = [brief EXCEPT !.jobs = next]
  BY <1>1, <1>2, <1>4
<1>6. brief' \in Briefs /\ Chronicle' /\ Handed' /\ EntriesKept /\ brief'.jobs = next
  BY <1>1, <1>5, JobsKeep
<1>7. \A k \in Requests : brief'.jobs[k] = [status |-> "none"] => brief.jobs[k] = [status |-> "none"]
  BY <1>5, <1>6, Unasked
<1>8. \/ live' = live \cup {j} /\ thread' = [thread EXCEPT ![j] = "queued"]
      \/ UNCHANGED <<live, thread>>
  BY <1>1
<1>9. Generated'
  BY <1>1, <1>3, <1>7, <1>8 DEF Generated
<1>10. faults' = faults \/ Brief!Fault
  BY <1>1
<1> QED
  BY <1>6, <1>9, <1>10, FaultBound

\* A thread begins to ask, once, or ends.
LEMMA RunKeeps ==
    ASSUME BriefInv, NEW j \in Requests, Brief!Run(j), part' = part
    PROVE  BriefInv' /\ EntriesKept
<1> USE DEF BriefInv
<1>1. /\ thread[j] = "queued" /\ UNCHANGED <<snapshots, Brief!dispatching, listed, live>>
      /\ \/ /\ brief.jobs[j].status \in Brief!Active /\ Brief!Update(j, "running")
            /\ thread' = [thread EXCEPT ![j] = "asking"]
            /\ calls' = [calls EXCEPT ![j] = @ + 1] /\ UNCHANGED faults
         \/ /\ Brief!Fault /\ (Brief!Update(j, "failed") \/ UNCHANGED brief)
            /\ thread' = [thread EXCEPT ![j] = "ending"] /\ UNCHANGED calls
  BY DEF Brief!Run
<1>2. calls[j] = 0
  BY <1>1 DEF Generated
<1>3. \/ \E next : KeepsJobs(next) /\ brief' = [brief EXCEPT !.jobs = next]
      \/ UNCHANGED brief
  BY <1>1, UpdateKeeps DEF Statuses, JobEnds
<1>4. /\ brief' \in Briefs /\ Chronicle' /\ Handed' /\ EntriesKept
      /\ \A k \in Requests : brief'.jobs[k] = [status |-> "none"] => brief.jobs[k] = [status |-> "none"]
  <2>1. ASSUME NEW next, KeepsJobs(next), brief' = [brief EXCEPT !.jobs = next]
        PROVE  <1>4!1 /\ <1>4!2
    <3>1. brief' \in Briefs /\ Chronicle' /\ Handed' /\ EntriesKept /\ brief'.jobs = next
      BY <1>1, <2>1, JobsKeep
    <3> QED
      BY <2>1, <3>1, Unasked
  <2>2. CASE UNCHANGED brief
    BY <1>1, <2>2, QuietKeeps
  <2> QED
    BY <1>3, <2>1, <2>2
<1>5. CASE brief.jobs[j].status \in Brief!Active /\ Brief!Update(j, "running")
           /\ thread' = [thread EXCEPT ![j] = "asking"] /\ calls' = [calls EXCEPT ![j] = @ + 1]
  <2>1. brief.jobs[j] # [status |-> "none"]
    BY <1>5 DEF Brief!Active
  <2>2. brief'.jobs[j] # [status |-> "none"]
    <3>1. PICK next : next = brief'.jobs /\ (KeepsJobs(next) /\ brief' = [brief EXCEPT !.jobs = next])
      <4>1. PICK next : KeepsJobs(next) /\ brief' = [brief EXCEPT !.jobs = next]
        BY <1>5, UpdateKeeps DEF Statuses
      <4> QED
        BY <4>1, <1>1, JobsKeep
    <3> QED
      BY <2>1, <3>1 DEF KeepsJobs, NoJobs
  <2>3. calls' = [calls EXCEPT ![j] = 1]
    BY <1>2, <1>5
  <2>4. Generated'
    BY <1>1, <1>4, <1>5, <2>2, <2>3 DEF Generated
  <2> QED
    BY <1>1, <1>4, <2>4, FaultBound
<1>6. CASE thread' = [thread EXCEPT ![j] = "ending"] /\ UNCHANGED calls
  <2>1. Generated'
    BY <1>1, <1>4, <1>6 DEF Generated
  <2> QED
    BY <1>1, <1>4, <2>1, FaultBound
<1> QED
  BY <1>1, <1>5, <1>6

\* A thread that ends, whatever it has written.
LEMMA EndingKeeps ==
    ASSUME BriefInv, part' = part, NEW j \in Requests, NEW stage \in {"ending", "none"},
           thread' = [thread EXCEPT ![j] = stage],
           live' = IF stage = "none" THEN live \ {j} ELSE live,
           calls' = calls, faults' = faults \/ Brief!Fault,
           brief' \in Briefs, Chronicle', Handed', EntriesKept,
           \A k \in Requests : brief'.jobs[k] = [status |-> "none"] => brief.jobs[k] = [status |-> "none"]
    PROVE  BriefInv' /\ EntriesKept
<1>1. Generated'
  <2>1. CASE stage = "ending"
    BY <2>1 DEF Generated, BriefInv
  <2>2. CASE stage = "none"
    BY <2>2 DEF Generated, BriefInv
  <2> QED
    BY <2>1, <2>2
<1> QED
  BY <1>1, FaultBound DEF BriefInv

LEMMA FinishJobKeeps ==
    ASSUME BriefInv, NEW j \in Requests, NEW d \in Brief!Documents, Brief!Finish(j, d), part' = part
    PROVE  BriefInv' /\ EntriesKept
<1> USE DEF BriefInv
<1> DEFINE jobs == Brief!Interrupted(brief.jobs)
           one(s) == [jobs[j] EXCEPT !.status = s]
           next(s) == [jobs EXCEPT ![j] = one(s)]
           p == [base |-> jobs[j].base, document |-> d]
<1>1. KeepsJobs(jobs)
  BY InterruptedKeeps
<1>2. /\ thread' = [thread EXCEPT ![j] = "ending"]
      /\ UNCHANGED <<snapshots, Brief!dispatching, listed, live, calls, faults>>
  BY DEF Brief!Finish
<1>3. CASE jobs[j].status \in Brief!Active /\ brief' = [brief EXCEPT !.jobs = next("review"), !.proposal = p]
  <2>1. jobs[j] \in Jobs /\ jobs[j].status # "none"
    BY <1>1, <1>3 DEF KeepsJobs, Brief!Active
  <2>2. p \in Proposals
    BY <2>1 DEF Proposals, Jobs, Brief!Documents
  <2>3. one("review") \in Jobs /\ one("review") # NoJobs
    BY <2>1, StatusSet DEF Statuses, JobEnds
  <2>4. KeepsJobs(next("review"))
    <3> HIDE DEF jobs, one
    <3> QED
      BY <1>1, <2>3 DEF KeepsJobs
  <2> HIDE DEF next, p
  <2>5. /\ brief' \in Briefs /\ brief'.revision = brief.revision /\ brief'.document = brief.document
        /\ brief'.jobs = next("review")
    BY <1>3, <2>2, <2>4 DEF Briefs, KeepsJobs
  <2>6. Chronicle' /\ Handed' /\ EntriesKept
    BY <1>2, <2>5, QuietKeeps
  <2>7. \A k \in Requests : brief'.jobs[k] = [status |-> "none"] => brief.jobs[k] = [status |-> "none"]
    BY <2>4, <2>5, Unasked
  <2> QED
    BY <1>2, <2>5, <2>6, <2>7, EndingKeeps
<1>4. ASSUME NEW jobs2, KeepsJobs(jobs2), brief' = [brief EXCEPT !.jobs = jobs2]
      PROVE  BriefInv' /\ EntriesKept
  <2>1. brief' \in Briefs /\ Chronicle' /\ Handed' /\ EntriesKept /\ brief'.jobs = jobs2
    BY <1>2, <1>4, JobsKeep
  <2>2. \A k \in Requests : brief'.jobs[k] = [status |-> "none"] => brief.jobs[k] = [status |-> "none"]
    BY <1>4, <2>1, Unasked
  <2> QED
    BY <1>2, <2>1, <2>2, EndingKeeps
<1>5. ASSUME jobs[j].status \in Brief!Active, NEW s \in {"failed", "conflict", "no_changes"}
      PROVE  KeepsJobs(next(s))
  <2>1. jobs[j] \in Jobs /\ jobs[j].status # "none"
    BY <1>1, <1>5 DEF KeepsJobs, Brief!Active
  <2>2. one(s) \in Jobs /\ one(s) # NoJobs
    BY <2>1, StatusSet DEF Statuses, JobEnds
  <2> HIDE DEF jobs, one
  <2> QED
    BY <1>1, <2>2 DEF KeepsJobs
<1>6. CASE jobs[j].status \notin Brief!Active
  <2>1. brief' = [brief EXCEPT !.jobs = jobs]
    BY <1>6 DEF Brief!Finish
  <2> QED
    BY <1>1, <1>4, <2>1
<1>7. CASE jobs[j].status \in Brief!Active
  <2>1. \/ \E s \in {"failed", "conflict", "no_changes"} : brief' = [brief EXCEPT !.jobs = next(s)]
        \/ brief' = [brief EXCEPT !.jobs = next("review"), !.proposal = p]
    BY <1>7 DEF Brief!Finish
  <2> QED
    BY <1>3, <1>4, <1>5, <1>7, <2>1
<1> QED
  BY <1>6, <1>7

LEMMA FailingKeeps ==
    ASSUME BriefInv, NEW j \in Requests, Brief!FinishFails(j) \/ Brief!EndThread(j), part' = part
    PROVE  BriefInv' /\ EntriesKept
<1> USE DEF BriefInv
<1>1. CASE Brief!FinishFails(j)
  <2>1. /\ thread' = [thread EXCEPT ![j] = "ending"]
        /\ UNCHANGED <<snapshots, Brief!dispatching, listed, live, calls>>
        /\ faults' = faults \/ Brief!Fault
    BY <1>1 DEF Brief!FinishFails
  <2>2. CASE UNCHANGED brief
    BY <2>1, <2>2, QuietKeeps, EndingKeeps
  <2>3. CASE Brief!Update(j, "failed")
    <3>1. PICK next : KeepsJobs(next) /\ brief' = [brief EXCEPT !.jobs = next]
      BY <2>3, UpdateKeeps DEF Statuses, JobEnds
    <3>2. brief' \in Briefs /\ Chronicle' /\ Handed' /\ EntriesKept /\ brief'.jobs = next
      BY <2>1, <3>1, JobsKeep
    <3>3. \A k \in Requests : brief'.jobs[k] = [status |-> "none"] => brief.jobs[k] = [status |-> "none"]
      BY <3>1, <3>2, Unasked
    <3> QED
      BY <2>1, <3>2, <3>3, EndingKeeps
  <2> QED
    BY <1>1, <2>2, <2>3 DEF Brief!FinishFails
<1>2. CASE Brief!EndThread(j)
  <2>1. /\ thread' = [thread EXCEPT ![j] = "none"] /\ live' = live \ {j}
        /\ UNCHANGED <<brief, snapshots, Brief!dispatching, listed, calls, faults>>
    BY <1>2 DEF Brief!EndThread
  <2> QED
    BY <2>1, QuietKeeps, EndingKeeps
<1> QED
  BY <1>1, <1>2

\* Every step of the briefs, and the steps of the parts beside them.
LEMMA BriefStep ==
    ASSUME BriefInv, Brief!Next, part' = part
    PROVE  BriefInv' /\ EntriesKept
<1>1. CASE \/ \E d \in Brief!Documents : Brief!Save(d) \/ Brief!Propose(d)
           \/ \E selected \in SUBSET Sections : Brief!Review(selected)
           \/ \E r \in Brief!Revisions : Brief!Restore(r)
           \/ Brief!DeleteConversation
  BY <1>1, StoreKeeps
<1>2. CASE Brief!Dispatch \/ Brief!Query \/ Brief!Crash
  BY <1>2, DispatchKeeps, QueryKeeps, BriefCrashKeeps
<1>3. CASE \E r \in Brief!Revisions : Brief!Submit(r) \/ Brief!Conclude(r)
  BY <1>3, SubmittingKeeps, ConcludeKeeps DEF Brief!Revisions
<1>4. CASE \E j \in Requests : Brief!StartJob(j) \/ Brief!Run(j) \/ Brief!FinishFails(j) \/ Brief!EndThread(j)
  BY <1>4, StartJobKeeps, RunKeeps, FailingKeeps
<1>5. CASE \E j \in Requests : \E d \in Brief!Documents : Brief!Finish(j, d)
  BY <1>5, FinishJobKeeps
<1> QED
  BY <1>1, <1>2, <1>3, <1>4, <1>5 DEF Brief!Next

LEMMA BriefRests ==
    ASSUME BriefInv, UNCHANGED briefVars, part' = part, part = "brief" => faults' = faults
    PROVE  BriefInv' /\ EntriesKept
<1>1. brief' \in Briefs /\ Generated' /\ UNCHANGED <<brief, snapshots, Brief!dispatching>>
  BY DEF BriefInv, briefVars, Generated, Brief!dispatching
<1>2. Chronicle' /\ Handed' /\ EntriesKept
  BY <1>1, QuietKeeps
<1> QED
  BY <1>1, <1>2 DEF BriefInv

\* Whatever was saved can be read again, a revision becomes one task with its own text, and
\* a model is asked once for a request (project_brief, brief_handoff, brief_generation).
THEOREM BriefIsFaithful == Spec => BriefsFaithful
<1>1. Init => BriefInv
  BY BriefInit DEF Init
<1>2. ASSUME BriefInv,
             [Next]_<<part, faults, briefVars, directVars, botVars, chatVars, graphVars, boardVars>>
      PROVE  BriefInv' /\ EntriesKept
  <2>1. CASE part = "brief" /\ Brief!Next /\ part' = part
    BY <1>2, <2>1, BriefStep
  <2>2. CASE UNCHANGED briefVars /\ part' = part /\ (part = "brief" => faults' = faults)
    BY <1>2, <2>2, BriefRests
  <2> QED
    BY <1>2, <2>1, <2>2 DEF Next
<1>3. BriefInv => /\ part = "brief" => Brief!TypeOK
                  /\ Brief!OneFaithfulTask /\ Brief!AskedOnce
  BY BriefImplies
<1>4. EntriesKept => [\A r \in DOMAIN Brief!Entries :
          r \in DOMAIN Brief!Entries' /\ Brief!Entries'[r] = Brief!Entries[r]]_Brief!vars
  BY DEF EntriesKept
<1> QED
  BY <1>1, <1>2, <1>3, <1>4, PTL DEF Spec, BriefsFaithful, Brief!HistoryKept

-----------------------------------------------------------------------------
(* The board.                                                              *)

PMStates == {"none", "running", "paused", "completed", "failed"}
PMs == [state : PMStates, outputs : SUBSET Names, failures : SUBSET Names, blocked : SUBSET Names,
        at : [Names -> {"pending", "assigned", "running"}]]

\* A PM has a failure when it has failed, and has stopped before the next round begins.
Managers ==
    /\ pm \in [1..MaxRounds -> PMs]
    /\ \A r \in 1..MaxRounds : /\ pm[r].state # "failed" => pm[r].failures = {}
                               /\ r < task.round => pm[r].state = "paused"

\* What a report says of the PM it is from.
Truthful(p, report) ==
    /\ p.state # "none" /\ (report.status \in {"completed", "failed"} => p.state = report.status)
    /\ \A n \in Names : /\ report.steps[n] = "completed" => n \in p.outputs
                        /\ report.steps[n] = "failed" => n \in p.failures

Honest(report) ==
    /\ report \in Board!Reports /\ (report.kind # "steps" => report.status # "")
    /\ Truthful(pm[report.round], report)

Mail ==
    /\ DOMAIN post = Threads
    /\ \A t \in Threads : post[t] = Board!Idle \/ (/\ post[t].tries \in 0..Retries + 1
                                                   /\ DOMAIN post[t] = {"tries", "report"}
                                                   /\ Honest(post[t].report))
    /\ \A r \in net : DOMAIN r = {"by", "try", "report"} /\ Honest(r.report)

TaskRows == [round : 1..MaxRounds, status : {"running", "paused", "completed", "failed"}, shown : BOOLEAN,
             board : [Names -> Board!Statuses], of : 0..MaxRounds, ids : [Names -> Int],
             row : {"monitoring", "paused", "unknown", "recovering", "completed", "failed"}]

Shown ==
    /\ task \in TaskRows /\ task.of <= task.round
    /\ task.of # 0 => pm[task.of].state # "none"
    /\ Board!BoardTrue

BoardInv ==
    /\ Managers /\ Mail /\ Shown /\ posted \in 0..MaxReports
    /\ part = "board" => faults \in 0..BoardFaults

LEMMA BoardBounds == /\ MaxRounds \in Nat /\ MaxRounds >= 1 /\ MaxReports \in Nat /\ Retries \in Nat
                     /\ BoardFaults \in Nat
BY DeskAssumption DEF DeskAssumption

LEMMA NoPMIs == Board!NoPM \in PMs /\ Board!NoPM.state = "none" /\ Board!NoPM.failures = {}
BY DEF Board!NoPM, PMs, PMStates, Board!NoSteps

LEMMA BoardInit == Board!Init => BoardInv
<1> SUFFICES ASSUME Board!Init PROVE BoardInv
  OBVIOUS
<1> USE DEF Board!Init
<1>1. /\ task.round = 1 /\ task.of = 0 /\ task.status = "running" /\ task \in TaskRows
  <2>1. 1 \in 1..MaxRounds /\ 0 \in 0..MaxRounds /\ 0 \in Int
    BY BoardBounds
  <2> QED
    BY <2>1 DEF TaskRows, Board!NoSteps, Board!Statuses
<1>2. Managers
  <2>1. pm = [r \in 1..MaxRounds |-> IF r = 1 THEN [Board!NoPM EXCEPT !.state = "running"] ELSE Board!NoPM]
    BY DEF Board!Rounds
  <2>2. [Board!NoPM EXCEPT !.state = "running"] \in PMs /\ [Board!NoPM EXCEPT !.state = "running"].failures = {}
    BY NoPMIs DEF PMs, PMStates
  <2>3. \A r \in 1..MaxRounds : pm[r] \in PMs /\ pm[r].failures = {}
    BY <2>1, <2>2, NoPMIs
  <2>4. \A r \in 1..MaxRounds : ~(r < 1)
    BY BoardBounds
  <2> QED
    BY <1>1, <2>1, <2>3, <2>4 DEF Managers
<1>3. Mail
  BY DEF Mail
<1>4. Shown
  <2>1. 0 <= 1
    OBVIOUS
  <2> QED
    BY <1>1, <2>1 DEF Shown, Board!BoardTrue, Board!Ends
<1>5. posted \in 0..MaxReports /\ faults \in 0..BoardFaults
  BY BoardBounds
<1> QED
  BY <1>2, <1>3, <1>4, <1>5 DEF BoardInv

LEMMA BoardImplies == BoardInv => (part = "board" => Board!TypeOK) /\ Board!BoardTrue
<1> SUFFICES ASSUME BoardInv PROVE (part = "board" => Board!TypeOK) /\ Board!BoardTrue
  OBVIOUS
<1> USE DEF BoardInv
<1>1. task \in [round : 1..MaxRounds, status : {"running", "paused"} \cup Board!Ends, shown : BOOLEAN,
                board : Board!Steps, of : 0..MaxRounds, ids : [Names -> Int],
                row : {"monitoring", "paused", "unknown", "recovering"} \cup Board!Ends]
  BY DEF Shown, TaskRows, Board!Steps, Board!Ends
<1>2. pm \in [1..MaxRounds -> [state : {"none", "running", "paused"} \cup Board!Ends, outputs : SUBSET Names,
                               failures : SUBSET Names, blocked : SUBSET Names,
                               at : [Names -> {"pending", "assigned", "running"}]]]
  <2>1. PMs = [state : {"none", "running", "paused"} \cup Board!Ends, outputs : SUBSET Names,
               failures : SUBSET Names, blocked : SUBSET Names,
               at : [Names -> {"pending", "assigned", "running"}]]
    <3>1. PMStates = {"none", "running", "paused"} \cup Board!Ends
      BY DEF PMStates, Board!Ends
    <3> QED
      BY <3>1 DEF PMs
  <2> QED
    BY <2>1 DEF Managers
<1>3. /\ \A t \in Threads : post[t] = Board!Idle
                            \/ (post[t].report \in Board!Reports /\ post[t].tries \in 0..Retries + 1)
      /\ \A r \in net : r.report \in Board!Reports
  BY DEF Mail, Honest
<1> QED
  BY <1>1, <1>2, <1>3 DEF Board!TypeOK, Board!Rounds, Shown

Forward == task'.of >= task.of /\ (task.shown => task'.ids = task.ids)

LEMMA TaskStays == ASSUME task \in TaskRows, task' = task PROVE Forward
<1>1. task.of \in Int
  BY BoardBounds DEF TaskRows
<1>2. task'.of >= task.of
  BY <1>1
<1> QED
  BY <1>2 DEF Forward

\* What the PMs did remains done.
Grown ==
    \A r \in 1..MaxRounds : pm[r].state # "none" =>
        /\ pm'[r].state # "none" /\ (pm[r].state \in {"completed", "failed"} => pm'[r].state = pm[r].state)
        /\ pm[r].outputs \subseteq pm'[r].outputs /\ pm[r].failures \subseteq pm'[r].failures

LEMMA HonestStays ==
    ASSUME Grown, NEW report, Honest(report)
    PROVE  Honest(report)'
<1>1. report.round \in 1..MaxRounds
  BY DEF Honest, Board!Reports, Board!Rounds
<1>2. Truthful(pm'[report.round], report)
  BY <1>1 DEF Honest, Truthful, Grown
<1> QED
  BY <1>2 DEF Honest

LEMMA MailStays == ASSUME Mail, Grown, UNCHANGED <<post, net>> PROVE Mail'
BY HonestStays DEF Mail

LEMMA ShownStays ==
    ASSUME Shown, Grown, task' \in TaskRows, task'.round = task.round, task'.status = task.status,
           task'.of = task.of, task'.board = task.board, task'.shown = task.shown, task'.ids = task.ids,
           task.status = "paused" => task'.row \in {"paused", "unknown"}
    PROVE  Shown' /\ Forward
<1>1. task.of = 0 \/ task.of \in 1..MaxRounds
  <2>1. task.of \in 0..MaxRounds
    BY DEF Shown, TaskRows
  <2> QED
    BY <2>1, BoardBounds
<1>2. task.round \in 1..MaxRounds
  BY DEF Shown, TaskRows
<1>3. task.of # 0 => /\ pm'[task.of].state # "none"
                     /\ \A n \in Names : /\ task.board[n] = "completed" => n \in pm'[task.of].outputs
                                         /\ task.board[n] = "failed" => n \in pm'[task.of].failures
  BY <1>1 DEF Shown, Grown, Board!BoardTrue
<1>4. task.status \in {"completed", "failed"} => pm'[task.round].state = task.status
  BY <1>2 DEF Shown, Grown, Board!BoardTrue, Board!Ends
<1>5. Board!BoardTrue'
  BY <1>3, <1>4 DEF Board!BoardTrue, Board!Ends
<1>6. task'.of <= task'.round
  BY DEF Shown
<1>7. task'.of >= task.of
  BY <1>1, BoardBounds
<1> QED
  BY <1>3, <1>5, <1>6, <1>7 DEF Shown, Forward

\* A step of one PM: a new object p in its place.
LEMMA OnePMMoves ==
    ASSUME BoardInv, NEW r \in 1..MaxRounds, NEW p \in PMs, pm' = [pm EXCEPT ![r] = p],
           p.state # "none", p.state # "failed" => p.failures = {},
           pm[r].state # "none" => /\ pm[r].state \notin {"completed", "failed"}
                                   /\ pm[r].outputs \subseteq p.outputs /\ pm[r].failures \subseteq p.failures,
           r < task.round => p.state = "paused", task'.round = task.round
    PROVE  Managers' /\ Grown
<1>1. pm \in [1..MaxRounds -> PMs]
  BY DEF BoardInv, Managers
<1>2. pm' \in [1..MaxRounds -> PMs] /\ pm'[r] = p /\ \A q \in 1..MaxRounds : q # r => pm'[q] = pm[q]
  BY <1>1
<1>3. ASSUME NEW q \in 1..MaxRounds
      PROVE  /\ pm'[q].state # "failed" => pm'[q].failures = {}
             /\ q < task.round => pm'[q].state = "paused"
  BY <1>2 DEF BoardInv, Managers
<1>4. Grown
  BY <1>2 DEF Grown
<1> QED
  BY <1>2, <1>3, <1>4 DEF Managers

LEMMA ManagersMove ==
    ASSUME BoardInv, Managers', Grown, part' = part, UNCHANGED <<task, post, net, posted, faults>>
    PROVE  BoardInv' /\ Forward
<1>1. Mail'
  BY MailStays DEF BoardInv
<1>2. task' \in TaskRows /\ (task.status = "paused" => task'.row \in {"paused", "unknown"})
  BY DEF BoardInv, Shown, Board!BoardTrue
<1>3. Shown' /\ Forward
  BY <1>2, ShownStays DEF BoardInv
<1> QED
  BY <1>1, <1>3 DEF BoardInv

LEMMA RunningPM ==
    ASSUME BoardInv, NEW r \in 1..MaxRounds, pm[r].state = "running"
    PROVE  pm[r] \in PMs /\ pm[r].failures = {} /\ ~(r < task.round)
BY DEF BoardInv, Managers

LEMMA AdvanceKeeps ==
    ASSUME BoardInv, NEW r \in 1..MaxRounds, Board!Advance(r), part' = part
    PROVE  BoardInv' /\ Forward
<1>1. pm[r].state = "running" /\ UNCHANGED <<task, post, net, posted, faults>>
  BY DEF Board!Advance
<1>2. pm[r] \in PMs /\ pm[r].failures = {} /\ ~(r < task.round)
  BY <1>1, RunningPM
<1>3. PICK n \in Names \ pm[r].outputs :
         \/ \E s \in {"assigned", "running"} : pm' = [pm EXCEPT ![r].at[n] = s]
         \/ pm' = [pm EXCEPT ![r].outputs = @ \cup {n}]
  BY DEF Board!Advance
<1>4. ASSUME NEW s \in {"assigned", "running"}, pm' = [pm EXCEPT ![r].at[n] = s]
      PROVE  BoardInv' /\ Forward
  <2> DEFINE p == [pm[r] EXCEPT !.at[n] = s]
  <2>1. pm' = [pm EXCEPT ![r] = p]
    BY <1>4
  <2>2. p \in PMs /\ p.state = "running" /\ p.outputs = pm[r].outputs /\ p.failures = {}
    BY <1>1, <1>2 DEF PMs
  <2> HIDE DEF p
  <2>3. Managers' /\ Grown
    BY <1>1, <1>2, <2>1, <2>2, OnePMMoves
  <2> QED
    BY <1>1, <2>3, ManagersMove
<1>5. ASSUME pm' = [pm EXCEPT ![r].outputs = @ \cup {n}] PROVE BoardInv' /\ Forward
  <2> DEFINE p == [pm[r] EXCEPT !.outputs = pm[r].outputs \cup {n}]
  <2>1. pm' = [pm EXCEPT ![r] = p]
    BY <1>5
  <2>2. p \in PMs /\ p.state = "running" /\ pm[r].outputs \subseteq p.outputs /\ p.failures = {}
    BY <1>1, <1>2 DEF PMs
  <2> HIDE DEF p
  <2>3. Managers' /\ Grown
    BY <1>1, <1>2, <2>1, <2>2, OnePMMoves
  <2> QED
    BY <1>1, <2>3, ManagersMove
<1> QED
  BY <1>3, <1>4, <1>5

LEMMA EndKeeps ==
    ASSUME BoardInv, NEW r \in 1..MaxRounds, Board!End(r), part' = part
    PROVE  BoardInv' /\ Forward
<1>1. pm[r].state = "running" /\ UNCHANGED <<task, post, net, posted, faults>>
  BY DEF Board!End
<1>2. pm[r] \in PMs /\ pm[r].failures = {} /\ ~(r < task.round)
  BY <1>1, RunningPM
<1>3. CASE pm' = [pm EXCEPT ![r].state = "completed"]
  <2> DEFINE p == [pm[r] EXCEPT !.state = "completed"]
  <2>1. pm' = [pm EXCEPT ![r] = p]
    BY <1>3
  <2>2. p \in PMs /\ p.state = "completed" /\ p.outputs = pm[r].outputs /\ p.failures = {}
    BY <1>2 DEF PMs, PMStates
  <2> HIDE DEF p
  <2>3. Managers' /\ Grown
    BY <1>1, <1>2, <2>1, <2>2, OnePMMoves
  <2> QED
    BY <1>1, <2>3, ManagersMove
<1>4. ASSUME NEW n \in Names,
             pm' = [pm EXCEPT ![r].state = "failed", ![r].failures = {n},
                              ![r].blocked = Names \ (pm[r].outputs \cup {n})]
      PROVE  BoardInv' /\ Forward
  <2> DEFINE p == [pm[r] EXCEPT !.state = "failed", !.failures = {n},
                                !.blocked = Names \ (pm[r].outputs \cup {n})]
  <2>0. r \in DOMAIN pm
    BY DEF BoardInv, Managers
  <2>1. pm' = [pm EXCEPT ![r] = p]
    BY <1>4, <2>0
  <2>2. p \in PMs /\ p.state = "failed" /\ p.outputs = pm[r].outputs
    BY <1>2 DEF PMs, PMStates
  <2> HIDE DEF p
  <2>3. Managers' /\ Grown
    BY <1>1, <1>2, <2>1, <2>2, OnePMMoves
  <2> QED
    BY <1>1, <2>3, ManagersMove
<1> QED
  BY <1>3, <1>4 DEF Board!End

LEMMA TakeOverKeeps ==
    ASSUME BoardInv, NEW r \in 1..MaxRounds, Board!TakeOver(r), part' = part
    PROVE  BoardInv' /\ Forward
<1> DEFINE p == [pm[r - 1] EXCEPT !.state = "running"]
<1>1. /\ r > 1 /\ r = task.round /\ pm[r].state = "none" /\ pm' = [pm EXCEPT ![r] = p]
      /\ UNCHANGED <<task, post, net, posted, faults>>
  BY DEF Board!TakeOver
<1>2. r - 1 \in 1..MaxRounds /\ r - 1 < task.round /\ ~(r < task.round)
  BY <1>1, BoardBounds
<1>3. pm[r - 1] \in PMs /\ pm[r - 1].state = "paused" /\ pm[r - 1].failures = {}
  BY <1>2 DEF BoardInv, Managers
<1>4. p \in PMs /\ p.state = "running" /\ p.failures = {}
  BY <1>3 DEF PMs, PMStates
<1> HIDE DEF p
<1>5. Managers' /\ Grown
  BY <1>1, <1>2, <1>4, OnePMMoves
<1> QED
  BY <1>1, <1>5, ManagersMove

LEMMA StopPMKeeps ==
    ASSUME BoardInv, Board!StopPM, part' = part
    PROVE  BoardInv' /\ Forward
<1> DEFINE r == task.round
           p == [pm[r] EXCEPT !.state = "paused"]
<1>1. /\ pm[r].state = "running" /\ pm' = [pm EXCEPT ![r] = p]
      /\ task' = [task EXCEPT !.row = "paused"] /\ UNCHANGED <<post, net, posted, faults>>
  BY DEF Board!StopPM
<1>2. task \in TaskRows /\ r \in 1..MaxRounds
  BY DEF BoardInv, Shown, TaskRows
<1>3. /\ task' \in TaskRows /\ task'.row = "paused" /\ task'.round = task.round
      /\ task'.status = task.status /\ task'.of = task.of /\ task'.board = task.board
      /\ task'.shown = task.shown /\ task'.ids = task.ids
  BY <1>1, <1>2 DEF TaskRows
<1>4. pm[r] \in PMs /\ pm[r].failures = {} /\ ~(r < task.round)
  BY <1>1, <1>2, RunningPM
<1>5. p \in PMs /\ p.state = "paused" /\ p.outputs = pm[r].outputs /\ p.failures = {}
  BY <1>4 DEF PMs, PMStates
<1> HIDE DEF p, r
<1>6. Managers' /\ Grown
  BY <1>1, <1>2, <1>3, <1>4, <1>5, OnePMMoves
<1>7. Shown' /\ Forward
  BY <1>3, <1>6, ShownStays DEF BoardInv
<1>8. Mail'
  BY <1>1, <1>6, MailStays DEF BoardInv
<1> QED
  BY <1>1, <1>6, <1>7, <1>8 DEF BoardInv

\* A step of the mail.
LEMMA MailMoves ==
    ASSUME BoardInv, Mail', posted' \in 0..MaxReports, part' = part, UNCHANGED <<task, pm>>,
           part = "board" => faults' \in 0..BoardFaults
    PROVE  BoardInv' /\ Forward
<1>1. Managers' /\ Grown
  BY DEF BoardInv, Managers, Grown
<1>2. task' \in TaskRows /\ (task.status = "paused" => task'.row \in {"paused", "unknown"})
  BY DEF BoardInv, Shown, Board!BoardTrue
<1>3. Shown' /\ Forward
  BY <1>1, <1>2, ShownStays DEF BoardInv
<1> QED
  BY <1>1, <1>3 DEF BoardInv

\* The mail after a step of one thread, whose PM may have said something new.
LEMMA ThreadMoves ==
    ASSUME Mail, UNCHANGED pm, NEW t \in Threads, NEW e, post' = [post EXCEPT ![t] = e],
           e = Board!Idle \/ (e.tries \in 0..Retries + 1 /\ DOMAIN e = {"tries", "report"} /\ Honest(e.report)),
           \A r \in net' : DOMAIN r = {"by", "try", "report"} /\ Honest(r.report)
    PROVE  Mail'
BY DEF Mail, Honest

LEMMA SnapshotIs ==
    ASSUME NEW r \in 1..MaxRounds, pm[r] \in PMs
    PROVE  /\ Board!Snapshot(pm[r]) \in [Names -> Board!Statuses]
           /\ \A n \in Names : /\ Board!Snapshot(pm[r])[n] = "completed" => n \in pm[r].outputs
                               /\ Board!Snapshot(pm[r])[n] = "failed" => n \in pm[r].failures
<1>1. ASSUME NEW n \in Names
      PROVE  /\ Board!StatusOf(pm[r], n) \in Board!Statuses
             /\ Board!StatusOf(pm[r], n) = "completed" => n \in pm[r].outputs
             /\ Board!StatusOf(pm[r], n) = "failed" => n \in pm[r].failures
  <2>1. pm[r].at[n] \in {"pending", "assigned", "running"}
    BY DEF PMs
  <2> QED
    BY <2>1 DEF Board!StatusOf, Board!Statuses
<1> QED
  BY <1>1 DEF Board!Snapshot

LEMMA ReportKeeps ==
    ASSUME BoardInv, NEW t \in Threads, NEW r \in 1..MaxRounds, Board!Report(t, r), part' = part
    PROVE  BoardInv' /\ Forward
<1>1. /\ pm[r].state # "none" /\ posted < MaxReports /\ posted' = posted + 1
      /\ UNCHANGED <<task, pm, net, faults>>
  BY DEF Board!Report
<1>2. PICK report \in Board!Reportable(r) : post' = [post EXCEPT ![t] = [tries |-> 0, report |-> report]]
  BY DEF Board!Report
<1>3. pm[r] \in PMs
  BY DEF BoardInv, Managers
<1>4. Honest(report)
  <2> DEFINE status == IF pm[r].state = "running" THEN "monitoring" ELSE pm[r].state
  <2>0. /\ status \in {"monitoring", "paused", "completed", "failed"}
        /\ status \in {"completed", "failed"} => pm[r].state = status
    BY <1>1, <1>3 DEF PMs, PMStates
  <2>1. CASE \E k \in {"status", "progress"} :
                report = [kind |-> k, round |-> r, steps |-> Board!NoSteps, status |-> status]
    <3> HIDE DEF status
    <3>1. PICK k \in {"status", "progress"} :
                report = [kind |-> k, round |-> r, steps |-> Board!NoSteps, status |-> status]
      BY <2>1
    <3>2. report \in Board!Reports /\ report.status = status /\ report.round = r /\ report.steps = Board!NoSteps
      BY <2>0, <3>1 DEF Board!Reports, Board!Rounds, Board!Steps, Board!NoSteps, Board!Statuses, Board!Ends
    <3>3. status # ""
      BY <2>0
    <3> QED
      BY <1>1, <2>0, <3>2, <3>3 DEF Honest, Truthful, Board!NoSteps
  <2>2. CASE report = [kind |-> "steps", round |-> r, steps |-> Board!Snapshot(pm[r]), status |-> ""]
    <3>1. report \in Board!Reports /\ report.kind = "steps" /\ report.status = "" /\ report.round = r
          /\ report.steps = Board!Snapshot(pm[r])
      BY <1>3, <2>2, SnapshotIs DEF Board!Reports, Board!Rounds, Board!Steps
    <3> QED
      BY <1>1, <1>3, <3>1, SnapshotIs DEF Honest, Truthful
  <2> QED
    BY <1>2, <2>1, <2>2 DEF Board!Reportable
<1>5. Mail'
  <2> DEFINE e == [tries |-> 0, report |-> report]
  <2>1. e.tries \in 0..Retries + 1 /\ DOMAIN e = {"tries", "report"} /\ e.report = report
    BY BoardBounds
  <2>2. post' = [post EXCEPT ![t] = e]
    BY <1>2
  <2> HIDE DEF e
  <2>3. \A m \in net' : DOMAIN m = {"by", "try", "report"} /\ Honest(m.report)
    BY <1>1 DEF BoardInv, Mail
  <2>4. UNCHANGED pm
    BY <1>1
  <2> QED
    BY <1>4, <2>1, <2>2, <2>3, <2>4, ThreadMoves DEF BoardInv
<1>6. posted' \in 0..MaxReports
  BY <1>1, BoardBounds DEF BoardInv
<1> QED
  BY <1>1, <1>5, <1>6, MailMoves DEF BoardInv

LEMMA SendKeeps ==
    ASSUME BoardInv, NEW t \in Threads, Board!Send(t), part' = part
    PROVE  BoardInv' /\ Forward
<1> DEFINE letter == [by |-> t, try |-> post[t].tries + 1, report |-> post[t].report]
           e == [post[t] EXCEPT !.tries = @ + 1]
<1>1. /\ post[t] # Board!Idle /\ post[t].tries <= Retries /\ net' = net \cup {letter}
      /\ UNCHANGED <<task, pm, posted, faults>>
  BY DEF Board!Send
<1>2. post[t].tries \in 0..Retries + 1 /\ DOMAIN post[t] = {"tries", "report"} /\ Honest(post[t].report)
  BY <1>1 DEF BoardInv, Mail
<1>3. post[t].tries + 1 \in 0..Retries + 1
  BY <1>1, <1>2, BoardBounds
<1>4. post' = [post EXCEPT ![t] = e]
  BY DEF Board!Send, BoardInv, Mail
<1>5. e.tries \in 0..Retries + 1 /\ DOMAIN e = {"tries", "report"} /\ e.report = post[t].report
  BY <1>2, <1>3
<1>6. DOMAIN letter = {"by", "try", "report"} /\ letter.report = post[t].report
  OBVIOUS
<1> HIDE DEF letter, e
<1>7. \A m \in net' : DOMAIN m = {"by", "try", "report"} /\ Honest(m.report)
  BY <1>1, <1>2, <1>6 DEF BoardInv, Mail
<1>8. UNCHANGED pm
  BY <1>1
<1>9. Mail'
  BY <1>2, <1>4, <1>5, <1>7, <1>8, ThreadMoves DEF BoardInv
<1> QED
  BY <1>1, <1>9, MailMoves DEF BoardInv

LEMMA GiveUpKeeps ==
    ASSUME BoardInv, NEW t \in Threads, Board!GiveUp(t), part' = part
    PROVE  BoardInv' /\ Forward
<1>1. post' = [post EXCEPT ![t] = Board!Idle] /\ UNCHANGED <<task, pm, net, posted, faults>>
  BY DEF Board!GiveUp
<1>2. Mail'
  <2>1. \A m \in net' : DOMAIN m = {"by", "try", "report"} /\ Honest(m.report)
    BY <1>1 DEF BoardInv, Mail
  <2> QED
    BY <1>1, <2>1, ThreadMoves DEF BoardInv
<1> QED
  BY <1>1, <1>2, MailMoves DEF BoardInv

LEMMA LoseKeeps ==
    ASSUME BoardInv, NEW r \in net, Board!Lose(r), part' = part
    PROVE  BoardInv' /\ Forward
<1> DEFINE later == [r EXCEPT !.try = -@]
<1>1. /\ faults < BoardFaults /\ faults' = faults + 1 /\ net' \subseteq net \cup {later}
      /\ UNCHANGED <<task, pm, post, posted>>
  BY DEF Board!Lose
<1>2. DOMAIN r = {"by", "try", "report"} /\ Honest(r.report)
  BY DEF BoardInv, Mail
<1>3. DOMAIN later = {"by", "try", "report"} /\ later.report = r.report
  BY <1>2
<1> HIDE DEF later
<1>4. Mail'
  BY <1>1, <1>2, <1>3 DEF BoardInv, Mail, Honest
<1>5. part = "board" => faults' \in 0..BoardFaults
  BY <1>1, BoardBounds DEF BoardInv
<1> QED
  BY <1>1, <1>4, <1>5, MailMoves DEF BoardInv

\* A step of the task's row.
LEMMA PauseKeeps ==
    ASSUME BoardInv, Board!Pause, part' = part
    PROVE  BoardInv' /\ Forward
<1>1. /\ task.status = "running" /\ task' = [task EXCEPT !.status = "paused", !.row = "unknown"]
      /\ UNCHANGED <<pm, post, net, posted, faults>>
  BY DEF Board!Pause
<1>2. task \in TaskRows /\ (task.of = 0 \/ task.of \in 1..MaxRounds)
  <2>1. task.of \in 0..MaxRounds
    BY DEF BoardInv, Shown, TaskRows
  <2> QED
    BY <2>1, BoardBounds DEF BoardInv, Shown
<1>3. /\ task' \in TaskRows /\ task'.status = "paused" /\ task'.row = "unknown"
      /\ task'.round = task.round /\ task'.of = task.of /\ task'.board = task.board
      /\ task'.shown = task.shown /\ task'.ids = task.ids
  BY <1>1, <1>2 DEF TaskRows
<1>4. Managers' /\ Mail'
  BY <1>1, <1>3 DEF BoardInv, Managers, Mail, Honest
<1>5. Board!BoardTrue'
  BY <1>1, <1>3 DEF BoardInv, Shown, Board!BoardTrue, Board!Ends
<1>6. task'.of >= task.of
  BY <1>2, <1>3, BoardBounds
<1>7. Shown'
  BY <1>1, <1>3, <1>5 DEF BoardInv, Shown
<1> QED
  BY <1>1, <1>3, <1>4, <1>6, <1>7 DEF BoardInv, Forward

LEMMA ContinueKeeps ==
    ASSUME BoardInv, Board!Continue, part' = part
    PROVE  BoardInv' /\ Forward
<1>1. /\ pm[task.round].state = "paused" /\ task.round < MaxRounds
      /\ task' = [task EXCEPT !.status = "running", !.row = "recovering", !.round = task.round + 1]
      /\ UNCHANGED <<pm, post, net, posted, faults>>
  BY DEF Board!Continue
<1>2. task \in TaskRows /\ task.round \in 1..MaxRounds /\ (task.of = 0 \/ task.of \in 1..MaxRounds)
  <2>1. task.of \in 0..MaxRounds /\ task \in TaskRows /\ task.round \in 1..MaxRounds
    BY DEF BoardInv, Shown, TaskRows
  <2> QED
    BY <2>1, BoardBounds
<1>3. task.round + 1 \in 1..MaxRounds
  BY <1>1, <1>2, BoardBounds
<1>4. /\ task' \in TaskRows /\ task'.status = "running"
      /\ task'.round = task.round + 1 /\ task'.of = task.of /\ task'.board = task.board
      /\ task'.shown = task.shown /\ task'.ids = task.ids
  BY <1>1, <1>2, <1>3 DEF TaskRows
<1>5. Managers'
  <2>1. ASSUME NEW r \in 1..MaxRounds, r < task.round + 1 PROVE r < task.round \/ r = task.round
    BY <1>2, <2>1, BoardBounds
  <2> QED
    BY <1>1, <1>4, <2>1 DEF BoardInv, Managers
<1>6. Mail'
  BY <1>1 DEF BoardInv, Mail, Honest
<1>7. Board!BoardTrue'
  BY <1>1, <1>4 DEF BoardInv, Shown, Board!BoardTrue, Board!Ends
<1>8. task'.of >= task.of /\ task'.of <= task'.round
  <2>1. task.of <= task.round
    BY DEF BoardInv, Shown
  <2>2. task.of >= task.of /\ task.of <= task.round + 1
    BY <1>2, <2>1, BoardBounds
  <2> QED
    BY <1>4, <2>2
<1>9. Shown'
  BY <1>1, <1>4, <1>7, <1>8 DEF BoardInv, Shown
<1> QED
  BY <1>1, <1>4, <1>5, <1>6, <1>8, <1>9 DEF BoardInv, Forward

\* What a report changes at the Secretary.
LEMMA TakeStatusKeeps ==
    ASSUME BoardInv, NEW report, Honest(report), report.kind = "status", Board!TakeStatus(report),
           UNCHANGED pm
    PROVE  Shown' /\ Forward /\ task'.round = task.round
<1>1. task \in TaskRows /\ (task.status = "paused" => task.row \in {"paused", "unknown"})
  BY DEF BoardInv, Shown, Board!BoardTrue
<1>2. Grown
  BY DEF Grown
<1>3. CASE task' = task
  BY <1>1, <1>2, <1>3, ShownStays DEF BoardInv
<1>4. CASE ~Board!Protected(report) /\ task' = [task EXCEPT !.row = report.status]
  <2>1. report.status \in {"monitoring", "paused", "completed", "failed"}
    BY DEF Honest, Board!Reports, Board!Ends
  <2>2. /\ task' \in TaskRows /\ task'.row = report.status /\ task'.round = task.round
        /\ task'.status = task.status /\ task'.of = task.of /\ task'.board = task.board
        /\ task'.shown = task.shown /\ task'.ids = task.ids
    BY <1>1, <1>4, <2>1 DEF TaskRows
  <2>3. task.status = "paused" => task'.row \in {"paused", "unknown"}
    BY <1>4, <2>2 DEF Board!Protected
  <2> QED
    BY <1>2, <2>2, <2>3, ShownStays DEF BoardInv
<1> QED
  BY <1>3, <1>4 DEF Board!TakeStatus

LEMMA TakeProgressKeeps ==
    ASSUME BoardInv, NEW report, Honest(report), Board!TakeProgress(report), UNCHANGED pm
    PROVE  Shown' /\ Forward /\ task'.round = task.round
<1>1. task \in TaskRows /\ (task.status = "paused" => task.row \in {"paused", "unknown"})
  BY DEF BoardInv, Shown, Board!BoardTrue
<1>2. Grown
  BY DEF Grown
<1>3. CASE task' = task
  BY <1>1, <1>2, <1>3, ShownStays DEF BoardInv
<1>4. CASE /\ report.round = task.round /\ report.status \in {"completed", "failed"}
           /\ task' = [task EXCEPT !.status = report.status]
  <2>1. /\ task' \in TaskRows /\ task'.status = report.status /\ task'.round = task.round
        /\ task'.of = task.of /\ task'.board = task.board
        /\ task'.shown = task.shown /\ task'.ids = task.ids
    BY <1>1, <1>4 DEF TaskRows
  <2>2. pm[task.round].state = report.status
    BY <1>4 DEF Honest, Truthful
  <2>3. Board!BoardTrue'
    BY <1>4, <2>1, <2>2 DEF BoardInv, Shown, Board!BoardTrue, Board!Ends
  <2>4. Shown'
    BY <2>1, <2>3 DEF BoardInv, Shown
  <2>5. task'.of >= task.of
    <3>1. task.of \in Int
      BY <1>1, BoardBounds DEF TaskRows
    <3> QED
      BY <2>1, <3>1
  <2> QED
    BY <2>1, <2>4, <2>5 DEF Forward
<1> QED
  BY <1>3, <1>4 DEF Board!TakeProgress, Board!Current, Board!Ends

LEMMA TakeStepsKeeps ==
    ASSUME BoardInv, NEW report, Honest(report), Board!TakeSteps(report), UNCHANGED pm
    PROVE  Shown' /\ Forward /\ task'.round = task.round
<1> DEFINE named == [n \in Names |-> Board!Named(n)]
<1>1. task \in TaskRows /\ (task.status = "paused" => task.row \in {"paused", "unknown"})
  BY DEF BoardInv, Shown, Board!BoardTrue
<1>2. Grown
  BY DEF Grown
<1>3. CASE task' = task
  BY <1>1, <1>2, <1>3, ShownStays DEF BoardInv
<1>4. CASE /\ report.round = task.round
           /\ task' = [task EXCEPT !.shown = TRUE, !.board = report.steps, !.of = report.round,
                                   !.ids = named]
  <2>1. named \in [Names -> Int] /\ (task.shown => named = task.ids)
    BY <1>1 DEF TaskRows, Board!Named
  <2>2. report.round \in 1..MaxRounds /\ report.steps \in [Names -> Board!Statuses]
    BY DEF Honest, Board!Reports, Board!Rounds, Board!Steps
  <2>3. report.round \in 0..MaxRounds /\ report.round # 0 /\ report.round \in Int
    BY <2>2, BoardBounds
  <2> HIDE DEF named
  <2>4. /\ task' \in TaskRows /\ task'.of = task.round /\ task'.board = report.steps
        /\ task'.round = task.round /\ task'.ids = named /\ task'.shown = TRUE
        /\ task'.status = task.status /\ task'.row = task.row
    BY <1>1, <1>4, <2>1, <2>2, <2>3 DEF TaskRows
  <2>5. Truthful(pm[task.round], report)
    BY <1>4 DEF Honest
  <2>6. Board!BoardTrue'
    BY <2>4, <2>5 DEF BoardInv, Shown, Truthful, Board!BoardTrue, Board!Ends
  <2>7. task'.of <= task'.round /\ task'.of >= task.of
    <3>1. task.of <= task.round /\ task.of \in 0..MaxRounds /\ task.round \in Int
      BY <1>4, <2>3, <1>1 DEF BoardInv, Shown, TaskRows
    <3>2. task.round <= task.round /\ task.round >= task.of
      BY <3>1, BoardBounds
    <3> QED
      BY <2>4, <3>2
  <2>8. Shown'
    BY <2>4, <2>5, <2>6, <2>7 DEF Shown, Truthful
  <2> QED
    BY <2>1, <2>4, <2>7, <2>8 DEF Forward
<1> QED
  BY <1>3, <1>4 DEF Board!TakeSteps, Board!Current

LEMMA ArriveKeeps ==
    ASSUME BoardInv, NEW r \in net, Board!Receive(r), part' = part
    PROVE  BoardInv' /\ Forward
<1>1. /\ Board!Take(r.report) /\ net' = net \ {r} /\ UNCHANGED <<pm, posted, faults>>
      /\ post' = post \/ post' = [post EXCEPT ![r.by] = Board!Idle]
  BY DEF Board!Receive
<1>2. Honest(r.report)
  BY DEF BoardInv, Mail
<1>3. Shown' /\ Forward /\ task'.round = task.round
  <2>1. CASE r.report.kind = "status"
    <3>1. Board!TakeStatus(r.report)
      BY <1>1, <2>1 DEF Board!Take
    <3> QED
      BY <1>1, <1>2, <2>1, <3>1, TakeStatusKeeps
  <2>2. CASE r.report.kind = "progress"
    <3>1. Board!TakeProgress(r.report)
      BY <1>1, <2>2 DEF Board!Take
    <3> QED
      BY <1>1, <1>2, <3>1, TakeProgressKeeps
  <2>3. CASE r.report.kind = "steps"
    <3>1. Board!TakeSteps(r.report)
      BY <1>1, <2>3 DEF Board!Take
    <3> QED
      BY <1>1, <1>2, <3>1, TakeStepsKeeps
  <2> QED
    BY <1>2, <2>1, <2>2, <2>3 DEF Honest, Board!Reports
<1>4. Managers' /\ Mail'
  <2>1. Managers'
    BY <1>1, <1>3 DEF BoardInv, Managers
  <2>2. /\ DOMAIN post' = Threads
        /\ \A t \in Threads : post'[t] = post[t] \/ post'[t] = Board!Idle
    BY <1>1 DEF BoardInv, Mail
  <2> QED
    BY <1>1, <2>1, <2>2 DEF BoardInv, Mail, Honest
<1> QED
  BY <1>1, <1>3, <1>4 DEF BoardInv

LEMMA BoardStep ==
    ASSUME BoardInv, Board!Next, part' = part
    PROVE  BoardInv' /\ Forward
<1>1. CASE \E r \in Board!Rounds : Board!Advance(r) \/ Board!End(r) \/ Board!TakeOver(r)
  BY <1>1, AdvanceKeeps, EndKeeps, TakeOverKeeps DEF Board!Rounds
<1>2. CASE \E t \in Threads, r \in Board!Rounds : Board!Report(t, r)
  BY <1>2, ReportKeeps DEF Board!Rounds
<1>3. CASE \E t \in Threads : Board!Send(t) \/ Board!GiveUp(t)
  BY <1>3, SendKeeps, GiveUpKeeps
<1>4. CASE \E r \in net : Board!Lose(r) \/ Board!Receive(r)
  BY <1>4, LoseKeeps, ArriveKeeps
<1>5. CASE Board!Pause \/ Board!StopPM \/ Board!Continue
  BY <1>5, PauseKeeps, StopPMKeeps, ContinueKeeps
<1> QED
  BY <1>1, <1>2, <1>3, <1>4, <1>5 DEF Board!Next

LEMMA BoardRests ==
    ASSUME BoardInv, UNCHANGED boardVars, part' = part, part = "board" => faults' = faults
    PROVE  BoardInv' /\ Forward
<1>1. UNCHANGED <<task, pm, post, net, posted>>
  BY DEF boardVars
<1>2. Mail' /\ posted' \in 0..MaxReports /\ (part = "board" => faults' \in 0..BoardFaults)
  BY <1>1 DEF BoardInv, Mail, Honest
<1> QED
  BY <1>1, <1>2, MailMoves

\* However late, often or out of order reports come, the board shows what the PM of its round
\* did, and never goes back (sync_pm_subtasks, receive_pm_progress, update_pm_status).
THEOREM BoardIsFaithful == Spec => BoardFaithful
<1>1. Init => BoardInv
  BY BoardInit DEF Init
<1>2. ASSUME BoardInv,
             [Next]_<<part, faults, briefVars, directVars, botVars, chatVars, graphVars, boardVars>>
      PROVE  BoardInv' /\ Forward
  <2>1. CASE part = "board" /\ Board!Next /\ part' = part
    BY <1>2, <2>1, BoardStep
  <2>2. CASE UNCHANGED boardVars /\ part' = part /\ (part = "board" => faults' = faults)
    BY <1>2, <2>2, BoardRests
  <2> QED
    BY <1>2, <2>1, <2>2 DEF Next
<1>3. BoardInv => (part = "board" => Board!TypeOK) /\ Board!BoardTrue
  BY BoardImplies
<1>4. Forward => [ /\ task'.of >= task.of
                   /\ task.shown => task'.ids = task.ids ]_Board!vars
  BY DEF Forward
<1> QED
  BY <1>1, <1>2, <1>3, <1>4, PTL DEF Spec, BoardFaithful, Board!BoardForward

-----------------------------------------------------------------------------
(* The graph of steps.                                                     *)

\* The module's Cardinality is that of the theorems.
LEMMA Counted == \A S : Graph!Cardinality(S) = Cardinality(S)
BY DEF Graph!Cardinality, Cardinality, Graph!IsFiniteSet, IsFiniteSet

LEMMA FewSteps ==
    \A S \in SUBSET Ids : IsFiniteSet(S) /\ Cardinality(S) \in Nat /\ (Cardinality(S) = 0 <=> S = {})
BY DeskAssumption, FS_Subset, FS_CardinalityType, FS_EmptySet DEF DeskAssumption

Dags == [nodes : SUBSET Ids, deps : [Ids -> SUBSET Ids], dependents : [Ids -> SUBSET Ids],
         degree : [Ids -> Int], conditions : SUBSET (Ids \X Ids), done : SUBSET Ids]

\* The records of graph h agree, and what is no step of it has none.
Agree(h) ==
    /\ h \in Dags /\ h.done \subseteq h.nodes
    /\ \A d, n \in Ids : n \in h.dependents[d] <=> n \in h.nodes /\ d \in h.deps[n]
    /\ \A n \in Ids : h.degree[n] = Cardinality(h.deps[n])
    /\ \A n \in Ids \ h.nodes : h.deps[n] = {}
    /\ \A d, n \in Ids : <<d, n>> \in h.conditions => d \in h.deps[n]

StuckIn(h, S) == \A n \in S : \E d \in h.deps[n] : d \in S \/ d \notin h.nodes

GraphInv == Agree(g) /\ answer \in BOOLEAN

\* The steps found next, when found has been.
More(h, found) == {n \in h.nodes : h.degree[n] = Graph!Cardinality({d \in found : n \in h.dependents[d]})}

LEMMA MoreIs ==
    ASSUME NEW h, Agree(h), NEW found \in SUBSET h.nodes
    PROVE  More(h, found) = {n \in h.nodes : h.deps[n] \subseteq found}
<1>1. h \in Dags /\ h.nodes \subseteq Ids /\ found \subseteq Ids
  BY DEF Agree, Dags
<1>2. ASSUME NEW n \in h.nodes
      PROVE  h.degree[n] = Graph!Cardinality({d \in found : n \in h.dependents[d]}) <=> h.deps[n] \subseteq found
  <2>1. {d \in found : n \in h.dependents[d]} = h.deps[n] \cap found
    BY <1>1 DEF Agree, Dags
  <2>2. h.deps[n] \in SUBSET Ids /\ h.degree[n] = Cardinality(h.deps[n])
    BY <1>1 DEF Agree, Dags
  <2>3. IsFiniteSet(h.deps[n])
    BY <2>2, FewSteps
  <2>4. Cardinality(h.deps[n]) = Cardinality(h.deps[n] \cap found) => h.deps[n] = h.deps[n] \cap found
    BY <2>3, FS_Subset
  <2> QED
    BY <2>1, <2>2, <2>4, Counted
<1> QED
  BY <1>2 DEF More

\* The steps that are reached from found.
Closed(h, T) == \A n \in h.nodes : h.deps[n] \subseteq T => n \in T
Hull(h, found) == {n \in h.nodes : \A T \in SUBSET h.nodes : found \subseteq T /\ Closed(h, T) => n \in T}

LEMMA HullIs ==
    ASSUME NEW h, Agree(h), NEW found \in SUBSET h.nodes
    PROVE  Hull(h, found) = IF More(h, found) \subseteq found THEN found ELSE Hull(h, found \cup More(h, found))
<1>1. More(h, found) = {n \in h.nodes : h.deps[n] \subseteq found}
  BY MoreIs
<1>2. ASSUME More(h, found) \subseteq found PROVE Hull(h, found) = found
  <2>1. Closed(h, found)
    BY <1>1, <1>2 DEF Closed
  <2> QED
    BY <2>1 DEF Hull
<1>3. ASSUME NEW T \in SUBSET h.nodes, Closed(h, T)
      PROVE  found \subseteq T <=> found \cup More(h, found) \subseteq T
  BY <1>1, <1>3 DEF Closed
<1>4. Hull(h, found) = Hull(h, found \cup More(h, found))
  BY <1>3 DEF Hull
<1> QED
  BY <1>2, <1>4

\* The function of the code is one that obeys its equation, and there is one.
PeelFrom(h) == CHOOSE f : f = [found \in SUBSET h.nodes |->
                                 IF More(h, found) \subseteq found THEN found ELSE f[found \cup More(h, found)]]

LEMMA PeelIs == \A h : Graph!Peeled(h) = PeelFrom(h)[{}]
BY DEF Graph!Peeled, PeelFrom, More

LEMMA PeelStep ==
    ASSUME NEW h, Agree(h), NEW found \in SUBSET h.nodes
    PROVE  PeelFrom(h)[found] = IF More(h, found) \subseteq found THEN found
                                ELSE PeelFrom(h)[found \cup More(h, found)]
<1> DEFINE P(f) == f = [x \in SUBSET h.nodes |-> IF More(h, x) \subseteq x THEN x ELSE f[x \cup More(h, x)]]
           hull == [x \in SUBSET h.nodes |-> Hull(h, x)]
<1>1. \A x \in SUBSET h.nodes : x \cup More(h, x) \in SUBSET h.nodes
  BY DEF More
<1>2. ASSUME NEW x \in SUBSET h.nodes
      PROVE  Hull(h, x) = IF More(h, x) \subseteq x THEN x ELSE hull[x \cup More(h, x)]
  BY <1>1, HullIs
<1>3. P(hull)
  BY <1>2
<1>4. PeelFrom(h) = CHOOSE f : P(f)
  BY DEF PeelFrom
<1> HIDE DEF hull
<1>5. P(PeelFrom(h))
  <2> HIDE DEF P
  <2> QED
    BY <1>3, <1>4
<1> QED
  BY <1>5

LEMMA PeelIsHull ==
    ASSUME NEW h, Agree(h)
    PROVE  \A found \in SUBSET h.nodes : PeelFrom(h)[found] = Hull(h, found)
<1> DEFINE Rest(x) == Cardinality(h.nodes \ x)
           Bad == {k \in Nat : \E x \in SUBSET h.nodes : Rest(x) = k /\ PeelFrom(h)[x] # Hull(h, x)}
<1>1. h.nodes \subseteq Ids
  BY DEF Agree, Dags
<1>2. \A x \in SUBSET h.nodes : Rest(x) \in Nat
  BY <1>1, FewSteps
<1>3. ASSUME Bad # {} PROVE FALSE
  <2>1. PICK k \in Bad : \A j \in Bad : k <= j
    BY <1>3, Least
  <2>2. PICK x \in SUBSET h.nodes : Rest(x) = k /\ PeelFrom(h)[x] # Hull(h, x)
    OBVIOUS
  <2> DEFINE y == x \cup More(h, x)
  <2>3. y \in SUBSET h.nodes
    BY DEF More
  <2>4. ~(More(h, x) \subseteq x)
    BY <2>2, PeelStep, HullIs
  <2>5. h.nodes \ y \subseteq h.nodes \ x /\ h.nodes \ y # h.nodes \ x
    BY <2>4 DEF More
  <2>6. Rest(y) \in Nat /\ Rest(x) \in Nat /\ Rest(y) <= Rest(x) /\ Rest(y) # Rest(x)
    BY <1>1, <1>2, <2>3, <2>5, FewSteps, FS_Subset
  <2>7. ASSUME Rest(y) \in Bad PROVE FALSE
    <3>1. k <= Rest(y)
      BY <2>1, <2>7
    <3>2. k = Rest(x)
      BY <2>2
    <3> HIDE DEF Rest, Bad
    <3> QED
      BY <2>6, <3>1, <3>2
  <2>8. PeelFrom(h)[y] = Hull(h, y)
    BY <2>3, <2>6, <2>7
  <2> QED
    BY <2>2, <2>4, <2>8, PeelStep, HullIs
<1> QED
  BY <1>2, <1>3

\* A graph has a cycle when some of its steps wait for each other, or for what does not exist.
LEMMA CycleIs ==
    ASSUME NEW h, Agree(h)
    PROVE  Graph!HasCycle(h) <=> \E S \in SUBSET h.nodes : S # {} /\ StuckIn(h, S)
<1>1. Graph!Peeled(h) = Hull(h, {})
  BY PeelIs, PeelIsHull
<1>2. Hull(h, {}) \subseteq h.nodes
  BY DEF Hull
<1>3. Closed(h, Hull(h, {}))
  BY DEF Closed, Hull
<1>4. ASSUME Hull(h, {}) # h.nodes
      PROVE  \E S \in SUBSET h.nodes : S # {} /\ StuckIn(h, S)
  <2> WITNESS h.nodes \ Hull(h, {}) \in SUBSET h.nodes
  <2> QED
    BY <1>2, <1>3, <1>4 DEF Closed, StuckIn
<1>5. ASSUME NEW S \in SUBSET h.nodes, S # {}, StuckIn(h, S)
      PROVE  Hull(h, {}) # h.nodes
  <2>1. Closed(h, h.nodes \ S)
    BY <1>5 DEF Closed, StuckIn
  <2>2. Hull(h, {}) \subseteq h.nodes \ S
    BY <2>1 DEF Hull
  <2> QED
    BY <1>5, <2>2
<1> QED
  BY <1>1, <1>4, <1>5 DEF Graph!HasCycle

\* One step more, or less, in a set.
LEMMA OneMore ==
    ASSUME NEW S \in SUBSET Ids, NEW x \in Ids
    PROVE  /\ x \notin S => Cardinality(S \cup {x}) = Cardinality(S) + 1
           /\ x \in S => Cardinality(S \ {x}) = Cardinality(S) - 1 /\ Cardinality(S) > 0
<1>1. IsFiniteSet(S) /\ Cardinality(S) \in Nat /\ (Cardinality(S) = 0 <=> S = {})
  BY FewSteps
<1>2. x \notin S => Cardinality(S \cup {x}) = Cardinality(S) + 1
  BY <1>1, FS_AddElement
<1>3. x \in S => Cardinality(S \ {x}) = Cardinality(S) - 1
  BY <1>1, FS_RemoveElement
<1> QED
  BY <1>1, <1>2, <1>3

LEMMA BuildAgrees ==
    ASSUME NEW nodes \in SUBSET Ids, NEW deps \in [Ids -> SUBSET Ids], NEW conditional \in SUBSET Ids,
           NEW done \in SUBSET nodes, \A n \in Ids \ nodes : deps[n] = {}
    PROVE  Agree(Graph!Build(nodes, deps, conditional, done))
<1> DEFINE h == Graph!Build(nodes, deps, conditional, done)
<1>1. /\ h.nodes = nodes /\ h.deps = deps /\ h.done = done
      /\ h.dependents = [d \in Ids |-> {n \in nodes : d \in deps[n]}]
      /\ h.degree = [n \in Ids |-> Cardinality(deps[n])]
      /\ h.conditions = {e \in Ids \X Ids : e[2] \in conditional /\ e[1] \in deps[e[2]]}
      /\ h = [nodes |-> h.nodes, deps |-> h.deps, dependents |-> h.dependents, degree |-> h.degree,
              conditions |-> h.conditions, done |-> h.done]
  BY Counted DEF Graph!Build, Graph!Edges
<1>2. \A n \in Ids : Cardinality(deps[n]) \in Int
  BY FewSteps
<1>3. h.degree \in [Ids -> Int]
  BY <1>1, <1>2
<1>4. h.dependents \in [Ids -> SUBSET Ids] /\ h.conditions \in SUBSET (Ids \X Ids)
  BY <1>1
<1>5. h \in Dags
  BY <1>1, <1>3, <1>4 DEF Dags
<1>6. \A d, n \in Ids : <<d, n>> \in h.conditions => d \in h.deps[n]
  BY <1>1
<1>7. \A n \in Ids : h.degree[n] = Cardinality(h.deps[n])
  BY <1>1
<1>8. \A d, n \in Ids : n \in h.dependents[d] <=> n \in h.nodes /\ d \in h.deps[n]
  BY <1>1
<1> QED
  BY <1>1, <1>5, <1>6, <1>7, <1>8 DEF Agree

LEMMA GraphInit == Graph!Init => GraphInv
<1> SUFFICES ASSUME Graph!Init PROVE GraphInv
  OBVIOUS
<1>1. PICK nodes \in SUBSET Ids, deps \in [Ids -> SUBSET Ids], conditional \in SUBSET Ids :
          /\ \A n \in Ids \ nodes : deps[n] = {}
          /\ g = Graph!Build(nodes, deps, conditional, {})
  BY DEF Graph!Init
<1> QED
  BY <1>1, BuildAgrees DEF GraphInv, Graph!Init

\* The graph of a part at rest.
LEMMA EmptyAgrees == Agree(Graph!Build({}, [n \in Ids |-> {}], {}, {}))
<1>1. [n \in Ids |-> {}] \in [Ids -> SUBSET Ids]
  OBVIOUS
<1> QED
  BY <1>1, BuildAgrees

\* The records that step n leaves behind.
LeftOf(h, n) == [d \in Ids |-> IF d \in h.deps[n] THEN h.dependents[d] \ {n} ELSE h.dependents[d]]
FreedBy(h, n) == {m \in LeftOf(h, n)[n] \cap (h.nodes \ {n}) : n \in h.deps[m]}

LEMMA WithoutAgrees ==
    ASSUME NEW h, Agree(h), NEW n \in h.nodes
    PROVE  Agree(Graph!Without(h, n)) /\ \A m \in Ids : Graph!Without(h, n).deps[m] \subseteq h.deps[m] \ {n}
<1> DEFINE w == Graph!Without(h, n)
<1>z. w = Graph!Without(h, n)
  OBVIOUS
<1> HIDE DEF w
<1>0. /\ w = [nodes |-> w.nodes, deps |-> w.deps, dependents |-> w.dependents, degree |-> w.degree,
              conditions |-> w.conditions, done |-> w.done]
      /\ w.nodes = h.nodes \ {n} /\ w.done = h.done \ {n}
      /\ w.deps = [m \in Ids |-> IF m = n THEN {} ELSE IF m \in FreedBy(h, n) THEN h.deps[m] \ {n}
                                 ELSE h.deps[m]]
      /\ w.dependents = [LeftOf(h, n) EXCEPT ![n] = {}]
      /\ w.degree = [m \in Ids |-> IF m = n THEN 0 ELSE IF m \in FreedBy(h, n)
                                   THEN Graph!AtLeast0(h.degree[m] - 1) ELSE h.degree[m]]
      /\ w.conditions = h.conditions \ ((h.deps[n] \X {n}) \cup ({n} \X LeftOf(h, n)[n]))
  BY <1>z DEF Graph!Without, LeftOf, FreedBy
<1>1. h \in Dags /\ n \in Ids /\ h.nodes \subseteq Ids
  BY DEF Agree, Dags
<1>2. FreedBy(h, n) = {m \in h.nodes \ {n} : n \in h.deps[m]}
  BY <1>1 DEF FreedBy, LeftOf, Agree, Dags
<1>3. \A m \in Ids : w.deps[m] = IF m = n THEN {} ELSE h.deps[m] \ {n}
  <2> SUFFICES ASSUME NEW m \in Ids PROVE w.deps[m] = IF m = n THEN {} ELSE h.deps[m] \ {n}
    OBVIOUS
  <2>1. w.deps[m] = IF m = n THEN {} ELSE IF m \in FreedBy(h, n) THEN h.deps[m] \ {n} ELSE h.deps[m]
    BY <1>0
  <2>2. m # n /\ m \notin FreedBy(h, n) => n \notin h.deps[m]
    BY <1>2 DEF Agree
  <2> QED
    BY <2>1, <2>2
<1>4. w.deps \in [Ids -> SUBSET Ids]
  BY <1>1, <1>0 DEF Dags
<1>5. \A m \in Ids : w.degree[m] = Cardinality(w.deps[m])
  <2> SUFFICES ASSUME NEW m \in Ids PROVE w.degree[m] = Cardinality(w.deps[m])
    OBVIOUS
  <2>1. /\ h.deps[m] \in SUBSET Ids /\ h.degree[m] = Cardinality(h.deps[m])
        /\ w.degree[m] = IF m = n THEN 0 ELSE IF m \in FreedBy(h, n) THEN Graph!AtLeast0(h.degree[m] - 1)
                         ELSE h.degree[m]
    BY <1>1, <1>0 DEF Agree, Dags
  <2>2. CASE m = n
    BY <1>3, <2>1, <2>2, FS_EmptySet
  <2>3. CASE m \in FreedBy(h, n)
    <3>1. n \in h.deps[m] /\ m # n /\ w.degree[m] = Graph!AtLeast0(h.degree[m] - 1)
      BY <1>2, <2>1, <2>3
    <3>2. Cardinality(h.deps[m] \ {n}) = Cardinality(h.deps[m]) - 1 /\ Cardinality(h.deps[m]) > 0
          /\ Cardinality(h.deps[m]) \in Nat
      BY <1>1, <2>1, <3>1, OneMore, FewSteps
    <3>3. w.degree[m] = h.degree[m] - 1
      BY <2>1, <3>1, <3>2 DEF Graph!AtLeast0
    <3> QED
      BY <1>3, <2>1, <3>1, <3>2, <3>3
  <2>4. CASE m # n /\ m \notin FreedBy(h, n)
    <3>1. w.deps[m] = h.deps[m]
      BY <1>1, <2>4, <1>0
    <3> QED
      BY <2>1, <2>4, <3>1
  <2> QED
    BY <2>2, <2>3, <2>4
<1>6. \A d, m \in Ids : m \in w.dependents[d] <=> m \in w.nodes /\ d \in w.deps[m]
  <2> SUFFICES ASSUME NEW d \in Ids, NEW m \in Ids
               PROVE  m \in w.dependents[d] <=> m \in h.nodes \ {n} /\ d \in w.deps[m]
    BY <1>0
  <2>1. w.dependents[d] = IF d = n THEN {} ELSE LeftOf(h, n)[d]
    BY <1>1, <1>0 DEF LeftOf
  <2>2. LeftOf(h, n)[d] = IF d \in h.deps[n] THEN h.dependents[d] \ {n} ELSE h.dependents[d]
    BY DEF LeftOf
  <2>3. m \in h.dependents[d] <=> m \in h.nodes /\ d \in h.deps[m]
    BY DEF Agree
  <2> QED
    BY <1>3, <2>1, <2>2, <2>3
<1>7. \A d, m \in Ids : <<d, m>> \in w.conditions => d \in w.deps[m]
  <2> SUFFICES ASSUME NEW d \in Ids, NEW m \in Ids, <<d, m>> \in w.conditions PROVE d \in w.deps[m]
    OBVIOUS
  <2>1. <<d, m>> \in h.conditions /\ ~(d \in h.deps[n] /\ m = n) /\ ~(d = n /\ m \in LeftOf(h, n)[n])
    BY <1>0
  <2>2. d \in h.deps[m] /\ m # n
    BY <2>1 DEF Agree
  <2>3. d = n => m \in LeftOf(h, n)[n]
    BY <1>1, <2>2 DEF LeftOf, Agree
  <2> QED
    BY <1>3, <2>1, <2>2, <2>3
<1>8. w \in Dags
  <2>1. w.degree \in [Ids -> Int]
    <3>1. \A m \in Ids : w.degree[m] \in Int
      BY <1>4, <1>5, FewSteps
    <3> QED
      BY <3>1, <1>0
  <2>2. w.dependents \in [Ids -> SUBSET Ids]
    BY <1>1, <1>0 DEF LeftOf, Dags
  <2> QED
    BY <1>1, <1>4, <2>1, <2>2, <1>0 DEF Dags
<1>9. \A m \in Ids \ w.nodes : w.deps[m] = {}
  BY <1>3, <1>0 DEF Agree
<1>10. w.done \subseteq w.nodes
  BY <1>0 DEF Agree
<1> QED
  <2>1. Agree(w) /\ \A m \in Ids : w.deps[m] \subseteq h.deps[m] \ {n}
    BY <1>3, <1>5, <1>6, <1>7, <1>8, <1>9, <1>10 DEF Agree
  <2> QED
    BY <1>z, <2>1

\* A graph without cycles has every step that one of its steps waits for.
LEMMA NothingMissing ==
    ASSUME NEW h, Agree(h), ~Graph!HasCycle(h)
    PROVE  \A n \in h.nodes : h.deps[n] \subseteq h.nodes
<1> SUFFICES ASSUME NEW n \in h.nodes, NEW d \in h.deps[n], d \notin h.nodes PROVE FALSE
  OBVIOUS
<1>1. StuckIn(h, {n}) /\ {n} \in SUBSET h.nodes /\ {n} # {}
  BY DEF StuckIn
<1> QED
  BY <1>1, CycleIs

\* A graph with fewer dependencies and no others missing has no cycle either.
LEMMA FewerCycles ==
    ASSUME NEW h, NEW k, Agree(h), Agree(k), ~Graph!HasCycle(h),
           k.nodes \subseteq h.nodes, \A n \in k.nodes : k.deps[n] \subseteq h.deps[n],
           \A n \in k.nodes : k.deps[n] \cap h.nodes \subseteq k.nodes
    PROVE  ~Graph!HasCycle(k)
<1> SUFFICES ASSUME NEW S \in SUBSET k.nodes, S # {}, StuckIn(k, S) PROVE FALSE
  BY CycleIs
<1>1. StuckIn(h, S) /\ S \in SUBSET h.nodes
  BY DEF StuckIn
<1> QED
  BY <1>1, CycleIs

Spread(deps, n) == [d \in Ids |-> IF d \in deps THEN g.dependents[d] \cup {n} ELSE g.dependents[d]]

LEMMA AddNodeKeeps ==
    ASSUME GraphInv, NEW n \in Ids, NEW deps \in SUBSET Ids, NEW conditional \in BOOLEAN,
           Graph!AddNode(n, deps, conditional)
    PROVE  GraphInv' /\ (~Graph!HasCycle(g) => ~Graph!HasCycle(g') /\ (~answer' => g' = g))
<1> DEFINE more  == IF conditional THEN deps \X {n} ELSE {}
           added == [g EXCEPT !.nodes = @ \cup {n}, !.deps[n] = deps, !.degree[n] = Graph!Cardinality(deps),
                              !.dependents = [d \in Ids |-> IF d \in deps THEN @[d] \cup {n} ELSE @[d]],
                              !.conditions = @ \cup more]
<1>1. Agree(g) /\ g \in Dags
  BY DEF GraphInv, Agree
<1>2. CASE n \in g.nodes
  BY <1>2 DEF Graph!AddNode, GraphInv
<1>3. CASE n \notin g.nodes
  <2>1. /\ answer' = ~Graph!HasCycle(added)
        /\ g' = IF Graph!HasCycle(added) THEN Graph!Without(added, n) ELSE added
    BY <1>3 DEF Graph!AddNode
  <2>0. Graph!Cardinality(deps) = Cardinality(deps)
    BY Counted
  <2> HIDE DEF more
  <2>2. added = [nodes |-> g.nodes \cup {n}, deps |-> [g.deps EXCEPT ![n] = deps],
                 dependents |-> Spread(deps, n), degree |-> [g.degree EXCEPT ![n] = Cardinality(deps)],
                 conditions |-> g.conditions \cup more, done |-> g.done]
    <3>1. PICK a, b, c, d, e, f : g = [nodes |-> a, deps |-> b, dependents |-> c, degree |-> d,
                                       conditions |-> e, done |-> f]
      BY <1>1 DEF Dags
    <3>2. added.nodes = a \cup {n}
      BY <3>1
    <3>3. added.deps = [b EXCEPT ![n] = deps]
      BY <3>1
    <3>4. added.degree = [d EXCEPT ![n] = Cardinality(deps)]
      BY <2>0, <3>1
    <3>5. added.dependents = [x \in Ids |-> IF x \in deps THEN c[x] \cup {n} ELSE c[x]]
      BY <3>1
    <3>6. added.conditions = e \cup more
      BY <3>1
    <3>7. added.done = f
      BY <3>1
    <3>8. added = [nodes |-> added.nodes, deps |-> added.deps, dependents |-> added.dependents,
                   degree |-> added.degree, conditions |-> added.conditions, done |-> added.done]
      <4>1. DOMAIN added = DOMAIN g
        OBVIOUS
      <4>2. DOMAIN g = {"nodes", "deps", "dependents", "degree", "conditions", "done"}
        BY <3>1
      <4>3. added = [x \in DOMAIN added |-> added[x]]
        OBVIOUS
      <4> HIDE DEF added
      <4> QED
        BY <4>1, <4>2, <4>3
    <3> HIDE DEF added
    <3> QED
      BY <3>1, <3>2, <3>3, <3>4, <3>5, <3>6, <3>7, <3>8 DEF Spread
  <2> HIDE DEF added
  <2>3. /\ added.nodes = g.nodes \cup {n} /\ added.deps = [g.deps EXCEPT ![n] = deps]
        /\ added.dependents = Spread(deps, n) /\ added.degree = [g.degree EXCEPT ![n] = Cardinality(deps)]
        /\ added.conditions = g.conditions \cup more /\ added.done = g.done
    BY <2>2
  <2>4. Cardinality(deps) \in Int
    BY FewSteps
  <2>5. added.dependents \in [Ids -> SUBSET Ids]
    BY <1>1, <2>3 DEF Dags, Spread
  <2>6. more \in SUBSET (Ids \X Ids) /\ \A d, m \in Ids : <<d, m>> \in more => m = n /\ d \in deps
    BY DEF more
  <2>7. added \in Dags
    BY <1>1, <2>2, <2>3, <2>4, <2>5, <2>6 DEF Dags
  <2>8. \A d, m \in Ids : m \in added.dependents[d] <=> m \in added.nodes /\ d \in added.deps[m]
    BY <1>1, <1>3, <2>3 DEF Agree, Dags, Spread
  <2>9. \A m \in Ids : added.degree[m] = Cardinality(added.deps[m])
    BY <1>1, <2>3 DEF Agree, Dags
  <2>10. \A m \in Ids \ added.nodes : added.deps[m] = {}
    BY <1>1, <2>3 DEF Agree, Dags
  <2>11. \A d, m \in Ids : <<d, m>> \in added.conditions => d \in added.deps[m]
    <3> SUFFICES ASSUME NEW d \in Ids, NEW m \in Ids, <<d, m>> \in added.conditions PROVE d \in added.deps[m]
      OBVIOUS
    <3>1. CASE <<d, m>> \in g.conditions
      <4>1. d \in g.deps[m] /\ m # n
        BY <1>1, <1>3, <3>1 DEF Agree
      <4> QED
        BY <1>1, <2>3, <4>1 DEF Dags
    <3>2. CASE <<d, m>> \in more
      BY <1>1, <2>3, <2>6, <3>2 DEF Dags
    <3> QED
      BY <2>3, <3>1, <3>2
  <2>12. Agree(added) /\ n \in added.nodes
    BY <1>1, <2>3, <2>7, <2>8, <2>9, <2>10, <2>11 DEF Agree
  <2>13. CASE ~Graph!HasCycle(added)
    BY <2>1, <2>12, <2>13 DEF GraphInv
  <2>14. CASE Graph!HasCycle(added)
    <3>1. g' = Graph!Without(added, n) /\ answer' = FALSE
      BY <2>1, <2>14
    <3>2. GraphInv'
      BY <2>12, <3>1, WithoutAgrees DEF GraphInv
    <3>3. ASSUME ~Graph!HasCycle(g) PROVE g' = g
      <4>1. \A m \in g.nodes : n \notin g.deps[m]
        BY <1>1, <1>3, <3>3, NothingMissing
      <4>2. g.dependents[n] = {} /\ g.deps[n] = {} /\ g.degree[n] = 0 /\ n \notin g.done
        <5>1. g.deps[n] = {}
          BY <1>1, <1>3 DEF Agree
        <5>2. g.degree[n] = 0
          BY <1>1, <5>1, FS_EmptySet DEF Agree
        <5> QED
          BY <1>1, <1>3, <4>1, <5>1, <5>2 DEF Agree, Dags
      <4>3. LeftOf(added, n) = g.dependents
        <5>1. \A d \in Ids : LeftOf(added, n)[d] = IF d \in deps THEN (g.dependents[d] \cup {n}) \ {n}
                                                   ELSE g.dependents[d]
          BY <1>1, <2>3 DEF LeftOf, Spread, Dags
        <5>2. \A d \in Ids : n \notin g.dependents[d]
          BY <1>1, <1>3 DEF Agree
        <5>3. \A d \in Ids : LeftOf(added, n)[d] = g.dependents[d]
          BY <5>1, <5>2
        <5>4. g.dependents \in [Ids -> SUBSET Ids]
          BY <1>1 DEF Dags
        <5> QED
          BY <5>3, <5>4 DEF LeftOf
      <4>4. FreedBy(added, n) = {}
        BY <4>2, <4>3 DEF FreedBy
      <4>5. g' = [nodes |-> added.nodes \ {n},
                  deps |-> [m \in Ids |-> IF m = n THEN {} ELSE IF m \in FreedBy(added, n)
                                          THEN added.deps[m] \ {n} ELSE added.deps[m]],
                  dependents |-> [LeftOf(added, n) EXCEPT ![n] = {}],
                  degree |-> [m \in Ids |-> IF m = n THEN 0 ELSE IF m \in FreedBy(added, n)
                                            THEN Graph!AtLeast0(added.degree[m] - 1) ELSE added.degree[m]],
                  conditions |-> added.conditions \ ((added.deps[n] \X {n}) \cup ({n} \X LeftOf(added, n)[n])),
                  done |-> added.done \ {n}]
        BY <3>1 DEF Graph!Without, LeftOf, FreedBy
      <4>6. g'.nodes = g.nodes /\ g'.done = g.done /\ g'.dependents = g.dependents
        BY <1>1, <1>3, <2>3, <4>2, <4>3, <4>5 DEF Dags
      <4>7. g'.deps = g.deps /\ g'.degree = g.degree
        <5>1. \A m \in Ids : g'.deps[m] = g.deps[m] /\ g'.degree[m] = g.degree[m]
          BY <1>1, <2>3, <4>2, <4>4, <4>5 DEF Dags
        <5>2. g.deps \in [Ids -> SUBSET Ids] /\ g.degree \in [Ids -> Int]
          BY <1>1 DEF Dags
        <5>3. DOMAIN g'.deps = Ids /\ DOMAIN g'.degree = Ids /\ g'.deps = [m \in Ids |-> g'.deps[m]]
              /\ g'.degree = [m \in Ids |-> g'.degree[m]]
          BY <4>5
        <5> QED
          BY <5>1, <5>2, <5>3
      <4>8. g'.conditions = g.conditions
        <5>1. added.deps[n] = deps /\ LeftOf(added, n)[n] = {}
          BY <1>1, <2>3, <4>2, <4>3 DEF Dags
        <5>2. g'.conditions = (g.conditions \cup more) \ (deps \X {n}) /\ more \subseteq deps \X {n}
          BY <2>3, <4>5, <5>1 DEF more
        <5>3. \A d \in Ids : <<d, n>> \notin g.conditions
          BY <1>1, <4>2 DEF Agree
        <5>4. g.conditions \in SUBSET (Ids \X Ids)
          BY <1>1 DEF Dags
        <5> QED
          BY <5>2, <5>3, <5>4
      <4>9. g' = [nodes |-> g'.nodes, deps |-> g'.deps, dependents |-> g'.dependents, degree |-> g'.degree,
                  conditions |-> g'.conditions, done |-> g'.done]
        BY <4>5
      <4> QED
        BY <1>1, <4>6, <4>7, <4>8, <4>9 DEF Dags
    <3> QED
      BY <3>1, <3>2, <3>3
  <2> QED
    BY <2>13, <2>14
<1> QED
  BY <1>2, <1>3

\* What is linked, and unlinked, in a graph.
Linked(h, s, t) == [nodes |-> h.nodes, deps |-> [h.deps EXCEPT ![t] = h.deps[t] \cup {s}],
                    dependents |-> [h.dependents EXCEPT ![s] = h.dependents[s] \cup {t}],
                    degree |-> [h.degree EXCEPT ![t] = h.degree[t] + 1],
                    conditions |-> h.conditions, done |-> h.done]
Unlinked(h, s, t, k, conditions) ==
                   [nodes |-> h.nodes, deps |-> [h.deps EXCEPT ![t] = h.deps[t] \ {s}],
                    dependents |-> [h.dependents EXCEPT ![s] = h.dependents[s] \ {t}],
                    degree |-> [h.degree EXCEPT ![t] = k],
                    conditions |-> conditions, done |-> h.done]

\* The record that a graph is.
LEMMA DagShape ==
    ASSUME NEW h \in Dags
    PROVE  /\ h = [nodes |-> h.nodes, deps |-> h.deps, dependents |-> h.dependents, degree |-> h.degree,
                   conditions |-> h.conditions, done |-> h.done]
           /\ DOMAIN h = {"nodes", "deps", "dependents", "degree", "conditions", "done"}
BY DEF Dags

LEMMA LinkedIs ==
    ASSUME NEW h \in Dags, NEW s \in Ids, NEW t \in Ids
    PROVE  [h EXCEPT !.dependents[s] = @ \cup {t}, !.deps[t] = @ \cup {s}, !.degree[t] = @ + 1] = Linked(h, s, t)
<1> DEFINE added == [h EXCEPT !.dependents[s] = @ \cup {t}, !.deps[t] = @ \cup {s}, !.degree[t] = @ + 1]
<1>1. /\ added.nodes = h.nodes /\ added.deps = [h.deps EXCEPT ![t] = h.deps[t] \cup {s}]
      /\ added.dependents = [h.dependents EXCEPT ![s] = h.dependents[s] \cup {t}]
      /\ added.degree = [h.degree EXCEPT ![t] = h.degree[t] + 1]
      /\ added.conditions = h.conditions /\ added.done = h.done
  BY DEF Dags
<1>2. DOMAIN added = {"nodes", "deps", "dependents", "degree", "conditions", "done"}
  BY DagShape
<1>3. added = [x \in DOMAIN added |-> added[x]]
  OBVIOUS
<1> HIDE DEF added
<1>4. added = Linked(h, s, t)
  BY <1>1, <1>2, <1>3 DEF Linked
<1> QED
  BY <1>4 DEF added

LEMMA UnlinkedIs ==
    ASSUME NEW h \in Dags, NEW s \in Ids, NEW t \in Ids
    PROVE  /\ Graph!EdgeUndone(h, s, t) = Unlinked(h, s, t, h.degree[t] - 1, h.conditions)
           /\ [h EXCEPT !.dependents[s] = @ \ {t}, !.deps[t] = @ \ {s},
                        !.degree[t] = Graph!AtLeast0(@ - 1), !.conditions = @ \ {<<s, t>>}]
              = Unlinked(h, s, t, Graph!AtLeast0(h.degree[t] - 1), h.conditions \ {<<s, t>>})
<1> DEFINE undone  == [h EXCEPT !.dependents[s] = @ \ {t}, !.deps[t] = @ \ {s}, !.degree[t] = @ - 1]
           removed == [h EXCEPT !.dependents[s] = @ \ {t}, !.deps[t] = @ \ {s},
                                !.degree[t] = Graph!AtLeast0(@ - 1), !.conditions = @ \ {<<s, t>>}]
<1>1. /\ undone.nodes = h.nodes /\ undone.deps = [h.deps EXCEPT ![t] = h.deps[t] \ {s}]
      /\ undone.dependents = [h.dependents EXCEPT ![s] = h.dependents[s] \ {t}]
      /\ undone.degree = [h.degree EXCEPT ![t] = h.degree[t] - 1]
      /\ undone.conditions = h.conditions /\ undone.done = h.done
  BY DEF Dags
<1>2. DOMAIN undone = {"nodes", "deps", "dependents", "degree", "conditions", "done"}
  BY DagShape
<1>3. undone = [x \in DOMAIN undone |-> undone[x]]
  OBVIOUS
<1>4. /\ removed.nodes = h.nodes /\ removed.deps = [h.deps EXCEPT ![t] = h.deps[t] \ {s}]
      /\ removed.dependents = [h.dependents EXCEPT ![s] = h.dependents[s] \ {t}]
      /\ removed.degree = [h.degree EXCEPT ![t] = Graph!AtLeast0(h.degree[t] - 1)]
      /\ removed.conditions = h.conditions \ {<<s, t>>} /\ removed.done = h.done
  BY DEF Dags
<1>5. DOMAIN removed = {"nodes", "deps", "dependents", "degree", "conditions", "done"}
  BY DagShape
<1>6. removed = [x \in DOMAIN removed |-> removed[x]]
  OBVIOUS
<1>7. Graph!EdgeUndone(h, s, t) = undone
  BY DEF Graph!EdgeUndone
<1> HIDE DEF undone, removed
<1>8. undone = Unlinked(h, s, t, h.degree[t] - 1, h.conditions)
  BY <1>1, <1>2, <1>3 DEF Unlinked
<1>9. removed = Unlinked(h, s, t, Graph!AtLeast0(h.degree[t] - 1), h.conditions \ {<<s, t>>})
  BY <1>4, <1>5, <1>6 DEF Unlinked
<1> QED
  BY <1>7, <1>8, <1>9 DEF removed

LEMMA LinkedAgrees ==
    ASSUME NEW h, Agree(h), NEW s \in h.nodes, NEW t \in h.nodes, t \notin h.dependents[s],
           NEW more \in SUBSET {<<s, t>>}
    PROVE  /\ Agree([Linked(h, s, t) EXCEPT !.conditions = @ \cup more])
           /\ Agree(Linked(h, s, t))
           /\ Unlinked(Linked(h, s, t), s, t, Linked(h, s, t).degree[t] - 1, Linked(h, s, t).conditions) = h
<1> DEFINE added == Linked(h, s, t)
           all   == [added EXCEPT !.conditions = @ \cup more]
<1>1. h \in Dags /\ s \in Ids /\ t \in Ids
  BY DEF Agree, Dags
<1>2. /\ added.nodes = h.nodes /\ added.deps = [h.deps EXCEPT ![t] = h.deps[t] \cup {s}]
      /\ added.dependents = [h.dependents EXCEPT ![s] = h.dependents[s] \cup {t}]
      /\ added.degree = [h.degree EXCEPT ![t] = h.degree[t] + 1]
      /\ added.conditions = h.conditions /\ added.done = h.done
  BY DEF Linked
<1>3. s \notin h.deps[t]
  BY <1>1 DEF Agree
<1>4. \A m \in Ids : added.deps[m] = IF m = t THEN h.deps[t] \cup {s} ELSE h.deps[m]
  BY <1>1, <1>2 DEF Dags
<1>5. \A m \in Ids : added.degree[m] = IF m = t THEN h.degree[t] + 1 ELSE h.degree[m]
  BY <1>1, <1>2 DEF Dags
<1>6. \A m \in Ids : added.degree[m] = Cardinality(added.deps[m])
  <2>1. Cardinality(h.deps[t] \cup {s}) = Cardinality(h.deps[t]) + 1
    BY <1>1, <1>3, OneMore DEF Dags
  <2> QED
    BY <1>1, <1>4, <1>5, <2>1 DEF Agree
<1>7. \A d, m \in Ids : m \in added.dependents[d] <=> m \in added.nodes /\ d \in added.deps[m]
  <2> SUFFICES ASSUME NEW d \in Ids, NEW m \in Ids
               PROVE  m \in added.dependents[d] <=> m \in h.nodes /\ d \in added.deps[m]
    BY <1>2
  <2>1. added.dependents[d] = IF d = s THEN h.dependents[s] \cup {t} ELSE h.dependents[d]
    BY <1>1, <1>2 DEF Dags
  <2>2. m \in h.dependents[d] <=> m \in h.nodes /\ d \in h.deps[m]
    BY DEF Agree
  <2> HIDE DEF added
  <2> QED
    BY <1>4, <2>1, <2>2
<1>8. added \in Dags
  <2>1. /\ [h.deps EXCEPT ![t] = h.deps[t] \cup {s}] \in [Ids -> SUBSET Ids]
        /\ [h.dependents EXCEPT ![s] = h.dependents[s] \cup {t}] \in [Ids -> SUBSET Ids]
    BY <1>1 DEF Dags
  <2>2. [h.degree EXCEPT ![t] = h.degree[t] + 1] \in [Ids -> Int]
    BY <1>1 DEF Dags
  <2> QED
    BY <1>1, <2>1, <2>2 DEF Dags, Linked
<1>9. \A m \in Ids \ added.nodes : added.deps[m] = {}
  BY <1>1, <1>2, <1>4 DEF Agree
<1>10. \A d, m \in Ids : <<d, m>> \in h.conditions \cup more => d \in added.deps[m]
  <2> SUFFICES ASSUME NEW d \in Ids, NEW m \in Ids, <<d, m>> \in h.conditions \cup more
               PROVE  d \in added.deps[m]
    OBVIOUS
  <2>1. <<d, m>> \in h.conditions => d \in h.deps[m]
    BY DEF Agree
  <2>2. <<d, m>> \in more => d = s /\ m = t
    OBVIOUS
  <2> HIDE DEF added
  <2> QED
    BY <1>4, <2>1, <2>2
<1>11. Agree(added)
  BY <1>2, <1>6, <1>7, <1>8, <1>9, <1>10 DEF Agree
<1>12. /\ all.nodes = added.nodes /\ all.deps = added.deps /\ all.dependents = added.dependents
       /\ all.degree = added.degree /\ all.conditions = added.conditions \cup more /\ all.done = added.done
       /\ all \in Dags
  <2>1. added.conditions \cup more \in SUBSET (Ids \X Ids)
    BY <1>1, <1>2 DEF Dags
  <2> HIDE DEF added
  <2> QED
    BY <1>8, <2>1 DEF Dags
<1> HIDE DEF all
<1>13. Agree(all)
  BY <1>2, <1>10, <1>11, <1>12 DEF Agree
<1>14. Unlinked(added, s, t, added.degree[t] - 1, added.conditions) = h
  <2> DEFINE back == Unlinked(added, s, t, added.degree[t] - 1, added.conditions)
  <2>1. /\ back.deps = [added.deps EXCEPT ![t] = added.deps[t] \ {s}]
        /\ back.dependents = [added.dependents EXCEPT ![s] = added.dependents[s] \ {t}]
        /\ back.degree = [added.degree EXCEPT ![t] = added.degree[t] - 1]
        /\ back = [nodes |-> h.nodes, deps |-> back.deps, dependents |-> back.dependents,
                   degree |-> back.degree, conditions |-> h.conditions, done |-> h.done]
    BY <1>2 DEF Unlinked
  <2> HIDE DEF back
  <2>2. back.deps = h.deps
    <3>1. (h.deps[t] \cup {s}) \ {s} = h.deps[t]
      BY <1>3
    <3> QED
      BY <1>1, <1>2, <2>1, <3>1 DEF Dags
  <2>3. back.dependents = h.dependents
    <3>1. (h.dependents[s] \cup {t}) \ {t} = h.dependents[s]
      OBVIOUS
    <3> QED
      BY <1>1, <1>2, <2>1, <3>1 DEF Dags
  <2>4. back.degree = h.degree
    <3>1. h.degree[t] \in Int
      BY <1>1 DEF Dags
    <3>2. (h.degree[t] + 1) - 1 = h.degree[t]
      BY <3>1
    <3>3. added.degree[t] - 1 = h.degree[t]
      BY <1>1, <1>5, <3>2
    <3> QED
      BY <1>1, <1>2, <2>1, <3>3 DEF Dags
  <2>5. back = h
    BY <1>1, <2>1, <2>2, <2>3, <2>4, DagShape
  <2> QED
    BY <2>5 DEF back
<1> QED
  BY <1>11, <1>13, <1>14 DEF all

\* Graphs with the same steps and dependencies have cycles alike.
LEMMA SameCycles ==
    ASSUME NEW h, NEW k, Agree(h), Agree(k), k.nodes = h.nodes, k.deps = h.deps
    PROVE  Graph!HasCycle(k) <=> Graph!HasCycle(h)
<1>1. \A S : StuckIn(k, S) <=> StuckIn(h, S)
  BY DEF StuckIn
<1> QED
  BY <1>1, CycleIs

LEMMA AddEdgeKeeps ==
    ASSUME GraphInv, NEW s \in Ids, NEW t \in Ids, NEW conditional \in BOOLEAN,
           Graph!AddEdge(s, t, conditional)
    PROVE  GraphInv' /\ (~Graph!HasCycle(g) => ~Graph!HasCycle(g') /\ (~answer' => g' = g))
<1> DEFINE more  == IF conditional THEN {<<s, t>>} ELSE {}
           added == [g EXCEPT !.dependents[s] = @ \cup {t}, !.deps[t] = @ \cup {s}, !.degree[t] = @ + 1]
<1>1. Agree(g) /\ g \in Dags
  BY DEF GraphInv, Agree
<1>2. added = Linked(g, s, t)
  BY <1>1, LinkedIs
<1>3. \/ /\ s \notin g.nodes \/ t \notin g.nodes \/ t \in g.dependents[s]
         /\ answer' = FALSE /\ g' = g
      \/ /\ s \in g.nodes /\ t \in g.nodes /\ t \notin g.dependents[s]
         /\ Graph!HasCycle(added) /\ answer' = FALSE /\ g' = Graph!EdgeUndone(added, s, t)
      \/ /\ s \in g.nodes /\ t \in g.nodes /\ t \notin g.dependents[s]
         /\ ~Graph!HasCycle(added) /\ answer' = TRUE /\ g' = [added EXCEPT !.conditions = @ \cup more]
  BY DEF Graph!AddEdge, Graph!Closes
<1> HIDE DEF added
<1>4. CASE answer' = FALSE /\ g' = g
  BY <1>1, <1>4 DEF GraphInv
<1>5. CASE /\ s \in g.nodes /\ t \in g.nodes /\ t \notin g.dependents[s]
           /\ Graph!HasCycle(added) /\ answer' = FALSE /\ g' = Graph!EdgeUndone(added, s, t)
  <2>1. Agree(added) /\ Unlinked(added, s, t, added.degree[t] - 1, added.conditions) = g
    BY <1>1, <1>2, <1>5, LinkedAgrees
  <2>2. added \in Dags
    BY <2>1 DEF Agree
  <2>3. g' = g
    BY <1>5, <2>1, <2>2, UnlinkedIs
  <2> QED
    BY <1>1, <1>5, <2>3 DEF GraphInv
<1>6. CASE /\ s \in g.nodes /\ t \in g.nodes /\ t \notin g.dependents[s]
           /\ ~Graph!HasCycle(added) /\ answer' = TRUE /\ g' = [added EXCEPT !.conditions = @ \cup more]
  <2>1. more \in SUBSET {<<s, t>>}
    OBVIOUS
  <2> HIDE DEF more
  <2>2. Agree(g') /\ Agree(added)
    BY <1>1, <1>2, <1>6, <2>1, LinkedAgrees
  <2>3. g'.nodes = added.nodes /\ g'.deps = added.deps
    BY <1>6, <2>2 DEF Agree, Dags
  <2>4. ~Graph!HasCycle(g')
    BY <1>6, <2>2, <2>3, SameCycles
  <2> QED
    BY <1>6, <2>2, <2>4 DEF GraphInv
<1> QED
  BY <1>3, <1>4, <1>5, <1>6

LEMMA RemoveEdgeKeeps ==
    ASSUME GraphInv, NEW s \in Ids, NEW t \in Ids, Graph!RemoveEdge(s, t)
    PROVE  GraphInv' /\ answer' = TRUE /\ (~Graph!HasCycle(g) => ~Graph!HasCycle(g'))
<1> DEFINE k == Graph!AtLeast0(g.degree[t] - 1)
<1>1. Agree(g) /\ g \in Dags
  BY DEF GraphInv, Agree
<1>2. t \in g.dependents[s] /\ answer' = TRUE
  BY DEF Graph!RemoveEdge
<1>3. g' = Unlinked(g, s, t, k, g.conditions \ {<<s, t>>})
  BY <1>1, UnlinkedIs DEF Graph!RemoveEdge
<1>4. t \in g.nodes /\ s \in g.deps[t]
  BY <1>1, <1>2 DEF Agree
<1>5. Cardinality(g.deps[t] \ {s}) = Cardinality(g.deps[t]) - 1 /\ Cardinality(g.deps[t]) > 0
      /\ Cardinality(g.deps[t]) \in Nat
  BY <1>1, <1>4, OneMore, FewSteps DEF Dags
<1>6. k = Cardinality(g.deps[t] \ {s}) /\ k \in Int
  <2>1. g.degree[t] = Cardinality(g.deps[t])
    BY <1>1 DEF Agree
  <2> QED
    BY <1>5, <2>1 DEF Graph!AtLeast0
<1> HIDE DEF k
<1>7. /\ g'.nodes = g.nodes /\ g'.deps = [g.deps EXCEPT ![t] = g.deps[t] \ {s}]
      /\ g'.dependents = [g.dependents EXCEPT ![s] = g.dependents[s] \ {t}]
      /\ g'.degree = [g.degree EXCEPT ![t] = k]
      /\ g'.conditions = g.conditions \ {<<s, t>>} /\ g'.done = g.done
      /\ g' = [nodes |-> g'.nodes, deps |-> g'.deps, dependents |-> g'.dependents, degree |-> g'.degree,
               conditions |-> g'.conditions, done |-> g'.done]
  BY <1>3 DEF Unlinked
<1>8. \A m \in Ids : g'.deps[m] = IF m = t THEN g.deps[t] \ {s} ELSE g.deps[m]
  BY <1>1, <1>7 DEF Dags
<1>9. \A m \in Ids : g'.degree[m] = IF m = t THEN k ELSE g.degree[m]
  BY <1>1, <1>7 DEF Dags
<1>10. \A d \in Ids : g'.dependents[d] = IF d = s THEN g.dependents[s] \ {t} ELSE g.dependents[d]
  BY <1>1, <1>7 DEF Dags
<1>11. g' \in Dags
  <2>1. g'.deps \in [Ids -> SUBSET Ids] /\ g'.dependents \in [Ids -> SUBSET Ids]
    BY <1>1, <1>7 DEF Dags
  <2>2. g'.degree \in [Ids -> Int]
    BY <1>1, <1>6, <1>7 DEF Dags
  <2>3. g'.nodes \in SUBSET Ids /\ g'.done \in SUBSET Ids /\ g'.conditions \in SUBSET (Ids \X Ids)
    BY <1>1, <1>7 DEF Dags
  <2> QED
    BY <1>7, <2>1, <2>2, <2>3 DEF Dags
<1>12. \A m \in Ids : g'.degree[m] = Cardinality(g'.deps[m])
  BY <1>1, <1>6, <1>8, <1>9 DEF Agree
<1>13. \A d, m \in Ids : m \in g'.dependents[d] <=> m \in g'.nodes /\ d \in g'.deps[m]
  BY <1>1, <1>7, <1>8, <1>10 DEF Agree
<1>14. \A d, m \in Ids : <<d, m>> \in g'.conditions => d \in g'.deps[m]
  <2> SUFFICES ASSUME NEW d \in Ids, NEW m \in Ids, <<d, m>> \in g'.conditions PROVE d \in g'.deps[m]
    OBVIOUS
  <2>1. d \in g.deps[m] /\ ~(d = s /\ m = t)
    BY <1>1, <1>7 DEF Agree
  <2> QED
    BY <1>8, <2>1
<1>15. Agree(g')
  BY <1>1, <1>7, <1>8, <1>11, <1>12, <1>13, <1>14 DEF Agree
<1>16. ~Graph!HasCycle(g) => ~Graph!HasCycle(g')
  <2>1. \A m \in g'.nodes : m \in Ids
    BY <1>11 DEF Dags
  <2>2. \A m \in g'.nodes : g'.deps[m] \subseteq g.deps[m]
    BY <1>8, <2>1
  <2> QED
    BY <1>1, <1>7, <1>15, <2>2, FewerCycles
<1> QED
  BY <1>2, <1>15, <1>16 DEF GraphInv

LEMMA RemoveNodeKeeps ==
    ASSUME GraphInv, NEW n \in Ids, Graph!RemoveNode(n)
    PROVE  GraphInv' /\ answer' = TRUE /\ (~Graph!HasCycle(g) => ~Graph!HasCycle(g'))
<1>1. Agree(g) /\ n \in g.nodes /\ g' = Graph!Without(g, n) /\ answer' = TRUE
  BY DEF GraphInv, Graph!RemoveNode
<1>2. Agree(g') /\ \A m \in Ids : g'.deps[m] \subseteq g.deps[m] \ {n}
  BY <1>1, WithoutAgrees
<1>3. g'.nodes = g.nodes \ {n}
  BY <1>1 DEF Graph!Without
<1>4. \A m \in g'.nodes : m \in Ids
  BY <1>2 DEF Agree, Dags
<1>5. /\ g'.nodes \subseteq g.nodes /\ \A m \in g'.nodes : g'.deps[m] \subseteq g.deps[m]
      /\ \A m \in g'.nodes : g'.deps[m] \cap g.nodes \subseteq g'.nodes
  BY <1>2, <1>3, <1>4
<1> QED
  BY <1>1, <1>2, <1>5, FewerCycles DEF GraphInv

LEMMA UpdateDoneKeeps ==
    ASSUME GraphInv, NEW n \in Ids, Graph!Update(n)
    PROVE  GraphInv' /\ answer' = TRUE /\ (~Graph!HasCycle(g) => ~Graph!HasCycle(g'))
<1>1. Agree(g) /\ g \in Dags
  BY DEF GraphInv, Agree
<1>2. n \in g.nodes /\ g' = [g EXCEPT !.done = g.done \cup {n}] /\ answer' = TRUE
  BY DEF Graph!Update
<1>3. /\ g'.nodes = g.nodes /\ g'.deps = g.deps /\ g'.dependents = g.dependents /\ g'.degree = g.degree
      /\ g'.conditions = g.conditions /\ g'.done = g.done \cup {n} /\ g' \in Dags
  BY <1>1, <1>2 DEF Dags
<1>4. Agree(g')
  BY <1>1, <1>2, <1>3 DEF Agree
<1> QED
  BY <1>1, <1>2, <1>3, <1>4, SameCycles DEF GraphInv

LEMMA ReloadKeeps ==
    ASSUME GraphInv, Graph!Reload
    PROVE  GraphInv' /\ answer' = TRUE /\ (~Graph!HasCycle(g) => ~Graph!HasCycle(g'))
<1> DEFINE conditional == {e[2] : e \in g.conditions}
<1>1. Agree(g) /\ g \in Dags
  BY DEF GraphInv, Agree
<1>2. g' = Graph!Build(g.nodes, g.deps, conditional, g.done) /\ answer' = TRUE
  BY DEF Graph!Reload
<1>3. /\ conditional \in SUBSET Ids /\ g.nodes \in SUBSET Ids /\ g.deps \in [Ids -> SUBSET Ids]
      /\ g.done \in SUBSET g.nodes /\ \A n \in Ids \ g.nodes : g.deps[n] = {}
  BY <1>1 DEF Agree, Dags
<1> HIDE DEF conditional
<1>4. Agree(g')
  BY <1>2, <1>3, BuildAgrees
<1>5. g'.nodes = g.nodes /\ g'.deps = g.deps
  BY <1>2 DEF Graph!Build
<1> QED
  BY <1>1, <1>2, <1>4, <1>5, SameCycles DEF GraphInv

LEMMA GraphStep ==
    ASSUME GraphInv, Graph!Next
    PROVE  GraphInv' /\ (~Graph!HasCycle(g) => ~Graph!HasCycle(g') /\ (~answer' => g' = g))
<1>1. ASSUME NEW n \in Ids, Graph!Update(n) \/ Graph!RemoveNode(n)
      PROVE  GraphInv' /\ answer' = TRUE /\ (~Graph!HasCycle(g) => ~Graph!HasCycle(g'))
  BY <1>1, UpdateDoneKeeps, RemoveNodeKeeps
<1>2. ASSUME NEW s \in Ids, NEW t \in Ids, Graph!RemoveEdge(s, t)
      PROVE  GraphInv' /\ answer' = TRUE /\ (~Graph!HasCycle(g) => ~Graph!HasCycle(g'))
  BY <1>2, RemoveEdgeKeeps
<1> QED
  BY <1>1, <1>2, AddNodeKeeps, AddEdgeKeeps, ReloadKeeps DEF Graph!Next

-----------------------------------------------------------------------------
(* The order of the steps.                                                 *)

\* What a sequence lists, and that it lists nothing twice.
Members(q) == {q[i] : i \in 1..Len(q)}
Apart(q)   == \A i, j \in 1..Len(q) : q[i] = q[j] => i = j

LEMMA JoinedApart ==
    ASSUME NEW p \in Seq(Ids), NEW q \in Seq(Ids)
    PROVE  /\ p \o q \in Seq(Ids) /\ Members(p \o q) = Members(p) \cup Members(q)
           /\ Apart(p) /\ Apart(q) /\ Members(p) \cap Members(q) = {} => Apart(p \o q)
<1> DEFINE j == p \o q
<1>1. /\ j \in Seq(Ids) /\ Len(j) = Len(p) + Len(q) /\ Len(p) \in Nat /\ Len(q) \in Nat
      /\ \A i \in 1..Len(p) + Len(q) : j[i] = IF i <= Len(p) THEN p[i] ELSE q[i - Len(p)]
  BY ConcatProperties, LenProperties
<1> HIDE DEF j
<1>2. Members(j) = Members(p) \cup Members(q)
  <2>1. ASSUME NEW i \in 1..Len(j) PROVE j[i] \in Members(p) \cup Members(q)
    BY <1>1 DEF Members
  <2>2. ASSUME NEW i \in 1..Len(p) PROVE p[i] \in Members(j)
    <3>1. i \in 1..Len(j) /\ j[i] = p[i]
      BY <1>1
    <3> QED
      BY <3>1 DEF Members
  <2>3. ASSUME NEW i \in 1..Len(q) PROVE q[i] \in Members(j)
    <3> DEFINE k == Len(p) + i
    <3>2. k \in 1..Len(p) + Len(q) /\ ~(k <= Len(p)) /\ k - Len(p) = i
      BY <1>1
    <3> HIDE DEF k
    <3>1. k \in 1..Len(j) /\ j[k] = q[i]
      BY <1>1, <3>2
    <3> QED
      BY <3>1 DEF Members
  <2> QED
    BY <2>1, <2>2, <2>3 DEF Members
<1>3. ASSUME Apart(p), Apart(q), Members(p) \cap Members(q) = {} PROVE Apart(j)
  <2> SUFFICES ASSUME NEW a \in 1..Len(j), NEW b \in 1..Len(j), j[a] = j[b] PROVE a = b
    BY DEF Apart
  <2>1. CASE a <= Len(p) /\ b <= Len(p)
    BY <1>1, <1>3, <2>1 DEF Apart
  <2>2. CASE a > Len(p) /\ b > Len(p)
    <3>1. a - Len(p) \in 1..Len(q) /\ b - Len(p) \in 1..Len(q) /\ q[a - Len(p)] = q[b - Len(p)]
      BY <1>1, <2>2
    <3>2. a - Len(p) = b - Len(p)
      BY <1>3, <3>1 DEF Apart
    <3> QED
      BY <1>1, <3>2
  <2>3. \A x \in 1..Len(p), y \in 1..Len(q) : p[x] # q[y]
    BY <1>3 DEF Members
  <2>4. CASE a <= Len(p) /\ b > Len(p)
    <3>1. a \in 1..Len(p) /\ b - Len(p) \in 1..Len(q) /\ p[a] = q[b - Len(p)]
      BY <1>1, <2>4
    <3> QED
      BY <2>3, <3>1
  <2>5. CASE a > Len(p) /\ b <= Len(p)
    <3>1. b \in 1..Len(p) /\ a - Len(p) \in 1..Len(q) /\ p[b] = q[a - Len(p)]
      BY <1>1, <2>5
    <3> QED
      BY <2>3, <3>1
  <2> QED
    BY <1>1, <2>1, <2>2, <2>4, <2>5
<1> QED
  BY <1>1, <1>2, <1>3 DEF j

LEMMA AppendedApart ==
    ASSUME NEW q \in Seq(Ids), NEW x \in Ids
    PROVE  /\ Append(q, x) \in Seq(Ids) /\ Members(Append(q, x)) = Members(q) \cup {x}
           /\ Len(Append(q, x)) = Len(q) + 1 /\ Len(q) \in Nat
           /\ \A i \in 1..Len(q) : Append(q, x)[i] = q[i]
           /\ Append(q, x)[Len(q) + 1] = x
           /\ Apart(q) /\ x \notin Members(q) => Apart(Append(q, x))
<1> DEFINE a == Append(q, x)
<1>1. /\ a \in Seq(Ids) /\ Len(a) = Len(q) + 1 /\ Len(q) \in Nat
      /\ \A i \in 1..Len(q) : a[i] = q[i]
      /\ a[Len(q) + 1] = x
  BY AppendProperties, LenProperties
<1> HIDE DEF a
<1>2. \A i \in 1..Len(a) : i \in 1..Len(q) \/ i = Len(q) + 1
  BY <1>1
<1>3. \A i \in 1..Len(q) : i \in 1..Len(a)
  BY <1>1
<1>4. Len(q) + 1 \in 1..Len(a)
  BY <1>1
<1>5. Members(a) = Members(q) \cup {x}
  <2>1. Members(a) \subseteq Members(q) \cup {x}
    BY <1>1, <1>2 DEF Members
  <2>2. Members(q) \subseteq Members(a)
    BY <1>1, <1>3 DEF Members
  <2>3. x \in Members(a)
    BY <1>1, <1>4 DEF Members
  <2> QED
    BY <2>1, <2>2, <2>3
<1>6. ASSUME Apart(q), x \notin Members(q) PROVE Apart(a)
  <2>1. \A i \in 1..Len(q) : q[i] # x
    BY <1>6 DEF Members
  <2> QED
    BY <1>1, <1>2, <1>6, <2>1 DEF Apart
<1> QED
  BY <1>1, <1>5, <1>6 DEF a

LEMMA TailApart ==
    ASSUME NEW q \in Seq(Ids), q # <<>>, Apart(q)
    PROVE  /\ Head(q) \in Members(q) /\ Head(q) \in Ids /\ Tail(q) \in Seq(Ids)
           /\ Members(Tail(q)) = Members(q) \ {Head(q)} /\ Apart(Tail(q))
<1> DEFINE t == Tail(q)
<1>1. /\ t \in Seq(Ids) /\ Len(t) = Len(q) - 1 /\ Len(q) \in Nat /\ Len(q) > 0
      /\ \A i \in 1..Len(t) : t[i] = q[i + 1]
      /\ Head(q) = q[1] /\ Head(q) \in Ids
  BY HeadTailProperties, LenProperties, EmptySeq
<1> HIDE DEF t
<1>2. 1 \in 1..Len(q) /\ \A i \in 1..Len(t) : i + 1 \in 1..Len(q) /\ i + 1 # 1
  BY <1>1
<1>3. \A i \in 1..Len(q) : i = 1 \/ (i - 1 \in 1..Len(t) /\ t[i - 1] = q[i])
  BY <1>1
<1>4. Members(t) \subseteq Members(q) \ {q[1]}
  <2> SUFFICES ASSUME NEW i \in 1..Len(t) PROVE t[i] \in Members(q) /\ t[i] # q[1]
    BY DEF Members
  <2>1. t[i] = q[i + 1] /\ i + 1 \in 1..Len(q) /\ i + 1 # 1
    BY <1>1, <1>2
  <2> QED
    BY <1>2, <2>1 DEF Members, Apart
<1>5. Members(q) \ {q[1]} \subseteq Members(t)
  BY <1>3 DEF Members
<1>6. Apart(t)
  <2> SUFFICES ASSUME NEW i \in 1..Len(t), NEW j \in 1..Len(t), t[i] = t[j] PROVE i = j
    BY DEF Apart
  <2>1. i + 1 \in 1..Len(q) /\ j + 1 \in 1..Len(q) /\ q[i + 1] = q[j + 1]
    BY <1>1, <1>2
  <2>2. i + 1 = j + 1
    BY <2>1 DEF Apart
  <2> QED
    BY <1>1, <2>2
<1>7. Head(q) \in Members(q)
  BY <1>1, <1>2 DEF Members
<1> QED
  BY <1>1, <1>4, <1>5, <1>6, <1>7 DEF t

\* A set as a sequence.
LEMMA SetToSeqIs ==
    ASSUME NEW S \in SUBSET Ids
    PROVE  /\ Graph!SetToSeq(S) \in Seq(Ids) /\ Apart(Graph!SetToSeq(S))
           /\ Members(Graph!SetToSeq(S)) = S
<1> DEFINE n == Cardinality(S)
           q == Graph!SetToSeq(S)
           P(f) == \A a, b \in DOMAIN f : f[a] = f[b] => a = b
<1>1. IsFiniteSet(S) /\ n \in Nat /\ ExistsBijection(1..n, S)
  BY FewSteps, FS_CardinalityType
<1>2. PICK f \in Bijection(1..n, S) : TRUE
  BY <1>1 DEF ExistsBijection
<1>3. f \in [1..n -> S] /\ P(f)
  BY <1>2 DEF Bijection, Injection, IsInjective
<1>4. q = CHOOSE x \in [1..n -> S] : P(x)
  BY Counted DEF Graph!SetToSeq, Graph!IsInjective
<1>5. q \in [1..n -> S] /\ P(q)
  <2> HIDE DEF P, q
  <2> QED
    BY <1>3, <1>4
<1> HIDE DEF q
<1>6. q \in Seq(S) /\ Len(q) = n
  BY <1>1, <1>5, SeqDef
<1>7. Apart(q)
  BY <1>5, <1>6 DEF Apart
<1>8. q \in Injection(1..n, S)
  BY <1>5 DEF Injection, IsInjective
<1>9. Cardinality(1..n) = n
  BY <1>1, FS_Interval
<1>10. q \in Surjection(1..n, S)
  BY <1>1, <1>8, <1>9, FS_Injection
<1>11. Members(q) = S
  BY <1>5, <1>6, <1>10 DEF Members, Surjection
<1>12. q \in Seq(Ids)
  BY <1>6, SeqMonotonic
<1> QED
  BY <1>7, <1>11, <1>12 DEF q

\* The states of the sort, and the next of one with a queue.
Sorting == [queue : Seq(Ids), degree : [Ids -> Int], result : Seq(Ids)]
Down(s) == [n \in Ids |-> IF n \in g.dependents[Head(s.queue)] THEN s.degree[n] - 1 ELSE s.degree[n]]
Freed(s) == {n \in g.dependents[Head(s.queue)] : Down(s)[n] = 0}
After(s) == [queue |-> Tail(s.queue) \o Graph!SetToSeq(Freed(s)), degree |-> Down(s),
             result |-> Append(s.result, Head(s.queue))]
Walk == CHOOSE f : f = [s \in Sorting |-> IF s.queue = <<>> THEN s.result ELSE f[After(s)]]

LEMMA SortIs ==
    Graph!Sorted = Walk[[queue |-> Graph!SetToSeq({n \in g.nodes : g.degree[n] = 0}),
                         degree |-> g.degree, result |-> <<>>]]
BY DEF Graph!Sorted, Walk, After, Down, Freed, Sorting

LEMMA AfterIs ==
    ASSUME Agree(g), NEW s \in Sorting, s.queue # <<>>
    PROVE  /\ Head(s.queue) \in Ids /\ After(s) \in Sorting
           /\ Freed(s) \in SUBSET g.dependents[Head(s.queue)] /\ Freed(s) \in SUBSET Ids
<1>1. s.queue \in Seq(Ids) /\ s.degree \in [Ids -> Int] /\ s.result \in Seq(Ids) /\ g \in Dags
  BY DEF Sorting, Agree
<1>2. Head(s.queue) \in Ids /\ Tail(s.queue) \in Seq(Ids)
  BY <1>1, HeadTailProperties
<1>3. Down(s) \in [Ids -> Int]
  BY <1>1 DEF Down
<1>4. Freed(s) \in SUBSET g.dependents[Head(s.queue)] /\ Freed(s) \in SUBSET Ids
  BY <1>1, <1>2 DEF Freed, Dags
<1>5. Tail(s.queue) \o Graph!SetToSeq(Freed(s)) \in Seq(Ids)
  BY <1>2, <1>4, SetToSeqIs, JoinedApart
<1>6. Append(s.result, Head(s.queue)) \in Seq(Ids)
  BY <1>1, <1>2, AppendedApart
<1> QED
  BY <1>2, <1>3, <1>4, <1>5, <1>6 DEF After, Sorting

\* What the sort ends with, as the least relation that its end and its steps allow.
Allowed(P) ==
    /\ \A s \in Sorting : s.queue = <<>> => <<s, s.result>> \in P
    /\ \A s \in Sorting, r \in Seq(Ids) : s.queue # <<>> /\ <<After(s), r>> \in P => <<s, r>> \in P
Ends(s) == {r \in Seq(Ids) : \A P \in SUBSET (Sorting \X Seq(Ids)) : Allowed(P) => <<s, r>> \in P}

LEMMA EndsAt ==
    ASSUME NEW s \in Sorting, s.queue = <<>>
    PROVE  Ends(s) = {s.result}
<1>1. s.result \in Seq(Ids)
  BY DEF Sorting
<1>2. s.result \in Ends(s)
  BY <1>1 DEF Ends, Allowed
<1>3. ASSUME NEW r \in Ends(s), r # s.result PROVE FALSE
  <2> DEFINE P == (Sorting \X Seq(Ids)) \ {<<s, r>>}
  <2>1. \A x \in Sorting : x.queue = <<>> => <<x, x.result>> \in P
    BY <1>3 DEF Sorting
  <2>2. \A x \in Sorting, y \in Seq(Ids) : x.queue # <<>> => <<x, y>> \in P
    OBVIOUS
  <2>3. P \in SUBSET (Sorting \X Seq(Ids)) /\ <<s, r>> \notin P
    OBVIOUS
  <2> HIDE DEF P
  <2>4. Allowed(P)
    BY <2>1, <2>2 DEF Allowed
  <2> QED
    BY <1>3, <2>3, <2>4 DEF Ends
<1> QED
  BY <1>2, <1>3

LEMMA EndsAfter ==
    ASSUME NEW s \in Sorting, s.queue # <<>>, After(s) \in Sorting
    PROVE  Ends(s) = Ends(After(s))
<1>1. Ends(After(s)) \subseteq Ends(s)
  BY DEF Ends, Allowed
<1>2. ASSUME NEW r \in Ends(s), NEW P \in SUBSET (Sorting \X Seq(Ids)), Allowed(P), <<After(s), r>> \notin P
      PROVE  FALSE
  <2> DEFINE R == P \ {<<s, r>>}
  <2>1. \A x \in Sorting : x.queue = <<>> => <<x, x.result>> \in R
    BY <1>2 DEF Allowed
  <2>2. ASSUME NEW x \in Sorting, NEW y \in Seq(Ids), x.queue # <<>>, <<After(x), y>> \in R
        PROVE  <<x, y>> \in R
    <3>1. <<x, y>> \in P
      BY <1>2, <2>2 DEF Allowed
    <3>2. <<x, y>> # <<s, r>>
      BY <1>2, <2>2
    <3> QED
      BY <3>1, <3>2
  <2>3. R \in SUBSET (Sorting \X Seq(Ids)) /\ <<s, r>> \notin R
    OBVIOUS
  <2> HIDE DEF R
  <2>4. Allowed(R)
    BY <2>1, <2>2 DEF Allowed
  <2> QED
    BY <1>2, <2>3, <2>4 DEF Ends
<1>3. Ends(s) \subseteq Ends(After(s))
  BY <1>2 DEF Ends
<1> QED
  BY <1>1, <1>3

LEMMA WalkIs ==
    ASSUME Agree(g), NEW s \in Sorting
    PROVE  Walk[s] = IF s.queue = <<>> THEN s.result ELSE Walk[After(s)]
<1> DEFINE P(f) == f = [x \in Sorting |-> IF x.queue = <<>> THEN x.result ELSE f[After(x)]]
           end == [x \in Sorting |-> CHOOSE r : r \in Ends(x)]
<1>1. ASSUME NEW x \in Sorting
      PROVE  end[x] = IF x.queue = <<>> THEN x.result ELSE end[After(x)]
  <2>1. CASE x.queue = <<>>
    <3>1. Ends(x) = {x.result}
      BY <2>1, EndsAt
    <3>2. end[x] = CHOOSE r : r \in {x.result}
      BY <3>1
    <3> QED
      BY <2>1, <3>2
  <2>2. CASE x.queue # <<>>
    <3>1. After(x) \in Sorting
      BY <2>2, AfterIs
    <3>2. Ends(x) = Ends(After(x))
      BY <2>2, <3>1, EndsAfter
    <3> QED
      BY <2>2, <3>1, <3>2
  <2> QED
    BY <2>1, <2>2
<1>2. P(end)
  <2>1. end = [x \in Sorting |-> end[x]]
    OBVIOUS
  <2> HIDE DEF end
  <2> QED
    BY <1>1, <2>1
<1>3. Walk = CHOOSE f : P(f)
  BY DEF Walk
<1> HIDE DEF end
<1>4. P(Walk)
  <2> HIDE DEF P
  <2> QED
    BY <1>2, <1>3
<1> QED
  BY <1>4

\* What holds of the sort while it runs: nothing is listed twice or before what it depends on, just
\* those are listed or queued whose dependencies are listed, and the degrees count the others.
Placed(s) == Members(s.result)
Good(s) ==
    /\ s \in Sorting
    /\ Apart(s.result) /\ Apart(s.queue) /\ Placed(s) \cap Members(s.queue) = {}
    /\ \A i \in 1..Len(s.result) : g.deps[s.result[i]] \subseteq {s.result[j] : j \in 1..i - 1}
    /\ \A n \in Ids : n \in Placed(s) \cup Members(s.queue) <=> n \in g.nodes /\ g.deps[n] \subseteq Placed(s)
    /\ \A n \in g.nodes : s.degree[n] = Cardinality(g.deps[n] \ Placed(s))

LEMMA GoodStarts ==
    ASSUME Agree(g)
    PROVE  Good([queue |-> Graph!SetToSeq({n \in g.nodes : g.degree[n] = 0}), degree |-> g.degree,
                 result |-> <<>>])
<1> DEFINE S == {n \in g.nodes : g.degree[n] = 0}
           s == [queue |-> Graph!SetToSeq(S), degree |-> g.degree, result |-> <<>>]
<1>1. g \in Dags /\ S \in SUBSET Ids
  BY DEF Agree, Dags
<1>2. Graph!SetToSeq(S) \in Seq(Ids) /\ Apart(Graph!SetToSeq(S)) /\ Members(Graph!SetToSeq(S)) = S
  BY <1>1, SetToSeqIs
<1>3. <<>> \in Seq(Ids) /\ Len(<<>>) = 0 /\ 1..0 = {}
  BY EmptySeq
<1>4. Members(<<>>) = {} /\ Apart(<<>>)
  BY <1>3 DEF Members, Apart
<1>5. s \in Sorting
  BY <1>1, <1>2, <1>3 DEF Sorting, Dags
<1>6. s.queue = Graph!SetToSeq(S) /\ s.degree = g.degree /\ s.result = <<>>
  OBVIOUS
<1>7. \A n \in g.nodes : g.degree[n] = Cardinality(g.deps[n] \ {}) /\ (g.degree[n] = 0 <=> g.deps[n] = {})
  <2> SUFFICES ASSUME NEW n \in g.nodes
               PROVE  g.degree[n] = Cardinality(g.deps[n] \ {}) /\ (g.degree[n] = 0 <=> g.deps[n] = {})
    OBVIOUS
  <2>1. n \in Ids /\ g.deps[n] \in SUBSET Ids /\ g.degree[n] = Cardinality(g.deps[n]) /\ g.deps[n] \ {} = g.deps[n]
    BY <1>1 DEF Agree, Dags
  <2> QED
    BY <2>1, FewSteps
<1>8. \A n \in Ids : n \in S <=> n \in g.nodes /\ g.deps[n] \subseteq {}
  BY <1>7
<1> HIDE DEF s, S
<1>9. Good(s)
  BY <1>2, <1>3, <1>4, <1>5, <1>6, <1>7, <1>8 DEF Good, Placed
<1> QED
  BY <1>9 DEF s, S

LEMMA GoodGoesOn ==
    ASSUME Agree(g), NEW s, Good(s), s.queue # <<>>
    PROVE  /\ Good(After(s)) /\ After(s) \in Sorting
           /\ Cardinality(g.nodes \ Placed(After(s))) \in Nat /\ Cardinality(g.nodes \ Placed(s)) \in Nat
           /\ Cardinality(g.nodes \ Placed(After(s))) < Cardinality(g.nodes \ Placed(s))
<1> DEFINE x == Head(s.queue)
           a == After(s)
           F == Freed(s)
           D == Down(s)
<1>1. s \in Sorting /\ s.queue \in Seq(Ids) /\ s.degree \in [Ids -> Int] /\ s.result \in Seq(Ids) /\ g \in Dags
  BY DEF Good, Sorting, Agree
<1>2. Apart(s.result) /\ Apart(s.queue) /\ Placed(s) \cap Members(s.queue) = {}
  BY DEF Good
<1>3. /\ x \in Members(s.queue) /\ x \in Ids /\ Tail(s.queue) \in Seq(Ids)
      /\ Members(Tail(s.queue)) = Members(s.queue) \ {x} /\ Apart(Tail(s.queue))
  BY <1>1, <1>2, TailApart
<1>4. a \in Sorting /\ F \in SUBSET g.dependents[x] /\ F \in SUBSET Ids
  BY <1>1, AfterIs
<1>5. a.queue = Tail(s.queue) \o Graph!SetToSeq(F) /\ a.degree = D /\ a.result = Append(s.result, x)
  BY DEF After
<1>6. F = {n \in g.dependents[x] : D[n] = 0}
      /\ \A n \in Ids : D[n] = IF n \in g.dependents[x] THEN s.degree[n] - 1 ELSE s.degree[n]
  BY DEF Freed, Down
<1>7. \A n \in Ids : n \in Placed(s) \cup Members(s.queue) <=> n \in g.nodes /\ g.deps[n] \subseteq Placed(s)
  BY DEF Good
<1>8. x \in g.nodes /\ g.deps[x] \subseteq Placed(s) /\ x \notin Placed(s)
  BY <1>2, <1>3, <1>7
<1> HIDE DEF x, a, F, D
<1>9. /\ a.result \in Seq(Ids) /\ Placed(a) = Placed(s) \cup {x} /\ Len(a.result) = Len(s.result) + 1
      /\ Len(s.result) \in Nat /\ \A i \in 1..Len(s.result) : a.result[i] = s.result[i]
      /\ a.result[Len(s.result) + 1] = x /\ Apart(a.result)
  BY <1>1, <1>2, <1>3, <1>5, <1>8, AppendedApart DEF Placed
<1>10. \A i \in 1..Len(a.result) : g.deps[a.result[i]] \subseteq {a.result[j] : j \in 1..i - 1}
  <2> SUFFICES ASSUME NEW i \in 1..Len(a.result), NEW d \in g.deps[a.result[i]]
               PROVE  \E j \in 1..i - 1 : a.result[j] = d
    OBVIOUS
  <2>1. CASE i \in 1..Len(s.result)
    <3>1. g.deps[s.result[i]] \subseteq {s.result[j] : j \in 1..i - 1}
      BY <2>1 DEF Good
    <3>2. PICK j \in 1..i - 1 : s.result[j] = d
      BY <1>9, <2>1, <3>1
    <3>3. j \in 1..Len(s.result)
      BY <1>9, <2>1
    <3> QED
      BY <1>9, <3>2, <3>3
  <2>2. CASE i = Len(s.result) + 1
    <3>1. d \in Placed(s)
      BY <1>8, <1>9, <2>2
    <3>2. PICK j \in 1..Len(s.result) : s.result[j] = d
      BY <3>1 DEF Placed, Members
    <3>3. j \in 1..i - 1
      BY <1>9, <2>2
    <3> QED
      BY <1>9, <3>2, <3>3
  <2> QED
    BY <1>9, <2>1, <2>2
<1>11. \A n \in g.nodes : n \in Ids /\ g.deps[n] \in SUBSET Ids
  BY <1>1 DEF Dags
<1>12. \A n \in g.nodes : n \in g.dependents[x] <=> x \in g.deps[n]
  BY <1>3, <1>11 DEF Agree
<1>13. \A n \in Ids : n \in g.dependents[x] => n \in g.nodes
  BY <1>3 DEF Agree
<1>14. \A n \in g.nodes : D[n] = Cardinality(g.deps[n] \ Placed(a))
  <2> SUFFICES ASSUME NEW n \in g.nodes PROVE D[n] = Cardinality(g.deps[n] \ Placed(a))
    OBVIOUS
  <2>1. g.deps[n] \ Placed(a) = (g.deps[n] \ Placed(s)) \ {x}
    BY <1>9
  <2>2. s.degree[n] = Cardinality(g.deps[n] \ Placed(s)) /\ g.deps[n] \ Placed(s) \in SUBSET Ids
    BY <1>11 DEF Good
  <2>3. CASE x \in g.deps[n]
    <3>1. Cardinality((g.deps[n] \ Placed(s)) \ {x}) = Cardinality(g.deps[n] \ Placed(s)) - 1
      BY <1>3, <1>8, <2>2, <2>3, OneMore
    <3> QED
      BY <1>6, <1>11, <1>12, <2>1, <2>2, <2>3, <3>1
  <2>4. CASE x \notin g.deps[n]
    <3>1. (g.deps[n] \ Placed(s)) \ {x} = g.deps[n] \ Placed(s)
      BY <2>4
    <3> QED
      BY <1>6, <1>11, <1>12, <2>1, <2>2, <2>4, <3>1
  <2> QED
    BY <2>3, <2>4
<1>15. F = {n \in g.nodes : x \in g.deps[n] /\ g.deps[n] \subseteq Placed(a)}
  <2>1. \A n \in g.nodes : D[n] = 0 <=> g.deps[n] \subseteq Placed(a)
    <3> SUFFICES ASSUME NEW n \in g.nodes PROVE D[n] = 0 <=> g.deps[n] \subseteq Placed(a)
      OBVIOUS
    <3>1. g.deps[n] \ Placed(a) \in SUBSET Ids
      BY <1>11
    <3>2. Cardinality(g.deps[n] \ Placed(a)) = 0 <=> g.deps[n] \ Placed(a) = {}
      BY <3>1, FewSteps
    <3> QED
      BY <1>14, <3>2
  <2> QED
    BY <1>4, <1>6, <1>12, <1>13, <2>1
<1>16. /\ Graph!SetToSeq(F) \in Seq(Ids) /\ Apart(Graph!SetToSeq(F)) /\ Members(Graph!SetToSeq(F)) = F
  BY <1>4, SetToSeqIs
<1>17. F \cap (Placed(s) \cup Members(s.queue)) = {}
  BY <1>4, <1>7, <1>8, <1>15
<1>18. /\ Members(a.queue) = (Members(s.queue) \ {x}) \cup F /\ Apart(a.queue)
  <2> DEFINE t == Tail(s.queue)
             q == Graph!SetToSeq(F)
  <2>1. /\ t \in Seq(Ids) /\ q \in Seq(Ids) /\ Apart(t) /\ Apart(q)
        /\ Members(t) = Members(s.queue) \ {x} /\ Members(q) = F /\ a.queue = t \o q
    BY <1>3, <1>5, <1>16
  <2> HIDE DEF t, q
  <2>2. Members(t) \cap Members(q) = {}
    BY <1>17, <2>1
  <2>3. Members(t \o q) = Members(t) \cup Members(q) /\ Apart(t \o q)
    BY <2>1, <2>2, JoinedApart
  <2> QED
    BY <2>1, <2>3
<1>19. Placed(a) \cap Members(a.queue) = {}
  BY <1>2, <1>3, <1>9, <1>17, <1>18
<1>20. \A n \in Ids : n \in Placed(a) \cup Members(a.queue) <=> n \in g.nodes /\ g.deps[n] \subseteq Placed(a)
  <2> SUFFICES ASSUME NEW n \in Ids
               PROVE  n \in Placed(a) \cup Members(a.queue) <=> n \in g.nodes /\ g.deps[n] \subseteq Placed(a)
    OBVIOUS
  <2>1. n \in Placed(a) \cup Members(a.queue) <=> n \in Placed(s) \cup Members(s.queue) \/ n \in F
    BY <1>3, <1>9, <1>18
  <2>2. n \in F <=> n \in g.nodes /\ x \in g.deps[n] /\ g.deps[n] \subseteq Placed(a)
    BY <1>15
  <2>3. x \notin g.deps[n] => (g.deps[n] \subseteq Placed(a) <=> g.deps[n] \subseteq Placed(s))
    BY <1>9
  <2>4. g.deps[n] \subseteq Placed(s) => g.deps[n] \subseteq Placed(a)
    BY <1>9
  <2>5. g.deps[n] \subseteq Placed(s) => x \notin g.deps[n]
    BY <1>8
  <2> QED
    BY <1>7, <2>1, <2>2, <2>3, <2>4, <2>5
<1>21. Good(a)
  BY <1>4, <1>5, <1>9, <1>10, <1>14, <1>18, <1>19, <1>20 DEF Good
<1>22. /\ Cardinality(g.nodes \ Placed(a)) \in Nat /\ Cardinality(g.nodes \ Placed(s)) \in Nat
       /\ Cardinality(g.nodes \ Placed(a)) < Cardinality(g.nodes \ Placed(s))
  <2>1. g.nodes \ Placed(a) = (g.nodes \ Placed(s)) \ {x} /\ x \in g.nodes \ Placed(s)
    BY <1>8, <1>9
  <2>2. g.nodes \ Placed(s) \in SUBSET Ids /\ g.nodes \ Placed(a) \in SUBSET Ids
    BY <1>1 DEF Dags
  <2>3. Cardinality((g.nodes \ Placed(s)) \ {x}) = Cardinality(g.nodes \ Placed(s)) - 1
    BY <1>3, <2>1, <2>2, OneMore
  <2>4. Cardinality(g.nodes \ Placed(s)) \in Nat /\ Cardinality(g.nodes \ Placed(a)) \in Nat
    BY <2>2, FewSteps
  <2>5. Cardinality(g.nodes \ Placed(a)) = Cardinality(g.nodes \ Placed(s)) - 1
    BY <2>1, <2>3
  <2> QED
    BY <2>4, <2>5
<1> QED
  BY <1>4, <1>21, <1>22 DEF a

\* The order that a graph is sorted to.
Orders(order) ==
    /\ order \in Seq(Ids)
    /\ Cardinality(Members(order)) = Len(order)
    /\ \A i \in 1..Len(order) : g.deps[order[i]] \subseteq {order[j] : j \in 1..i - 1}
    /\ StuckIn(g, g.nodes \ Members(order))

LEMMA GoodEnds ==
    ASSUME Agree(g), NEW s, Good(s), s.queue = <<>>
    PROVE  Orders(s.result)
<1>1. s.result \in Seq(Ids) /\ Members(s.result) \in SUBSET Ids /\ Len(s.result) \in Nat
  <2>1. s.result \in Seq(Ids) /\ Len(s.result) \in Nat
    BY LenProperties DEF Good, Sorting
  <2>2. \A i \in 1..Len(s.result) : s.result[i] \in Ids
    BY <2>1, ElementOfSeq
  <2> QED
    BY <2>1, <2>2 DEF Members
<1>2. Cardinality(Members(s.result)) = Len(s.result)
  <2> DEFINE f == [i \in 1..Len(s.result) |-> s.result[i]]
             T == Members(s.result)
  <2>1. f \in [1..Len(s.result) -> T]
    BY DEF Members
  <2>2. f \in Injection(1..Len(s.result), T)
    BY <2>1 DEF Good, Apart, Injection, IsInjective
  <2>3. f \in Surjection(1..Len(s.result), T)
    BY <2>1 DEF Members, Surjection
  <2>4. ExistsBijection(1..Len(s.result), T)
    BY <2>2, <2>3 DEF ExistsBijection, Bijection
  <2> HIDE DEF T
  <2>5. Cardinality(T) = Len(s.result)
    BY <1>1, <2>4, FS_CountingElements
  <2> QED
    BY <2>5 DEF T
<1>3. Members(s.queue) = {}
  <2>1. Len(<<>>) = 0 /\ 1..0 = {}
    BY EmptySeq
  <2> QED
    BY <2>1 DEF Members
<1>4. StuckIn(g, g.nodes \ Members(s.result))
  <2> SUFFICES ASSUME NEW n \in g.nodes, n \notin Members(s.result)
               PROVE  \E d \in g.deps[n] : d \in g.nodes \ Members(s.result) \/ d \notin g.nodes
    BY DEF StuckIn
  <2>1. n \in Ids
    BY DEF Agree, Dags
  <2>2. ~(g.deps[n] \subseteq Members(s.result))
    BY <1>3, <2>1 DEF Good, Placed
  <2> QED
    BY <2>2
<1> QED
  BY <1>1, <1>2, <1>4 DEF Orders, Good

\* By the least counterexample: each step of the sort leaves one step less.
LEMMA GoodOrders ==
    ASSUME Agree(g), NEW s, Good(s)
    PROVE  Orders(Walk[s])
<1> DEFINE Rest(x) == Cardinality(g.nodes \ Placed(x))
           Bad == {k \in Nat : \E x \in Sorting : Good(x) /\ Rest(x) = k /\ ~Orders(Walk[x])}
<1>1. ASSUME Bad # {} PROVE FALSE
  <2>1. PICK k \in Bad : \A j \in Bad : k <= j
    BY <1>1, Least
  <2>2. PICK x \in Sorting : Good(x) /\ Rest(x) = k /\ ~Orders(Walk[x])
    OBVIOUS
  <2>3. CASE x.queue = <<>>
    <3>1. Walk[x] = x.result
      BY <2>3, WalkIs
    <3> QED
      BY <2>2, <2>3, <3>1, GoodEnds
  <2>4. CASE x.queue # <<>>
    <3>1. Walk[x] = Walk[After(x)]
      BY <2>4, WalkIs
    <3>2. /\ Good(After(x)) /\ After(x) \in Sorting
          /\ Rest(After(x)) \in Nat /\ Rest(x) \in Nat /\ Rest(After(x)) < Rest(x)
      BY <2>2, <2>4, GoodGoesOn
    <3>3. Rest(After(x)) \in Bad
      BY <2>2, <3>1, <3>2
    <3>4. k <= Rest(After(x)) /\ k = Rest(x)
      BY <2>1, <2>2, <3>3
    <3> HIDE DEF Rest, Bad
    <3> QED
      BY <3>2, <3>4
  <2> QED
    BY <2>3, <2>4
<1>2. s \in Sorting /\ Rest(s) \in Nat
  <2>1. g.nodes \ Placed(s) \in SUBSET Ids
    BY DEF Agree, Dags
  <2> QED
    BY <2>1, FewSteps DEF Good
<1> QED
  BY <1>1, <1>2

\* A graph whose records agree has its order, and a step that is ready while one is not done.
LEMMA GraphIsSound ==
    ASSUME GraphInv
    PROVE  Graph!TypeOK /\ Graph!GraphSound
<1> DEFINE order  == Graph!Sorted
           placed == {order[i] : i \in DOMAIN order}
<1>1. Agree(g) /\ g \in Dags
  BY DEF GraphInv, Agree
<1>2. Graph!TypeOK
  BY <1>1 DEF GraphInv, Graph!TypeOK, Graph!Edges, Dags
<1>3. Graph!Mirror
  <2>1. \A n \in g.nodes : g.degree[n] = Graph!Cardinality(g.deps[n])
    BY <1>1, Counted DEF Agree, Dags
  <2>2. \A e \in g.conditions : e[1] \in g.deps[e[2]]
    <3> SUFFICES ASSUME NEW e \in g.conditions PROVE e[1] \in g.deps[e[2]]
      OBVIOUS
    <3>1. e[1] \in Ids /\ e[2] \in Ids /\ e = <<e[1], e[2]>>
      BY <1>1 DEF Dags
    <3> QED
      BY <1>1, <3>1 DEF Agree
  <2> QED
    BY <1>1, <2>1, <2>2 DEF Graph!Mirror, Agree
<1>4. \A S : Graph!Stuck(S) <=> StuckIn(g, S)
  BY DEF Graph!Stuck, StuckIn
<1>5. Orders(order)
  BY <1>1, GoodStarts, GoodOrders, SortIs
<1> HIDE DEF order
<1>6. DOMAIN order = 1..Len(order) /\ placed = Members(order)
  BY <1>5, LenProperties DEF Orders, Members
<1>7. Graph!HasCycle(g) <=> \E S \in SUBSET g.nodes : S # {} /\ Graph!Stuck(S)
  BY <1>1, <1>4, CycleIs
<1>8. ASSUME ~Graph!HasCycle(g), g.nodes \ g.done # {} PROVE Graph!Ready # {}
  <2>1. ~StuckIn(g, g.nodes \ g.done)
    BY <1>1, <1>8, CycleIs
  <2>2. PICK n \in g.nodes \ g.done : \A d \in g.deps[n] : ~(d \in g.nodes \ g.done) /\ d \in g.nodes
    BY <2>1 DEF StuckIn
  <2> QED
    BY <2>2 DEF Graph!Ready
<1>9. Graph!OrderSound
  <2>1. Graph!Cardinality(placed) = Len(order)
    BY <1>5, <1>6, Counted DEF Orders
  <2>2. \A i \in DOMAIN order : g.deps[order[i]] \subseteq {order[j] : j \in 1..i - 1}
    BY <1>5, <1>6 DEF Orders
  <2>3. Graph!Stuck(g.nodes \ placed)
    BY <1>4, <1>5, <1>6 DEF Orders
  <2> QED
    BY <1>7, <1>8, <2>1, <2>2, <2>3 DEF Graph!OrderSound, order
<1> QED
  BY <1>2, <1>3, <1>9 DEF Graph!GraphSound

\* The graph rests while another part goes on.
LEMMA GraphRests ==
    ASSUME GraphInv, [Next]_<<part, faults, briefVars, directVars, botVars, chatVars, graphVars, boardVars>>
    PROVE  GraphInv' /\ [~Graph!HasCycle(g) => ~Graph!HasCycle(g') /\ (~answer' => g' = g)]_<<g, answer>>
<1>1. CASE part = "graph" /\ Graph!Next
  BY <1>1, GraphStep
<1>2. CASE UNCHANGED graphVars
  BY <1>2 DEF graphVars, GraphInv
<1> QED
  BY <1>1, <1>2 DEF Next, graphVars

\* The records of every dependency agree and the order is right, and a graph without cycles stays one
\* (class TaskDAG).
THEOREM GraphIsFaithful == Spec => GraphFaithful
<1>1. Init => GraphInv
  <2> SUFFICES ASSUME Init PROVE GraphInv
    OBVIOUS
  <2>1. CASE part = "graph"
    BY <2>1, GraphInit DEF Init
  <2>2. CASE part # "graph"
    BY <2>2, EmptyAgrees DEF Init, GraphInv
  <2> QED
    BY <2>1, <2>2
<1>2. GraphInv /\ [Next]_<<part, faults, briefVars, directVars, botVars, chatVars, graphVars, boardVars>> => GraphInv'
  BY GraphRests
<1>3. GraphInv => Graph!TypeOK /\ Graph!GraphSound
  BY GraphIsSound
<1>4. GraphInv /\ [Next]_<<part, faults, briefVars, directVars, botVars, chatVars, graphVars, boardVars>>
      => [~Graph!HasCycle(g) => ~Graph!HasCycle(g') /\ (~answer' => g' = g)]_Graph!vars
  BY GraphRests DEF Graph!vars
<1> QED
  BY <1>1, <1>2, <1>3, <1>4, PTL DEF Spec, GraphFaithful, Graph!StaysAcyclic

===============================================================================
