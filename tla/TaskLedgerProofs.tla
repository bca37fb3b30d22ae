-------------------------- MODULE TaskLedgerProofs --------------------------
(***************************************************************************)
(* The properties of the task ledger for any number of tasks, requests and *)
(* revisions.  The argument is one inductive invariant.  Most of it speaks *)
(* of one task: what its row, its PM and the messages under way know of    *)
(* each other.  A step of one task disturbs another one only through the   *)
(* acknowledged and the launched requests, which are kept for all tasks    *)
(* together; that no request belongs to two tasks rules this out.          *)
(***************************************************************************)
EXTENDS TaskLedger, FiniteSetTheorems, TLAPS

StartRequests    == [kind : {"start"}, task : Tasks]
StopRequests     == [kind : {"stop"}, task : Tasks, id : Requests, action : Actions,
                     generation : Generations]
ContinueRequests == [kind : {"continue"}, task : Tasks, id : Requests, pause : Requests,
                     revision : Nat]
Reported(kinds, statuses) ==
    [kind : kinds, task : Tasks, generation : Generations, status : statuses]

MessagesOK ==
    /\ wire \subseteq StartRequests \cup StopRequests \cup ContinueRequests
    /\ reports \subseteq Reported({"status"}, {"running", "completed", "failed"})
                  \cup Reported({"verdict"}, {"completed", "failed"})
                  \cup Reported({"delivery"}, {"completed"})

-----------------------------------------------------------------------------
(* Requests and the tasks that they belong to.                             *)

\* Request i is known for task t: by its row, its node, or a message under way.
Knows(t, i) ==
    \/ row[t].control # None /\ row[t].control.id = i
    \/ row[t].grant # None /\ row[t].grant.id = i
    \/ handler[t] # None /\ handler[t].id = i
    \/ \E m \in wire : m.kind # "start" /\ m.task = t /\ m.id = i

\* Requests are numbered as they are made, each for one task, and launched at most once.
RequestsSound ==
    /\ \A t \in Tasks, i \in Requests : Knows(t, i) => i <= requests
    /\ \A t, u \in Tasks, i \in Requests : Knows(t, i) /\ Knows(u, i) => t = u
    /\ \A i \in acks : i <= requests
    /\ \A i \in Requests : launches[i] > 0 => launches[i] = 1 /\ i <= requests

-----------------------------------------------------------------------------
(* What is known of one task.                                              *)

Result(action) == IF action = "cancel" THEN "cancelled" ELSE "paused"

\* The row names a stop exactly while it is stopped; the stop belongs to its round, and
\* is confirmed only by an answer of the node, if there is anything to be stopped.
ControlSound(t) ==
    LET c == row[t].control
    IN  /\ Stopped(t) <=> c # None
        /\ c # None =>
              /\ c.generation = row[t].generation /\ c.generation < c.id
              /\ row[t].status = Result(c.action)
              /\ row[t].bound => c.dispatched
              /\ c.dispatched /\ c.confirmed => c.id \in acks
        /\ row[t].generation <= requests
        /\ row[t].grant # None => row[t].grant.pause < row[t].grant.id

DeliveryReport(t, generation) ==
    [kind |-> "delivery", task |-> t, generation |-> generation, status |-> "completed"]

\* A recorded delivery was reported in the round of the row, and excludes a stop.
DeliverySound(t) ==
    /\ row[t].delivery # None =>
          /\ row[t].delivery = row[t].generation
          /\ row[t].control = None
          /\ DeliveryReport(t, row[t].generation) \in reports
    /\ row[t].status \in {"accepted", "rejected"} => row[t].delivery # None

\* The PM of a task is started once, for a row that is bound or was.
DispatchSound(t) ==
    /\ row[t].status \in {"absent", "pending"} => ~row[t].bound
    /\ \A m \in wire : m.task = t =>
          /\ row[t].status # "absent"
          /\ m.kind = "start" => started[t] = "no" /\ (row[t].bound \/ row[t].status = "deleted")
    /\ started[t] # "no" => row[t].bound \/ row[t].status = "deleted"
    /\ started[t] # "launched" =>
          /\ mem[t] = None /\ disk[t] = None /\ handler[t] = None /\ working[t] = {}
          /\ row[t].generation = 0

\* The instance in memory is of the round on disk, and while it runs of the row's; a stop
\* that either has obeyed was made after its round began.
RoundSound(t) ==
    /\ mem[t] # None =>
          /\ disk[t] # None /\ disk[t].generation = mem[t].generation
          /\ mem[t].receipt # None =>
                /\ mem[t].generation < mem[t].receipt.id
                /\ mem[t].phase = Result(mem[t].receipt.action)
    /\ disk[t] # None /\ disk[t].receipt # None => disk[t].generation < disk[t].receipt.id
    /\ Running(t) /\ Exists(t) => mem[t].generation = row[t].generation
    /\ \A g, h \in working[t] : g = h

\* Reports are of rounds that were saved; after its verdict a PM does not work.
ReportSound(t) ==
    \A m \in reports : m.task = t =>
        /\ disk[t] # None /\ m.generation <= disk[t].generation
        /\ m.kind = "verdict" /\ mem[t] # None /\ mem[t].generation = m.generation
              => mem[t].phase \in {"completed", "failed"}

\* A stop request under way is of an earlier round, or it is the row's own, or a pause
\* that a cancellation has overtaken.
StopSound(t) ==
    \A m \in wire : m.kind = "stop" /\ m.task = t =>
        /\ m.generation < m.id
        /\ Exists(t) =>
              LET c == row[t].control
              IN  \/ m.id < row[t].generation
                  \/ /\ m.generation = row[t].generation /\ c # None /\ m.id <= c.id
                     /\ \/ m.id = c.id /\ m.action = c.action
                        \/ m.id # c.id /\ m.action = "pause" /\ c.action = "cancel"

\* A stop that the node has confirmed holds: nothing of that round goes on.
AckSound(t) ==
    LET c == row[t].control
    IN  c # None /\ c.dispatched /\ c.id \in acks =>
            /\ disk[t] # None /\ disk[t].generation = c.generation
            /\ mem[t] # None => mem[t].phase = row[t].status

\* A continuation comes after everything that it continues; nothing of it is under way
\* any more, and from its activation on the row is in the new round.
HandlerSound(t) ==
    /\ \A m \in wire : m.kind = "continue" /\ m.task = t => m.pause < m.id
    /\ handler[t] # None =>
          /\ ~Running(t) /\ working[t] = {}
          /\ disk[t] # None /\ disk[t].generation < handler[t].id
          /\ handler[t].stage # "claimed" =>
                /\ row[t].status \in {"running", "paused", "cancelled"}
                /\ row[t].bound /\ row[t].delivery = None
                /\ row[t].generation = handler[t].id

\* A request that was launched is never launched again.
LaunchSound(t) ==
    \A i \in Requests : Knows(t, i) /\ launches[i] > 0
        => disk[t] # None /\ i <= disk[t].generation

\* A task that is over has no PM that runs or is about to.
EndSound(t) ==
    /\ row[t].status \in {"completed", "failed"} => ~Running(t)
    /\ replacement[t] # None =>
          /\ row[t].status \in {"failed", "cancelled", "accepted", "rejected", "deleted"}
          /\ ~Running(t)
          /\ handler[t] # None => handler[t].stage = "claimed"
    /\ row[t].status = "deleted" /\ Running(t) => DeliveryReport(t, mem[t].generation) \in reports

TaskSound(t) ==
    /\ ControlSound(t) /\ DeliverySound(t) /\ DispatchSound(t) /\ RoundSound(t) /\ ReportSound(t)
    /\ StopSound(t) /\ AckSound(t) /\ HandlerSound(t) /\ LaunchSound(t) /\ EndSound(t)

IInv == TypeOK /\ MessagesOK /\ RequestsSound /\ (\A t \in Tasks : TaskSound(t))
-----------------------------------------------------------------------------
\* A row with one of its columns written is a row.
LEMMA RowWith ==
    ASSUME NEW r \in Rows
    PROVE  /\ \A x \in Statuses : [r EXCEPT !.status = x] \in Rows
           /\ \A x \in BOOLEAN : [r EXCEPT !.bound = x] \in Rows
           /\ \A x \in PMStatuses : [r EXCEPT !.pm = x] \in Rows
           /\ \A x \in Controls \cup {None} : [r EXCEPT !.control = x] \in Rows
           /\ \A x \in Generations \cup {None} : [r EXCEPT !.delivery = x] \in Rows
           /\ \A x \in BOOLEAN : [r EXCEPT !.recovery = x] \in Rows
           /\ \A x \in BOOLEAN : [r EXCEPT !.doubt = x] \in Rows
           /\ \A x \in Generations : [r EXCEPT !.generation = x] \in Rows
           /\ \A x \in Grants \cup {None} : [r EXCEPT !.grant = x] \in Rows
BY DEF Rows

LEMMA NewRowTyped == NewRow \in Rows
BY LedgerAssumption DEF NewRow, Rows, Generations, Statuses, PMStatuses

LEMMA InitIInv == Init => IInv
<1> SUFFICES ASSUME Init PROVE IInv
  OBVIOUS
<1>1. [NewRow EXCEPT !.status = "absent"] \in Rows
  BY NewRowTyped, RowWith DEF Statuses
<1>2. TypeOK /\ MessagesOK
  BY <1>1, LedgerAssumption DEF Init, TypeOK, MessagesOK
<1>3. \A t \in Tasks, i \in Requests : ~Knows(t, i)
  BY DEF Init, Knows, NewRow
<1>4. RequestsSound
  BY <1>3 DEF Init, RequestsSound
<1>5. ASSUME NEW t \in Tasks PROVE TaskSound(t)
  BY <1>3
  DEF Init, TaskSound, ControlSound, DeliverySound, DispatchSound, RoundSound, ReportSound, StopSound,
      AckSound, HandlerSound, LaunchSound, EndSound, NewRow, Stopped, Running, Exists
<1> QED
  BY <1>2, <1>4, <1>5 DEF IInv

\* What the types say of a task, as numbers.
LEMMA Typed ==
    ASSUME IInv, NEW t \in Tasks
    PROVE  /\ requests \in Nat /\ row[t] \in Rows /\ row[t].generation \in Nat
           /\ row[t].control # None =>
                 /\ row[t].control \in Controls
                 /\ row[t].control.id \in Nat /\ row[t].control.generation \in Nat
           /\ row[t].grant # None =>
                 /\ row[t].grant \in Grants
                 /\ row[t].grant.id \in Nat /\ row[t].grant.pause \in Nat
           /\ mem[t] # None =>
                 /\ mem[t] \in Instances /\ mem[t].generation \in Nat
                 /\ mem[t].receipt # None => mem[t].receipt.id \in Nat
           /\ disk[t] # None =>
                 /\ disk[t] \in Checkpoints /\ disk[t].generation \in Nat
                 /\ disk[t].receipt # None => disk[t].receipt.id \in Nat
           /\ handler[t] # None =>
                 /\ handler[t] \in Handlings /\ handler[t].id \in Nat /\ handler[t].pause \in Nat
BY LedgerAssumption
DEF IInv, TypeOK, Rows, Controls, Grants, Instances, Checkpoints, Receipts, Handlings, Requests,
    Generations

LEMMA TypedMessages ==
    ASSUME IInv
    PROVE  /\ \A m \in wire : m.task \in Tasks
           /\ \A m \in wire : m.kind = "stop" => m \in StopRequests /\ m.id \in Nat /\ m.generation \in Nat
           /\ \A m \in wire : m.kind = "continue" => m \in ContinueRequests /\ m.id \in Nat /\ m.pause \in Nat
           /\ \A m \in reports : m.task \in Tasks /\ m.generation \in Nat
BY LedgerAssumption
DEF IInv, MessagesOK, StartRequests, StopRequests, ContinueRequests, Reported, Requests, Generations

-----------------------------------------------------------------------------
(* Steps that leave a task alone.                                          *)

SameRow(t) ==
    /\ row'[t].status = row[t].status /\ row'[t].bound = row[t].bound
    /\ row'[t].control = row[t].control /\ row'[t].delivery = row[t].delivery
    /\ row'[t].generation = row[t].generation /\ row'[t].grant = row[t].grant
    /\ replacement'[t] = replacement[t]

SameNode(t) ==
    /\ started'[t] = started[t] /\ mem'[t] = mem[t] /\ disk'[t] = disk[t]
    /\ handler'[t] = handler[t] /\ working'[t] = working[t]

\* Messages about t may be lost, and of the requests none that t knows is touched.
SameMessages(t) ==
    /\ \A m \in wire' : m.task = t => m \in wire
    /\ \A m \in reports' : m.task = t => m \in reports
    /\ reports \subseteq reports'
    /\ acks \subseteq acks' /\ \A i \in acks' : Knows(t, i) => i \in acks
    /\ \A i \in Requests : Knows(t, i) /\ launches'[i] > 0 => launches[i] > 0
    /\ requests' \in Nat /\ requests <= requests'

LEMMA AsideKeeps ==
    ASSUME IInv, NEW t \in Tasks, SameRow(t), SameNode(t), SameMessages(t)
    PROVE  TaskSound(t)'
<1> USE DEF SameRow, SameNode, SameMessages
<1>1. TaskSound(t)
  BY DEF IInv
<1>3. ControlSound(t)'
  BY <1>1, Typed DEF TaskSound, ControlSound, Stopped
<1>4. DeliverySound(t)'
  BY <1>1 DEF TaskSound, DeliverySound, DeliveryReport
<1>5. DispatchSound(t)'
  BY <1>1 DEF TaskSound, DispatchSound
<1>6. RoundSound(t)'
  BY <1>1 DEF TaskSound, RoundSound, Running, Exists
<1>7. ReportSound(t)'
  BY <1>1 DEF TaskSound, ReportSound
<1>8. StopSound(t)'
  BY <1>1 DEF TaskSound, StopSound, Exists
<1>9. AckSound(t)'
  BY <1>1 DEF TaskSound, AckSound, Knows
<1>10. HandlerSound(t)'
  BY <1>1 DEF TaskSound, HandlerSound, Running
<1>11. LaunchSound(t)'
  BY <1>1 DEF TaskSound, LaunchSound, Knows
<1>12. EndSound(t)'
  BY <1>1 DEF TaskSound, EndSound, Running, DeliveryReport
<1> QED
  BY <1>3, <1>4, <1>5, <1>6, <1>7, <1>8, <1>9, <1>10, <1>11, <1>12 DEF TaskSound

\* A step in which no task comes to know a request, and nothing is acknowledged or launched.
LEMMA RequestsKeep ==
    ASSUME IInv, UNCHANGED <<requests, acks, launches>>,
           \A t \in Tasks, i \in Requests : Knows(t, i)' => Knows(t, i)
    PROVE  RequestsSound'
BY DEF IInv, RequestsSound

\* One in which task t comes to know the next request.
LEMMA RequestsGrow ==
    ASSUME IInv, NEW t \in Tasks, UNCHANGED <<acks, launches>>, requests' = requests + 1,
           \A u \in Tasks, i \in Requests : Knows(u, i)' => Knows(u, i) \/ (u = t /\ i = requests + 1)
    PROVE  RequestsSound'
<1>1. requests \in Nat /\ \A i \in Requests : i \in Nat
  BY LedgerAssumption DEF IInv, TypeOK, Requests
<1>2. \A u \in Tasks, i \in Requests : Knows(u, i) => i <= requests
  BY DEF IInv, RequestsSound
<1>3. \A u \in Tasks, i \in Requests : Knows(u, i)' => i <= requests'
  BY <1>1, <1>2
<1>4. \A u, v \in Tasks, i \in Requests : Knows(u, i)' /\ Knows(v, i)' => u = v
  BY <1>1, <1>2 DEF IInv, RequestsSound
<1>5. acks \subseteq Requests
  BY DEF IInv, TypeOK
<1> QED
  BY <1>1, <1>3, <1>4, <1>5 DEF IInv, RequestsSound

\* One in which a request that task t knows is acknowledged.
LEMMA RequestsAcked ==
    ASSUME IInv, NEW t \in Tasks, NEW k \in Requests, Knows(t, k),
           acks' \in {acks, acks \cup {k}}, UNCHANGED <<requests, launches>>,
           \A u \in Tasks, i \in Requests : Knows(u, i)' => Knows(u, i)
    PROVE  RequestsSound'
BY DEF IInv, RequestsSound

\* A step of task t alone.
LEMMA TaskStep ==
    ASSUME IInv, NEW t \in Tasks, TypeOK', MessagesOK', RequestsSound', TaskSound(t)',
           \A u \in Tasks \ {t} : SameRow(u) /\ SameNode(u) /\ SameMessages(u)
    PROVE  IInv'
<1>1. ASSUME NEW u \in Tasks \ {t} PROVE TaskSound(u)'
  BY AsideKeeps
<1> QED
  BY <1>1 DEF IInv

\* Under a confirmed stop nothing runs, and no continuation has been activated.
LEMMA ConfirmedQuiet ==
    ASSUME IInv, NEW t \in Tasks, Confirmed(t)
    PROVE  ~Running(t) /\ (handler[t] # None => handler[t].stage = "claimed")
<1>1. TaskSound(t) /\ Stopped(t) /\ row[t].control.generation = row[t].generation
  BY DEF IInv, Confirmed, TaskSound, ControlSound
<1>2. CASE row[t].control.dispatched
  <2>1. /\ disk[t] # None /\ disk[t].generation = row[t].generation
        /\ mem[t] # None => mem[t].phase = row[t].status
    BY <1>1, <1>2 DEF Confirmed, TaskSound, ControlSound, AckSound
  <2> QED
    BY <1>1, <2>1, Typed DEF TaskSound, HandlerSound, Running, Stopped
<1>3. CASE ~row[t].control.dispatched
  <2>1. started[t] = "no"
    BY <1>1, <1>3 DEF Confirmed, TaskSound, ControlSound, DispatchSound, Stopped
  <2> QED
    BY <1>1, <2>1 DEF TaskSound, DispatchSound, Running
<1> QED
  BY <1>2, <1>3

-----------------------------------------------------------------------------
(* Each action keeps the invariant.                                        *)

\* A step that writes the row of one task, which names no new request.
LEMMA RowStep ==
    ASSUME IInv, NEW t \in Tasks, NEW r \in Rows, row' = [row EXCEPT ![t] = r],
           r.control # None => row[t].control # None /\ r.control.id = row[t].control.id,
           r.grant # None => r.grant = row[t].grant,
           call' \in [Tasks -> {"none", "sent", "unsent"}],
           UNCHANGED <<replacement, requests, network, node>>,
           TaskSound(t)'
    PROVE  IInv'
<1>1. TypeOK' /\ MessagesOK'
  BY DEF IInv, TypeOK, MessagesOK, network, node
<1>2. row'[t] = r /\ \A u \in Tasks \ {t} : row'[u] = row[u]
  BY DEF IInv, TypeOK
<1>3. RequestsSound'
  BY <1>2, RequestsKeep DEF Knows, network, node
<1>4. ASSUME NEW u \in Tasks \ {t} PROVE TaskSound(u)'
  BY <1>2, AsideKeeps, Typed DEF network, node, SameRow, SameNode, SameMessages
<1> QED
  BY <1>1, <1>3, <1>4 DEF IInv

\* One that leaves the columns alone of which the invariant speaks.
LEMMA RowTouched ==
    ASSUME IInv, NEW t \in Tasks, NEW r \in Rows, row' = [row EXCEPT ![t] = r],
           r.status = row[t].status, r.bound = row[t].bound, r.control = row[t].control,
           r.delivery = row[t].delivery, r.generation = row[t].generation, r.grant = row[t].grant,
           call' \in [Tasks -> {"none", "sent", "unsent"}],
           UNCHANGED <<replacement, requests, network, node>>
    PROVE  IInv'
<1>1. row'[t] = r
  BY DEF IInv, TypeOK
<1>2. SameRow(t) /\ SameNode(t) /\ SameMessages(t)
  BY <1>1, Typed DEF SameRow, SameNode, SameMessages, network, node
<1> QED
  BY <1>2, AsideKeeps, RowStep

LEMMA SubmitKeeps ==
    ASSUME IInv, NEW t \in Tasks, Submit(t)
    PROVE  IInv'
<1>1. row'[t] = NewRow
  BY DEF Submit, IInv, TypeOK
<1>2. TaskSound(t)'
  BY <1>1, Typed
  DEF IInv, Submit, NewRow, network, node, TaskSound, ControlSound, DeliverySound, DispatchSound,
      RoundSound, ReportSound, StopSound, AckSound, HandlerSound, LaunchSound, EndSound, Stopped,
      Running, Exists, Knows
<1> QED
  BY <1>2, RowStep, NewRowTyped DEF Submit, NewRow, IInv, TypeOK

LEMMA NoStationKeeps ==
    ASSUME IInv, NEW t \in Tasks, NoStation(t)
    PROVE  IInv'
<1> DEFINE r == [row[t] EXCEPT !.status = "failed"]
<1>1. r \in Rows /\ row' = [row EXCEPT ![t] = r]
  BY Typed, RowWith DEF NoStation, Statuses
<1>2. /\ r.status = "failed" /\ r.bound = row[t].bound
      /\ r.control = row[t].control /\ r.delivery = row[t].delivery
      /\ r.generation = row[t].generation /\ r.grant = row[t].grant
  BY Typed DEF Rows
<1>3. row'[t] = r
  BY <1>1 DEF IInv, TypeOK
<1> HIDE DEF r
<1>4. TaskSound(t)'
  BY <1>2, <1>3, Typed
  DEF IInv, NoStation, network, node, TaskSound, ControlSound, DeliverySound, DispatchSound,
      RoundSound, ReportSound, StopSound, AckSound, HandlerSound, LaunchSound, EndSound, Stopped,
      Running, Exists, Knows
<1> QED
  BY <1>1, <1>2, <1>4, RowStep DEF NoStation, IInv, TypeOK

\* An issue in doubt is only noted; a task fails by one only if no PM was started for it.
LEMMA NoteKeeps ==
    ASSUME IInv, NEW t \in Tasks, NEW startup \in BOOLEAN, NEW uncertain \in BOOLEAN,
           row' = Note(t, startup, uncertain), ~uncertain => started[t] # "launched",
           call' \in [Tasks -> {"none", "sent", "unsent"}],
           UNCHANGED <<replacement, requests, network, node>>
    PROVE  IInv'
<1>1. CASE row' = row
  <2>1. row[t] \in Rows /\ row' = [row EXCEPT ![t] = row[t]]
    BY <1>1 DEF IInv, TypeOK
  <2> QED
    BY <2>1, RowTouched
<1>2. CASE uncertain /\ row' # row
  <2> DEFINE r0 == [row[t] EXCEPT !.doubt = TRUE]
             r  == [r0 EXCEPT !.pm = "unknown"]
  <2>1. r \in Rows
    BY Typed, RowWith DEF PMStatuses
  <2>2. row' = [row EXCEPT ![t] = r]
    BY <1>2, Typed DEF Note
  <2>3. /\ r.status = row[t].status /\ r.bound = row[t].bound
        /\ r.control = row[t].control /\ r.delivery = row[t].delivery
        /\ r.generation = row[t].generation /\ r.grant = row[t].grant
    BY Typed DEF Rows
  <2> QED
    BY <2>1, <2>2, <2>3, RowTouched
<1>3. CASE ~uncertain /\ row' # row
  <2> DEFINE r0 == [row[t] EXCEPT !.status = "failed"]
             r  == [r0 EXCEPT !.pm = "failed"]
  <2>1. r \in Rows
    BY Typed, RowWith DEF Statuses, PMStatuses
  <2>2. row' = [row EXCEPT ![t] = r] /\ row[t].status = "running"
    BY <1>3, Typed DEF Note
  <2>3. /\ r.status = "failed" /\ r.bound = row[t].bound
        /\ r.control = row[t].control /\ r.delivery = row[t].delivery
        /\ r.generation = row[t].generation /\ r.grant = row[t].grant
    BY Typed DEF Rows
  <2>4. row'[t] = r
    BY <2>2 DEF IInv, TypeOK
  <2> HIDE DEF r
  <2>5. TaskSound(t)'
    BY <1>3, <2>2, <2>3, <2>4, Typed
    DEF IInv, network, node, TaskSound, ControlSound, DeliverySound, DispatchSound,
        RoundSound, ReportSound, StopSound, AckSound, HandlerSound, LaunchSound, EndSound, Stopped,
        Running, Exists, Knows
  <2> QED
    BY <2>1, <2>2, <2>3, <2>5, RowStep
<1> QED
  BY <1>1, <1>2, <1>3

LEMMA StartCallsKeep ==
    ASSUME IInv, NEW t \in Tasks, StartUnanswered(t) \/ StartAnswered(t) \/ HostOffline(t)
    PROVE  IInv'
<1>1. call' \in [Tasks -> {"none", "sent", "unsent"}]
  BY DEF IInv, TypeOK, StartUnanswered, StartAnswered, HostOffline
<1>2. CASE StartUnanswered(t)
  BY <1>1, <1>2, NoteKeeps DEF StartUnanswered
<1>3. CASE HostOffline(t)
  BY <1>1, <1>3, NoteKeeps DEF HostOffline
<1>4. CASE StartAnswered(t) /\ started[t] # "launched"
  BY <1>1, <1>4, NoteKeeps DEF StartAnswered
<1>5. CASE StartAnswered(t) /\ started[t] = "launched"
  <2>1. row[t] \in Rows /\ row' = [row EXCEPT ![t] = row[t]]
    BY <1>5 DEF IInv, TypeOK, StartAnswered
  <2> QED
    BY <1>1, <1>5, <2>1, RowTouched DEF StartAnswered
<1> QED
  BY <1>2, <1>3, <1>4, <1>5

LEMMA RecoverKeeps ==
    ASSUME IInv, Recover
    PROVE  IInv'
<1>0. UNCHANGED <<replacement, requests, call, network, node>>
  BY DEF Recover
<1>1. ASSUME NEW t \in Tasks
      PROVE  row'[t] \in Rows /\ SameRow(t) /\ SameNode(t) /\ SameMessages(t)
  <2>1. CASE row'[t] = row[t]
    BY <1>0, <2>1, Typed DEF SameRow, SameNode, SameMessages, network, node
  <2>2. CASE row'[t] # row[t]
    <3> DEFINE r0 == [row[t] EXCEPT !.recovery = TRUE]
               r  == [r0 EXCEPT !.pm = IF @ \in {"completed", "failed", "cancelled", "paused"}
                                       THEN @ ELSE "unknown"]
    <3>1. row'[t] = r
      BY <2>2 DEF Recover
    <3>2. r0 \in Rows /\ r0.pm \in PMStatuses
      BY Typed, RowWith DEF Rows
    <3>3. r \in Rows
      BY <3>2, RowWith DEF PMStatuses
    <3>4. /\ r.status = row[t].status /\ r.bound = row[t].bound
          /\ r.control = row[t].control /\ r.delivery = row[t].delivery
          /\ r.generation = row[t].generation /\ r.grant = row[t].grant
      BY Typed DEF Rows
    <3> HIDE DEF r
    <3> QED
      BY <1>0, <3>1, <3>3, <3>4, Typed DEF SameRow, SameNode, SameMessages, network, node
  <2> QED
    BY <2>1, <2>2
<1>2. TypeOK' /\ MessagesOK'
  <2>1. row' \in [Tasks -> Rows]
    BY <1>1 DEF Recover
  <2> QED
    BY <1>0, <2>1 DEF IInv, TypeOK, MessagesOK, network, node
<1>3. RequestsSound'
  BY <1>0, <1>1, RequestsKeep DEF Knows, SameRow, network, node
<1> QED
  BY <1>1, <1>2, <1>3, AsideKeeps DEF IInv

\* A row is deleted when nothing runs or is about to run for it, or its PM has delivered: a
\* stop that was confirmed holds, so that no continuation can have been activated since.
LEMMA DeleteKeeps ==
    ASSUME IInv, NEW t \in Tasks, Delete(t)
    PROVE  IInv'
<1> DEFINE r == [NewRow EXCEPT !.status = "deleted"]
<1>1. r \in Rows /\ row' = [row EXCEPT ![t] = r]
  BY NewRowTyped, RowWith DEF Delete, Statuses
<1>2. /\ r.status = "deleted" /\ ~r.bound /\ r.control = None /\ r.delivery = None
      /\ r.generation = 0 /\ r.grant = None
  BY DEF NewRow
<1>3. row'[t] = r
  BY <1>1 DEF IInv, TypeOK
<1> HIDE DEF r
<1>4. TaskSound(t)
  BY DEF IInv
<1>5. Running(t) => DeliveryReport(t, mem[t].generation) \in reports
  <2>1. CASE Stopped(t)
    <3>1. Confirmed(t)
      BY <1>4, <2>1 DEF Delete, Unsettled, Confirmed, TaskSound, ControlSound
    <3> QED
      BY <3>1, ConfirmedQuiet
  <2>2. CASE row[t].status \in {"accepted", "rejected"}
    BY <1>4, <2>2 DEF Exists, TaskSound, DeliverySound, RoundSound
  <2>3. CASE row[t].status \in {"completed", "failed"}
    BY <1>4, <2>3 DEF TaskSound, EndSound
  <2>4. CASE row[t].status = "pending"
    BY <1>4, <2>4 DEF TaskSound, DispatchSound, Running
  <2> QED
    BY <2>1, <2>2, <2>3, <2>4, Typed DEF Delete, Exists, Stopped, Rows, Statuses
<1>6. handler[t] # None => handler[t].stage = "claimed"
  <2>1. CASE Stopped(t)
    <3>1. Confirmed(t)
      BY <1>4, <2>1 DEF Delete, Unsettled, Confirmed, TaskSound, ControlSound
    <3> QED
      BY <3>1, ConfirmedQuiet
  <2>2. CASE ~Stopped(t)
    BY <1>4, <2>2 DEF Delete, Stopped, TaskSound, HandlerSound
  <2> QED
    BY <2>1, <2>2
<1>7. /\ Exists(t) /\ row[t].status # "running"
      /\ UNCHANGED <<replacement, requests, call, network, node>>
  BY DEF Delete
<1>8. TaskSound(t)'
  <2>1. ControlSound(t)'
    BY <1>2, <1>3, <1>4, <1>7, Typed DEF network, node, TaskSound, ControlSound, Stopped
  <2>2. DeliverySound(t)'
    BY <1>2, <1>3, <1>4, <1>7 DEF network, node, TaskSound, DeliverySound, DeliveryReport
  <2>3. DispatchSound(t)'
    BY <1>2, <1>3, <1>4, <1>7 DEF network, node, TaskSound, DispatchSound, Exists
  <2>4. RoundSound(t)'
    BY <1>2, <1>3, <1>4, <1>7 DEF network, node, TaskSound, RoundSound, Running, Exists
  <2>5. ReportSound(t)'
    BY <1>2, <1>3, <1>4, <1>7 DEF network, node, TaskSound, ReportSound
  <2>6. StopSound(t)'
    BY <1>2, <1>3, <1>4, <1>7 DEF network, node, TaskSound, StopSound, Exists
  <2>7. AckSound(t)'
    BY <1>2, <1>3, <1>4, <1>7 DEF network, node, TaskSound, AckSound
  <2>8. HandlerSound(t)'
    BY <1>2, <1>3, <1>4, <1>7, <1>6 DEF network, node, TaskSound, HandlerSound, Running
  <2>9. LaunchSound(t)'
    BY <1>2, <1>3, <1>4, <1>7 DEF network, node, TaskSound, LaunchSound, Knows
  <2>10. EndSound(t)'
    BY <1>2, <1>3, <1>4, <1>7, <1>5, <1>6 DEF network, node, TaskSound, EndSound, Running, DeliveryReport
  <2> QED
    BY <2>1, <2>2, <2>3, <2>4, <2>5, <2>6, <2>7, <2>8, <2>9, <2>10 DEF TaskSound
<1> QED
  BY <1>1, <1>2, <1>8, RowStep DEF Delete, IInv, TypeOK

LEMMA SettleStopKeeps ==
    ASSUME IInv, NEW t \in Tasks, NEW confirmed \in BOOLEAN, SettleStop(t, confirmed)
    PROVE  IInv'
<1>1. CASE ~confirmed
  <2>1. row[t] \in Rows /\ row' = [row EXCEPT ![t] = row[t]]
    BY <1>1 DEF IInv, TypeOK, SettleStop
  <2> QED
    BY <2>1, RowTouched DEF SettleStop, IInv, TypeOK
<1>2. CASE confirmed
  <2> DEFINE c  == [row[t].control EXCEPT !.confirmed = TRUE]
             r0 == [row[t] EXCEPT !.control = c]
             r  == [r0 EXCEPT !.pm = IF row[t].bound THEN row[t].status ELSE @]
  <2>1. /\ row[t].control # None /\ row[t].control \in Controls
        /\ row[t].control.id \in acks
    BY <1>2, Typed DEF SettleStop, Unsettled
  <2>2. /\ c \in Controls /\ c # None /\ c.id = row[t].control.id
        /\ c.action = row[t].control.action /\ c.generation = row[t].control.generation
        /\ c.dispatched = row[t].control.dispatched
    BY <2>1, LedgerAssumption DEF Controls
  <2>3. TaskSound(t)
    BY DEF IInv
  <2> HIDE DEF c
  <2>4. row[t].status \in {"paused", "cancelled"}
    BY <2>1, <2>3 DEF TaskSound, ControlSound, Stopped
  <2>5. r0 \in Rows /\ r0.pm \in PMStatuses
    BY <2>2, Typed, RowWith DEF Rows
  <2>6. r \in Rows
    BY <2>4, <2>5, RowWith DEF PMStatuses
  <2>7. row' = [row EXCEPT ![t] = r]
    BY <1>2, <2>1 DEF SettleStop, c, IInv, TypeOK, Rows
  <2>8. /\ r.status = row[t].status /\ r.bound = row[t].bound
        /\ r.control = c /\ r.delivery = row[t].delivery
        /\ r.generation = row[t].generation /\ r.grant = row[t].grant
    BY Typed DEF Rows
  <2>9. row'[t] = r
    BY <2>7 DEF IInv, TypeOK
  <2> HIDE DEF r
  <2>10. UNCHANGED <<replacement, requests, call, network, node>>
    BY DEF SettleStop
  <2>11. TaskSound(t)'
    <3>1. ControlSound(t)'
      BY <2>1, <2>2, <2>3, <2>8, <2>9, <2>10, Typed DEF network, node, TaskSound, ControlSound, Stopped
    <3>2. DeliverySound(t)'
      BY <2>1, <2>2, <2>3, <2>8, <2>9, <2>10 DEF network, node, TaskSound, DeliverySound, DeliveryReport
    <3>3. DispatchSound(t)'
      BY <2>1, <2>2, <2>3, <2>8, <2>9, <2>10 DEF network, node, TaskSound, DispatchSound
    <3>4. RoundSound(t)'
      BY <2>1, <2>2, <2>3, <2>8, <2>9, <2>10 DEF network, node, TaskSound, RoundSound, Running, Exists
    <3>5. ReportSound(t)'
      BY <2>1, <2>2, <2>3, <2>8, <2>9, <2>10 DEF network, node, TaskSound, ReportSound
    <3>6. StopSound(t)'
      BY <2>1, <2>2, <2>3, <2>8, <2>9, <2>10 DEF network, node, TaskSound, StopSound, Exists
    <3>7. AckSound(t)'
      BY <2>1, <2>2, <2>3, <2>8, <2>9, <2>10 DEF network, node, TaskSound, AckSound
    <3>8. HandlerSound(t)'
      BY <2>1, <2>2, <2>3, <2>8, <2>9, <2>10 DEF network, node, TaskSound, HandlerSound, Running
    <3>9. LaunchSound(t)'
      BY <2>1, <2>2, <2>3, <2>8, <2>9, <2>10 DEF network, node, TaskSound, LaunchSound, Knows
    <3>10. EndSound(t)'
      BY <2>1, <2>2, <2>3, <2>8, <2>9, <2>10 DEF network, node, TaskSound, EndSound, Running, DeliveryReport
    <3> QED
      BY <3>1, <3>2, <3>3, <3>4, <3>5, <3>6, <3>7, <3>8, <3>9, <3>10 DEF TaskSound
  <2> QED
    BY <2>1, <2>2, <2>6, <2>7, <2>8, <2>11, RowStep DEF SettleStop, IInv, TypeOK
<1> QED
  BY <1>1, <1>2

LEMMA ReviewKeeps ==
    ASSUME IInv, NEW t \in Tasks, NEW verdict \in {"accepted", "rejected"}, Review(t, verdict)
    PROVE  IInv'
<1> DEFINE r == [row[t] EXCEPT !.status = verdict]
<1>1. r \in Rows /\ row' = [row EXCEPT ![t] = r]
  BY Typed, RowWith DEF Review, Statuses
<1>2. /\ r.status = verdict /\ r.bound = row[t].bound
      /\ r.control = row[t].control /\ r.delivery = row[t].delivery
      /\ r.generation = row[t].generation /\ r.grant = row[t].grant
  BY Typed DEF Rows
<1>3. row'[t] = r
  BY <1>1 DEF IInv, TypeOK
<1> HIDE DEF r
<1>4. TaskSound(t)'
  BY <1>2, <1>3, Typed
  DEF IInv, Review, network, node, TaskSound, ControlSound, DeliverySound, DispatchSound,
      RoundSound, ReportSound, StopSound, AckSound, HandlerSound, LaunchSound, EndSound, Stopped,
      Running, Exists, Knows, DeliveryReport
<1> QED
  BY <1>1, <1>2, <1>4, RowStep DEF Review, IInv, TypeOK

-----------------------------------------------------------------------------
(* Reports arrive.                                                         *)

LEMMA StatusArrivesKeeps ==
    ASSUME IInv, NEW m \in reports, StatusArrives(m)
    PROVE  IInv'
<1> DEFINE t == m.task
           r0 == [row[t] EXCEPT !.pm = m.status]
           r1 == [r0 EXCEPT !.recovery = FALSE]
           r2 == [r1 EXCEPT !.doubt = FALSE]
<1>1. t \in Tasks /\ m.status \in PMStatuses
  BY DEF IInv, MessagesOK, Reported, PMStatuses
<1>2. r2 \in Rows /\ row[t] \in Rows
  BY <1>1, Typed, RowWith
<1>3. row' = [row EXCEPT ![t] = row[t]] \/ row' = [row EXCEPT ![t] = r2]
  BY <1>1 DEF StatusArrives, IInv, TypeOK
<1>4. /\ r2.status = row[t].status /\ r2.bound = row[t].bound
      /\ r2.control = row[t].control /\ r2.delivery = row[t].delivery
      /\ r2.generation = row[t].generation /\ r2.grant = row[t].grant
  BY <1>1, Typed DEF Rows
<1>5. UNCHANGED <<replacement, requests, call, network, node>>
  BY DEF StatusArrives
<1> HIDE DEF r2, t
<1> QED
  BY <1>1, <1>2, <1>3, <1>4, <1>5, RowTouched DEF IInv, TypeOK

\* Since the verdict the PM of that round does not work, and none of a later one does.
LEMMA VerdictArrivesKeeps ==
    ASSUME IInv, NEW m \in reports, VerdictArrives(m)
    PROVE  IInv'
<1> DEFINE t == m.task
           r == [row[t] EXCEPT !.status = m.status]
<1>1. t \in Tasks /\ m.status \in {"completed", "failed"} /\ m.kind = "verdict"
  BY DEF IInv, MessagesOK, Reported, VerdictArrives
<1>2. r \in Rows /\ row[t] \in Rows
  BY <1>1, Typed, RowWith DEF Statuses
<1>3. UNCHANGED <<replacement, requests, call, network, node>>
  BY DEF VerdictArrives
<1>4. CASE row' = row
  <2>1. row' = [row EXCEPT ![t] = row[t]]
    BY <1>1, <1>4 DEF IInv, TypeOK
  <2> QED
    BY <1>1, <1>2, <1>3, <2>1, RowTouched DEF IInv, TypeOK
<1>5. CASE row' # row
  <2>1. /\ row' = [row EXCEPT ![t] = r]
        /\ row[t].bound /\ row[t].generation = m.generation /\ row[t].status = "running"
    BY <1>1, <1>5 DEF VerdictArrives
  <2>2. /\ r.status = m.status /\ r.bound = row[t].bound
        /\ r.control = row[t].control /\ r.delivery = row[t].delivery
        /\ r.generation = row[t].generation /\ r.grant = row[t].grant
    BY <1>1, Typed DEF Rows
  <2>3. row'[t] = r
    BY <1>1, <2>1 DEF IInv, TypeOK
  <2>4. TaskSound(t)
    BY <1>1 DEF IInv
  <2> HIDE DEF r, t
  <2>5. /\ disk[t] # None /\ m.generation <= disk[t].generation
        /\ mem[t] # None /\ mem[t].generation = m.generation => ~Running(t)
    BY <1>1, <2>4 DEF t, TaskSound, ReportSound, Running
  <2>6. ~Running(t)
    BY <2>1, <2>4, <2>5 DEF TaskSound, RoundSound, Running, Exists
  <2>7. handler[t] # None => handler[t].stage = "claimed"
    BY <1>1, <2>1, <2>4, <2>5, Typed, TypedMessages DEF TaskSound, HandlerSound
  <2>8. TaskSound(t)'
    <3>1. ControlSound(t)'
      BY <1>1, <1>3, <2>1, <2>2, <2>3, <2>4, Typed DEF network, node, TaskSound, ControlSound, Stopped
    <3>2. DeliverySound(t)'
      BY <1>1, <1>3, <2>1, <2>2, <2>3, <2>4 DEF network, node, TaskSound, DeliverySound, DeliveryReport
    <3>3. DispatchSound(t)'
      BY <1>1, <1>3, <2>1, <2>2, <2>3, <2>4 DEF network, node, TaskSound, DispatchSound
    <3>4. RoundSound(t)'
      BY <1>1, <1>3, <2>1, <2>2, <2>3, <2>4 DEF network, node, TaskSound, RoundSound, Running, Exists
    <3>5. ReportSound(t)'
      BY <1>1, <1>3, <2>1, <2>2, <2>3, <2>4 DEF network, node, TaskSound, ReportSound
    <3>6. StopSound(t)'
      BY <1>1, <1>3, <2>1, <2>2, <2>3, <2>4 DEF network, node, TaskSound, StopSound, Exists
    <3>7. AckSound(t)'
      BY <1>1, <1>3, <2>1, <2>2, <2>3, <2>4 DEF network, node, TaskSound, AckSound, ControlSound, Stopped
    <3>8. HandlerSound(t)'
      BY <1>3, <2>4, <2>7 DEF network, node, TaskSound, HandlerSound, Running
    <3>9. LaunchSound(t)'
      BY <1>1, <1>3, <2>1, <2>2, <2>3, <2>4 DEF network, node, TaskSound, LaunchSound, Knows
    <3>10. EndSound(t)'
      BY <1>1, <1>3, <2>1, <2>2, <2>3, <2>4, <2>6 DEF network, node, TaskSound, EndSound, Running, DeliveryReport
    <3> QED
      BY <3>1, <3>2, <3>3, <3>4, <3>5, <3>6, <3>7, <3>8, <3>9, <3>10 DEF TaskSound
  <2> QED
    BY <1>1, <1>2, <1>3, <2>1, <2>2, <2>8, RowStep DEF IInv, TypeOK
<1> QED
  BY <1>4, <1>5

\* A delivery of the row's round comes from before any continuation that is at work.
LEMMA DeliveryArrivesKeeps ==
    ASSUME IInv, NEW m \in reports, DeliveryArrives(m)
    PROVE  IInv'
<1> DEFINE t == m.task
           r0 == [row[t] EXCEPT !.recovery = FALSE]
           r == [r0 EXCEPT !.delivery = m.generation]
<1>1. /\ t \in Tasks /\ m.generation \in Generations
      /\ m = DeliveryReport(t, m.generation)
  BY DEF IInv, MessagesOK, Reported, DeliveryArrives, DeliveryReport
<1>2. r \in Rows /\ row' = [row EXCEPT ![t] = r]
  BY <1>1, Typed, RowWith DEF DeliveryArrives
<1>3. /\ r.status = row[t].status /\ r.bound = row[t].bound
      /\ r.control = row[t].control /\ r.delivery = m.generation
      /\ r.generation = row[t].generation /\ r.grant = row[t].grant
  BY <1>1, Typed DEF Rows
<1>4. row'[t] = r
  BY <1>1, <1>2 DEF IInv, TypeOK
<1>5. /\ Exists(t) /\ row[t].bound /\ row[t].generation = m.generation
      /\ ~Stopped(t) /\ m \in reports
      /\ UNCHANGED <<replacement, requests, call, network, node>>
  BY DEF DeliveryArrives
<1>6. TaskSound(t)
  BY <1>1 DEF IInv
<1>7. m.generation # None
  BY <1>1, LedgerAssumption
<1> HIDE DEF r
<1>8. handler[t] # None => handler[t].stage = "claimed"
  BY <1>1, <1>5, <1>6, Typed, TypedMessages DEF TaskSound, ReportSound, HandlerSound
<1> HIDE DEF t
<1>9. TaskSound(t)'
  BY ZenonT(40), <1>1, <1>3, <1>4, <1>5, <1>6, <1>7, <1>8, Typed
  DEF network, node, TaskSound, ControlSound, DeliverySound, DispatchSound,
      RoundSound, ReportSound, StopSound, AckSound, HandlerSound, LaunchSound, EndSound, Stopped,
      Running, Exists, Knows
<1> QED
  BY <1>1, <1>2, <1>3, <1>5, <1>9, RowStep DEF IInv, TypeOK

-----------------------------------------------------------------------------
(* Requests to a node are made.                                            *)

LEMMA BindKeeps ==
    ASSUME IInv, NEW t \in Tasks, Bind(t)
    PROVE  IInv'
<1> DEFINE r0 == [row[t] EXCEPT !.status = "running"]
           r1 == [r0 EXCEPT !.bound = TRUE]
           r  == [r1 EXCEPT !.pm = "starting"]
           start == [kind |-> "start", task |-> t]
<1>1. r \in Rows
  BY Typed, RowWith DEF Statuses, PMStatuses
<1>2. row' = [row EXCEPT ![t] = r]
  BY DEF Bind
<1>3. /\ r.status = "running" /\ r.bound
      /\ r.control = row[t].control /\ r.delivery = row[t].delivery
      /\ r.generation = row[t].generation /\ r.grant = row[t].grant
  BY Typed DEF Rows
<1>4. row'[t] = r /\ \A u \in Tasks \ {t} : row'[u] = row[u]
  BY <1>2 DEF IInv, TypeOK
<1> HIDE DEF r
<1>5. /\ wire \subseteq wire' /\ wire' \subseteq wire \cup {start}
      /\ call' \in [Tasks -> {"none", "sent", "unsent"}]
      /\ UNCHANGED <<replacement, requests, acks, reports, node>>
      /\ row[t].status = "pending"
  BY DEF Bind, IInv, TypeOK
<1>6. TypeOK' /\ MessagesOK'
  <2>1. start \in StartRequests
    BY DEF StartRequests
  <2> QED
    BY <1>1, <1>2, <1>5, <2>1 DEF IInv, TypeOK, MessagesOK, node
<1>7. \A u \in Tasks, i \in Requests : Knows(u, i)' => Knows(u, i)
  BY <1>3, <1>4, <1>5 DEF Knows, node
<1>8. RequestsSound'
  BY <1>5, <1>7, RequestsKeep DEF node
<1>9. \A u \in Tasks \ {t} : SameRow(u) /\ SameNode(u) /\ SameMessages(u)
  BY <1>4, <1>5, Typed DEF SameRow, SameNode, SameMessages, node
<1>10. TaskSound(t)
  BY DEF IInv
<1>11. \A m \in wire' : m \in wire \/ m.kind = "start"
  BY <1>5
<1>12. TaskSound(t)'
  <2>1. ControlSound(t)'
    BY <1>3, <1>4, <1>5, <1>10 DEF node, TaskSound, ControlSound, Stopped
  <2>2. DeliverySound(t)'
    BY <1>3, <1>4, <1>5, <1>10 DEF node, TaskSound, DeliverySound, DeliveryReport
  <2>3. DispatchSound(t)'
    BY <1>3, <1>4, <1>5, <1>10, <1>11 DEF node, TaskSound, DispatchSound
  <2>4. RoundSound(t)'
    BY <1>3, <1>4, <1>5, <1>10 DEF node, TaskSound, RoundSound, Running, Exists
  <2>5. ReportSound(t)'
    BY <1>3, <1>4, <1>5, <1>10 DEF node, TaskSound, ReportSound
  <2>6. StopSound(t)'
    BY <1>3, <1>4, <1>5, <1>10, <1>11 DEF node, TaskSound, StopSound, Exists
  <2>7. AckSound(t)'
    BY <1>3, <1>4, <1>5, <1>10 DEF node, TaskSound, AckSound, ControlSound, Stopped
  <2>8. HandlerSound(t)'
    BY <1>3, <1>4, <1>5, <1>10, <1>11 DEF node, TaskSound, HandlerSound, Running, DispatchSound
  <2>9. LaunchSound(t)'
    BY <1>3, <1>4, <1>5, <1>10, <1>7 DEF node, TaskSound, LaunchSound, Knows
  <2>10. EndSound(t)'
    BY <1>3, <1>4, <1>5, <1>10 DEF node, TaskSound, EndSound, Running, DeliveryReport
  <2> QED
    BY <2>1, <2>2, <2>3, <2>4, <2>5, <2>6, <2>7, <2>8, <2>9, <2>10 DEF TaskSound
<1> QED
  BY <1>6, <1>8, <1>9, <1>12, TaskStep

\* What is replaced has ended, and is not continued.
LEMMA ResubmitKeeps ==
    ASSUME IInv, NEW s \in Tasks, NEW r \in Tasks, Resubmit(s, r)
    PROVE  IInv'
<1>1. /\ row' = [row EXCEPT ![r] = NewRow]
      /\ replacement' = [replacement EXCEPT ![s] = r]
      /\ UNCHANGED <<requests, call, network, node>>
      /\ Exists(s) /\ SourceEnded(s) /\ row[r].status = "absent" /\ r # s
  BY DEF Resubmit, Exists
<1>2. /\ row'[r] = NewRow /\ \A u \in Tasks \ {r} : row'[u] = row[u]
      /\ \A u \in Tasks \ {s} : replacement'[u] = replacement[u]
  BY <1>1 DEF IInv, TypeOK
<1>3. TypeOK' /\ MessagesOK'
  BY <1>1, NewRowTyped DEF IInv, TypeOK, MessagesOK, network, node
<1>4. RequestsSound'
  BY <1>1, <1>2, RequestsKeep DEF Knows, NewRow, network, node
<1>5. TaskSound(r)'
  BY <1>1, <1>2, Typed
  DEF IInv, NewRow, network, node, TaskSound, ControlSound, DeliverySound, DispatchSound,
      RoundSound, ReportSound, StopSound, AckSound, HandlerSound, LaunchSound, EndSound, Stopped,
      Running, Exists, Knows
<1>6. TaskSound(s)'
  <2>1. TaskSound(s)
    BY DEF IInv
  <2>2. ~Running(s) /\ (handler[s] # None => handler[s].stage = "claimed")
    <3>1. CASE Confirmed(s)
      BY <3>1, ConfirmedQuiet
    <3>2. CASE row[s].status = "failed"
      BY <2>1, <3>2 DEF TaskSound, EndSound, HandlerSound
    <3> QED
      BY <1>1, <3>1, <3>2 DEF SourceEnded
  <2>3. row[s].status \in {"failed", "cancelled"}
    BY <1>1 DEF SourceEnded
  <2>4. ControlSound(s)'
    BY <1>1, <1>2, <2>1, Typed DEF network, node, TaskSound, ControlSound, Stopped
  <2>5. DeliverySound(s)'
    BY <1>1, <1>2, <2>1 DEF network, node, TaskSound, DeliverySound, DeliveryReport
  <2>6. DispatchSound(s)'
    BY <1>1, <1>2, <2>1 DEF network, node, TaskSound, DispatchSound
  <2>7. RoundSound(s)'
    BY <1>1, <1>2, <2>1 DEF network, node, TaskSound, RoundSound, Running, Exists
  <2>8. ReportSound(s)'
    BY <1>1, <1>2, <2>1 DEF network, node, TaskSound, ReportSound
  <2>9. StopSound(s)'
    BY <1>1, <1>2, <2>1 DEF network, node, TaskSound, StopSound, Exists
  <2>10. AckSound(s)'
    BY <1>1, <1>2, <2>1 DEF network, node, TaskSound, AckSound
  <2>11. HandlerSound(s)'
    BY <1>1, <1>2, <2>1 DEF network, node, TaskSound, HandlerSound, Running
  <2>12. LaunchSound(s)'
    BY <1>1, <1>2, <2>1 DEF network, node, TaskSound, LaunchSound, Knows
  <2>13. EndSound(s)'
    BY <1>1, <1>2, <2>1, <2>2, <2>3 DEF network, node, TaskSound, EndSound, Running, DeliveryReport
  <2> QED
    BY <2>4, <2>5, <2>6, <2>7, <2>8, <2>9, <2>10, <2>11, <2>12, <2>13 DEF TaskSound
<1>7. ASSUME NEW u \in Tasks \ {r, s} PROVE TaskSound(u)'
  BY <1>1, <1>2, AsideKeeps, Typed DEF network, node, SameRow, SameNode, SameMessages
<1> QED
  BY <1>3, <1>4, <1>5, <1>6, <1>7 DEF IInv

\* The row's own stop, put into a request, belongs to the row's round.
LEMMA StopMessageTyped ==
    ASSUME NEW t \in Tasks, NEW c \in Controls
    PROVE  LET m == StopMessage(t, c)
           IN  /\ m \in StopRequests /\ m.kind = "stop" /\ m.task = t /\ m.id = c.id
               /\ m.action = c.action /\ m.generation = c.generation
BY DEF StopMessage, StopRequests, Controls

\* A pause that is under way can only be overtaken by a cancellation, and a cancellation by
\* nothing; the new request is not acknowledged yet.
LEMMA RequestStopKeeps ==
    ASSUME IInv, NEW t \in Tasks, NEW action \in Actions, RequestStop(t, action)
    PROVE  IInv'
<1> DEFINE dispatched == row[t].bound \/ row[t].status # "pending" \/ row[t].recovery
           c == [id |-> requests + 1, action |-> action, confirmed |-> ~dispatched,
                 dispatched |-> dispatched, generation |-> row[t].generation]
           r0 == [row[t] EXCEPT !.status = IF action = "cancel" THEN "cancelled" ELSE "paused"]
           r1 == [r0 EXCEPT !.control = c]
           r  == [r1 EXCEPT !.pm = IF row[t].bound THEN "unknown" ELSE @]
           m0 == StopMessage(t, c)
<1>1. requests + 1 \in Requests /\ requests' = requests + 1 /\ requests \in Nat
  BY LedgerAssumption DEF RequestStop, IInv, TypeOK, Requests
<1>2. row[t] \in Rows /\ dispatched \in BOOLEAN /\ row[t].generation \in Generations
  BY Typed DEF Rows
<1>3. c \in Controls /\ c # None
  <2> HIDE DEF dispatched
  <2>1. (~dispatched) \in BOOLEAN
    BY <1>2
  <2>2. c \in Controls
    BY <1>1, <1>2, <2>1 DEF Controls
  <2> QED
    BY <2>2, LedgerAssumption
<1>4. /\ c.id = requests + 1 /\ c.action = action /\ c.generation = row[t].generation
      /\ row[t].bound => c.dispatched
      /\ ~(c.dispatched /\ c.confirmed)
  OBVIOUS
<1>5. /\ MayStop(t, action) /\ (row[t].control # None => row[t].control.action # action)
      /\ row' = [row EXCEPT ![t] = r]
      /\ wire \subseteq wire' /\ wire' \subseteq wire \cup {m0}
      /\ UNCHANGED <<replacement, call, acks, reports, node>>
  BY ZenonT(40) DEF RequestStop
<1> HIDE DEF c, m0
<1>6. r1 \in Rows /\ r1.pm \in PMStatuses
  <2>1. (IF action = "cancel" THEN "cancelled" ELSE "paused") \in Statuses
    BY DEF Statuses
  <2>2. r0 \in Rows
    BY <1>2, <2>1, RowWith
  <2>3. r1 \in Rows
    BY <1>3, <2>2, RowWith
  <2> QED
    BY <2>3 DEF Rows
<1>7. r \in Rows
  BY <1>6, RowWith DEF PMStatuses
<1>8. /\ r.status = Result(action) /\ r.bound = row[t].bound
      /\ r.control = c /\ r.delivery = row[t].delivery
      /\ r.generation = row[t].generation /\ r.grant = row[t].grant
  BY <1>2 DEF Rows, Result
<1>9. row'[t] = r /\ \A u \in Tasks \ {t} : row'[u] = row[u]
  BY <1>5 DEF IInv, TypeOK
<1> HIDE DEF r
<1>10. /\ m0 \in StopRequests /\ m0.kind = "stop" /\ m0.task = t /\ m0.id = requests + 1
       /\ m0.action = action /\ m0.generation = row[t].generation
  BY <1>3, <1>4, StopMessageTyped DEF m0
<1>11. TypeOK' /\ MessagesOK'
  BY <1>1, <1>5, <1>7, <1>10, LedgerAssumption DEF IInv, TypeOK, MessagesOK, node, Requests
<1>12. \A u \in Tasks, i \in Requests : Knows(u, i)' => Knows(u, i) \/ (u = t /\ i = requests + 1)
  BY <1>4, <1>5, <1>8, <1>9, <1>10 DEF Knows, node
<1>13. RequestsSound'
  BY <1>1, <1>5, <1>12, RequestsGrow DEF node
<1>14. \A u \in Tasks \ {t} : SameRow(u) /\ SameNode(u) /\ SameMessages(u)
  BY <1>1, <1>5, <1>9, <1>10 DEF SameRow, SameNode, SameMessages, node
<1>15. TaskSound(t)
  BY DEF IInv
<1>16. /\ Exists(t) /\ row[t].delivery = None
       /\ row[t].status \notin {"completed", "accepted", "rejected", "failed"}
       /\ row[t].status = "cancelled" => action = "cancel"
  BY <1>5 DEF MayStop, Actions
<1>17. row[t].control # None => row[t].status = "paused" /\ row[t].control.action = "pause" /\ action = "cancel"
  BY <1>5, <1>15, <1>16, Typed DEF TaskSound, ControlSound, Result, Controls, Actions
<1>18. row'[t].status \in {"paused", "cancelled"} /\ row'[t].generation <= requests
  BY <1>8, <1>9, <1>15 DEF Result, TaskSound, ControlSound
<1>19. \A m \in wire : m.kind = "stop" /\ m.task = t => m.id \in Requests /\ m.id <= requests
  BY TypedMessages DEF IInv, RequestsSound, Knows, StopRequests
<1>20. replacement[t] = None
  BY <1>15, <1>16, <1>17 DEF TaskSound, EndSound, ControlSound, Stopped, Exists
<1>21. TaskSound(t)'
  <2> USE <1>5, <1>8, <1>9, <1>15 DEF node, TaskSound
  <2>1. ControlSound(t)'
    BY <1>18, <1>1, <1>2, <1>3, <1>4, Typed DEF ControlSound, Stopped
  <2>2. DeliverySound(t)'
    BY <1>18, <1>16 DEF DeliverySound, DeliveryReport
  <2>3. DispatchSound(t)'
    BY <1>18, <1>10, <1>16 DEF DispatchSound, Exists
  <2>4. RoundSound(t)'
    BY <1>18, <1>16 DEF RoundSound, Running, Exists
  <2>5. ReportSound(t)'
    BY <1>18 DEF ReportSound
  <2>6. StopSound(t)'
    <3> SUFFICES ASSUME NEW m \in wire', m.kind = "stop", m.task = t
                 PROVE  /\ m.generation < m.id
                        /\ \/ m.id < row'[t].generation
                           \/ /\ m.generation = row'[t].generation /\ m.id <= c.id
                              /\ \/ m.id = c.id /\ m.action = action
                                 \/ m.id # c.id /\ m.action = "pause" /\ action = "cancel"
      BY <1>3, <1>4 DEF StopSound
    <3>1. CASE m = m0
      BY <1>1, <1>4, <1>10, <1>18, <3>1, Typed
    <3>2. CASE m \in wire
      BY <1>1, <1>4, <1>16, <1>17, <1>19, <3>2, Typed, TypedMessages DEF StopSound
    <3> QED
      BY <3>1, <3>2
  <2>7. AckSound(t)'
    BY <1>18, <1>1, <1>4 DEF AckSound, IInv, RequestsSound, Requests
  <2>8. HandlerSound(t)'
    BY <1>18, <1>10, <1>16 DEF HandlerSound, Running
  <2>9. LaunchSound(t)'
    BY <1>18, <1>1, <1>12 DEF LaunchSound, IInv, RequestsSound, Requests
  <2>10. EndSound(t)'
    BY <1>18, <1>16, <1>20 DEF EndSound, Running, DeliveryReport
  <2> QED
    BY <2>1, <2>2, <2>3, <2>4, <2>5, <2>6, <2>7, <2>8, <2>9, <2>10
<1> QED
  BY <1>11, <1>13, <1>14, <1>21, TaskStep

\* A request that is already the row's own is sent once more.
LEMMA RepeatsKeep ==
    ASSUME IInv, NEW t \in Tasks, RepeatStop(t) \/ RepeatContinue(t)
    PROVE  IInv'
<1>1. TaskSound(t)
  BY DEF IInv
<1>2. PICK m0 : /\ wire' = wire \cup {m0}
                /\ m0 \in StopRequests \cup ContinueRequests /\ m0.task = t /\ m0.kind # "start"
                /\ m0.kind = "continue" => m0.pause < m0.id
                /\ m0.kind = "stop" =>
                      /\ row[t].control # None /\ row[t].control.id = m0.id
                      /\ m0.action = row[t].control.action /\ m0.generation = row[t].generation
                      /\ m0.generation < m0.id
                /\ Knows(t, m0.id)
  <2>1. CASE RepeatStop(t)
    <3> DEFINE m == StopMessage(t, row[t].control)
    <3>1. /\ row[t].control \in Controls /\ row[t].control # None
          /\ row[t].control.generation = row[t].generation
          /\ row[t].control.generation < row[t].control.id
      BY <1>1, <2>1, Typed DEF RepeatStop, Unsettled, TaskSound, ControlSound
    <3>2. /\ m \in StopRequests /\ m.kind = "stop" /\ m.task = t /\ m.id = row[t].control.id
          /\ m.action = row[t].control.action /\ m.generation = row[t].control.generation
      BY <3>1, StopMessageTyped
    <3>3. Knows(t, m.id) /\ wire' = wire \cup {m}
      BY <2>1, <3>1, <3>2 DEF Knows, RepeatStop
    <3> HIDE DEF m
    <3> QED
      BY <3>1, <3>2, <3>3
  <2>2. CASE RepeatContinue(t)
    <3> DEFINE m == ContinueMessage(t, row[t].grant)
    <3>1. row[t].grant # None /\ row[t].grant \in Grants /\ row[t].grant.pause < row[t].grant.id
      BY <1>1, <2>2, Typed DEF RepeatContinue, TaskSound, ControlSound
    <3>2. /\ m \in ContinueRequests /\ m.kind = "continue" /\ m.task = t
          /\ m.id = row[t].grant.id /\ m.pause = row[t].grant.pause
      BY <3>1 DEF ContinueMessage, ContinueRequests, Grants
    <3>3. Knows(t, m.id) /\ wire' = wire \cup {m}
      BY <2>2, <3>1, <3>2 DEF Knows, RepeatContinue
    <3> HIDE DEF m
    <3> QED
      BY <3>1, <3>2, <3>3
  <2> QED
    BY <2>1, <2>2
<1>3. UNCHANGED <<secretary, acks, reports, node>> /\ Exists(t)
  BY <1>1 DEF RepeatStop, RepeatContinue, Unsettled, Authorised, Eligible, TaskSound, ControlSound,
    Stopped, Exists
<1>4. TypeOK' /\ MessagesOK'
  BY <1>2, <1>3 DEF IInv, TypeOK, MessagesOK, secretary, node
<1>5. \A u \in Tasks, i \in Requests : Knows(u, i)' => Knows(u, i)
  BY <1>2, <1>3 DEF Knows, secretary, node
<1>6. RequestsSound'
  BY <1>3, <1>5, RequestsKeep DEF secretary, node
<1>7. \A u \in Tasks \ {t} : SameRow(u) /\ SameNode(u) /\ SameMessages(u)
  BY <1>2, <1>3, Typed DEF SameRow, SameNode, SameMessages, secretary, node
<1>8. TaskSound(t)'
  <2> USE <1>1, <1>2, <1>3 DEF secretary, node, TaskSound
  <2>1. ControlSound(t)'
    BY <1>3 DEF ControlSound, Stopped
  <2>2. DeliverySound(t)'
    BY <1>3 DEF DeliverySound, DeliveryReport
  <2>3. DispatchSound(t)'
    BY <1>3 DEF DispatchSound, Exists
  <2>4. RoundSound(t)'
    BY <1>3 DEF RoundSound, Running, Exists
  <2>5. ReportSound(t)'
    BY <1>3 DEF ReportSound
  <2>6. StopSound(t)'
    BY <1>3, Typed DEF StopSound, Exists
  <2>7. AckSound(t)'
    BY <1>3 DEF AckSound
  <2>8. HandlerSound(t)'
    BY <1>3 DEF HandlerSound, Running
  <2>9. LaunchSound(t)'
    BY <1>3, <1>5 DEF LaunchSound
  <2>10. EndSound(t)'
    BY <1>3 DEF EndSound, Running, DeliveryReport
  <2> QED
    BY <2>1, <2>2, <2>3, <2>4, <2>5, <2>6, <2>7, <2>8, <2>9, <2>10
<1> QED
  BY <1>4, <1>6, <1>7, <1>8, TaskStep

\* A continuation is asked for of the pause that the row names.
LEMMA RequestContinueKeeps ==
    ASSUME IInv, NEW t \in Tasks, RequestContinue(t)
    PROVE  IInv'
<1> DEFINE g == [id |-> requests + 1, pause |-> row[t].control.id,
                 revision |-> disk[t].revision, active |-> FALSE]
           r == [row[t] EXCEPT !.grant = g]
           m0 == ContinueMessage(t, g)
<1>1. requests + 1 \in Requests /\ requests' = requests + 1 /\ requests \in Nat
  BY LedgerAssumption DEF RequestContinue, IInv, TypeOK, Requests
<1>2. /\ row[t] \in Rows /\ row[t].control # None /\ row[t].control.id \in Requests
      /\ disk[t].revision \in Nat /\ Exists(t)
  BY Typed DEF RequestContinue, Confirmed, Controls, Checkpoints
<1>3. g \in Grants /\ g # None
  <2>1. g \in Grants
    BY <1>1, <1>2 DEF Grants
  <2> QED
    BY <2>1, LedgerAssumption
<1>4. Knows(t, row[t].control.id)
  BY <1>2 DEF Knows
<1>5. row[t].control.id <= requests
  BY <1>2, <1>4 DEF IInv, RequestsSound
<1>6. g.id = requests + 1 /\ g.pause < g.id
  BY <1>1, <1>2, <1>5, Typed
<1>7. /\ row' = [row EXCEPT ![t] = r]
      /\ wire' = wire \cup {m0}
      /\ UNCHANGED <<replacement, call, acks, reports, node>>
  BY DEF RequestContinue
<1>8. /\ m0 \in ContinueRequests /\ m0.kind = "continue" /\ m0.task = t /\ m0.id = g.id
      /\ m0.pause = g.pause
  BY <1>3 DEF ContinueMessage, ContinueRequests, Grants
<1> HIDE DEF g, m0
<1>9. r \in Rows
  BY <1>2, <1>3, RowWith
<1>10. /\ r.status = row[t].status /\ r.bound = row[t].bound
       /\ r.control = row[t].control /\ r.delivery = row[t].delivery
       /\ r.generation = row[t].generation /\ r.grant = g
  BY <1>2 DEF Rows
<1>11. row'[t] = r /\ \A u \in Tasks \ {t} : row'[u] = row[u]
  BY <1>7 DEF IInv, TypeOK
<1> HIDE DEF r
<1>12. TypeOK' /\ MessagesOK'
  BY <1>1, <1>7, <1>8, <1>9, LedgerAssumption DEF IInv, TypeOK, MessagesOK, node, Requests
<1>13. \A u \in Tasks, i \in Requests : Knows(u, i)' => Knows(u, i) \/ (u = t /\ i = requests + 1)
  BY <1>6, <1>7, <1>8, <1>10, <1>11 DEF Knows, node
<1>14. RequestsSound'
  BY <1>1, <1>7, <1>13, RequestsGrow DEF node
<1>15. \A u \in Tasks \ {t} : SameRow(u) /\ SameNode(u) /\ SameMessages(u)
  BY <1>1, <1>7, <1>8, <1>11 DEF SameRow, SameNode, SameMessages, node
<1>16. TaskSound(t)
  BY DEF IInv
<1>17. TaskSound(t)'
  <2> USE <1>7, <1>8, <1>10, <1>11, <1>16 DEF node, TaskSound
  <2>1. ControlSound(t)'
    BY <1>2, <1>1, <1>3, <1>6, Typed DEF ControlSound, Stopped
  <2>2. DeliverySound(t)'
    BY <1>2 DEF DeliverySound, DeliveryReport
  <2>3. DispatchSound(t)'
    BY <1>2 DEF DispatchSound, Exists
  <2>4. RoundSound(t)'
    BY <1>2 DEF RoundSound, Running, Exists
  <2>5. ReportSound(t)'
    BY <1>2 DEF ReportSound
  <2>6. StopSound(t)'
    BY <1>2 DEF StopSound, Exists
  <2>7. AckSound(t)'
    BY <1>2 DEF AckSound
  <2>8. HandlerSound(t)'
    BY <1>2, <1>6 DEF HandlerSound, Running
  <2>9. LaunchSound(t)'
    BY <1>2, <1>1, <1>13 DEF LaunchSound, IInv, RequestsSound, Requests
  <2>10. EndSound(t)'
    BY <1>2 DEF EndSound, Running, DeliveryReport
  <2> QED
    BY <2>1, <2>2, <2>3, <2>4, <2>5, <2>6, <2>7, <2>8, <2>9, <2>10
<1> QED
  BY <1>12, <1>14, <1>15, <1>17, TaskStep

\* What the node shows of a receipt confirms the row's stop: it is of the row's round.
LEMMA ReadReceiptKeeps ==
    ASSUME IInv, NEW t \in Tasks, ReadReceipt(t)
    PROVE  IInv'
<1> DEFINE k == row[t].control.id
<1>1. /\ row[t].control # None /\ row[t].control \in Controls /\ k \in Requests
      /\ acks' = acks \cup {k}
      /\ UNCHANGED <<secretary, wire, reports, node>>
  BY Typed DEF ReadReceipt, Unsettled, Controls
<1>2. TypeOK' /\ MessagesOK'
  BY <1>1 DEF IInv, TypeOK, MessagesOK, secretary, node
<1>3. Knows(t, k) /\ \A u \in Tasks, i \in Requests : Knows(u, i)' => Knows(u, i)
  BY <1>1 DEF Knows, secretary, node
<1>4. RequestsSound'
  BY <1>1, <1>3, RequestsAcked DEF secretary, node
<1>5. \A u \in Tasks \ {t} : SameRow(u) /\ SameNode(u) /\ SameMessages(u)
  <2>1. \A u \in Tasks \ {t} : ~Knows(u, k)
    BY <1>1, <1>3 DEF IInv, RequestsSound
  <2> QED
    BY <1>1, <2>1, Typed DEF SameRow, SameNode, SameMessages, secretary, node
<1>6. TaskSound(t)
  BY DEF IInv
<1>7. /\ disk[t] # None /\ disk[t].generation = row[t].control.generation
      /\ mem[t] # None => mem[t].phase = row[t].status
  <2> DEFINE receipt == [id |-> row[t].control.id, action |-> row[t].control.action]
  <2>1. receipt.action = row[t].control.action /\ receipt # None
    BY <1>1, LedgerAssumption DEF Receipts, Controls
  <2> HIDE DEF receipt
  <2>2. row[t].status = Result(row[t].control.action)
    BY <1>1, <1>6 DEF TaskSound, ControlSound
  <2>3. CASE mem[t] # None
    <3>1. mem[t].receipt = receipt /\ mem[t].generation = row[t].control.generation
      BY <2>3 DEF ReadReceipt, receipt
    <3> QED
      BY <1>6, <2>1, <2>2, <2>3, <3>1 DEF TaskSound, RoundSound
  <2>4. CASE mem[t] = None
    BY <2>4 DEF ReadReceipt
  <2> QED
    BY <2>3, <2>4
<1> HIDE DEF k
<1>8. TaskSound(t)'
  <2> USE <1>1, <1>6 DEF secretary, node, TaskSound
  <2>1. ControlSound(t)'
    BY <1>1, Typed DEF ControlSound, Stopped
  <2>2. DeliverySound(t)'
    BY <1>1 DEF DeliverySound, DeliveryReport
  <2>3. DispatchSound(t)'
    BY <1>1 DEF DispatchSound
  <2>4. RoundSound(t)'
    BY <1>1 DEF RoundSound, Running, Exists
  <2>5. ReportSound(t)'
    BY <1>1 DEF ReportSound
  <2>6. StopSound(t)'
    BY <1>1 DEF StopSound, Exists
  <2>7. AckSound(t)'
    BY <1>1, <1>7 DEF AckSound
  <2>8. HandlerSound(t)'
    BY <1>1 DEF HandlerSound, Running
  <2>9. LaunchSound(t)'
    BY <1>1 DEF LaunchSound, Knows
  <2>10. EndSound(t)'
    BY <1>1 DEF EndSound, Running, DeliveryReport
  <2> QED
    BY <2>1, <2>2, <2>3, <2>4, <2>5, <2>6, <2>7, <2>8, <2>9, <2>10
<1> QED
  BY <1>2, <1>4, <1>5, <1>8, TaskStep

-----------------------------------------------------------------------------
(* The PM on its node.                                                     *)

LEMMA ReportsKeep ==
    ASSUME IInv, NEW t \in Tasks, Progress(t) \/ SendDelivery(t)
    PROVE  IInv'
<1>1. PICK m0 : /\ reports' = reports \cup {m0}
                /\ m0 \in Reported({"status"}, {"running", "completed", "failed"})
                      \cup Reported({"delivery"}, {"completed"})
                /\ m0.task = t /\ m0.kind # "verdict" /\ m0.generation = mem[t].generation
  <2>1. mem[t] # None /\ mem[t].generation \in Generations
    BY Typed DEF Progress, SendDelivery, Running, Instances
  <2>2. CASE Progress(t)
    <3> WITNESS Report(t, "status", "running")
    <3> QED
      BY <2>1, <2>2 DEF Progress, Report, Reported
  <2>3. CASE SendDelivery(t)
    <3> WITNESS Report(t, "delivery", "completed")
    <3> QED
      BY <2>1, <2>3 DEF SendDelivery, Report, Reported
  <2> QED
    BY <2>2, <2>3
<1>2. UNCHANGED <<secretary, wire, acks, node>> /\ Running(t)
  BY DEF Progress, SendDelivery
<1>3. TypeOK' /\ MessagesOK'
  BY <1>1, <1>2 DEF IInv, TypeOK, MessagesOK, secretary, node
<1>4. RequestsSound'
  BY <1>2, RequestsKeep DEF Knows, secretary, node
<1>5. \A u \in Tasks \ {t} : SameRow(u) /\ SameNode(u) /\ SameMessages(u)
  BY <1>1, <1>2, Typed DEF SameRow, SameNode, SameMessages, secretary, node
<1>6. TaskSound(t)
  BY DEF IInv
<1>7. TaskSound(t)'
  <2> USE <1>1, <1>2, <1>6 DEF secretary, node, TaskSound
  <2>1. ControlSound(t)'
    BY Typed DEF ControlSound, Stopped
  <2>2. DeliverySound(t)'
    BY Typed DEF DeliverySound, DeliveryReport
  <2>3. DispatchSound(t)'
    BY Typed DEF DispatchSound
  <2>4. RoundSound(t)'
    BY Typed DEF RoundSound, Running, Exists
  <2>5. ReportSound(t)'
    BY Typed DEF ReportSound, RoundSound, Running
  <2>6. StopSound(t)'
    BY Typed DEF StopSound, Exists
  <2>7. AckSound(t)'
    BY Typed DEF AckSound
  <2>8. HandlerSound(t)'
    BY Typed DEF HandlerSound, Running
  <2>9. LaunchSound(t)'
    BY Typed DEF LaunchSound, Knows
  <2>10. EndSound(t)'
    BY Typed DEF EndSound, Running, DeliveryReport
  <2> QED
    BY <2>1, <2>2, <2>3, <2>4, <2>5, <2>6, <2>7, <2>8, <2>9, <2>10
<1> QED
  BY <1>3, <1>4, <1>5, <1>7, TaskStep

\* A PM that ends or halts keeps its round; from its verdict on it does not work.
LEMMA EndsKeep ==
    ASSUME IInv, NEW t \in Tasks, Halt(t) \/ \E status \in {"completed", "failed"} : End(t, status)
    PROVE  IInv'
<1>1. PICK phase \in {"halted", "completed", "failed"} :
          /\ mem' = [mem EXCEPT ![t].phase = phase]
          /\ disk' = [disk EXCEPT ![t].phase = phase, ![t].revision = @ + 1]
          /\ reports' = IF phase = "halted" THEN reports
                        ELSE reports \cup {Report(t, "status", phase), Report(t, "verdict", phase)}
          /\ UNCHANGED <<secretary, wire, acks, started, handler, working, launches>>
  BY DEF Halt, End, network
<1>2. Running(t) /\ mem[t] # None /\ mem[t] \in Instances
  BY Typed DEF Halt, End, Running
<1>3. TaskSound(t) /\ disk[t] # None /\ disk[t] \in Checkpoints
  BY <1>2, Typed DEF IInv, TaskSound, RoundSound
<1> DEFINE i  == [mem[t] EXCEPT !.phase = phase]
           d0 == [disk[t] EXCEPT !.phase = phase]
           d  == [d0 EXCEPT !.revision = @ + 1]
<1>4. /\ i \in Instances /\ i # None /\ i.phase = phase
      /\ i.generation = mem[t].generation /\ i.receipt = mem[t].receipt
  <2>1. i \in Instances
    BY <1>2 DEF Instances, Phases
  <2> QED
    BY <1>2, <2>1, LedgerAssumption DEF Instances
<1>5. /\ d \in Checkpoints /\ d # None
      /\ d.generation = disk[t].generation /\ d.receipt = disk[t].receipt
  <2>1. d0 \in Checkpoints /\ d0.revision + 1 \in Nat
    BY <1>3 DEF Checkpoints, Phases
  <2>2. d \in Checkpoints
    BY <2>1 DEF Checkpoints
  <2> QED
    BY <1>3, <2>2, LedgerAssumption DEF Checkpoints
<1>6. mem' = [mem EXCEPT ![t] = i] /\ disk' = [disk EXCEPT ![t] = d]
  BY <1>1
<1>7. /\ mem'[t] = i /\ disk'[t] = d
      /\ \A u \in Tasks \ {t} : mem'[u] = mem[u] /\ disk'[u] = disk[u]
  BY <1>6 DEF IInv, TypeOK
<1> HIDE DEF i, d
<1>8. \A m \in reports' : m \in reports \/
          /\ m.task = t /\ m.generation = mem[t].generation
          /\ m.kind = "verdict" => phase \in {"completed", "failed"}
          /\ m \in Reported({"status"}, {"running", "completed", "failed"})
                \cup Reported({"verdict"}, {"completed", "failed"})
  BY <1>1, <1>2 DEF Report, Reported, Instances
<1>9. /\ reports \subseteq reports'
      /\ UNCHANGED <<secretary, wire, acks, started, handler, working, launches>>
  BY <1>1
<1>10. TypeOK' /\ MessagesOK'
  <2>1. TypeOK'
    BY <1>4, <1>5, <1>6, <1>9 DEF IInv, TypeOK, secretary
  <2>2. MessagesOK'
    BY <1>8, <1>9 DEF IInv, MessagesOK
  <2> QED
    BY <2>1, <2>2
<1>11. RequestsSound'
  BY <1>1, RequestsKeep DEF Knows, secretary
<1>12. \A u \in Tasks \ {t} : SameRow(u) /\ SameNode(u) /\ SameMessages(u)
  <2> SUFFICES ASSUME NEW u \in Tasks \ {t} PROVE SameRow(u) /\ SameNode(u) /\ SameMessages(u)
    OBVIOUS
  <2>1. SameRow(u) /\ SameNode(u)
    BY <1>7, <1>9 DEF SameRow, SameNode, secretary
  <2>2. SameMessages(u)
    BY <1>8, <1>9, Typed DEF SameMessages, secretary
  <2> QED
    BY <2>1, <2>2
<1>13. TaskSound(t)'
  <2> USE <1>2, <1>3, <1>4, <1>5, <1>7, <1>9 DEF secretary, TaskSound
  <2>1. ControlSound(t)'
    BY Typed DEF ControlSound, Stopped
  <2>2. DeliverySound(t)'
    BY Typed DEF DeliverySound, DeliveryReport
  <2>3. DispatchSound(t)'
    BY Typed DEF DispatchSound
  <2>4. RoundSound(t)'
    BY Typed DEF RoundSound, Running, Exists, Result
  <2>5. ReportSound(t)'
    BY Typed, <1>8 DEF ReportSound, RoundSound, Running
  <2>6. StopSound(t)'
    BY Typed DEF StopSound, Exists
  <2>7. AckSound(t)'
    BY Typed DEF AckSound, ControlSound, Stopped, Running
  <2>8. HandlerSound(t)'
    BY Typed DEF HandlerSound, Running
  <2>9. LaunchSound(t)'
    BY Typed DEF LaunchSound, Knows
  <2>10. EndSound(t)'
    BY Typed DEF EndSound, Running, DeliveryReport
  <2> QED
    BY <2>1, <2>2, <2>3, <2>4, <2>5, <2>6, <2>7, <2>8, <2>9, <2>10
<1> QED
  BY <1>10, <1>11, <1>12, <1>13, TaskStep

LEMMA QuiesceKeeps ==
    ASSUME IInv, NEW t \in Tasks, Quiesce(t)
    PROVE  IInv'
<1>1. /\ mem[t] # None /\ working' = [working EXCEPT ![t] = {}]
      /\ disk' = disk \/ disk' = [disk EXCEPT ![t].revision = @ + 1]
      /\ UNCHANGED <<secretary, network, started, mem, handler, launches>>
  BY DEF Quiesce
<1>2. TaskSound(t) /\ disk[t] # None /\ disk[t] \in Checkpoints
  BY <1>1, Typed DEF IInv, TaskSound, RoundSound
<1> DEFINE d == [disk[t] EXCEPT !.revision = @ + 1]
<1>3. /\ d \in Checkpoints /\ d # None
      /\ d.generation = disk[t].generation /\ d.receipt = disk[t].receipt
  <2>1. d \in Checkpoints
    BY <1>2 DEF Checkpoints
  <2> QED
    BY <1>2, <2>1, LedgerAssumption DEF Checkpoints
<1>4. disk' = disk \/ disk' = [disk EXCEPT ![t] = d]
  BY <1>1
<1> HIDE DEF d
<1>5. /\ disk'[t] # None
      /\ disk'[t].generation = disk[t].generation /\ disk'[t].receipt = disk[t].receipt
      /\ \A u \in Tasks \ {t} : disk'[u] = disk[u]
      /\ disk' \in [Tasks -> Checkpoints \cup {None}]
  BY <1>2, <1>3, <1>4 DEF IInv, TypeOK
<1>6. /\ working'[t] = {} /\ \A u \in Tasks \ {t} : working'[u] = working[u]
      /\ working' \in [Tasks -> SUBSET Generations]
  BY <1>1 DEF IInv, TypeOK
<1>7. TypeOK' /\ MessagesOK'
  BY <1>1, <1>5, <1>6 DEF IInv, TypeOK, MessagesOK, secretary, network
<1>8. RequestsSound'
  BY <1>1, RequestsKeep DEF Knows, secretary, network
<1>9. \A u \in Tasks \ {t} : SameRow(u) /\ SameNode(u) /\ SameMessages(u)
  BY <1>1, <1>5, <1>6, Typed DEF SameRow, SameNode, SameMessages, secretary, network
<1>10. TaskSound(t)'
  <2> USE <1>1, <1>2, <1>5, <1>6 DEF secretary, network, TaskSound
  <2>1. ControlSound(t)'
    BY Typed DEF ControlSound, Stopped
  <2>2. DeliverySound(t)'
    BY Typed DEF DeliverySound, DeliveryReport
  <2>3. DispatchSound(t)'
    BY Typed DEF DispatchSound
  <2>4. RoundSound(t)'
    BY Typed DEF RoundSound, Running, Exists
  <2>5. ReportSound(t)'
    BY Typed DEF ReportSound
  <2>6. StopSound(t)'
    BY Typed DEF StopSound, Exists
  <2>7. AckSound(t)'
    BY Typed DEF AckSound
  <2>8. HandlerSound(t)'
    BY Typed DEF HandlerSound, Running
  <2>9. LaunchSound(t)'
    BY Typed DEF LaunchSound, Knows
  <2>10. EndSound(t)'
    BY Typed DEF EndSound, Running, DeliveryReport
  <2> QED
    BY <2>1, <2>2, <2>3, <2>4, <2>5, <2>6, <2>7, <2>8, <2>9, <2>10
<1> QED
  BY <1>7, <1>8, <1>9, <1>10, TaskStep

\* Of a process that ends only the disk is left.
LEMMA CrashKeeps ==
    ASSUME IInv, NEW t \in Tasks, Crash(t)
    PROVE  IInv'
<1>1. /\ mem'[t] = None /\ handler'[t] = None /\ working'[t] = {}
      /\ \A u \in Tasks \ {t} :
            mem'[u] = mem[u] /\ handler'[u] = handler[u] /\ working'[u] = working[u]
      /\ UNCHANGED <<secretary, network, started, disk, launches>>
  BY DEF Crash, IInv, TypeOK
<1>2. TypeOK' /\ MessagesOK'
  BY DEF Crash, IInv, TypeOK, MessagesOK, secretary, network
<1>3. RequestsSound'
  BY <1>1, RequestsKeep DEF Knows, secretary, network
<1>4. \A u \in Tasks \ {t} : SameRow(u) /\ SameNode(u) /\ SameMessages(u)
  BY <1>1, Typed DEF SameRow, SameNode, SameMessages, secretary, network
<1>5. TaskSound(t)
  BY DEF IInv
<1>6. TaskSound(t)'
  <2> USE <1>1, <1>5 DEF secretary, network, TaskSound
  <2>1. ControlSound(t)'
    BY Typed DEF ControlSound, Stopped
  <2>2. DeliverySound(t)'
    BY Typed DEF DeliverySound, DeliveryReport
  <2>3. DispatchSound(t)'
    BY Typed DEF DispatchSound
  <2>4. RoundSound(t)'
    BY Typed DEF RoundSound, Running, Exists
  <2>5. ReportSound(t)'
    BY Typed DEF ReportSound
  <2>6. StopSound(t)'
    BY Typed DEF StopSound, Exists
  <2>7. AckSound(t)'
    BY Typed DEF AckSound
  <2>8. HandlerSound(t)'
    BY Typed DEF HandlerSound, Running
  <2>9. LaunchSound(t)'
    BY Typed DEF LaunchSound, Knows
  <2>10. EndSound(t)'
    BY Typed DEF EndSound, Running, DeliveryReport
  <2> QED
    BY <2>1, <2>2, <2>3, <2>4, <2>5, <2>6, <2>7, <2>8, <2>9, <2>10
<1> QED
  BY <1>2, <1>3, <1>4, <1>6, TaskStep

-----------------------------------------------------------------------------
(* Continuing.                                                             *)

LEMMA HandlersKeep ==
    ASSUME IInv, NEW t \in Tasks, GiveUp(t) \/ Reauthorise(t)
    PROVE  IInv'
<1>1. handler[t] # None /\ handler[t] \in Handlings
  BY Typed DEF GiveUp, Reauthorise
<1>2. UNCHANGED <<secretary, network, started, mem, disk, working, launches>>
  BY DEF GiveUp, Reauthorise
<1>3. /\ handler' \in [Tasks -> Handlings \cup {None}]
      /\ \A u \in Tasks \ {t} : handler'[u] = handler[u]
      /\ handler'[t] # None => handler'[t].id = handler[t].id /\ handler[t].stage # "claimed"
  <2>1. CASE GiveUp(t)
    BY <2>1 DEF GiveUp, IInv, TypeOK
  <2>2. CASE Reauthorise(t)
    <3> DEFINE h == [handler[t] EXCEPT !.stage = "authorised"]
    <3>1. h \in Handlings /\ h.id = handler[t].id
      BY <1>1 DEF Handlings
    <3>2. handler' = [handler EXCEPT ![t] = h]
      BY <2>2 DEF Reauthorise
    <3> HIDE DEF h
    <3> QED
      BY <2>2, <3>1, <3>2 DEF IInv, TypeOK, Reauthorise
  <2> QED
    BY <2>1, <2>2
<1>4. TypeOK' /\ MessagesOK'
  BY <1>2, <1>3 DEF IInv, TypeOK, MessagesOK, secretary, network
<1>5. RequestsSound'
  BY <1>1, <1>2, <1>3, RequestsKeep DEF Knows, secretary, network
<1>6. \A u \in Tasks \ {t} : SameRow(u) /\ SameNode(u) /\ SameMessages(u)
  BY <1>2, <1>3, Typed DEF SameRow, SameNode, SameMessages, secretary, network
<1>7. TaskSound(t)
  BY DEF IInv
<1>8. TaskSound(t)'
  <2> USE <1>1, <1>2, <1>3, <1>7 DEF secretary, network, TaskSound
  <2>1. ControlSound(t)'
    BY Typed DEF ControlSound, Stopped
  <2>2. DeliverySound(t)'
    BY Typed DEF DeliverySound, DeliveryReport
  <2>3. DispatchSound(t)'
    BY Typed DEF DispatchSound
  <2>4. RoundSound(t)'
    BY Typed DEF RoundSound, Running, Exists
  <2>5. ReportSound(t)'
    BY Typed DEF ReportSound
  <2>6. StopSound(t)'
    BY Typed DEF StopSound, Exists
  <2>7. AckSound(t)'
    BY Typed DEF AckSound
  <2>8. HandlerSound(t)'
    BY Typed DEF HandlerSound, Running
  <2>9. LaunchSound(t)'
    BY Typed DEF LaunchSound, Knows
  <2>10. EndSound(t)'
    BY Typed DEF EndSound, Running, DeliveryReport, HandlerSound
  <2> QED
    BY <2>1, <2>2, <2>3, <2>4, <2>5, <2>6, <2>7, <2>8, <2>9, <2>10
<1> QED
  BY <1>4, <1>5, <1>6, <1>8, TaskStep

\* The row enters the new round: every stop under way is of an earlier one.
LEMMA ActivateKeeps ==
    ASSUME IInv, NEW t \in Tasks, Activate(t)
    PROVE  IInv'
<1>1. /\ handler[t] # None /\ handler[t] \in Handlings
      /\ handler[t].id \in Requests /\ handler[t].id \in Generations
      /\ handler[t].stage = "claimed"
  BY Typed, LedgerAssumption DEF Activate, Handlings, Requests, Generations
<1>2. /\ row[t].grant # None /\ row[t].grant \in Grants /\ row[t].grant.id = handler[t].id
      /\ row[t].bound /\ Exists(t) /\ row[t].delivery = None /\ replacement[t] = None
      /\ Eligible(t, row[t].grant)
  BY Typed DEF Activate, Authorised, Eligible
<1>3. UNCHANGED <<replacement, requests, call, network, started, mem, disk, working, launches>>
  BY DEF Activate
<1>4. TaskSound(t)
  BY DEF IInv
<1>5. /\ handler' \in [Tasks -> Handlings \cup {None}]
      /\ \A u \in Tasks \ {t} : handler'[u] = handler[u]
      /\ handler'[t] # None => handler'[t].id = handler[t].id
  <2> DEFINE h == [handler[t] EXCEPT !.stage = "activated"]
  <2>1. h \in Handlings /\ h.id = handler[t].id
    BY <1>1 DEF Handlings
  <2>2. handler' = [handler EXCEPT ![t] = h] \/ handler' = [handler EXCEPT ![t] = None]
    BY DEF Activate
  <2> HIDE DEF h
  <2> QED
    BY <2>1, <2>2 DEF IInv, TypeOK
<1>6. /\ row' \in [Tasks -> Rows]
      /\ \A u \in Tasks \ {t} : row'[u] = row[u]
      /\ row'[t].status = "running" /\ row'[t].bound
      /\ row'[t].control = None /\ row'[t].delivery = None
      /\ row'[t].generation = handler[t].id
      /\ row'[t].grant # None /\ row'[t].grant.id = row[t].grant.id
      /\ row'[t].grant.pause = row[t].grant.pause
  <2>1. CASE row[t].grant.active
    <3>1. row' = row
      BY <2>1 DEF Activate
    <3> QED
      BY <1>2, <2>1, <3>1 DEF Eligible, IInv, TypeOK
  <2>2. CASE ~row[t].grant.active
    <3> DEFINE r0 == [row[t] EXCEPT !.control = None]
               r1 == [r0 EXCEPT !.generation = handler[t].id]
               r2 == [r1 EXCEPT !.recovery = FALSE]
               g  == [r2.grant EXCEPT !.active = TRUE]
               r3 == [r2 EXCEPT !.grant.active = TRUE]
               r4 == [r3 EXCEPT !.status = "running"]
               r  == [r4 EXCEPT !.pm = "recovering"]
    <3>1. row' = [row EXCEPT ![t] = r]
      <4>1. row' = [row EXCEPT ![t].control = None, ![t].generation = handler[t].id,
                               ![t].recovery = FALSE, ![t].grant.active = TRUE,
                               ![t].status = "running", ![t].pm = "recovering"]
        BY <2>2 DEF Activate
      <4>2. row \in [Tasks -> Rows]
        BY DEF IInv, TypeOK
      <4> DEFINE f == [row EXCEPT ![t].control = None, ![t].generation = handler[t].id,
                                  ![t].recovery = FALSE]
      <4>3. f = [row EXCEPT ![t] = r2]
        BY <4>2
      <4>4. row' = [f EXCEPT ![t].grant.active = TRUE, ![t].status = "running",
                             ![t].pm = "recovering"]
        BY <4>1
      <4> HIDE DEF f, r2
      <4>5. [[row EXCEPT ![t] = r2] EXCEPT ![t].grant.active = TRUE, ![t].status = "running",
                                           ![t].pm = "recovering"] = [row EXCEPT ![t] = r]
        BY <4>2
      <4> QED
        BY <4>3, <4>4, <4>5
    <3>2. r0 \in Rows /\ r1 \in Rows /\ r2 \in Rows
      BY <1>1, Typed, RowWith
    <3>3. r2.grant = row[t].grant
      BY Typed DEF Rows
    <3>4. g \in Grants /\ g.id = row[t].grant.id /\ g.pause = row[t].grant.pause
      <4>1. TRUE \in BOOLEAN
        OBVIOUS
      <4> QED
        BY <1>2, <3>3, <4>1 DEF Grants
    <3>5. g # None
      BY <3>4, LedgerAssumption
    <3>6. r3 = [r2 EXCEPT !.grant = g]
      OBVIOUS
    <3> HIDE DEF g, r2
    <3>7. r3 \in Rows
      BY <3>2, <3>4, <3>6, RowWith
    <3>8. r4 \in Rows /\ r \in Rows
      BY <3>7, RowWith DEF Statuses, PMStatuses
    <3>9. /\ r.status = "running" /\ r.bound = row[t].bound
          /\ r.control = None /\ r.delivery = row[t].delivery
          /\ r.generation = handler[t].id /\ r.grant = g
      <4>1. /\ r2.bound = row[t].bound /\ r2.control = None
            /\ r2.delivery = row[t].delivery /\ r2.generation = handler[t].id
        BY Typed DEF Rows, r2
      <4> QED
        BY <3>2, <3>6, <4>1 DEF Rows
    <3> HIDE DEF r
    <3> QED
      BY <1>2, <3>1, <3>4, <3>5, <3>8, <3>9 DEF IInv, TypeOK
  <2> QED
    BY <2>1, <2>2
<1>7. TypeOK' /\ MessagesOK'
  BY <1>3, <1>5, <1>6 DEF IInv, TypeOK, MessagesOK, network
<1>8. \A u \in Tasks, i \in Requests : Knows(u, i)' => Knows(u, i)
  BY <1>1, <1>2, <1>3, <1>5, <1>6 DEF Knows, network
<1>9. RequestsSound'
  BY <1>3, <1>8, RequestsKeep DEF network
<1>10. \A u \in Tasks \ {t} : SameRow(u) /\ SameNode(u) /\ SameMessages(u)
  BY <1>3, <1>5, <1>6, Typed DEF SameRow, SameNode, SameMessages, network
<1>11. handler[t].id <= requests
  BY <1>1 DEF IInv, RequestsSound, Knows
<1>12. \A m \in wire : m.kind = "stop" /\ m.task = t => m.id < handler[t].id
  <2> SUFFICES ASSUME NEW m \in wire, m.kind = "stop", m.task = t PROVE m.id < handler[t].id
    OBVIOUS
  <2>1. CASE row[t].grant.active
    BY <1>2, <1>4, <2>1, Typed, TypedMessages DEF Eligible, TaskSound, StopSound
  <2>2. CASE ~row[t].grant.active
    <3>1. row[t].control # None /\ row[t].control.id = row[t].grant.pause
      BY <1>2, <2>2 DEF Eligible, Confirmed
    <3>2. row[t].control.id < handler[t].id /\ row[t].generation < handler[t].id
      BY <1>2, <1>4, <3>1, Typed DEF TaskSound, ControlSound
    <3> QED
      BY <1>2, <1>4, <3>1, <3>2, Typed, TypedMessages DEF TaskSound, StopSound
  <2> QED
    BY <2>1, <2>2
<1>13. TaskSound(t)'
  <2> USE <1>1, <1>2, <1>3, <1>4, <1>5, <1>6 DEF network, TaskSound
  <2>1. ControlSound(t)'
    BY Typed, <1>11 DEF ControlSound, Stopped
  <2>2. DeliverySound(t)'
    BY Typed DEF DeliverySound, DeliveryReport
  <2>3. DispatchSound(t)'
    BY Typed DEF DispatchSound, Exists
  <2>4. RoundSound(t)'
    BY Typed, <1>6 DEF RoundSound, Running, Exists, HandlerSound
  <2>5. ReportSound(t)'
    BY Typed DEF ReportSound
  <2>6. StopSound(t)'
    BY Typed, <1>12 DEF StopSound, Exists
  <2>7. AckSound(t)'
    BY Typed DEF AckSound
  <2>8. HandlerSound(t)'
    BY Typed DEF HandlerSound, Running
  <2>9. LaunchSound(t)'
    BY Typed, <1>8 DEF LaunchSound
  <2>10. EndSound(t)'
    BY Typed DEF EndSound, Running, DeliveryReport
  <2> QED
    BY <2>1, <2>2, <2>3, <2>4, <2>5, <2>6, <2>7, <2>8, <2>9, <2>10
<1> QED
  BY <1>7, <1>9, <1>10, <1>13, TaskStep

\* The new round is the row's, no call of an older one is under way, and no report or
\* confirmed stop is of it.
LEMMA LaunchKeeps ==
    ASSUME IInv, NEW t \in Tasks, Launch(t)
    PROVE  IInv'
<1> DEFINE i == handler[t].id
           n == [phase |-> "running", generation |-> i, receipt |-> None, retired |-> FALSE]
           d == [phase |-> "running", generation |-> i, receipt |-> None,
                 revision |-> disk[t].revision + 1, claim |-> [id |-> i, launched |-> TRUE]]
<1>1. /\ handler[t] # None /\ i \in Requests /\ i \in Generations /\ i \in Nat
      /\ handler[t].stage = "authorised"
  BY Typed, LedgerAssumption DEF Launch, Handlings, Requests, Generations
<1>2. TaskSound(t)
  BY DEF IInv
<1>3. /\ disk[t] # None /\ disk[t] \in Checkpoints /\ disk[t].generation < i
      /\ working[t] = {} /\ row[t].generation = i
      /\ row[t].status \in {"running", "paused", "cancelled"}
  BY <1>1, <1>2, Typed DEF TaskSound, HandlerSound
<1>4. /\ mem' = [mem EXCEPT ![t] = n] /\ disk' = [disk EXCEPT ![t] = d]
      /\ working' = [working EXCEPT ![t] = working[t] \cup {i}]
      /\ launches' = [launches EXCEPT ![i] = launches[i] + 1]
      /\ handler' = [handler EXCEPT ![t] = None]
      /\ UNCHANGED <<secretary, network, started>>
  BY DEF Launch
<1>5. n \in Instances /\ n # None
  <2>1. n \in Instances
    BY <1>1 DEF Instances, Phases
  <2> QED
    BY <2>1, LedgerAssumption
<1>6. d \in Checkpoints /\ d # None
  <2>1. [id |-> i, launched |-> TRUE] \in Claims
    BY <1>1 DEF Claims
  <2>2. disk[t].revision + 1 \in Nat
    BY <1>3 DEF Checkpoints
  <2>3. d \in Checkpoints
    BY <1>1, <2>1, <2>2 DEF Checkpoints, Phases
  <2> QED
    BY <2>3, LedgerAssumption
<1>7. /\ n.generation = i /\ n.phase = "running" /\ n.receipt = None
      /\ d.generation = i /\ d.receipt = None
  OBVIOUS
<1> HIDE DEF n, d
<1>8. /\ mem'[t] = n /\ disk'[t] = d /\ working'[t] = {i} /\ handler'[t] = None
      /\ launches'[i] = launches[i] + 1
      /\ \A j \in Requests \ {i} : launches'[j] = launches[j]
      /\ \A u \in Tasks \ {t} : /\ mem'[u] = mem[u] /\ disk'[u] = disk[u]
                                 /\ working'[u] = working[u] /\ handler'[u] = handler[u]
  BY <1>1, <1>3, <1>4 DEF IInv, TypeOK
<1>9. TypeOK' /\ MessagesOK'
  BY <1>1, <1>4, <1>5, <1>6 DEF IInv, TypeOK, MessagesOK, secretary, network
<1>10. /\ Knows(t, i) /\ launches[i] = 0 /\ i <= requests
       /\ \A u \in Tasks \ {t} : ~Knows(u, i)
  <2>1. Knows(t, i) /\ i \in Requests /\ launches[i] \in Nat
    BY <1>1 DEF Knows, IInv, TypeOK
  <2>2. ~(launches[i] > 0)
    BY <1>1, <1>2, <1>3, <2>1, Typed DEF TaskSound, LaunchSound
  <2> HIDE DEF i
  <2> QED
    BY <2>1, <2>2 DEF IInv, RequestsSound
<1>11. \A u \in Tasks, j \in Requests : Knows(u, j)' => Knows(u, j)
  BY <1>4, <1>8 DEF Knows, secretary, network
<1>12. RequestsSound'
  BY <1>4, <1>8, <1>10, <1>11 DEF IInv, RequestsSound, TypeOK, secretary, network
<1>13. \A u \in Tasks \ {t} : SameRow(u) /\ SameNode(u) /\ SameMessages(u)
  BY <1>4, <1>8, <1>10, Typed DEF SameRow, SameNode, SameMessages, secretary, network
<1>14. TaskSound(t)'
  <2> USE <1>1, <1>2, <1>3, <1>4, <1>5, <1>6, <1>7, <1>8 DEF secretary, network, TaskSound
  <2>1. ControlSound(t)'
    BY Typed DEF ControlSound, Stopped
  <2>2. DeliverySound(t)'
    BY Typed DEF DeliverySound, DeliveryReport
  <2>3. DispatchSound(t)'
    BY Typed DEF DispatchSound, HandlerSound
  <2>4. RoundSound(t)'
    BY Typed DEF RoundSound, Running, Exists
  <2>5. ReportSound(t)'
    BY Typed, TypedMessages DEF ReportSound
  <2>6. StopSound(t)'
    BY Typed DEF StopSound, Exists
  <2>7. AckSound(t)'
    BY Typed DEF AckSound, ControlSound
  <2>8. HandlerSound(t)'
    BY Typed DEF HandlerSound, Running
  <2>9. LaunchSound(t)'
    BY Typed, <1>10, <1>11 DEF LaunchSound, Requests
  <2>10. EndSound(t)'
    BY Typed, <1>1 DEF EndSound, Running, DeliveryReport, HandlerSound
  <2> QED
    BY <2>1, <2>2, <2>3, <2>4, <2>5, <2>6, <2>7, <2>8, <2>9, <2>10
<1> QED
  BY <1>9, <1>12, <1>13, <1>14, TaskStep

-----------------------------------------------------------------------------
(* Requests arrive at a node.                                              *)

\* A request that is not followed is gone.
LEMMA LossKeeps ==
    ASSUME IInv, wire' \subseteq wire,
           UNCHANGED <<secretary, acks, reports, started, mem, disk, handler, working, launches>>
    PROVE  IInv'
<1>1. TypeOK' /\ MessagesOK'
  BY DEF IInv, TypeOK, MessagesOK, secretary
<1>2. RequestsSound'
  BY RequestsKeep DEF Knows, secretary
<1>3. ASSUME NEW t \in Tasks PROVE TaskSound(t)'
  BY AsideKeeps, Typed DEF SameRow, SameNode, SameMessages, secretary
<1> QED
  BY <1>1, <1>2, <1>3 DEF IInv

\* A PM is started once, with nothing before it.
LEMMA StartArrivesKeeps ==
    ASSUME IInv, NEW m \in wire, StartArrives(m)
    PROVE  IInv'
<1> DEFINE t == m.task
           n == [phase |-> "running", generation |-> 0, receipt |-> None, retired |-> FALSE]
           d == [phase |-> "running", generation |-> 0, receipt |-> None,
                 revision |-> 1, claim |-> None]
<1>1. t \in Tasks /\ m = [kind |-> "start", task |-> t] /\ wire' = wire \ {m}
  BY DEF StartArrives, IInv, MessagesOK, StartRequests, StopRequests, ContinueRequests
<1>2. UNCHANGED <<secretary, acks, reports, handler, launches>>
  BY DEF StartArrives
<1>3. TaskSound(t)
  BY <1>1 DEF IInv
<1>4. /\ started[t] = "no" /\ (row[t].bound \/ row[t].status = "deleted")
      /\ row[t].status # "absent"
  BY <1>1, <1>3 DEF TaskSound, DispatchSound
<1>5. /\ mem[t] = None /\ disk[t] = None /\ handler[t] = None /\ working[t] = {}
      /\ row[t].generation = 0
  BY <1>3, <1>4 DEF TaskSound, DispatchSound
<1>6. \A k \in wire' : k \in wire /\ ~(k.kind = "start" /\ k.task = t)
  <2> SUFFICES ASSUME NEW k \in wire, k.kind = "start", k.task = t PROVE k = m
    BY <1>1
  <2> QED
    BY <1>1 DEF IInv, MessagesOK, StartRequests, StopRequests, ContinueRequests
<1>7. n \in Instances /\ d \in Checkpoints /\ n # None /\ d # None
  <2>1. 0 \in Generations /\ FALSE \in BOOLEAN
    BY LedgerAssumption DEF Generations
  <2>2. n \in Instances
    BY <2>1 DEF Instances, Phases
  <2>3. d \in Checkpoints
    BY <2>1 DEF Checkpoints, Phases
  <2> QED
    BY <2>2, <2>3, LedgerAssumption
<1>8. /\ n.generation = 0 /\ n.phase = "running" /\ n.receipt = None
      /\ d.generation = 0 /\ d.receipt = None
  OBVIOUS
<1>9. \/ /\ started' = [started EXCEPT ![t] = "refused"]
         /\ UNCHANGED <<mem, disk, working>>
      \/ /\ row[t].status = "running"
         /\ started' = [started EXCEPT ![t] = "launched"]
         /\ mem' = [mem EXCEPT ![t] = n] /\ disk' = [disk EXCEPT ![t] = d]
         /\ working' = [working EXCEPT ![t] = {0}]
  BY DEF StartArrives
<1> HIDE DEF t, n, d
<1>10. TypeOK' /\ MessagesOK'
  <2>1. {0} \in SUBSET Generations
    BY LedgerAssumption DEF Generations
  <2> QED
    BY <1>1, <1>2, <1>7, <1>9, <2>1 DEF IInv, TypeOK, MessagesOK, secretary
<1>11. \A u \in Tasks, i \in Requests : Knows(u, i)' => Knows(u, i)
  BY <1>2, <1>6 DEF Knows, secretary
<1>12. RequestsSound'
  BY <1>2, <1>11, RequestsKeep DEF secretary
<1>13. \A u \in Tasks \ {t} :
          /\ started'[u] = started[u] /\ mem'[u] = mem[u] /\ disk'[u] = disk[u]
          /\ working'[u] = working[u]
  BY <1>9 DEF IInv, TypeOK
<1>14. \A u \in Tasks \ {t} : SameRow(u) /\ SameNode(u) /\ SameMessages(u)
  BY <1>1, <1>2, <1>13, Typed DEF SameRow, SameNode, SameMessages, secretary
<1>15. \/ /\ started'[t] = "refused" /\ mem'[t] = None /\ disk'[t] = None /\ working'[t] = {}
       \/ /\ row[t].status = "running" /\ started'[t] = "launched"
          /\ mem'[t] = n /\ disk'[t] = d /\ working'[t] = {0}
  BY <1>1, <1>5, <1>9 DEF IInv, TypeOK
<1>16. TaskSound(t)'
  <2> USE <1>2, <1>3, <1>4, <1>5, <1>6, <1>7, <1>8, <1>15 DEF secretary, TaskSound
  <2>1. ControlSound(t)'
    BY Typed DEF ControlSound, Stopped
  <2>2. DeliverySound(t)'
    BY Typed DEF DeliverySound, DeliveryReport
  <2>3. DispatchSound(t)'
    BY Typed DEF DispatchSound
  <2>4. RoundSound(t)'
    BY Typed DEF RoundSound, Running, Exists
  <2>5. ReportSound(t)'
    BY Typed DEF ReportSound
  <2>6. StopSound(t)'
    BY Typed DEF StopSound, Exists
  <2>7. AckSound(t)'
    BY Typed DEF AckSound, ControlSound, Stopped
  <2>8. HandlerSound(t)'
    BY Typed DEF HandlerSound, Running
  <2>9. LaunchSound(t)'
    <3>1. \A k \in Requests : Knows(t, k) => ~(launches[k] > 0)
      BY DEF LaunchSound
    <3> QED
      BY <1>1, <1>11, <3>1 DEF LaunchSound
  <2>10. EndSound(t)'
    BY Typed DEF EndSound, Running, DeliveryReport
  <2> QED
    BY <2>1, <2>2, <2>3, <2>4, <2>5, <2>6, <2>7, <2>8, <2>9, <2>10
<1> QED
  BY <1>1, <1>10, <1>12, <1>14, <1>16, TaskStep

\* An instance obeys a stop of its round only; a pause does not undo a cancellation that
\* has overtaken it.
LEMMA StopArrivesKeeps ==
    ASSUME IInv, NEW m \in wire, StopArrives(m)
    PROVE  IInv'
<1> DEFINE t == m.task
           receipt == [id |-> m.id, action |-> m.action]
           phase == IF m.action = "cancel" THEN "cancelled" ELSE "paused"
<1>1. /\ t \in Tasks /\ m \in StopRequests /\ m.kind = "stop" /\ m.id \in Nat
      /\ m.id \in Requests /\ m.action \in Actions /\ m.generation \in Nat
  BY TypedMessages DEF StopArrives, StopRequests
<1>2. /\ wire' = wire \ {m} /\ handler[t] = None
      /\ UNCHANGED <<secretary, reports, started, handler, working, launches>>
  BY DEF StopArrives
<1>3. CASE ~Obeys(t, m)
  <2>1. UNCHANGED <<acks, mem, disk>>
    BY <1>3 DEF StopArrives
  <2> QED
    BY <1>2, <2>1, LossKeeps
<1>4. CASE Obeys(t, m)
  <2> DEFINE n0 == [mem[t] EXCEPT !.phase = phase]
             n  == [n0 EXCEPT !.receipt = receipt]
             d0 == [disk[t] EXCEPT !.phase = phase]
             d1 == [d0 EXCEPT !.receipt = receipt]
             d  == [d1 EXCEPT !.revision = @ + 1]
  <2>1. /\ acks' \in {acks, acks \cup {m.id}}
        /\ mem' = [mem EXCEPT ![t] = n]
        /\ disk' = disk \/ disk' = [disk EXCEPT ![t] = d]
    <3>1. /\ acks' \in {acks, acks \cup {m.id}}
          /\ mem' = [mem EXCEPT ![t].phase = phase, ![t].receipt = receipt]
          /\ \/ disk' = disk
             \/ disk' = [disk EXCEPT ![t].phase = phase, ![t].receipt = receipt,
                                     ![t].revision = @ + 1]
      BY <1>4 DEF StopArrives
    <3>2. mem \in [Tasks -> Instances \cup {None}] /\ disk \in [Tasks -> Checkpoints \cup {None}]
      BY DEF IInv, TypeOK
    <3> HIDE DEF phase, receipt, t
    <3>3. mem' = [mem EXCEPT ![t] = n]
      BY <3>1
    <3>4. disk' = disk \/ disk' = [disk EXCEPT ![t] = d]
      <4>1. [disk EXCEPT ![t].phase = phase, ![t].receipt = receipt, ![t].revision = @ + 1]
               = [disk EXCEPT ![t] = d]
        BY <1>1, <3>2
      <4> QED
        BY <3>1, <4>1
    <3> QED
      BY <3>1, <3>3, <3>4
  <2>2. /\ mem[t] # None /\ mem[t] \in Instances /\ mem[t].generation = m.generation
        /\ mem[t].phase \notin {"completed", "failed"}
        /\ ~(mem[t].phase = "cancelled" /\ m.action = "pause")
    BY <1>1, <1>4, Typed DEF Obeys
  <2>3. TaskSound(t) /\ disk[t] # None /\ disk[t] \in Checkpoints
    BY <1>1, <2>2, Typed DEF IInv, TaskSound, RoundSound
  <2>4. receipt \in Receipts /\ receipt # None /\ receipt.id = m.id /\ receipt.action = m.action
    <3>1. receipt \in Receipts
      BY <1>1 DEF Receipts
    <3> QED
      BY <3>1, LedgerAssumption
  <2>5. phase \in Phases /\ phase = Result(m.action)
    BY DEF Phases, Result
  <2> HIDE DEF receipt, phase
  <2>6. n \in Instances
    <3>1. n0 \in Instances
      BY <2>2, <2>5 DEF Instances
    <3> QED
      BY <2>4, <3>1 DEF Instances
  <2>7. n # None /\ n.phase = phase /\ n.generation = mem[t].generation /\ n.receipt = receipt
    BY <2>2, <2>6, LedgerAssumption DEF Instances
  <2>8. d \in Checkpoints
    <3>1. d0 \in Checkpoints
      BY <2>3, <2>5 DEF Checkpoints
    <3>2. d1 \in Checkpoints
      BY <2>4, <3>1 DEF Checkpoints
    <3> HIDE DEF d1
    <3> QED
      BY <3>2 DEF Checkpoints
  <2>9. d # None /\ d.generation = disk[t].generation /\ d.receipt = receipt
    BY <2>3, <2>8, LedgerAssumption DEF Checkpoints
  <2> HIDE DEF n, d
  <2>10. /\ mem'[t] = n
         /\ disk'[t] # None /\ disk'[t].generation = disk[t].generation
         /\ disk'[t].receipt \in {disk[t].receipt, receipt}
         /\ disk' \in [Tasks -> Checkpoints \cup {None}]
         /\ \A u \in Tasks \ {t} : mem'[u] = mem[u] /\ disk'[u] = disk[u]
    BY <1>1, <2>1, <2>3, <2>8, <2>9 DEF IInv, TypeOK
  <2>11. acks \subseteq acks' /\ acks' \subseteq acks \cup {m.id}
    BY <2>1
  <2>12. TypeOK' /\ MessagesOK'
    BY <1>1, <1>2, <2>1, <2>6, <2>10, <2>11 DEF IInv, TypeOK, MessagesOK, secretary
  <2>13. Knows(t, m.id) /\ \A u \in Tasks, i \in Requests : Knows(u, i)' => Knows(u, i)
    BY <1>1, <1>2 DEF Knows, secretary
  <2>14. RequestsSound'
    BY <1>1, <1>2, <2>1, <2>13, RequestsAcked DEF secretary
  <2>15. \A u \in Tasks \ {t} : ~Knows(u, m.id)
    BY <1>1, <2>13 DEF IInv, RequestsSound
  <2> HIDE DEF t
  <2>16. \A u \in Tasks \ {t} : SameRow(u) /\ SameNode(u) /\ SameMessages(u)
    BY <1>2, <2>10, <2>11, <2>15, Typed DEF SameRow, SameNode, SameMessages, secretary
  <2>17. TaskSound(t)'
    <3> USE <1>1, <1>2, <2>2, <2>3, <2>4, <2>5, <2>7, <2>10, <2>11 DEF secretary, TaskSound
    <3>1. ControlSound(t)'
      BY Typed DEF ControlSound, Stopped
    <3>2. DeliverySound(t)'
      BY Typed DEF DeliverySound, DeliveryReport
    <3>3. DispatchSound(t)'
      BY Typed DEF DispatchSound
    <3>4. RoundSound(t)'
      BY Typed DEF RoundSound, Running, Exists, t, StopSound, Result
    <3>5. ReportSound(t)'
      BY Typed DEF ReportSound
    <3>6. StopSound(t)'
      BY Typed, TypedMessages DEF StopSound, Exists
    <3>7. AckSound(t)'
      <4> DEFINE c == row[t].control
      <4> SUFFICES ASSUME c # None, c.dispatched, c.id \in acks'
                   PROVE  /\ disk[t].generation = c.generation
                          /\ phase = row[t].status
        BY DEF AckSound
      <4>1. /\ Exists(t) /\ c.generation = row[t].generation /\ c.generation < c.id
            /\ row[t].status = Result(c.action)
            /\ disk[t].generation = m.generation /\ m.generation < m.id
        BY DEF ControlSound, RoundSound, Stopped, Exists, StopSound, t
      <4>2. \/ m.id < row[t].generation
            \/ /\ m.generation = row[t].generation /\ m.id <= c.id
               /\ \/ m.id = c.id /\ m.action = c.action
                  \/ m.id # c.id /\ m.action = "pause" /\ c.action = "cancel"
        BY <4>1 DEF StopSound, t
      <4>3. CASE m.id = c.id
        BY <4>1, <4>2, <4>3, Typed
      <4>4. CASE m.id # c.id
        <5>1. disk[t].generation = c.generation /\ mem[t].phase = row[t].status
          BY <4>4 DEF AckSound
        <5>2. m.action = "pause" /\ c.action = "cancel"
          BY <4>1, <4>2, <4>4, <5>1, Typed
        <5> QED
          BY <4>1, <5>1, <5>2 DEF Result
      <4> QED
        BY <4>3, <4>4
    <3>8. HandlerSound(t)'
      BY Typed DEF HandlerSound, Running
    <3>9. LaunchSound(t)'
      BY Typed, <2>13 DEF LaunchSound
    <3>10. EndSound(t)'
      BY Typed DEF EndSound, Running, DeliveryReport, Result
    <3> QED
      BY <3>1, <3>2, <3>3, <3>4, <3>5, <3>6, <3>7, <3>8, <3>9, <3>10
  <2> QED
    BY <1>1, <2>12, <2>14, <2>16, <2>17, TaskStep DEF t
<1> QED
  BY <1>3, <1>4

\* The pause on disk is of the round that is continued, and older than the continuation.
LEMMA ContinueArrivesKeeps ==
    ASSUME IInv, NEW m \in wire, ContinueArrives(m)
    PROVE  IInv'
<1> DEFINE t == m.task
<1>1. /\ t \in Tasks /\ m \in ContinueRequests /\ m.kind = "continue"
      /\ m.id \in Nat /\ m.id \in Requests /\ m.pause \in Requests /\ m.pause \in Nat
  BY TypedMessages DEF ContinueArrives, ContinueRequests
<1>2. /\ wire' = wire \ {m} /\ handler[t] = None
      /\ UNCHANGED <<secretary, acks, reports, started, working, launches>>
  BY DEF ContinueArrives
<1>3. CASE ~Continues(m)
  <2>1. UNCHANGED <<mem, disk, handler>>
    BY <1>3 DEF ContinueArrives
  <2> QED
    BY <1>2, <2>1, LossKeeps
<1>4. CASE Continues(m)
  <2> DEFINE n  == [mem[t] EXCEPT !.retired = TRUE]
             c  == [id |-> m.id, launched |-> FALSE]
             d0 == [disk[t] EXCEPT !.revision = @ + 1]
             d  == [d0 EXCEPT !.claim = c]
             h  == [id |-> m.id, pause |-> m.pause, stage |-> "claimed"]
  <2>1. /\ mem' = IF mem[t] = None THEN mem ELSE [mem EXCEPT ![t] = n]
        /\ disk' = [disk EXCEPT ![t] = d]
        /\ handler' = [handler EXCEPT ![t] = h]
    BY <1>4 DEF ContinueArrives
  <2>2. TaskSound(t)
    BY <1>1 DEF IInv
  <2>3. /\ disk[t] # None /\ disk[t] \in Checkpoints /\ disk[t].generation \in Nat
        /\ ~Running(t) /\ working[t] = {} /\ Authorised(t, m.id)
        /\ disk[t].receipt = [id |-> m.pause, action |-> "pause"]
    BY <1>1, <1>4, Typed DEF Continues
  <2>4. disk[t].receipt # None /\ disk[t].receipt.id = m.pause
    <3>1. [id |-> m.pause, action |-> "pause"] \in Receipts
      BY <1>1 DEF Receipts, Actions
    <3> QED
      BY <2>3, <3>1, LedgerAssumption
  <2>5. disk[t].generation < m.id
    BY <1>1, <2>2, <2>3, <2>4, Typed DEF TaskSound, RoundSound, HandlerSound
  <2>6. mem[t] # None => /\ n \in Instances /\ n # None /\ n.phase = mem[t].phase
                         /\ n.generation = mem[t].generation /\ n.receipt = mem[t].receipt
    <3> HAVE mem[t] # None
    <3>1. mem[t] \in Instances /\ TRUE \in BOOLEAN
      BY <1>1, Typed
    <3>2. n \in Instances
      BY <3>1 DEF Instances
    <3> QED
      BY <3>1, <3>2, LedgerAssumption DEF Instances
  <2>7. /\ d \in Checkpoints /\ d # None
        /\ d.generation = disk[t].generation /\ d.receipt = disk[t].receipt
    <3>1. c \in Claims
      BY <1>1 DEF Claims
    <3> HIDE DEF c
    <3>2. d0 \in Checkpoints
      BY <2>3 DEF Checkpoints
    <3>3. d \in Checkpoints
      BY <3>1, <3>2 DEF Checkpoints
    <3> QED
      BY <2>3, <3>3, LedgerAssumption DEF Checkpoints
  <2>8. /\ h \in Handlings /\ h # None /\ h.id = m.id /\ h.stage = "claimed"
    <3>1. h \in Handlings
      BY <1>1 DEF Handlings
    <3> QED
      BY <3>1, LedgerAssumption
  <2> HIDE DEF n, d, h
  <2>9. /\ disk'[t] = d /\ handler'[t] = h
        /\ mem[t] = None => mem'[t] = None
        /\ mem[t] # None => mem'[t] = n
        /\ \A u \in Tasks \ {t} :
              mem'[u] = mem[u] /\ disk'[u] = disk[u] /\ handler'[u] = handler[u]
    BY <1>1, <2>1 DEF IInv, TypeOK
  <2>10. TypeOK' /\ MessagesOK'
    BY <1>1, <1>2, <2>1, <2>6, <2>7, <2>8 DEF IInv, TypeOK, MessagesOK, secretary
  <2>11. \A u \in Tasks, i \in Requests : Knows(u, i)' => Knows(u, i)
    BY <1>1, <1>2, <2>8, <2>9 DEF Knows, secretary
  <2>12. RequestsSound'
    BY <1>2, <2>11, RequestsKeep DEF secretary
  <2> HIDE DEF t
  <2>13. \A u \in Tasks \ {t} : SameRow(u) /\ SameNode(u) /\ SameMessages(u)
    BY <1>2, <2>9, Typed DEF SameRow, SameNode, SameMessages, secretary
  <2>14. TaskSound(t)'
    <3> USE <1>1, <1>2, <2>2, <2>3, <2>4, <2>5, <2>6, <2>7, <2>8, <2>9 DEF secretary, TaskSound
    <3>1. ControlSound(t)'
      BY Typed DEF ControlSound, Stopped
    <3>2. DeliverySound(t)'
      BY Typed DEF DeliverySound, DeliveryReport
    <3>3. DispatchSound(t)'
      BY Typed DEF DispatchSound, Continues
    <3>4. RoundSound(t)'
      BY Typed DEF RoundSound, Running, Exists
    <3>5. ReportSound(t)'
      BY Typed DEF ReportSound
    <3>6. StopSound(t)'
      BY Typed DEF StopSound, Exists
    <3>7. AckSound(t)'
      BY Typed DEF AckSound
    <3>8. HandlerSound(t)'
      BY Typed DEF HandlerSound, Running
    <3>9. LaunchSound(t)'
      BY Typed, <2>11 DEF LaunchSound
    <3>10. EndSound(t)'
      BY Typed DEF EndSound, Running, DeliveryReport
    <3> QED
      BY <3>1, <3>2, <3>3, <3>4, <3>5, <3>6, <3>7, <3>8, <3>9, <3>10
  <2> QED
    BY <1>1, <2>10, <2>12, <2>13, <2>14, TaskStep DEF t
<1> QED
  BY <1>3, <1>4

-----------------------------------------------------------------------------
LEMMA SecretaryStepKeeps ==
    ASSUME IInv, SecretaryStep
    PROVE  IInv'
<1> PICK t \in Tasks :
        \/ Submit(t) \/ Bind(t) \/ NoStation(t) \/ StartUnanswered(t) \/ StartAnswered(t)
        \/ HostOffline(t) \/ Delete(t)
        \/ \E r \in Tasks : Resubmit(t, r)
        \/ \E action \in Actions : RequestStop(t, action)
        \/ RepeatStop(t) \/ ReadReceipt(t)
        \/ \E confirmed \in BOOLEAN : SettleStop(t, confirmed)
        \/ \E verdict \in {"accepted", "rejected"} : Review(t, verdict)
        \/ RequestContinue(t) \/ RepeatContinue(t)
  BY DEF SecretaryStep
<1> QED
  BY SubmitKeeps, BindKeeps, NoStationKeeps, StartCallsKeep, DeleteKeeps, ResubmitKeeps,
     RequestStopKeeps, RepeatsKeep, ReadReceiptKeeps, SettleStopKeeps, ReviewKeeps,
     RequestContinueKeeps

LEMMA NodeStepKeeps ==
    ASSUME IInv, NodeStep
    PROVE  IInv'
<1> PICK t \in Tasks :
        \/ Progress(t) \/ SendDelivery(t) \/ (\E status \in {"completed", "failed"} : End(t, status))
        \/ Halt(t) \/ Quiesce(t) \/ Crash(t)
        \/ Activate(t) \/ Reauthorise(t) \/ Launch(t) \/ GiveUp(t)
  BY DEF NodeStep
<1> QED
  BY ReportsKeep, EndsKeep, QuiesceKeeps, CrashKeeps, ActivateKeeps, HandlersKeep, LaunchKeeps

LEMMA ArrivalKeeps ==
    ASSUME IInv, Arrival
    PROVE  IInv'
BY StartArrivesKeeps, StopArrivesKeeps, ContinueArrivesKeeps, StatusArrivesKeeps,
   VerdictArrivesKeeps, DeliveryArrivesKeeps
DEF Arrival

LEMMA StutterKeeps ==
    ASSUME IInv, UNCHANGED vars
    PROVE  IInv'
BY LossKeeps DEF vars, secretary, network, node

\* The inductive invariant holds for any tasks, requests and revisions.
LEMMA Invariance == Spec => []IInv
<1>1. IInv /\ [Next]_vars => IInv'
  BY SecretaryStepKeeps, RecoverKeeps, NodeStepKeeps, ArrivalKeeps, StutterKeeps DEF Next
<1> QED
  BY <1>1, InitIInv, PTL DEF Spec

-----------------------------------------------------------------------------
(* The properties.                                                         *)

\* A confirmed stop is true: the node has acknowledged this very request, and from then on
\* the instance that exists, if there is one, stays as it was asked to be.
THEOREM StopIsHonest == Spec => []StopHonest
<1>1. ASSUME IInv PROVE StopHonest
  <2> SUFFICES ASSUME NEW t \in Tasks, Confirmed(t)
               PROVE  IF row[t].control.dispatched
                      THEN mem[t] # None => mem[t].phase = row[t].status
                      ELSE started[t] = "no"
    BY DEF StopHonest
  <2>1. ControlSound(t) /\ AckSound(t) /\ DispatchSound(t)
    BY <1>1 DEF IInv, TaskSound
  <2>2. CASE row[t].control.dispatched
    BY <2>1, <2>2 DEF Confirmed, ControlSound, AckSound
  <2>3. CASE ~row[t].control.dispatched
    BY <2>1, <2>3 DEF Confirmed, ControlSound, DispatchSound, Stopped
  <2> QED
    BY <2>2, <2>3
<1> QED
  BY <1>1, Invariance, PTL

\* A recorded delivery is of the round that the row is in, and never beside a stop.
THEOREM DeliveryExcludesStop == Spec => []DeliveryOrStop
<1>1. IInv => DeliveryOrStop
  BY DEF IInv, TaskSound, DeliverySound, ControlSound, DeliveryOrStop
<1> QED
  BY <1>1, Invariance, PTL

\* Deleting a row never hides a PM that goes on without having delivered.
THEOREM DeletionIsQuiet == Spec => []DeletedIsQuiet
<1>1. IInv => DeletedIsQuiet
  BY DEF IInv, TaskSound, EndSound, DeliveryReport, DeletedIsQuiet
<1> QED
  BY <1>1, Invariance, PTL

\* Calls of two rounds of a PM are never under way together, and a continuation is launched
\* once, however often it arrives.
THEOREM OneRoundAtATime == Spec => []RoundsApart
<1>1. ASSUME IInv PROVE OneRound
  <2>1. ASSUME NEW t \in Tasks PROVE Cardinality(working[t]) <= 1
    <3>1. \A g, h \in working[t] : g = h
      BY <1>1 DEF IInv, TaskSound, RoundSound
    <3>2. CASE working[t] = {}
      BY <3>2, FS_EmptySet
    <3>3. CASE working[t] # {}
      <4> PICK g : g \in working[t]
        BY <3>3
      <4>1. working[t] = {g}
        BY <3>1
      <4> QED
        BY <4>1, FS_Singleton
    <3> QED
      BY <3>2, <3>3
  <2>2. ASSUME NEW i \in Requests PROVE launches[i] <= 1
    BY <1>1 DEF IInv, RequestsSound, TypeOK
  <2> QED
    BY <2>1, <2>2 DEF OneRound
<1> QED
  BY <1>1, Invariance, PTL DEF RoundsApart, IInv

\* A replacement is made only of a task whose PM has ended, and then nothing starts it again.
THEOREM ReplacementIsExclusive == Spec => []ReplacementExclusive
<1>1. ASSUME IInv PROVE ReplacementExclusive
  <2> SUFFICES ASSUME NEW s \in Tasks, NEW r \in Tasks, replacement[s] = r PROVE ~Running(s)
    BY DEF ReplacementExclusive
  <2>1. replacement[s] # None
    BY LedgerAssumption
  <2> QED
    BY <1>1, <2>1 DEF IInv, TaskSound, EndSound
<1> QED
  BY <1>1, Invariance, PTL

-----------------------------------------------------------------------------
(* A confirmation and a cancellation are final.                            *)

\* What a step may do to the stop of t.
Final(t) ==
    /\ Confirmed(t) /\ row'[t].control # None /\ row'[t].control.id = row[t].control.id
          => row'[t].control.confirmed
    /\ row[t].status = "cancelled" => row'[t].status \in {"cancelled", "deleted"}

\* Nothing of a task that is not stopped can be lost.
LEMMA NotStopped ==
    ASSUME IInv, NEW t \in Tasks, ~Stopped(t)
    PROVE  Final(t)
BY DEF IInv, TaskSound, ControlSound, Stopped, Confirmed, Final

LEMMA SameStop ==
    ASSUME NEW t \in Tasks, row'[t].status = row[t].status, row'[t].control = row[t].control
    PROVE  Final(t)
BY DEF Confirmed, Final

LEMMA SecretaryFinal ==
    ASSUME IInv, NEW t \in Tasks, SecretaryStep
    PROVE  Final(t)
<1>1. TaskSound(t) /\ row[t] \in Rows /\ row \in [Tasks -> Rows]
  BY DEF IInv, TypeOK
<1> SUFFICES ASSUME Stopped(t) PROVE Final(t)
  BY NotStopped
<1>2. /\ row[t].control # None /\ row[t].control \in Controls /\ row[t].delivery = None
      /\ row[t].status = Result(row[t].control.action)
  BY <1>1, Typed DEF TaskSound, ControlSound, DeliverySound
<1> PICK u \in Tasks :
        \/ Submit(u) \/ Bind(u) \/ NoStation(u) \/ StartUnanswered(u) \/ StartAnswered(u)
        \/ HostOffline(u) \/ Delete(u)
        \/ \E r \in Tasks : Resubmit(u, r)
        \/ \E action \in Actions : RequestStop(u, action)
        \/ RepeatStop(u) \/ ReadReceipt(u)
        \/ \E confirmed \in BOOLEAN : SettleStop(u, confirmed)
        \/ \E verdict \in {"accepted", "rejected"} : Review(u, verdict)
        \/ RequestContinue(u) \/ RepeatContinue(u)
  BY DEF SecretaryStep
<1>3. CASE Submit(u) \/ Bind(u) \/ NoStation(u) \/ \E verdict \in {"accepted", "rejected"} : Review(u, verdict)
  <2>1. row'[t] = row[t]
    BY <1>1, <1>2, <1>3 DEF Submit, Bind, NoStation, Review, Stopped
  <2> QED
    BY <2>1, SameStop
<1>4. CASE StartUnanswered(u) \/ StartAnswered(u) \/ HostOffline(u)
  <2>1. row'[t] = row[t]
    BY <1>1, <1>4 DEF StartUnanswered, StartAnswered, HostOffline, Note, Stopped
  <2> QED
    BY <2>1, SameStop
<1>5. CASE Delete(u)
  <2>1. row' = [row EXCEPT ![u] = [NewRow EXCEPT !.status = "deleted"]]
    BY <1>5 DEF Delete
  <2>2. row'[t] = row[t] \/ (row'[t].status = "deleted" /\ row'[t].control = None)
    BY <1>1, <2>1 DEF NewRow
  <2> QED
    BY <2>2, SameStop DEF Final
<1>6. CASE \E r \in Tasks : Resubmit(u, r)
  <2>1. row'[t] = row[t]
    BY <1>1, <1>6 DEF Resubmit, Stopped
  <2> QED
    BY <2>1, SameStop
<1>7. CASE \E action \in Actions : RequestStop(u, action)
  <2> PICK action \in Actions : RequestStop(u, action)
    BY <1>7
  <2>1. CASE u # t
    <3>1. row'[t] = row[t]
      BY <1>1, <2>1 DEF RequestStop
    <3> QED
      BY <3>1, SameStop
  <2>2. CASE u = t
    <3>1. row'[t].status = Result(action) /\ row'[t].control.id = requests + 1
      BY <1>1, <2>2 DEF RequestStop, Result, Rows
    <3>2. row[t].control.id <= requests /\ requests \in Nat
      BY <1>2, Typed DEF IInv, RequestsSound, Knows, Controls
    <3>3. row[t].status = "cancelled" => action = "cancel"
      BY <2>2 DEF RequestStop, MayStop, Actions
    <3> QED
      BY <1>2, <3>1, <3>2, <3>3, Typed DEF Final, Result
  <2> QED
    BY <2>1, <2>2
<1>8. CASE RepeatStop(u) \/ ReadReceipt(u) \/ RepeatContinue(u)
  BY <1>8, SameStop DEF RepeatStop, ReadReceipt, RepeatContinue, secretary
<1>9. CASE \E confirmed \in BOOLEAN : SettleStop(u, confirmed)
  <2>1. Unsettled(u) /\ (row' = row \/
            row' = [row EXCEPT ![u].control.confirmed = TRUE,
                               ![u].pm = IF row[u].bound THEN row[u].status ELSE @])
    BY <1>9 DEF SettleStop
  <2>2. CASE row' = row \/ u # t
    <3>1. row'[t] = row[t]
      BY <1>1, <2>1, <2>2
    <3> QED
      BY <3>1, SameStop
  <2>3. CASE u = t /\ row' # row
    <3>1. row'[t].status = row[t].status
      BY <1>1, <2>1, <2>3 DEF Rows
    <3>2. ~Confirmed(t)
      BY <2>1, <2>3 DEF Unsettled, Confirmed
    <3> QED
      BY <3>1, <3>2 DEF Final
  <2> QED
    BY <2>2, <2>3
<1>10. CASE RequestContinue(u)
  <2>1. row'[t].status = row[t].status /\ row'[t].control = row[t].control
    BY <1>1, <1>10 DEF RequestContinue, Rows
  <2> QED
    BY <2>1, SameStop
<1> QED
  BY <1>3, <1>4, <1>5, <1>6, <1>7, <1>8, <1>9, <1>10

\* Elsewhere only an activation ends a stop, and that is the pause that it continues.
LEMMA OthersFinal ==
    ASSUME IInv, NEW t \in Tasks, Recover \/ NodeStep \/ Arrival
    PROVE  Final(t)
<1>1. TaskSound(t) /\ row[t] \in Rows /\ row \in [Tasks -> Rows]
  BY DEF IInv, TypeOK
<1> SUFFICES ASSUME Stopped(t) PROVE Final(t)
  BY NotStopped
<1>2. row[t].control # None
  BY <1>1 DEF TaskSound, ControlSound
<1>3. CASE Recover
  <2>1. row'[t] = row[t]
    BY <1>2, <1>3 DEF Recover
  <2> QED
    BY <2>1, SameStop
<1>4. CASE NodeStep
  <2> PICK u \in Tasks :
          \/ Progress(u) \/ SendDelivery(u) \/ (\E status \in {"completed", "failed"} : End(u, status))
          \/ Halt(u) \/ Quiesce(u) \/ Crash(u)
          \/ Activate(u) \/ Reauthorise(u) \/ Launch(u) \/ GiveUp(u)
    BY <1>4 DEF NodeStep
  <2>1. CASE ~Activate(u)
    <3>1. row' = row
      BY <2>1 DEF Progress, SendDelivery, End, Halt, Quiesce, Crash, Reauthorise, Launch, GiveUp,
        secretary
    <3> QED
      BY <3>1, SameStop
  <2>2. CASE Activate(u)
    <3>1. CASE row'[t] = row[t]
      BY <3>1, SameStop
    <3>2. CASE row'[t] # row[t]
      <4>1. /\ u = t /\ ~row[t].grant.active
            /\ row' = [row EXCEPT ![t].control = None, ![t].generation = handler[t].id,
                                  ![t].recovery = FALSE, ![t].grant.active = TRUE,
                                  ![t].status = "running", ![t].pm = "recovering"]
        BY <1>1, <2>2, <3>2 DEF Activate
      <4>2. row[t].status = "paused"
        BY <2>2, <4>1 DEF Activate, Authorised, Eligible
      <4>3. row'[t].control = None
        BY <1>1, <4>1 DEF Rows
      <4> QED
        BY <4>2, <4>3 DEF Final
    <3> QED
      BY <3>1, <3>2
  <2> QED
    BY <2>1, <2>2
<1>5. CASE Arrival
  <2>1. CASE \E m \in wire : StartArrives(m) \/ StopArrives(m) \/ ContinueArrives(m)
    BY <2>1, SameStop DEF StartArrives, StopArrives, ContinueArrives, secretary
  <2>2. CASE \E m \in reports : StatusArrives(m) \/ VerdictArrives(m) \/ DeliveryArrives(m)
    <3>1. row'[t] = row[t]
      BY <1>1, <2>2 DEF StatusArrives, VerdictArrives, DeliveryArrives, Stopped
    <3> QED
      BY <3>1, SameStop
  <2> QED
    BY <1>5, <2>1, <2>2 DEF Arrival
<1> QED
  BY <1>3, <1>4, <1>5

\* A confirmation never regresses, and a cancelled task stays cancelled until it is deleted.
THEOREM StopIsFinal == Spec => StopFinal
<1>1. IInv /\ [Next]_vars => [\A t \in Tasks : Final(t)]_vars
  BY SecretaryFinal, OthersFinal DEF Next
<1> QED
  BY <1>1, Invariance, PTL DEF Spec, StopFinal, Final
=============================================================================
