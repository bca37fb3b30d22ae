----------------------------- MODULE DirectTask -----------------------------
(***************************************************************************)
(* The life of a PM that does its task alone: up to two questions to the   *)
(* person who gave the task (pm_clarification, PMPlanner.refine_require-   *)
(* ments), the plan, the execution by its own runtime (_execute_single)    *)
(* and the delivery; with the answers, which reach it through the          *)
(* Secretary and are written to the thread of the chat, and with crashes   *)
(* of the PM's process and the resumption from its checkpoint (pm_resume). *)
(*                                                                         *)
(* The PM's lock makes each stretch of code under it one step.  What the   *)
(* checkpoint store and the lease check is the module CheckpointFence's;   *)
(* here a checkpoint is written whole, or its failure stops the PM.        *)
(***************************************************************************)
EXTENDS Naturals, Sequences, FiniteSets

CONSTANTS Answers,
          Rounds,      \* at most so many questions
          MaxLetters,  \* bound: answers under way at a time
          MaxFaults    \* bound: crashes, failed writes, lost requests and replies

VARIABLES disk,      \* the checkpoint
          mem,       \* PMState, as far as it is saved
          pc,        \* where the PM's thread is
          stop,      \* "" or stop_reason once stop_event is set
          life,      \* the process: "first", "down", "resumed" (_resume_authorization)
          withdrawn, \* the Secretary's task is cancelled or has ended
          late,      \* questions whose deadline has passed
          expired,   \* the global time limit of the task has passed
          asked,     \* questions asked, which are numbered by it
          letters,   \* answers between the Secretary and the PM
          acked,     \* history: answers the PM has confirmed
          thread,    \* the thread of the chat: questions, and answers confirmed
          executions, delivered, \* history: runs of the runtime, deliveries at the Secretary
          faults

saved == <<disk, mem>>
answering == <<letters, acked, thread>>
outside == <<withdrawn, late, expired>>
effects == <<asked, executions, delivered>>
vars == <<saved, pc, stop, life, outside, answering, effects, faults>>

NoAnswer == "none"
NoRequest == [id |-> 0, round |-> 0, consumed |-> FALSE]
Ends == {"completed", "failed"}

\* A short description of the task calls for questions, a long one does not.
Init ==
    /\ \E clear \in BOOLEAN :
          disk = [phase |-> "starting", round |-> 0, context |-> <<>>, complete |-> clear,
                  request |-> NoRequest, response |-> NoAnswer, history |-> <<>>,
                  planned |-> FALSE, direct |-> "none", result |-> "none", payload |-> FALSE]
    /\ mem = disk /\ pc = "refine" /\ stop = "" /\ life = "first"
    /\ withdrawn = FALSE /\ late = {} /\ expired = FALSE
    /\ asked = 0 /\ executions = 0 /\ delivered = 0
    /\ letters = {} /\ acked = {} /\ thread = {}
    /\ faults = 0

Fault == faults < MaxFaults /\ faults' = faults + 1

\* checkpoint, which stops the PM when it cannot be written
Saved(next) == mem' = next /\ disk' = next /\ UNCHANGED <<stop, faults>>
SaveFails(next) == Fault /\ mem' = next /\ stop' = "checkpoint_failed" /\ UNCHANGED disk

\* A step of the thread from one place to the next, with a checkpoint.
Step(from, next, to) ==
    /\ pc = from /\ stop = ""
    /\ \/ Saved(next) /\ pc' = to
       \/ SaveFails(next) /\ pc' = "ended"

Quiet == UNCHANGED <<life, outside, answering>>

\* The thread looks at stop_event wherever it goes on, and ends.
Stopped ==
    /\ life # "down" /\ stop # "" /\ pc \notin {"running", "ended"}
    /\ pc' = "ended"
    /\ UNCHANGED <<saved, stop, effects, faults>> /\ Quiet

-----------------------------------------------------------------------------
(* Questions.                                                              *)

\* _run_task and refine_requirements up to the next question.
Refine ==
    /\ IF expired THEN Step("refine", [mem EXCEPT !.phase = "failed"], "ended")
       ELSE Step("refine", [mem EXCEPT !.phase = "refining"], IF mem.complete THEN "plan" ELSE "ask")
    /\ UNCHANGED effects /\ Quiet

\* _generate_refinement_question has a second question only after an answer.
HasQuestion == mem.round < Rounds /\ (mem.round > 0 => mem.context # <<>>)

\* Faulty: only a question of this process is asked on, not one of before the restart.
ReusableHere == life = "first" /\ mem.request.id > 0 /\ ~mem.request.consumed /\ mem.request.round = mem.round

Reusable == mem.request.id > 0 /\ ~mem.request.consumed /\ mem.request.round = mem.round

\* wait_for_answer up to the wait; the report to the Secretary may be lost, and is a notice
\* in the thread, once for a question.
Ask ==
    /\ HasQuestion
    /\ LET request == IF Reusable THEN mem.request
                      ELSE [id |-> asked + 1, round |-> mem.round, consumed |-> FALSE]
           response == IF Reusable THEN mem.response ELSE NoAnswer
       IN  /\ Step("ask", [mem EXCEPT !.phase = "awaiting_input", !.request = request,
                                      !.response = response], "waiting")
           /\ asked' = IF Reusable \/ stop' # "" THEN asked ELSE asked + 1
           /\ thread' \in {thread, IF stop' = "" THEN thread \cup {<<request.id, "question">>} ELSE thread}
    /\ UNCHANGED <<life, outside, letters, acked, executions, delivered>>

Wake ==
    /\ pc = "waiting" /\ stop = ""
    /\ \/ mem.response # NoAnswer /\ pc' = "answered" /\ UNCHANGED <<saved, stop, faults>>
       \/ /\ mem.response = NoAnswer /\ mem.request.id \in late
          /\ Step("waiting", [mem EXCEPT !.response = "timeout"], "answered")
    /\ UNCHANGED effects /\ Quiet

\* The answer becomes part of the task, and the question history.
Consume ==
    LET answer == mem.response
        next == [mem EXCEPT !.round = @ + 1, !.request.consumed = TRUE,
                            !.context = IF answer = "timeout" THEN @ ELSE Append(@, answer),
                            !.history = [q \in DOMAIN @ \cup {mem.request.id} |->
                                            IF q = mem.request.id THEN answer ELSE mem.history[q]]]
    IN  /\ IF answer = "timeout"
           THEN pc = "answered" /\ stop = "" /\ mem' = next /\ pc' = "refined" /\ UNCHANGED <<disk, stop, faults>>
           ELSE Step("answered", [next EXCEPT !.phase = "refining"], "ask")
        /\ UNCHANGED effects /\ Quiet

Refined ==
    /\ pc = "ask" => ~HasQuestion
    /\ \E from \in {"ask", "refined"} : Step(from, [mem EXCEPT !.phase = "refined", !.complete = TRUE], "plan")
    /\ UNCHANGED effects /\ Quiet

\* receive_answer, which has the lock
Same(l) ==
    IF l.id \in DOMAIN mem.history THEN mem.history[l.id] = l.answer
    ELSE mem.request.id = l.id /\ mem.response = l.answer

\* Faulty: the last answer before the PM goes on counts.
OpenAnswered(l) ==
    /\ ~l.known /\ l.id \notin DOMAIN mem.history /\ mem.request.id = l.id
    /\ stop = "" /\ ~mem.request.consumed /\ l.id \notin late

Open(l) ==
    /\ ~l.known /\ l.id \notin DOMAIN mem.history /\ mem.request.id = l.id
    /\ stop = "" /\ mem.response = NoAnswer /\ ~mem.request.consumed /\ l.id \notin late

\* send_to_pm_thread, if the confirmation comes back: one answer of a question is shown.
Confirmed(l) ==
    /\ acked' = acked \cup {<<l.id, l.answer>>}
    /\ \/ /\ thread' = IF \E a \in Answers : <<l.id, a>> \in thread THEN thread
                       ELSE thread \cup {<<l.id, l.answer>>}
          /\ UNCHANGED faults
       \/ Fault /\ UNCHANGED thread

Receive(l) ==
    /\ letters' = letters \ {l}
    /\ \/ \* refused: there is no PM, or it does not take the answer
          /\ life = "down" \/ ~(Same(l) \/ Open(l))
          /\ UNCHANGED <<saved, stop, acked, thread, faults>>
       \/ /\ life # "down" /\ Same(l) /\ Confirmed(l) /\ UNCHANGED <<saved, stop>>
       \/ /\ life # "down" /\ ~Same(l) /\ Open(l)
          /\ LET next == [mem EXCEPT !.response = l.answer]
             IN  \/ mem' = next /\ disk' = next /\ UNCHANGED stop /\ Confirmed(l)
                 \/ SaveFails(mem) /\ UNCHANGED <<acked, thread>>
    /\ UNCHANGED <<pc, life, outside, effects>>

\* route_answer: whether the task still runs is looked up before the answer is passed on.
Send(q, a) ==
    /\ Cardinality(letters) < MaxLetters
    /\ letters' = letters \cup {[id |-> q, answer |-> a, known |-> withdrawn]}
    /\ UNCHANGED <<saved, pc, stop, life, outside, acked, thread, effects, faults>>

\* The request, or the look at the task before it, fails.
LoseLetter(l) ==
    /\ Fault /\ letters' = letters \ {l}
    /\ UNCHANGED <<saved, pc, stop, life, outside, acked, thread, effects>>

-----------------------------------------------------------------------------
(* The plan, the execution and the delivery.                               *)

\* The runtime is asked for a plan, unless the description fits a template.
Plan ==
    /\ IF expired THEN Step("plan", [mem EXCEPT !.phase = "failed"], "ended")
       ELSE Step("plan", [mem EXCEPT !.phase = "planned", !.planned = TRUE], "execute")
    /\ UNCHANGED effects /\ Quiet

\* A crash may find the phase from before the plan.
Planning ==
    /\ mem.phase # "planning" /\ ~expired
    /\ Step("plan", [mem EXCEPT !.phase = "planning"], "plan")
    /\ UNCHANGED effects /\ Quiet

\* execution_allowed: a resumed PM asks the Secretary again, and stops when the task has
\* ended, when its time is over or when there is no answer.
Allowed == life = "first" \/ ~(withdrawn \/ expired)

Blocked ==
    /\ pc \in {"execute", "launch", "deliver"} /\ stop = "" /\ life = "resumed"
    /\ Allowed => Fault
    /\ ~Allowed => UNCHANGED faults
    /\ stop' = "recovery_blocked" /\ pc' = "ended"
    /\ disk' \in {disk, [mem EXCEPT !.phase = "recovery_blocked"]} /\ UNCHANGED <<mem, effects>> /\ Quiet

\* Faulty: what is about to run is noted in memory only.
NotedInMemory(next) == pc' = "launch" /\ mem' = next /\ UNCHANGED <<disk, stop, faults>>

\* The execution is in the checkpoint before it runs.
Noted(next) ==
    \/ Saved(next) /\ pc' = "launch"
    \/ SaveFails(next) /\ pc' = "ended"

Execute ==
    /\ pc = "execute" /\ stop = "" /\ Allowed
    /\ CASE mem.direct = "none" -> Noted([mem EXCEPT !.phase = "executing_single", !.direct = "active"])
         [] mem.direct \in {"returned", "completed"} -> pc' = "check" /\ UNCHANGED <<saved, stop, faults>>
         [] mem.direct = "active" -> pc' = "ended" /\ UNCHANGED <<saved, stop, faults>>
    /\ UNCHANGED effects /\ Quiet

\* execute_directly
Launch ==
    /\ pc = "launch" /\ stop = "" /\ Allowed
    /\ pc' = "running" /\ executions' = executions + 1
    /\ UNCHANGED <<saved, stop, asked, delivered, faults>> /\ Quiet

Return(result) ==
    /\ pc = "running"
    /\ IF stop # "" THEN pc' = "ended" /\ UNCHANGED <<saved, stop, faults>>
       ELSE Step("running", [mem EXCEPT !.direct = "returned", !.result = result], "check")
    /\ UNCHANGED effects /\ Quiet

Check ==
    /\ IF mem.result = "failed" THEN Step("check", [mem EXCEPT !.phase = "failed"], "ended")
       ELSE Step("check", [mem EXCEPT !.phase = "executed_single", !.direct = "completed"], "deliver")
    /\ UNCHANGED effects /\ Quiet

Deliver ==
    /\ Allowed
    /\ Step("deliver", [mem EXCEPT !.phase = "delivering", !.payload = TRUE], "send")
    /\ UNCHANGED effects /\ Quiet

\* The request may be lost, and so may its answer, which counts as a failure.
Post ==
    \/ /\ Step("send", [mem EXCEPT !.phase = "completed"], "ended") /\ delivered' = delivered + 1
       /\ UNCHANGED <<asked, executions>> /\ Quiet
    \/ /\ pc = "send" /\ stop = "" /\ Fault
       /\ disk' = [mem EXCEPT !.phase = "failed"] /\ mem' = disk' /\ pc' = "ended"
       /\ delivered' \in {delivered, delivered + 1}
       /\ UNCHANGED <<stop, asked, executions>> /\ Quiet

-----------------------------------------------------------------------------
(* The rest of the world.                                                  *)

Crash ==
    /\ life # "down" /\ Fault
    /\ life' = "down" /\ pc' = "ended" /\ stop' = "" /\ mem' = disk
    /\ UNCHANGED <<disk, outside, answering, effects>>

\* Steps of the plan without a result must not have been begun; before there is a plan, a
\* question that waits for its answer must be the next one.
Resumable ==
    /\ disk.phase \notin Ends \cup {"cancelled", "recovery_blocked"}
    /\ disk.direct \in {"none", "returned", "completed"}
    /\ disk.phase = "awaiting_input" =>
          ~disk.request.consumed /\ disk.request.round = disk.round /\ Len(disk.context) = disk.round

\* A person has the task resumed, with the authorisation of the Secretary; the thread begins
\* again, or at the execution when there is a plan.
Resume ==
    /\ life = "down" /\ ~withdrawn /\ ~expired /\ Resumable
    /\ life' = "resumed" /\ pc' = IF disk.planned THEN "execute" ELSE "refine"
    /\ UNCHANGED <<saved, stop, outside, answering, effects, faults>>

\* A person cancels the task: first at the Secretary, then at the PM.
Withdraw ==
    /\ ~withdrawn /\ withdrawn' = TRUE
    /\ UNCHANGED <<saved, pc, stop, life, late, expired, answering, effects, faults>>

Cancel ==
    /\ withdrawn /\ life # "down" /\ stop = ""
    /\ stop' = "cancelled"
    /\ \/ /\ mem' = IF mem.phase \in Ends THEN mem ELSE [mem EXCEPT !.phase = "cancelled"]
          /\ disk' = mem' /\ UNCHANGED faults
       \/ Fault /\ UNCHANGED saved
    /\ UNCHANGED <<pc, life, outside, answering, effects>>

QuestionLate ==
    /\ \E q \in 1..asked : q \notin late /\ late' = late \cup {q}
    /\ UNCHANGED <<saved, pc, stop, life, withdrawn, expired, answering, effects, faults>>

TaskLate ==
    /\ ~expired /\ expired' = TRUE /\ late' = 1..asked
    /\ UNCHANGED <<saved, pc, stop, life, withdrawn, answering, effects, faults>>

Next ==
    \/ Refine \/ Ask \/ Wake \/ Consume \/ Refined \/ Planning \/ Plan \/ Blocked
    \/ Execute \/ Launch \/ Check \/ Deliver \/ Post \/ Stopped
    \/ Return("ok") \/ Return("failed")
    \/ Crash \/ Resume \/ Withdraw \/ Cancel \/ QuestionLate \/ TaskLate
    \/ \E l \in letters : Receive(l) \/ LoseLetter(l)
    \/ \E q \in 1..asked, a \in Answers : Send(q, a)

Spec == Init /\ [][Next]_vars

-----------------------------------------------------------------------------
(* Properties.                                                             *)

\* An answer the PM has confirmed is the only one of its question, in the thread too; it is in
\* the checkpoint from then on, whatever crashes, and in the task that is planned.  And a
\* question is asked again after a restart, never replaced by another one.
AnswerKept ==
    /\ \A x \in acked :
          /\ \A y \in acked \cup {t \in thread : t[2] \in Answers} : y[1] = x[1] => y = x
          /\ \/ x[1] \in DOMAIN disk.history /\ disk.history[x[1]] = x[2]
             \/ disk.request.id = x[1] /\ disk.response = x[2]
    /\ disk.complete => {disk.history[q] : q \in DOMAIN disk.history} \ {"timeout"}
                        = {disk.context[i] : i \in DOMAIN disk.context}
    /\ asked <= disk.round + 1

\* The runtime, whose tools act on files and machines, runs the task at most once, and a
\* delivery is always of a run that has returned.
DirectOnce ==
    /\ executions <= 1
    /\ delivered > 0 => executions = 1 /\ disk.result = "ok"
=============================================================================
