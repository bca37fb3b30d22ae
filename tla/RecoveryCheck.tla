----------------------------- MODULE RecoveryCheck -----------------------------
(***************************************************************************)
(* Assessing, and asking for, the recovery of one task: pm_recovery and    *)
(* task_resume.  The node of the PM collects evidence step by step, with   *)
(* a request to every executor whose answer the checkpoint lacks, while    *)
(* the Secretary's task, the checkpoint and the PM itself may change.  A   *)
(* plan that cannot be checked within the budget is assessed in pages: the *)
(* dashboard asks for the next one with the revision of the first.         *)
(*                                                                         *)
(* Who may take a checkpoint over is CheckpointFence; here a process takes *)
(* it over in one step, and the PM that works is seen only through what it *)
(* records and sends.                                                      *)
(***************************************************************************)
EXTENDS Naturals, Sequences

CONSTANTS Last,         \* the steps of the plan are 1..Last
          MaxRequests,  \* bound: authorizations
          MaxBoots      \* bound: processes of the PM's node, one after the other

VARIABLES task,      \* what the Secretary's ledger says of the task
          granted,   \* _pm_resume and its history: the revision of each request, in order
          boot,      \* the process of the node
          row,       \* the checkpoint
          pm,        \* the PM of this process
          work,      \* what the executors did
          look,      \* the assessment under way
          pages      \* what the dashboard has collected

vars == <<task, granted, boot, row, pm, work, look, pages>>

Steps    == 1..Last
Ids      == 1..MaxRequests
Kept     == {"none", "sent", "completed", "failed"}   \* completed: received, or saved as an output as well
Evidence == {"unchecked", "unstarted", "awaiting_result", "result_unknown",
             "completed", "failed"}   \* completed: saved_completed, or receipt_completed

NoPages == [revision |-> 0, next |-> 0, of |-> [s \in Steps |-> "unchecked"]]
NoPM    == [running |-> FALSE, request |-> 0, todo |-> {}]
NoLook  == [stage |-> "none", revision |-> 0, next |-> 0, task |-> "open",
            steps |-> [s \in Steps |-> "none"], of |-> [s \in Steps |-> "unchecked"]]

TypeOK ==
    /\ task \in {"open", "closed"}
    /\ granted \in Seq(Nat) /\ boot \in 1..MaxBoots
    /\ row \in [owner : Nat, revision : Nat, request : {0} \cup Ids, stopped : BOOLEAN, steps : [Steps -> Kept]]
    /\ pm \in [running : BOOLEAN, request : {0} \cup Ids, todo : SUBSET Steps]
    /\ work \in [Steps -> {"none", "started", "completed", "failed"}]
    /\ look \in [stage : {"none", "asked", "collecting", "collected"}, revision : Nat, next : Nat,
                 task : {"open", "closed"}, steps : [Steps -> Kept], of : [Steps -> Evidence]]
    /\ pages \in [revision : Nat, next : Nat, of : [Steps -> Evidence]]

Init ==
    /\ task = "open" /\ granted = <<>> /\ boot = 1
    /\ row = [owner |-> 1, revision |-> 1, request |-> 0, stopped |-> FALSE,
              steps |-> [s \in Steps |-> "none"]]
    /\ pm = [NoPM EXCEPT !.running = TRUE]
    /\ work = [s \in Steps |-> "none"]
    /\ look = NoLook /\ pages = NoPages

-----------------------------------------------------------------------------
(* The Secretary's record of the task.                                     *)

\* The task is stopped, delivered or replaced, or the budget of its project is used up.
Close ==
    /\ task = "open"
    /\ task' = "closed"
    /\ UNCHANGED <<granted, boot, row, pm, work, look, pages>>

\* resume_authorization.
\* Faulty: only the latest request is looked at, not its history.
AuthorizedLatest(i) == task = "open" /\ i = Len(granted)

Authorized(i) == task = "open" /\ i \in 1..Len(granted)

-----------------------------------------------------------------------------
(* The PM, seen through its checkpoint and its requests.                   *)

\* execution_allowed: a resumed PM asks before every new effect, and stops when it is refused.
Allowed == pm.request = 0 \/ Authorized(pm.request)

Record(s, kept) ==
    row' = [row EXCEPT !.revision = @ + 1, !.steps[s] = kept]

Refused ==
    /\ pm.running /\ ~Allowed
    /\ pm' = [pm EXCEPT !.running = FALSE]
    /\ row' = [row EXCEPT !.revision = @ + 1, !.stopped = TRUE]
    /\ UNCHANGED <<task, granted, boot, work, look, pages>>

Send(s) ==
    /\ pm.running /\ Allowed
    /\ row.steps[s] = "none"
    /\ Record(s, "sent")
    /\ pm' = [pm EXCEPT !.todo = @ \cup {s}]
    /\ UNCHANGED <<task, granted, boot, work, look, pages>>

Post(s) ==
    /\ s \in pm.todo
    /\ pm' = [pm EXCEPT !.todo = @ \ {s}]
    /\ work' = [work EXCEPT ![s] = "started"]
    /\ UNCHANGED <<task, granted, boot, row, look, pages>>

Finish(s) ==
    /\ work[s] = "started"
    /\ \E r \in {"completed", "failed"} : work' = [work EXCEPT ![s] = r]
    /\ UNCHANGED <<task, granted, boot, row, pm, look, pages>>

\* The result is received and recorded.
Hear(s) ==
    /\ pm.running /\ work[s] \in {"completed", "failed"}
    /\ row.steps[s] = "sent"
    /\ Record(s, work[s])
    /\ UNCHANGED <<task, granted, boot, pm, work, look, pages>>

\* The PM gives up without having saved it: its checkpoint could not be written.
\* A request that is about to be sent is not held back.
Halt ==
    /\ pm.running
    /\ pm' = [pm EXCEPT !.running = FALSE]
    /\ UNCHANGED <<task, granted, boot, row, work, look, pages>>

\* The process ends, and with it the PM and an assessment in it; another one is started.
Crash ==
    /\ boot < MaxBoots
    /\ boot' = boot + 1
    /\ pm' = NoPM
    /\ look' = NoLook
    /\ UNCHANGED <<task, granted, row, work, pages>>

-----------------------------------------------------------------------------
(* The assessment.                                                         *)

\* assess_task_recovery: the dashboard asks for a first page, or for the next one.
Ask(first) ==
    /\ look.stage = "none"
    /\ first \/ pages.next # 0
    /\ look' = [NoLook EXCEPT !.stage = "asked", !.task = task,
                              !.next = IF first THEN 1 ELSE pages.next,
                              !.revision = IF first THEN 0 ELSE pages.revision,
                              !.of = IF first THEN NoPages.of ELSE pages.of]
    /\ UNCHANGED <<task, granted, boot, row, pm, work, pages>>

\* Faulty: the revision of the first page is not compared.
ExpectedAny(l) == TRUE

Expected(l) == l.revision \in {0, row.revision}

\* No answer that the dashboard could use: the PM is running, or the page is of another revision.
Give == look' = NoLook /\ pages' = NoPages

\* assess_pm_recovery reads the PM's state, and then the checkpoint.
Read ==
    /\ look.stage = "asked"
    /\ IF pm.running \/ ~Expected(look)
       THEN Give
       ELSE /\ look' = [look EXCEPT !.stage = "collecting", !.revision = row.revision, !.steps = row.steps]
            /\ UNCHANGED pages
    /\ UNCHANGED <<task, granted, boot, row, pm, work>>

\* _remote_receipt: what the executor says, if it can be asked.
Receipts(s) ==
    {"result_unknown"} \cup
    CASE work[s] = "none"    -> {}
      [] work[s] = "started" -> {"awaiting_result"}
      [] OTHER               -> {work[s]}

\* _step_status: the checkpoint's own evidence goes first.
Statuses(s) ==
    CASE look.steps[s] = "none" -> {"unstarted"}
      [] look.steps[s] = "sent" -> Receipts(s)
      [] OTHER                  -> {look.steps[s]}

Collect ==
    /\ look.stage = "collecting" /\ look.next <= Last
    /\ \E e \in Statuses(look.next) :
         look' = [look EXCEPT !.of[look.next] = e, !.next = @ + 1]
    /\ UNCHANGED <<task, granted, boot, row, pm, work, pages>>

\* Faulty: the checkpoint is not read again.
UnchangedAssumed(l) == ~pm.running

\* At the end the checkpoint and the PM are looked at again.
Unchanged(l) == row.revision = l.revision /\ ~pm.running

\* The plan is through, or the budget is used up before a step that needs a request.
Conclude ==
    /\ look.stage = "collecting"
    /\ look.next <= Last => look.steps[look.next] = "sent"
    /\ IF Unchanged(look)
       THEN look' = [look EXCEPT !.stage = "collected"] /\ UNCHANGED pages
       ELSE Give
    /\ UNCHANGED <<task, granted, boot, row, pm, work>>

\* The Secretary reads the task again before it passes the answer on.
Answer ==
    /\ look.stage = "collected"
    /\ look' = NoLook
    /\ pages' = IF task # look.task THEN NoPages
                ELSE [revision |-> look.revision, of |-> look.of,
                      next |-> IF look.next > Last THEN 0 ELSE look.next]
    /\ UNCHANGED <<task, granted, boot, row, pm, work>>

-----------------------------------------------------------------------------
(* The resumption.                                                         *)

\* prepare_resume: a revision that was asked for before keeps its request, and nothing changes.
\* The revision is the caller's: the one a dashboard shows, or an older one of another dashboard.
Prepare(r) ==
    /\ task = "open"
    /\ Len(granted) < MaxRequests /\ \A i \in 1..Len(granted) : granted[i] # r
    /\ granted' = Append(granted, r)
    /\ UNCHANGED <<task, boot, row, pm, work, look, pages>>

\* resume_pm_once: the request reaches the node never, late, or again and again.
Resume(i) ==
    /\ i \in 1..Len(granted)
    /\ ~pm.running /\ ~row.stopped /\ row.owner # boot
    /\ row.request # i /\ row.revision = granted[i]
    /\ \A s \in Steps : row.steps[s] # "failed"
    /\ Authorized(i)
    /\ row' = [row EXCEPT !.owner = boot, !.revision = @ + 2, !.request = i]
    /\ pm' = [NoPM EXCEPT !.running = TRUE, !.request = i]
    /\ UNCHANGED <<task, granted, boot, work, look, pages>>

-----------------------------------------------------------------------------
Next ==
    \/ Close \/ Refused \/ Halt \/ Crash
    \/ \E s \in Steps : Send(s) \/ Post(s) \/ Finish(s) \/ Hear(s)
    \/ \E first \in BOOLEAN : Ask(first)
    \/ Read \/ Collect \/ Conclude \/ Answer
    \/ \E r \in 1..row.revision : Prepare(r)
    \/ \E i \in Ids : Resume(i)

Spec == Init /\ [][Next]_vars

-----------------------------------------------------------------------------
(* When the node concludes, everything its pages say is so: a step called  *)
(* unstarted was never sent to an executor, and one called completed was   *)
(* completed.  Pages of different moments, a PM that is resumed meanwhile  *)
(* or a checkpoint that moves on must not be mixed into one picture, for   *)
(* the user decides by it whether the work may be done again.              *)
PictureOfOneMoment ==
    [][ look'.stage = "collected" /\ look.stage # "collected"
        => \A s \in Steps :
             /\ look.of[s] = "unstarted" => work[s] = "none" /\ s \notin pm.todo
             /\ look.of[s] \in {"completed", "failed"} => work[s] = look.of[s] ]_vars

(* A resumed PM is not stopped by a later request of the user: as long as  *)
(* the task is open, its own request remains valid, however many requests  *)
(* for other revisions have been prepared since.                           *)
RequestStaysValid == pm.running /\ pm.request # 0 /\ task = "open" => Allowed

================================================================================
