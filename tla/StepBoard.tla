------------------------------- MODULE StepBoard -------------------------------
(***************************************************************************)
(* What the Secretary shows of a running task, and the reports it shows it *)
(* from.  Several threads of the PM report at the same time: each takes a  *)
(* snapshot of the steps under the lock (pm_agent.py), posts it without    *)
(* the lock, and posts it again when no answer comes (http_retry.py), so   *)
(* reports overtake one another, arrive twice or never, and may arrive     *)
(* when the task was paused and a continuation has begun a new round with  *)
(* a new PM object (station_routes_pm.py, database.py).                    *)
(*                                                                         *)
(* What makes a PM move on is left out: its steps advance as they like.    *)
(* report_team is left out: the address it posts to takes no POST.         *)
(***************************************************************************)
EXTENDS Integers, FiniteSets

CONSTANTS Names,      \* the steps of the plan
          Threads,    \* reporting threads
          Retries,    \* how often a post is repeated
          MaxRounds,  \* bound: rounds of execution
          MaxReports, \* bound: reports
          MaxFaults   \* bound: requests and answers that are lost or late

VARIABLES task,    \* the task's row, and its PM's, at the Secretary
          pm,      \* the PM object of each round
          post,    \* what each thread is posting
          net,     \* requests that are under way
          posted,  \* reports so far
          faults

vars == <<task, pm, post, net, posted, faults>>

Rounds   == 1..MaxRounds
Statuses == {"pending", "assigned", "running", "completed", "failed", "blocked"}
Ends     == {"completed", "failed"}
Steps    == [Names -> Statuses]
NoSteps  == [n \in Names |-> "pending"]
Reports  == [kind : {"steps", "status", "progress"}, round : Rounds, steps : Steps,
             status : {"", "monitoring", "paused"} \cup Ends]
Idle     == [tries |-> 0, report |-> [kind |-> "", round |-> 0, steps |-> NoSteps, status |-> ""]]

\* An id of a step is the number of ids that were given before; "of" is the round of the
\* report that was shown last.
TypeOK ==
    /\ task \in [round : Rounds, status : {"running", "paused"} \cup Ends, shown : BOOLEAN,
                 board : Steps, of : 0..MaxRounds, ids : [Names -> Int],
                 row : {"monitoring", "paused", "unknown", "recovering"} \cup Ends]
    /\ pm \in [Rounds -> [state : {"none", "running", "paused"} \cup Ends, outputs : SUBSET Names,
                          failures : SUBSET Names, blocked : SUBSET Names,
                          at : [Names -> {"pending", "assigned", "running"}]]]
    /\ \A t \in Threads : post[t] = Idle \/ (post[t].report \in Reports /\ post[t].tries \in 0..Retries + 1)
    /\ \A r \in net : r.report \in Reports
    /\ posted \in 0..MaxReports /\ faults \in 0..MaxFaults

NoPM == [state |-> "none", outputs |-> {}, failures |-> {}, blocked |-> {}, at |-> NoSteps]

Init ==
    /\ task = [round |-> 1, status |-> "running", shown |-> FALSE, board |-> NoSteps, of |-> 0,
               ids |-> [n \in Names |-> 0], row |-> "monitoring"]
    /\ pm = [r \in Rounds |-> IF r = 1 THEN [NoPM EXCEPT !.state = "running"] ELSE NoPM]
    /\ post = [t \in Threads |-> Idle]
    /\ net = {} /\ posted = 0 /\ faults = 0

-----------------------------------------------------------------------------
(* The PM.                                                                 *)

Advance(r) ==
    /\ pm[r].state = "running"
    /\ \E n \in Names \ pm[r].outputs :
         \/ \E s \in {"assigned", "running"} : pm' = [pm EXCEPT ![r].at[n] = s]
         \/ pm[r].at[n] = "running" /\ pm' = [pm EXCEPT ![r].outputs = @ \cup {n}]
    /\ UNCHANGED <<task, post, net, posted, faults>>

End(r) ==
    /\ pm[r].state = "running"
    /\ \/ pm[r].outputs = Names /\ pm' = [pm EXCEPT ![r].state = "completed"]
       \/ \E n \in Names \ pm[r].outputs :
             pm' = [pm EXCEPT ![r].state = "failed", ![r].failures = {n},
                              ![r].blocked = Names \ (pm[r].outputs \cup {n})]
    /\ UNCHANGED <<task, post, net, posted, faults>>

\* _build_subtask_status: the first that applies.
StatusOf(p, n) ==
    IF n \in p.failures THEN "failed"
    ELSE IF n \in p.blocked THEN "blocked"
    ELSE IF n \in p.outputs THEN "completed" ELSE p.at[n]

Snapshot(p) == [n \in Names |-> StatusOf(p, n)]

\* What the PM may report: after a stop only that it stopped.
Reportable(r) ==
    LET status == IF pm[r].state = "running" THEN "monitoring" ELSE pm[r].state
    IN  {[kind |-> k, round |-> r, steps |-> NoSteps, status |-> status] : k \in {"status", "progress"}}
        \cup {[kind |-> "steps", round |-> r, steps |-> Snapshot(pm[r]), status |-> ""] :
              k \in {"steps"} \ (IF pm[r].state = "paused" THEN {"steps"} ELSE {})}

Report(t, r) ==
    /\ post[t] = Idle /\ pm[r].state # "none" /\ posted < MaxReports
    /\ posted' = posted + 1
    /\ \E report \in Reportable(r) : post' = [post EXCEPT ![t] = [tries |-> 0, report |-> report]]
    /\ UNCHANGED <<task, pm, net, faults>>

-----------------------------------------------------------------------------
(* The post.                                                               *)

Waiting(t) == \E r \in net : r.by = t /\ r.try = post[t].tries /\ r.report = post[t].report

Send(t) ==
    /\ post[t] # Idle /\ post[t].tries <= Retries /\ ~Waiting(t)
    /\ net' = net \cup {[by |-> t, try |-> post[t].tries + 1, report |-> post[t].report]}
    /\ post' = [post EXCEPT ![t].tries = @ + 1]
    /\ UNCHANGED <<task, pm, posted, faults>>

\* The last attempt had no answer either: that is only logged.
GiveUp(t) ==
    /\ post[t].tries = Retries + 1 /\ ~Waiting(t)
    /\ post' = [post EXCEPT ![t] = Idle]
    /\ UNCHANGED <<task, pm, net, posted, faults>>

\* The request is lost, or its answer is waited for no longer and it arrives later.
Lose(r) ==
    /\ r.try > 0 /\ faults < MaxFaults
    /\ faults' = faults + 1
    /\ \E late \in BOOLEAN : net' = (net \ {r}) \cup (IF late THEN {[r EXCEPT !.try = -@]} ELSE {})
    /\ UNCHANGED <<task, pm, post, posted>>

-----------------------------------------------------------------------------
(* The Secretary.                                                          *)

\* Faulty: the round of a report is not looked at.
CurrentAny(report) == TRUE

\* pm_generation_matches.
Current(report) == report.round = task.round

\* Faulty: what a PM says of itself is taken as it is.
ProtectedNever(report) == FALSE

Protected(report) == task.status = "paused" /\ report.status # "paused"

\* update_pm_status.
TakeStatus(report) ==
    task' = IF Protected(report) \/ ~Current(report) THEN task ELSE [task EXCEPT !.row = report.status]

\* receive_pm_progress and save_progress_report.
TakeProgress(report) ==
    task' = IF Current(report) /\ report.status \in Ends /\ task.status = "running"
            THEN [task EXCEPT !.status = report.status] ELSE task

\* Faulty: each report makes a new list.
NamedAfresh(n) == 1 + task.ids[n]

\* A step keeps the id it was given when it was first shown.
Named(n) == IF task.shown THEN task.ids[n] ELSE 1

\* sync_pm_subtasks and update_task_subtasks.
TakeSteps(report) ==
    task' = IF Current(report)
            THEN [task EXCEPT !.shown = TRUE, !.board = report.steps, !.of = report.round,
                              !.ids = [n \in Names |-> Named(n)]]
            ELSE task

Take(report) == CASE report.kind = "status"   -> TakeStatus(report)
                  [] report.kind = "progress" -> TakeProgress(report)
                  [] report.kind = "steps"    -> TakeSteps(report)

\* A request arrives; the answer goes back, unless it comes too late.
Receive(r) ==
    /\ Take(r.report)
    /\ net' = net \ {r}
    /\ post' = IF r.try > 0 THEN [post EXCEPT ![r.by] = Idle] ELSE post
    /\ UNCHANGED <<pm, posted, faults>>

\* begin_task_control; the row is unknown until the PM has confirmed.
Pause ==
    /\ task.status = "running"
    /\ task' = [task EXCEPT !.status = "paused", !.row = "unknown"]
    /\ UNCHANGED <<pm, post, net, posted, faults>>

\* The PM is told, and confirms.
StopPM ==
    /\ task.status = "paused" /\ pm[task.round].state = "running"
    /\ pm' = [pm EXCEPT ![task.round].state = "paused"]
    /\ task' = [task EXCEPT !.row = "paused"]
    /\ UNCHANGED <<post, net, posted, faults>>

\* The continuation is activated, and a new PM object takes over what the old one had.
Continue ==
    /\ task.status = "paused" /\ pm[task.round].state = "paused" /\ task.round < MaxRounds
    /\ task' = [task EXCEPT !.status = "running", !.row = "recovering", !.round = @ + 1]
    /\ UNCHANGED <<pm, post, net, posted, faults>>

TakeOver(r) ==
    /\ r > 1 /\ r = task.round /\ pm[r].state = "none"
    /\ pm' = [pm EXCEPT ![r] = [pm[r - 1] EXCEPT !.state = "running"]]
    /\ UNCHANGED <<task, post, net, posted, faults>>

-----------------------------------------------------------------------------
Next ==
    \/ \E r \in Rounds : Advance(r) \/ End(r) \/ TakeOver(r)
    \/ \E t \in Threads, r \in Rounds : Report(t, r)
    \/ \E t \in Threads : Send(t) \/ GiveUp(t)
    \/ \E r \in net : Lose(r) \/ Receive(r)
    \/ Pause \/ StopPM \/ Continue

Spec == Init /\ [][Next]_vars

-----------------------------------------------------------------------------
(* However late, often or out of order the reports come: what is shown as  *)
(* done or failed did so in the PM of the round that is shown, a task ends *)
(* as the PM of its own round did, and while it is paused no report makes  *)
(* its PM look busy again.                                                 *)
BoardTrue ==
    /\ task.of # 0 => \A n \in Names :
           /\ task.board[n] = "completed" => n \in pm[task.of].outputs
           /\ task.board[n] = "failed" => n \in pm[task.of].failures
    /\ task.status \in Ends => pm[task.round].state = task.status
    /\ task.status = "paused" => task.row \in {"paused", "unknown"}

(* No report of an earlier round replaces one of a later round, and a step *)
(* keeps its id through all rounds.                                        *)
BoardForward ==
    [][ /\ task'.of >= task.of
        /\ task.shown => task'.ids = task.ids ]_vars

================================================================================
