----------------------------- MODULE TaskLedger -----------------------------
(***************************************************************************)
(* The life of tasks between the Secretary's task table (database,         *)
(* task_submission, pm_control, task_continue, task_resubmission) and the  *)
(* nodes that run their project managers (pm_start, pm_control,            *)
(* pm_continue, pm_inspection).                                            *)
(*                                                                         *)
(* A task has a row at the Secretary, at most one PM instance in the       *)
(* memory of its node, and the last checkpoint of that PM on the node's    *)
(* disk.  Every method of the database is one transaction and one action.  *)
(* A call between the Secretary and a node is a message: it may be lost,   *)
(* arrive late, and its answer may be lost; reports may also be repeated   *)
(* and overtake each other.  What a PM does while it runs is PMDispatch.   *)
(*                                                                         *)
(* Task statuses that only older versions wrote, budgets, and the restart  *)
(* of a PM that was not paused (task_resume) are left out.                 *)
(***************************************************************************)
EXTENDS Naturals, FiniteSets

CONSTANTS Tasks,
          None,
          MaxRequests,  \* bound: stop and continue requests
          MaxRevision   \* bound: checkpoint revisions of a paused PM

VARIABLES row,          \* the table tasks, with the row of pm_agents
          replacement,  \* the table task_resubmissions
          requests,     \* the last request id
          call,         \* call[t]: whether a dispatcher still has to settle its start request
          wire,         \* stop, start and continue requests on their way to a node
          acks,         \* stop requests that a node has confirmed
          reports,      \* reports of PMs, which may arrive again and again
          started,      \* the start receipt of a task's PM
          mem,          \* the PM instance in the memory of the node
          disk,         \* its last checkpoint
          handler,      \* the continue request that the node is working on
          working,      \* generations of a PM with calls or threads under way
          launches      \* launches[i]: instances launched for continue request i (history)

secretary == <<row, replacement, requests, call>>
network   == <<wire, acks, reports>>
node      == <<started, mem, disk, handler, working, launches>>
vars      == <<secretary, network, node>>

Requests    == 1..MaxRequests
Generations == 0..MaxRequests   \* 0 is the first round, others the request that began it

Phases   == {"running", "paused", "cancelled", "halted", "completed", "failed"}
Actions  == {"pause", "cancel"}
Receipts == [id : Requests, action : Actions]
Controls == [id : Requests, action : Actions, confirmed : BOOLEAN, dispatched : BOOLEAN,
             generation : Generations]
Grants   == [id : Requests, pause : Requests, revision : Nat, active : BOOLEAN]
Claims   == [id : Requests, launched : BOOLEAN]

\* A PM in memory, its checkpoint on disk, and a continuation that is being worked on.
Instances   == [phase : Phases, generation : Generations, receipt : Receipts \cup {None},
                retired : BOOLEAN]
Checkpoints == [phase : Phases, generation : Generations, receipt : Receipts \cup {None},
                revision : Nat, claim : Claims \cup {None}]
Handlings   == [id : Requests, pause : Requests, stage : {"claimed", "activated", "authorised"}]

ASSUME LedgerAssumption ==
    /\ MaxRequests \in Nat /\ MaxRevision \in Nat
    /\ None \notin Tasks \cup Generations \cup Receipts \cup Controls \cup Grants \cup Claims
    /\ None \notin Instances \cup Checkpoints \cup Handlings

Statuses   == {"absent", "pending", "running", "paused", "cancelled", "completed", "failed",
               "accepted", "rejected", "deleted"}
PMStatuses == {"none", "starting", "unknown", "running", "recovering", "completed", "failed",
               "paused", "cancelled"}

Rows == [status : Statuses,
         bound : BOOLEAN,
         pm : PMStatuses,
         control : Controls \cup {None},
         delivery : Generations \cup {None},
         recovery : BOOLEAN,   \* _pm_recovery
         doubt : BOOLEAN,      \* _pm_start or _pm_execution is unknown
         generation : Generations,
         grant : Grants \cup {None}]

TypeOK ==
    /\ row \in [Tasks -> Rows]
    /\ replacement \in [Tasks -> Tasks \cup {None}]
    /\ requests \in 0..MaxRequests
    /\ call \in [Tasks -> {"none", "sent", "unsent"}]
    /\ acks \subseteq Requests
    /\ started \in [Tasks -> {"no", "refused", "launched"}]
    /\ mem \in [Tasks -> Instances \cup {None}]
    /\ disk \in [Tasks -> Checkpoints \cup {None}]
    /\ handler \in [Tasks -> Handlings \cup {None}]
    /\ working \in [Tasks -> SUBSET Generations]
    /\ launches \in [Requests -> Nat]

NewRow == [status |-> "pending", bound |-> FALSE, pm |-> "none", control |-> None,
           delivery |-> None, recovery |-> FALSE, doubt |-> FALSE, generation |-> 0, grant |-> None]

Init ==
    /\ row = [t \in Tasks |-> [NewRow EXCEPT !.status = "absent"]]
    /\ replacement = [t \in Tasks |-> None]
    /\ requests = 0
    /\ call = [t \in Tasks |-> "none"]
    /\ wire = {} /\ acks = {} /\ reports = {}
    /\ started = [t \in Tasks |-> "no"]
    /\ mem = [t \in Tasks |-> None]
    /\ disk = [t \in Tasks |-> None]
    /\ handler = [t \in Tasks |-> None]
    /\ working = [t \in Tasks |-> {}]
    /\ launches = [i \in Requests |-> 0]

-----------------------------------------------------------------------------
Exists(t)    == row[t].status \notin {"absent", "deleted"}
Stopped(t)   == row[t].status \in {"paused", "cancelled"}
Confirmed(t) == row[t].control # None /\ row[t].control.confirmed
Unsettled(t) == row[t].control # None /\ ~row[t].control.confirmed

-----------------------------------------------------------------------------
(* Submission and dispatch.                                                *)

Submit(t) ==
    /\ row[t].status = "absent"
    /\ row' = [row EXCEPT ![t] = NewRow]
    /\ UNCHANGED <<replacement, requests, call, network, node>>

\* _validate_source: the old execution has failed, or has confirmed that it stopped.
SourceEnded(s) ==
    /\ row[s].status \in {"failed", "cancelled"}
    /\ row[s].delivery = None
    /\ ~Unsettled(s)
    /\ \/ Confirmed(s)
       \/ /\ row[s].status = "failed" /\ ~row[s].recovery /\ ~row[s].doubt
          /\ row[s].bound => row[s].pm = "failed"

\* validate_resubmission_dispatch
MayDispatch(t) == \A s \in Tasks : replacement[s] = t => SourceEnded(s)

\* bind_task_pm, and the start request; without an address for the answer none is sent.
Bind(t) ==
    /\ row[t].status = "pending"
    /\ ~row[t].bound
    /\ MayDispatch(t)
    /\ row' = [row EXCEPT ![t].status = "running", ![t].bound = TRUE, ![t].pm = "starting"]
    /\ \/ /\ call' = [call EXCEPT ![t] = "sent"]
          /\ wire' = wire \cup {[kind |-> "start", task |-> t]}
       \/ /\ call' = [call EXCEPT ![t] = "unsent"]
          /\ UNCHANGED wire
    /\ UNCHANGED <<replacement, requests, acks, reports, node>>

NoStation(t) ==
    /\ row[t].status = "pending"
    /\ ~row[t].bound
    /\ row' = [row EXCEPT ![t].status = "failed"]
    /\ UNCHANGED <<replacement, requests, call, network, node>>

\* note_pm_start_issue
Note(t, startup, uncertain) ==
    IF \/ row[t].status # "running"
       \/ startup /\ row[t].pm # "starting"
       \/ row[t].pm \in {"completed", "failed", "cancelled", "paused"}
    THEN row
    ELSE IF uncertain
         THEN [row EXCEPT ![t].doubt = TRUE, ![t].pm = "unknown"]
         ELSE [row EXCEPT ![t].status = "failed", ![t].pm = "failed"]

\* Faulty: no answer to the start request is taken for a refusal.
StartUnansweredFails(t) ==
    /\ call[t] = "sent"
    /\ call' = [call EXCEPT ![t] = "none"]
    /\ row' = Note(t, TRUE, FALSE)
    /\ UNCHANGED <<replacement, requests, network, node>>

StartUnanswered(t) ==
    /\ call[t] = "sent"
    /\ call' = [call EXCEPT ![t] = "none"]
    /\ row' = Note(t, TRUE, TRUE)
    /\ UNCHANGED <<replacement, requests, network, node>>

StartAnswered(t) ==
    /\ \/ call[t] = "unsent"
       \/ call[t] = "sent" /\ started[t] # "no"
    /\ call' = [call EXCEPT ![t] = "none"]
    /\ row' = IF started[t] = "launched" THEN row ELSE Note(t, TRUE, FALSE)
    /\ UNCHANGED <<replacement, requests, network, node>>

\* _migrate_orphaned_pms: the host has gone offline.
HostOffline(t) ==
    /\ row[t].bound /\ Exists(t)
    /\ row' = Note(t, FALSE, TRUE)
    /\ UNCHANGED <<replacement, requests, call, network, node>>

\* mark_tasks_for_recovery, when the Secretary is activated again.
Recover ==
    /\ row' = [t \in Tasks |->
                 IF row[t].status # "running" \/ row[t].delivery # None \/ row[t].control # None
                 THEN row[t]
                 ELSE [row[t] EXCEPT !.recovery = TRUE,
                         !.pm = IF @ \in {"completed", "failed", "cancelled", "paused"}
                                THEN @ ELSE "unknown"]]
    /\ UNCHANGED <<replacement, requests, call, network, node>>

\* prepare_resubmission: the only direct replacement of a task.
Resubmit(s, r) ==
    /\ Exists(s) /\ replacement[s] = None
    /\ SourceEnded(s)
    /\ row[r].status = "absent"
    /\ row' = [row EXCEPT ![r] = NewRow]
    /\ replacement' = [replacement EXCEPT ![s] = r]
    /\ UNCHANGED <<requests, call, network, node>>

\* Faulty: an unconfirmed stop does not protect the row.
DeleteUnconfirmed(t) ==
    /\ Exists(t)
    /\ row[t].status # "running"
    /\ row' = [row EXCEPT ![t] = [NewRow EXCEPT !.status = "deleted"]]
    /\ UNCHANGED <<replacement, requests, call, network, node>>

\* delete_task with require_stopped
Delete(t) ==
    /\ Exists(t)
    /\ row[t].status # "running"
    /\ ~Unsettled(t)
    /\ row[t].recovery => Confirmed(t)
    /\ ~(row[t].bound /\ Stopped(t) /\ row[t].control = None)
    /\ row' = [row EXCEPT ![t] = [NewRow EXCEPT !.status = "deleted"]]
    /\ UNCHANGED <<replacement, requests, call, network, node>>

-----------------------------------------------------------------------------
(* Stopping.                                                               *)

\* Faulty: the resulting status is sent in place of the action.
StopMessageStatus(t, control) ==
    [kind |-> "stop", task |-> t, id |-> control.id,
     action |-> IF control.action = "cancel" THEN "cancelled" ELSE "paused",
     generation |-> control.generation]

StopMessage(t, control) ==
    [kind |-> "stop", task |-> t, id |-> control.id, action |-> control.action,
     generation |-> control.generation]

MayStop(t, action) ==
    /\ Exists(t)
    /\ row[t].status \notin {"completed", "accepted", "rejected", "failed"}
    /\ row[t].delivery = None
    /\ ~(row[t].status = "cancelled" /\ action = "pause")

\* begin_task_control and one POST, for a new stop.
RequestStop(t, action) ==
    /\ MayStop(t, action)
    /\ row[t].control # None => row[t].control.action # action
    /\ requests < MaxRequests
    /\ requests' = requests + 1
    /\ LET dispatched == row[t].bound \/ row[t].status # "pending" \/ row[t].recovery
           control == [id |-> requests + 1, action |-> action, confirmed |-> ~dispatched,
                       dispatched |-> dispatched, generation |-> row[t].generation]
       IN  /\ row' = [row EXCEPT ![t].status = IF action = "cancel" THEN "cancelled" ELSE "paused",
                                 ![t].control = control,
                                 ![t].pm = IF row[t].bound THEN "unknown" ELSE @]
           /\ wire' = IF dispatched /\ row[t].bound
                      THEN wire \cup {StopMessage(t, control)} ELSE wire
    /\ UNCHANGED <<replacement, call, acks, reports, node>>

\* The same stop once more: its request is sent again.
RepeatStop(t) ==
    /\ Unsettled(t) /\ row[t].bound
    /\ row[t].status \notin {"completed", "accepted", "rejected", "failed"}
    /\ wire' = wire \cup {StopMessage(t, row[t].control)}
    /\ UNCHANGED <<secretary, acks, reports, node>>

\* Faulty: an earlier confirmation is overwritten by a late failure.
SettleStopAnyway(t, confirmed) ==
    /\ row[t].control # None
    /\ confirmed => row[t].control.id \in acks
    /\ row' = [row EXCEPT ![t].control.confirmed = confirmed]
    /\ UNCHANGED <<replacement, requests, call, network, node>>

\* finish_task_control: the node has confirmed this very request, or it has not (yet).
SettleStop(t, confirmed) ==
    /\ Unsettled(t)
    /\ confirmed => row[t].control.id \in acks
    /\ row' = IF ~confirmed THEN row
              ELSE [row EXCEPT ![t].control.confirmed = TRUE,
                               ![t].pm = IF row[t].bound THEN row[t].status ELSE @]
    /\ UNCHANGED <<replacement, requests, call, network, node>>

\* control_pm: whether the PM in memory accepts the request.
Obeys(t, m) ==
    /\ mem[t] # None
    /\ mem[t].generation = m.generation
    /\ ~(mem[t].phase = "cancelled" /\ m.action = "pause")
    /\ mem[t].phase \notin {"completed", "failed"}

\* The node is asked to stop; its answer may be lost.  A retired instance no longer
\* writes checkpoints.
StopArrives(m) ==
    /\ m \in wire /\ m.kind = "stop"
    /\ handler[m.task] = None
    /\ wire' = wire \ {m}
    /\ LET t == m.task
           receipt == [id |-> m.id, action |-> m.action]
           phase == IF m.action = "cancel" THEN "cancelled" ELSE "paused"
       IN  IF ~Obeys(t, m)
           THEN UNCHANGED <<acks, mem, disk>>
           ELSE /\ acks' \in {acks, acks \cup {m.id}}
                /\ mem' = [mem EXCEPT ![t].phase = phase, ![t].receipt = receipt]
                /\ IF mem[t].retired \/ mem[t].receipt = receipt
                   THEN UNCHANGED disk
                   ELSE disk' = [disk EXCEPT ![t].phase = phase, ![t].receipt = receipt,
                                             ![t].revision = @ + 1]
    /\ UNCHANGED <<secretary, reports, started, handler, working, launches>>

\* Faulty: any stop that the node has obeyed confirms this one.
ReadAnyReceipt(t) ==
    /\ Unsettled(t)
    /\ mem[t] # None /\ mem[t].receipt # None
    /\ acks' = acks \cup {row[t].control.id}
    /\ UNCHANGED <<secretary, wire, reports, node>>

\* GET /role/pm-starts: the receipt that memory or, without an instance, disk shows.
ReadReceipt(t) ==
    /\ Unsettled(t)
    /\ LET seen == IF mem[t] # None THEN mem[t] ELSE disk[t]
       IN  /\ seen # None
           /\ seen.receipt = [id |-> row[t].control.id, action |-> row[t].control.action]
           /\ seen.generation = row[t].control.generation
    /\ acks' = acks \cup {row[t].control.id}
    /\ UNCHANGED <<secretary, wire, reports, node>>

-----------------------------------------------------------------------------
(* What PMs report.                                                        *)

\* update_pm_status: the round must be the current one, and a stop is not overwritten.
StatusArrives(m) ==
    /\ m \in reports /\ m.kind = "status"
    /\ LET t == m.task
       IN  row' = IF \/ ~row[t].bound \/ ~Exists(t)
                     \/ row[t].generation # m.generation
                     \/ Stopped(t) \/ row[t].pm \in {"paused", "cancelled"}
                  THEN row
                  ELSE [row EXCEPT ![t].pm = m.status, ![t].recovery = FALSE, ![t].doubt = FALSE]
    /\ UNCHANGED <<replacement, requests, call, network, node>>

\* save_progress_report of the PM itself: its verdict counts while the task is active.
VerdictArrives(m) ==
    /\ m \in reports /\ m.kind = "verdict"
    /\ LET t == m.task
       IN  row' = IF /\ row[t].bound /\ row[t].generation = m.generation
                     /\ row[t].status = "running"
                  THEN [row EXCEPT ![t].status = m.status] ELSE row
    /\ UNCHANGED <<replacement, requests, call, network, node>>

\* Faulty: the round of the delivery is not compared.
DeliveryArrivesAnyRound(m) ==
    /\ m \in reports /\ m.kind = "delivery"
    /\ LET t == m.task
       IN  /\ Exists(t) /\ row[t].bound
           /\ row[t].delivery = None /\ ~Stopped(t)
           /\ row' = [row EXCEPT ![t].recovery = FALSE, ![t].delivery = m.generation]
    /\ UNCHANGED <<replacement, requests, call, network, node>>

\* record_task_delivery: the first delivery is kept, an equal one acknowledged.
DeliveryArrives(m) ==
    /\ m \in reports /\ m.kind = "delivery"
    /\ LET t == m.task
       IN  /\ Exists(t) /\ row[t].bound
           /\ row[t].generation = m.generation
           /\ row[t].delivery = None
           /\ ~Stopped(t)
           /\ row' = [row EXCEPT ![t].recovery = FALSE, ![t].delivery = m.generation]
    /\ UNCHANGED <<replacement, requests, call, network, node>>

\* review_task_delivery: Boss accepts or rejects, and may decide again.
Review(t, verdict) ==
    /\ Exists(t)
    /\ row[t].delivery # None
    /\ row' = [row EXCEPT ![t].status = verdict]
    /\ UNCHANGED <<replacement, requests, call, network, node>>

-----------------------------------------------------------------------------
(* The PM on its node.                                                     *)

\* start_pm_once: the first request decides; the row is looked up before the launch.
StartArrives(m) ==
    /\ m \in wire /\ m.kind = "start"
    /\ wire' = wire \ {m}
    /\ LET t == m.task
       IN  \/ /\ started' = [started EXCEPT ![t] = "refused"]   \* or the node is occupied
              /\ UNCHANGED <<mem, disk, working>>
           \/ /\ row[t].status = "running"
              /\ started' = [started EXCEPT ![t] = "launched"]
              /\ mem' = [mem EXCEPT ![t] = [phase |-> "running", generation |-> 0,
                                            receipt |-> None, retired |-> FALSE]]
              /\ disk' = [disk EXCEPT ![t] = [phase |-> "running", generation |-> 0,
                                              receipt |-> None, revision |-> 1, claim |-> None]]
              /\ working' = [working EXCEPT ![t] = {0}]
    /\ UNCHANGED <<secretary, acks, reports, handler, launches>>

Running(t) == mem[t] # None /\ mem[t].phase = "running"

Report(t, kind, status) ==
    [kind |-> kind, task |-> t, generation |-> mem[t].generation, status |-> status]

Progress(t) ==
    /\ Running(t)
    /\ reports' = reports \cup {Report(t, "status", "running")}
    /\ UNCHANGED <<secretary, wire, acks, node>>

\* deliver_result sends; a PM that was continued asks for its authorisation first.
SendDelivery(t) ==
    /\ Running(t)
    /\ mem[t].generation > 0 => row[t].status = "running" /\ row[t].generation = mem[t].generation
    /\ reports' = reports \cup {Report(t, "delivery", "completed")}
    /\ UNCHANGED <<secretary, wire, acks, node>>

\* The end: completed only with an acknowledged delivery, failed at any time.
End(t, status) ==
    /\ Running(t)
    /\ status = "completed" =>
          row[t].delivery # None /\ row[t].delivery = mem[t].generation
    /\ mem' = [mem EXCEPT ![t].phase = status]
    /\ disk' = [disk EXCEPT ![t].phase = status, ![t].revision = @ + 1]
    /\ reports' = reports \cup {Report(t, "status", status), Report(t, "verdict", status)}
    /\ UNCHANGED <<secretary, wire, acks, started, handler, working, launches>>

\* execution_allowed finds the authorisation withdrawn, or the service shuts down.
Halt(t) ==
    /\ Running(t)
    /\ mem' = [mem EXCEPT ![t].phase = "halted"]
    /\ disk' = [disk EXCEPT ![t].phase = "halted", ![t].revision = @ + 1]
    /\ UNCHANGED <<secretary, network, started, handler, working, launches>>

\* The calls that were under way return; a paused PM saves what they brought.
Quiesce(t) ==
    /\ mem[t] # None /\ mem[t].phase # "running"
    /\ working[t] # {}
    /\ working' = [working EXCEPT ![t] = {}]
    /\ \/ UNCHANGED disk
       \/ /\ mem[t].phase = "paused" /\ ~mem[t].retired
          /\ disk' = [disk EXCEPT ![t].revision = @ + 1]
    /\ UNCHANGED <<secretary, network, started, mem, handler, launches>>

\* The node's process ends and starts again: only the disk is left.
Crash(t) ==
    /\ mem[t] # None \/ handler[t] # None
    /\ mem' = [mem EXCEPT ![t] = None]
    /\ handler' = [handler EXCEPT ![t] = None]
    /\ working' = [working EXCEPT ![t] = {}]
    /\ UNCHANGED <<secretary, network, started, disk, launches>>

-----------------------------------------------------------------------------
(* Continuing a paused PM.                                                 *)

\* _eligible: for the latest request, first as a request, then as an active grant.
Eligible(t, grant) ==
    /\ row[t].bound /\ Exists(t)
    /\ row[t].delivery = None
    /\ replacement[t] = None
    /\ IF grant.active
       THEN row[t].status = "running" /\ row[t].control = None /\ row[t].generation = grant.id
       ELSE /\ row[t].status = "paused" /\ Confirmed(t)
            /\ row[t].control.action = "pause" /\ row[t].control.dispatched
            /\ row[t].control.id = grant.pause

Authorised(t, id) == row[t].grant # None /\ row[t].grant.id = id /\ Eligible(t, row[t].grant)

ContinueMessage(t, grant) ==
    [kind |-> "continue", task |-> t, id |-> grant.id, pause |-> grant.pause,
     revision |-> grant.revision]

\* prepare_continue for a revision that Boss has read, and the POST to the node.
RequestContinue(t) ==
    /\ Exists(t) /\ Confirmed(t) /\ disk[t] # None
    /\ requests < MaxRequests
    /\ LET grant == [id |-> requests + 1, pause |-> row[t].control.id,
                     revision |-> disk[t].revision, active |-> FALSE]
       IN  /\ row[t].grant # None =>
                 <<row[t].grant.pause, row[t].grant.revision>> # <<grant.pause, grant.revision>>
           /\ Eligible(t, grant)
           /\ row' = [row EXCEPT ![t].grant = grant]
           /\ wire' = wire \cup {ContinueMessage(t, grant)}
    /\ requests' = requests + 1
    /\ UNCHANGED <<replacement, call, acks, reports, node>>

\* The same request once more, while it is still authorised.
RepeatContinue(t) ==
    /\ row[t].grant # None
    /\ Authorised(t, row[t].grant.id)
    /\ wire' = wire \cup {ContinueMessage(t, row[t].grant)}
    /\ UNCHANGED <<secretary, acks, reports, node>>

\* Faulty: calls of the old instance may still be under way.
ContinuesAtOnce(m) ==
    LET t == m.task
        d == disk[t]
    IN  /\ d # None
        /\ \/ d.claim # None /\ d.claim.id = m.id /\ ~d.claim.launched
           \/ (d.claim = None \/ d.claim.id # m.id) /\ d.revision = m.revision
        /\ d.phase = "paused" /\ d.receipt = [id |-> m.pause, action |-> "pause"]
        /\ Authorised(t, m.id)
        /\ ~Running(t)

\* continue_pm_once up to the claim: the pause on disk is the one to be continued, in
\* this revision, the Secretary agrees, and nothing of the old instance is under way.
Continues(m) ==
    LET t == m.task
        d == disk[t]
    IN  /\ d # None
        /\ \/ d.claim # None /\ d.claim.id = m.id /\ ~d.claim.launched
           \/ (d.claim = None \/ d.claim.id # m.id) /\ d.revision = m.revision
        /\ d.phase = "paused" /\ d.receipt = [id |-> m.pause, action |-> "pause"]
        /\ Authorised(t, m.id)
        /\ ~Running(t)
        /\ working[t] = {}

ContinueArrives(m) ==
    /\ m \in wire /\ m.kind = "continue"
    /\ LET t == m.task
       IN  /\ handler[t] = None
           /\ wire' = wire \ {m}
           /\ IF ~Continues(m)
              THEN UNCHANGED <<mem, disk, handler>>
              ELSE /\ disk[t].revision < MaxRevision
                   /\ mem' = IF mem[t] = None THEN mem ELSE [mem EXCEPT ![t].retired = TRUE]
                   /\ disk' = [disk EXCEPT ![t].revision = @ + 1,
                                           ![t].claim = [id |-> m.id, launched |-> FALSE]]
                   /\ handler' = [handler EXCEPT ![t] = [id |-> m.id, pause |-> m.pause,
                                                         stage |-> "claimed"]]
    /\ UNCHANGED <<secretary, acks, reports, started, working, launches>>

\* continue_authorization with activate: the only way out of a pause.  The answer may
\* be lost; then the handler gives up.
Activate(t) ==
    /\ handler[t] # None /\ handler[t].stage = "claimed"
    /\ Authorised(t, handler[t].id)
    /\ row' = IF row[t].grant.active THEN row
              ELSE [row EXCEPT ![t].control = None, ![t].generation = handler[t].id,
                               ![t].recovery = FALSE, ![t].grant.active = TRUE,
                               ![t].status = "running", ![t].pm = "recovering"]
    /\ \E answered \in BOOLEAN :
          handler' = [handler EXCEPT ![t] = IF answered THEN [@ EXCEPT !.stage = "activated"] ELSE None]
    /\ UNCHANGED <<replacement, requests, call, network, started, mem, disk, working, launches>>

\* Its threads are ready behind a gate; the authorisation is asked for once more.
Reauthorise(t) ==
    /\ handler[t] # None /\ handler[t].stage = "activated"
    /\ Authorised(t, handler[t].id)
    /\ handler' = [handler EXCEPT ![t].stage = "authorised"]
    /\ UNCHANGED <<secretary, network, started, mem, disk, working, launches>>

\* The first checkpoint of the new instance, and the gate opens.
Launch(t) ==
    /\ handler[t] # None /\ handler[t].stage = "authorised"
    /\ LET i == handler[t].id
       IN  /\ mem' = [mem EXCEPT ![t] = [phase |-> "running", generation |-> i,
                                         receipt |-> None, retired |-> FALSE]]
           /\ disk' = [disk EXCEPT ![t] = [phase |-> "running", generation |-> i, receipt |-> None,
                                           revision |-> @.revision + 1,
                                           claim |-> [id |-> i, launched |-> TRUE]]]
           /\ working' = [working EXCEPT ![t] = @ \cup {i}]
           /\ launches' = [launches EXCEPT ![i] = @ + 1]
    /\ handler' = [handler EXCEPT ![t] = None]
    /\ UNCHANGED <<secretary, network, started>>

\* The Secretary refuses or cannot be reached.
GiveUp(t) ==
    /\ handler[t] # None
    /\ handler' = [handler EXCEPT ![t] = None]
    /\ UNCHANGED <<secretary, network, started, mem, disk, working, launches>>

SecretaryStep ==
    \E t \in Tasks :
        \/ Submit(t) \/ Bind(t) \/ NoStation(t) \/ StartUnanswered(t) \/ StartAnswered(t)
        \/ HostOffline(t) \/ Delete(t)
        \/ \E r \in Tasks : Resubmit(t, r)
        \/ \E action \in Actions : RequestStop(t, action)
        \/ RepeatStop(t) \/ ReadReceipt(t)
        \/ \E confirmed \in BOOLEAN : SettleStop(t, confirmed)
        \/ \E verdict \in {"accepted", "rejected"} : Review(t, verdict)
        \/ RequestContinue(t) \/ RepeatContinue(t)

NodeStep ==
    \E t \in Tasks :
        \/ Progress(t) \/ SendDelivery(t) \/ (\E status \in {"completed", "failed"} : End(t, status))
        \/ Halt(t) \/ Quiesce(t) \/ Crash(t)
        \/ Activate(t) \/ Reauthorise(t) \/ Launch(t) \/ GiveUp(t)

Arrival ==
    \/ \E m \in wire : StartArrives(m) \/ StopArrives(m) \/ ContinueArrives(m)
    \/ \E m \in reports : StatusArrives(m) \/ VerdictArrives(m) \/ DeliveryArrives(m)

Next == SecretaryStep \/ Recover \/ NodeStep \/ Arrival

Spec == Init /\ [][Next]_vars

-----------------------------------------------------------------------------
(* Properties.                                                             *)

\* A replacement is dispatched only when nothing can continue the work of the original:
\* its PM has ended or obeyed the stop, and no later message starts it again.
ReplacementExclusive ==
    \A s, r \in Tasks : replacement[s] = r /\ row[r].bound => ~Running(s)

\* A confirmed stop is true: while the row says so, the instance that exists has stopped
\* in the way that was asked for.
StopHonest ==
    \A t \in Tasks : Confirmed(t) =>
        IF row[t].control.dispatched
        THEN mem[t] # None => mem[t].phase = row[t].status
        ELSE started[t] = "no"

\* A delivered result belongs to the round the task is in, and is never combined with a
\* stop: whichever is recorded first excludes the other.
DeliveryOrStop ==
    \A t \in Tasks : row[t].delivery # None =>
        /\ row[t].delivery = row[t].generation
        /\ row[t].control = None /\ ~Stopped(t)

\* Deleting a record never hides a PM that goes on: it had delivered, or it does not run.
DeletedIsQuiet ==
    \A t \in Tasks : row[t].status = "deleted" /\ Running(t) =>
        [kind |-> "delivery", task |-> t, generation |-> mem[t].generation,
                       status |-> "completed"] \in reports

\* Two rounds of a PM never work at the same time, and a continuation is launched once.
OneRound ==
    /\ \A t \in Tasks : Cardinality(working[t]) <= 1
    /\ \A i \in Requests : launches[i] <= 1

(* Types, and one round of a task at a time. *)
RoundsApart == TypeOK /\ OneRound

\* A confirmation does not regress, and a cancelled task stays cancelled.
StopFinal ==
    [][\A t \in Tasks :
          /\ Confirmed(t) /\ row'[t].control # None /\ row'[t].control.id = row[t].control.id
                => row'[t].control.confirmed
          /\ row[t].status = "cancelled" => row'[t].status \in {"cancelled", "deleted"}]_vars
=============================================================================
