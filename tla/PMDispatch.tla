----------------------------- MODULE PMDispatch -----------------------------
(***************************************************************************)
(* One project manager (PM) working off a multi-task plan: pm_dispatcher,  *)
(* pm_monitor, the scheduling part of pm_agent, and the pause and          *)
(* continuation of pm_pause, pm_continue and pm_resume.                    *)
(*                                                                         *)
(* The PM is a main thread, a progress loop and one thread for each        *)
(* subtask that can start at once.  A thread is what it still has to do:   *)
(* a sequence of frames, the current one first.  One action is one section *)
(* under PMState.lock, or one call to the outside (a station, a model, the *)
(* Secretary) with the stop test that follows it.                          *)
(*                                                                         *)
(* Stations answer as ExecutionOnce promises: an execution number is run   *)
(* at most once, and its answer does not change.  The plan is the result   *)
(* of planning, checked by _validate_plan; ages of timers and the contents *)
(* of outputs and prompts are abstracted to nondeterministic choices.      *)
(***************************************************************************)
EXTENDS Naturals, Sequences, FiniteSets

CONSTANTS Subs,         \* the subtasks of the plan
          Deps,         \* Deps[s]: the subtasks that s depends on
          Stations,     \* the work stations
          Local,        \* execution by the PM itself (an empty station)
          None,
          MaxRetries,   \* PMState.max_retries
          MaxContinues  \* bound: how often a paused PM is continued

ASSUME DispatchAssumption ==
    /\ Deps \in [Subs -> SUBSET Subs]
    /\ \A A \in (SUBSET Subs) \ {{}} : \E s \in A : Deps[s] \cap A = {}
    /\ Local \notin Stations
    /\ None \notin Stations \cup {Local, "completed", "failed", "unknown"}
    /\ None \notin [sub : Subs \cup {"global"}, cause : {"unknown", "exhausted", "timeout", "missing"}]
    /\ Subs \cap {"main", "loop", "global"} = {}
    /\ MaxRetries \in Nat /\ MaxContinues \in Nat

VARIABLES agenda,     \* agenda[t]: what thread t still has to do
          outputs,    \* subtask_outputs: the subtasks with an accepted output
          pending,    \* pending_subtasks: where each is to run, None if not pending
          dispatched, \* dispatched
          attempt,    \* execution_attempts: the current execution of a subtask
          home,       \* task_station
          retries,    \* retry_counts
          crossed,    \* cross_station_attempted
          takeover,   \* local_takeover_tasks
          timed,      \* keys of subtask_start_times
          stop,       \* stop_reason, "" while the stop event is not set
          failure,    \* terminal_failures: the subtask given up on, and why
          ready,      \* monitoring_ready
          aggregate,  \* the aggregated text: absent, returned while pausing, stored
          delivery,   \* delivery["state"]
          verdict,    \* the final status reported: completed or failed
          continues,  \* how often the PM was continued
          wire,       \* execution requests on the network
          runs,       \* executions at stations
          localTried  \* subtasks with a local attempt (history)

books   == <<outputs, pending, dispatched, attempt, home, retries, crossed, takeover, timed>>
ending  == <<stop, failure, ready, aggregate, delivery, verdict, continues>>
network == <<wire, runs>>
vars    == <<agenda, books, ending, network, localTried>>

Threads   == {"main", "loop"} \cup Subs
Places    == Stations \cup {Local}
Terminal  == {"completed", "failed", "unknown"}
NoAttempt == [number |-> 0, station |-> None, phase |-> "none", received |-> None]
Requests  == [sub : Subs, number : Nat]

\* What a thread may have to do.
Frames ==
    [op : {"create", "release", "ready", "resume", "loop", "timeouts", "count", "aggregate",
           "summarise", "prepare", "deliver", "posting"}]
    \cup [op : {"team"}, todo : SUBSET Subs]
    \cup [op : {"items"}, todo : SUBSET [sub : Subs, station : Places]]
    \cup [op : {"reports", "poll"}, todo : SUBSET Requests]
    \cup [op : {"begin", "elsewhere"}, sub : Subs, station : Places]
    \cup [op : {"send"}, sub : Subs, number : Nat, station : Places]
    \cup [op : {"await", "executing", "verify"}, sub : Subs, number : Nat]
    \cup [op : {"receive"}, sub : Subs, number : Nat, status : Terminal]
    \cup [op : {"accept", "failed"}, sub : Subs]
    \cup [op : {"giveup"}, sub : Subs \cup {"global"},
          cause : {"unknown", "exhausted", "timeout", "missing"}]

TypeOK ==
    /\ agenda \in [Threads -> Seq(Frames)]
    /\ outputs \subseteq Subs
    /\ pending \in [Subs -> Places \cup {None}]
    /\ dispatched \subseteq Subs
    /\ attempt \in [Subs -> [number : Nat, station : Places \cup {None},
                             phase : {"none", "active", "processing", "done"},
                             received : Terminal \cup {None}]]
    /\ home \in [Subs -> Places]
    /\ retries \in [Subs -> Nat]
    /\ crossed \subseteq Subs /\ takeover \subseteq Subs /\ timed \subseteq Subs
    /\ stop \in {"", "paused", "cancelled", "stopped", "failed"}
    /\ failure \in {None} \cup [sub : Subs \cup {"global"},
                              cause : {"unknown", "exhausted", "timeout", "missing"}]
    /\ ready \in BOOLEAN
    /\ aggregate \in {"absent", "returned", "stored"}
    /\ delivery \in {"absent", "prepared", "sending", "acknowledged"}
    /\ verdict \in {"completed", "failed", None}
    /\ continues \in 0..MaxContinues
    /\ wire \subseteq Requests
    /\ runs \subseteq [sub : Subs, number : Nat, status : Terminal \cup {"running"}]
    /\ localTried \subseteq Subs

\* start_task after planning: the plan is about to be dispatched.
Init ==
    /\ agenda = [t \in Threads |->
                    CASE t = "main" -> <<[op |-> "create"], [op |-> "ready"]>>
                      [] t = "loop" -> <<[op |-> "loop"]>>
                      [] OTHER -> <<>>]
    /\ outputs = {} /\ dispatched = {} /\ crossed = {} /\ takeover = {} /\ timed = {}
    /\ pending = [s \in Subs |-> None]
    /\ attempt = [s \in Subs |-> NoAttempt]
    /\ home = [s \in Subs |-> Local]
    /\ retries = [s \in Subs |-> 0]
    /\ stop = "" /\ failure = None /\ ready = FALSE
    /\ aggregate = "absent" /\ delivery = "absent" /\ verdict = None
    /\ continues = 0
    /\ wire = {} /\ runs = {} /\ localTried = {}

-----------------------------------------------------------------------------
At(t, op) == agenda[t] # <<>> /\ Head(agenda[t]).op = op
Now(t)    == Head(agenda[t])

\* Thread t replaces its current frame by these frames; Return drops it.
Then(t, frames) == agenda' = [agenda EXCEPT ![t] = frames \o Tail(@)]
Return(t)       == Then(t, <<>>)

Stopped == stop # ""

\* A call that returns because the stop event is set, and changes nothing.
ReturnIfStopped(t, op) ==
    /\ At(t, op)
    /\ Stopped
    /\ Return(t)
    /\ UNCHANGED <<books, ending, network, localTried>>

\* A change without a checkpoint.  After a stop a later checkpoint may still save it;
\* if none does, a continued PM finds the old value.
MaybeUnsaved(next, new, old) == next = new \/ (Stopped /\ next = old)

-----------------------------------------------------------------------------
(* Dispatching: create_team_and_dispatch and try_dispatch_pending.         *)

\* Subtasks that have neither an output nor an execution are (still) to be placed.
Unplaced == {s \in Subs : s \notin outputs \cup dispatched /\ attempt[s] = NoAttempt}

CreateTeam(t) ==
    /\ At(t, "create")
    /\ ~Stopped
    /\ \/ /\ Unplaced = {}
          /\ Return(t)
          /\ UNCHANGED pending
       \/ /\ Unplaced # {}        \* no station is online: everything will run locally
          /\ pending' = [s \in Subs |-> IF s \in Unplaced THEN Local ELSE pending[s]]
          /\ Then(t, <<[op |-> "release"]>>)
       \/ /\ Unplaced # {}
          /\ Then(t, <<[op |-> "team", todo |-> Unplaced], [op |-> "release"]>>)
          /\ UNCHANGED pending
    /\ UNCHANGED <<outputs, dispatched, attempt, home, retries, crossed, takeover, timed,
                   ending, network, localTried>>

TeamComplete(t) ==
    /\ At(t, "team")
    /\ Now(t).todo = {}
    /\ Return(t)
    /\ UNCHANGED <<books, ending, network, localTried>>

\* The station could not create the subagent: the subtask falls back to the PM.
PlaceLocally(t, s) ==
    /\ At(t, "team")
    /\ ~Stopped
    /\ s \in Now(t).todo
    /\ pending' = [pending EXCEPT ![s] = Local]
    /\ Then(t, <<[Now(t) EXCEPT !.todo = @ \ {s}]>>)
    /\ UNCHANGED <<outputs, dispatched, attempt, home, retries, crossed, takeover, timed,
                   ending, network, localTried>>

\* The station has a subagent.  Without dependencies the subtask starts at once, in
\* a thread of its own; otherwise it waits.
PlaceAt(t, s, w) ==
    /\ At(t, "team")
    /\ s \in Now(t).todo
    /\ home' = [home EXCEPT ![s] = w]
    /\ LET rest == <<[Now(t) EXCEPT !.todo = @ \ {s}]>> \o Tail(agenda[t])
       IN  IF Deps[s] = {}
           THEN /\ dispatched' = dispatched \cup {s}
                /\ timed' = timed \cup {s}
                /\ agenda' = [agenda EXCEPT ![t] = rest,
                                            ![s] = <<[op |-> "begin", sub |-> s, station |-> w]>>]
                /\ UNCHANGED pending
           ELSE /\ pending' = [pending EXCEPT ![s] = w]
                /\ agenda' = [agenda EXCEPT ![t] = rest]
                /\ UNCHANGED <<dispatched, timed>>
    /\ UNCHANGED <<outputs, attempt, retries, crossed, takeover, ending, network, localTried>>

\* Faulty: dependencies that are merely under way.
ReleasableEarly == {s \in Subs : pending[s] # None /\ Deps[s] \subseteq dispatched}

\* try_dispatch_pending: whatever has its dependencies leaves the queue.
Releasable == {s \in Subs : pending[s] # None /\ Deps[s] \subseteq outputs}

Release(t) ==
    /\ At(t, "release")
    /\ ~Stopped
    /\ pending' = [s \in Subs |-> IF s \in Releasable THEN None ELSE pending[s]]
    /\ dispatched' = dispatched \cup Releasable
    /\ LET items == {[sub |-> s, station |-> pending[s]] : s \in Releasable}
       IN  Then(t, IF items = {} THEN <<>> ELSE <<[op |-> "items", todo |-> items]>>)
    /\ UNCHANGED <<outputs, attempt, home, retries, crossed, takeover, timed,
                   ending, network, localTried>>

\* The released subtasks are dispatched one after the other by this thread.
ReleaseItem(t) ==
    /\ At(t, "items")
    /\ \/ /\ Now(t).todo = {}
          /\ Return(t)
          /\ UNCHANGED timed
       \/ \E i \in Now(t).todo :
             /\ MaybeUnsaved(timed', timed \cup {i.sub}, timed)
             /\ Then(t, <<[op |-> "begin", sub |-> i.sub, station |-> i.station],
                          [Now(t) EXCEPT !.todo = @ \ {i}]>>)
    /\ UNCHANGED <<outputs, pending, dispatched, attempt, home, retries, crossed, takeover,
                   ending, network, localTried>>

\* monitoring_ready: the loop may start polling.
SetReady(t) ==
    /\ At(t, "ready")
    /\ ~Stopped
    /\ ready' = TRUE
    /\ Return(t)
    /\ UNCHANGED <<books, stop, failure, aggregate, delivery, verdict, continues, network, localTried>>

-----------------------------------------------------------------------------
(* One execution: _begin_attempt, dispatch_subtask, execute_subtask_locally. *)

\* Faulty: only a result being checked counts as under way.
UnderwayProcessing(s) == attempt[s].phase = "processing"

Underway(s) == attempt[s].phase \in {"active", "processing"}

\* Faulty: without the stop test under the lock.
BeginUnchecked(t) ==
    /\ At(t, "begin")
    /\ LET s == Now(t).sub
           n == attempt[s].number + 1
       IN  IF s \in outputs \/ Underway(s)
           THEN Return(t) /\ UNCHANGED attempt
           ELSE /\ attempt' = [attempt EXCEPT ![s] = [number |-> n, station |-> Now(t).station,
                                                    phase |-> "active", received |-> None]]
                /\ Then(t, <<[op |-> "send", sub |-> s, number |-> n, station |-> Now(t).station]>>)
    /\ UNCHANGED <<outputs, pending, dispatched, home, retries, crossed, takeover, timed,
                   ending, network, localTried>>

\* _begin_attempt: a new execution number, unless the subtask has an output or an
\* execution that may still answer.
Begin(t) ==
    /\ At(t, "begin")
    /\ ~Stopped
    /\ LET s == Now(t).sub
           w == Now(t).station
           n == attempt[s].number + 1
       IN  IF s \in outputs \/ Underway(s)
           THEN Return(t) /\ UNCHANGED <<attempt, timed, localTried>>
           ELSE /\ attempt' = [attempt EXCEPT ![s] =
                        [number |-> n, station |-> w, phase |-> "active", received |-> None]]
                /\ timed' = timed \cup {s}
                /\ localTried' = IF w = Local THEN localTried \cup {s} ELSE localTried
                /\ Then(t, <<[op |-> "send", sub |-> s, number |-> n, station |-> w]>>)
    /\ UNCHANGED <<outputs, pending, dispatched, home, retries, crossed, takeover, ending, network>>

\* The request is saved and handed to the network, or to the PM's own runtime.
Send(t) ==
    /\ At(t, "send")
    /\ ~Stopped
    /\ LET f == Now(t)
       IN  IF f.station = Local
           THEN /\ Then(t, <<[op |-> "executing", sub |-> f.sub, number |-> f.number]>>)
                /\ UNCHANGED wire
           ELSE /\ Then(t, <<[op |-> "await", sub |-> f.sub, number |-> f.number]>>)
                /\ wire' = wire \cup {[sub |-> f.sub, number |-> f.number]}
    /\ UNCHANGED <<books, ending, runs, localTried>>

\* Faulty: an unanswered request is taken for a failed execution.
AwaitNothingFails(t) ==
    /\ At(t, "await")
    /\ Then(t, <<[op |-> "receive", sub |-> Now(t).sub, number |-> Now(t).number,
                  status |-> "failed"]>>)
    /\ UNCHANGED <<books, ending, network, localTried>>

\* No answer, an error or "started": the outcome is left to polling.
AwaitNothing(t) ==
    /\ At(t, "await")
    /\ Return(t)
    /\ UNCHANGED <<books, ending, network, localTried>>

\* What a station that has the execution answers once it is over.
Answers(s, n) == {r.status : r \in {x \in runs : x.sub = s /\ x.number = n}} \cap Terminal

\* The answer to the request is already final (a synchronous worker).
AwaitReceipt(t) ==
    /\ At(t, "await")
    /\ \E a \in Answers(Now(t).sub, Now(t).number) :
          Then(t, <<[op |-> "receive", sub |-> Now(t).sub, number |-> Now(t).number, status |-> a]>>)
    /\ UNCHANGED <<books, ending, network, localTried>>

ExecuteLocally(t) ==
    /\ At(t, "executing")
    /\ \E r \in {"completed", "failed"} :
          Then(t, <<[op |-> "receive", sub |-> Now(t).sub, number |-> Now(t).number, status |-> r]>>)
    /\ UNCHANGED <<books, ending, network, localTried>>

-----------------------------------------------------------------------------
(* Results: receive_progress_report.                                       *)

\* Faulty: the execution number of a report is not compared.
AnyExecution(f) == attempt[f.sub].number > 0

Current(f) == attempt[f.sub].number = f.number

\* While the PM runs: reserve the result of the current execution, then check it,
\* recover from it, or give up.
Receive(t) ==
    /\ At(t, "receive")
    /\ ~Stopped
    /\ LET f == Now(t)
           s == f.sub
       IN  IF s \in outputs \/ ~Current(f) \/ attempt[s].phase # "active"
           THEN Return(t) /\ UNCHANGED attempt
           ELSE /\ attempt' = [attempt EXCEPT ![s].phase = "processing", ![s].received = f.status]
                /\ Then(t, << CASE f.status = "completed" ->
                                   [op |-> "verify", sub |-> s, number |-> f.number]
                                [] f.status = "failed" -> [op |-> "failed", sub |-> s]
                                [] OTHER -> [op |-> "giveup", sub |-> s, cause |-> "unknown"] >>)
    /\ UNCHANGED <<outputs, pending, dispatched, home, retries, crossed, takeover, timed,
                   ending, network, localTried>>

\* retain_paused_result: a paused PM keeps the result as evidence and does no more.
Retain(t) ==
    /\ At(t, "receive")
    /\ Stopped
    /\ LET f == Now(t)
           s == f.sub
       IN  attempt' = IF /\ stop = "paused" /\ s \notin outputs
                         /\ Current(f) /\ Underway(s) /\ attempt[s].received = None
                      THEN [attempt EXCEPT ![s].phase = "processing", ![s].received = f.status]
                      ELSE attempt
    /\ Return(t)
    /\ UNCHANGED <<outputs, pending, dispatched, home, retries, crossed, takeover, timed,
                   ending, network, localTried>>

\* _verify_output_quality: the model's judgement of the output.
Verify(t) ==
    /\ At(t, "verify")
    /\ ~Stopped
    /\ \E next \in {"accept", "failed"} : Then(t, <<[op |-> next, sub |-> Now(t).sub]>>)
    /\ UNCHANGED <<books, ending, network, localTried>>

\* Faulty: nothing is released; or the timer keeps running.
AcceptOnly(t) ==
    /\ At(t, "accept")
    /\ LET s == Now(t).sub
       IN  IF Stopped
           THEN UNCHANGED <<outputs, attempt, timed, takeover>>
           ELSE /\ outputs' = outputs \cup {s}
                /\ attempt' = [attempt EXCEPT ![s].phase = "done"]
                /\ timed' = timed \ {s}
                /\ takeover' = takeover \ {s}
    /\ Return(t)
    /\ UNCHANGED <<pending, dispatched, home, retries, crossed, ending, network, localTried>>

\* The output counts from now on, and what waited for it is released.
Accept(t) ==
    /\ At(t, "accept")
    /\ LET s == Now(t).sub
       IN  /\ MaybeUnsaved(takeover', takeover \ {s}, takeover)
           /\ IF Stopped
              THEN Return(t) /\ UNCHANGED <<outputs, attempt, timed>>
              ELSE /\ outputs' = outputs \cup {s}
                   /\ attempt' = [attempt EXCEPT ![s].phase = "done"]
                   /\ timed' = timed \ {s}
                   /\ Then(t, <<[op |-> "release"]>>)
    /\ UNCHANGED <<pending, dispatched, home, retries, crossed, ending, network, localTried>>

-----------------------------------------------------------------------------
(* Recovery: handle_subagent_failure, _retry_elsewhere, _fail_task.        *)

\* Faulty: other stations without end; no takeover by the PM.
RecoveryRoaming(s) ==
    IF s \in takeover THEN "fail"
    ELSE IF retries[s] < MaxRetries THEN "retry"
    ELSE IF home[s] = Local THEN "fail" ELSE "cross"

RecoveryShort(s) ==
    IF retries[s] < MaxRetries THEN "retry"
    ELSE IF home[s] = Local \/ s \in crossed THEN "fail" ELSE "cross"

\* The next rung: the same executor again, one other station, the PM itself.
Recovery(s) ==
    IF s \in takeover THEN "fail"
    ELSE IF retries[s] < MaxRetries THEN "retry"
    ELSE IF home[s] = Local THEN "fail"
    ELSE IF s \notin crossed THEN "cross" ELSE "local"

HandleFailure(t) ==
    /\ At(t, "failed")
    /\ ~Stopped
    /\ LET s == Now(t).sub
           action == Recovery(s)
       IN  /\ attempt' = [attempt EXCEPT ![s].phase = "done"]
           /\ takeover' = CASE s \in takeover -> takeover \ {s}
                             [] action = "local" -> takeover \cup {s}
                             [] OTHER -> takeover
           /\ crossed' = IF action = "cross" THEN crossed \cup {s} ELSE crossed
           /\ IF action = "fail"
              THEN UNCHANGED <<retries, outputs, timed>>
              ELSE /\ retries' = [retries EXCEPT ![s] = @ + 1]
                   /\ outputs' = outputs \ {s}
                   /\ timed' = timed \cup {s}
           /\ Then(t, << CASE action = "fail" -> [op |-> "giveup", sub |-> s, cause |-> "exhausted"]
                           [] action = "retry" -> [op |-> "begin", sub |-> s, station |-> home[s]]
                           [] action = "cross" -> [op |-> "elsewhere", sub |-> s, station |-> home[s]]
                           [] OTHER -> [op |-> "begin", sub |-> s, station |-> Local] >>)
    /\ UNCHANGED <<pending, dispatched, home, ending, network, localTried>>

\* Another station has a subagent.
RetryElsewhere(t, w) ==
    /\ At(t, "elsewhere")
    /\ ~Stopped
    /\ w # Now(t).station
    /\ home' = [home EXCEPT ![Now(t).sub] = w]
    /\ Then(t, <<[op |-> "begin", sub |-> Now(t).sub, station |-> w]>>)
    /\ UNCHANGED <<outputs, pending, dispatched, attempt, retries, crossed, takeover, timed,
                   ending, network, localTried>>

\* There is no other station, or it fails: the PM takes over itself.
TakeOver(t) ==
    /\ At(t, "elsewhere")
    /\ ~Stopped
    /\ LET s == Now(t).sub
       IN  IF s \in takeover
           THEN Return(t) /\ UNCHANGED <<takeover, retries, outputs, timed>>
           ELSE /\ takeover' = takeover \cup {s}
                /\ retries' = [retries EXCEPT ![s] = @ + 1]
                /\ outputs' = outputs \ {s}
                /\ timed' = timed \cup {s}
                /\ Then(t, <<[op |-> "begin", sub |-> s, station |-> Local]>>)
    /\ UNCHANGED <<pending, dispatched, attempt, home, crossed, ending, network, localTried>>

\* _fail_task: stop the whole plan.
GiveUp(t) ==
    /\ At(t, "giveup")
    /\ ~Stopped
    /\ failure' = [sub |-> Now(t).sub, cause |-> Now(t).cause]
    /\ outputs' = outputs \ {Now(t).sub}
    /\ pending' = [s \in Subs |-> None]
    /\ timed' = {}
    /\ stop' = "failed"
    /\ Return(t)
    /\ UNCHANGED <<dispatched, attempt, home, retries, crossed, takeover, ready, aggregate,
                   delivery, verdict, continues, network, localTried>>

-----------------------------------------------------------------------------
(* The progress loop.                                                      *)

Outstanding == {[sub |-> s, number |-> attempt[s].number] :
                    s \in {x \in Subs : attempt[x].phase = "active" /\ attempt[x].station \in Stations}}

\* One round: poll the receipts, look for expired timers, count the outputs.
LoopRound(t) ==
    /\ At(t, "loop")
    /\ ~Stopped
    /\ ready
    /\ Then(t, <<[op |-> "poll", todo |-> Outstanding], [op |-> "timeouts"], [op |-> "count"]>>)
    /\ UNCHANGED <<books, ending, network, localTried>>

GlobalTimeout(t) ==
    /\ At(t, "loop")
    /\ ~Stopped
    /\ Then(t, <<[op |-> "giveup", sub |-> "global", cause |-> "timeout"]>>)
    /\ UNCHANGED <<books, ending, network, localTried>>

\* GET of one receipt: nothing new (or no answer), or a final answer.
Poll(t) ==
    /\ At(t, "poll")
    /\ ~Stopped
    /\ \/ /\ Now(t).todo = {}
          /\ Return(t)
       \/ \E q \in Now(t).todo :
             LET rest == [Now(t) EXCEPT !.todo = @ \ {q}]
             IN  \/ Then(t, <<rest>>)
                 \/ \E a \in Answers(q.sub, q.number) :
                       Then(t, <<[op |-> "receive", sub |-> q.sub, number |-> q.number, status |-> a],
                                 rest>>)
    /\ UNCHANGED <<books, ending, network, localTried>>

\* check_subtask_timeouts: some timers have run out; the first one ends the plan.
CheckTimeouts(t) ==
    /\ At(t, "timeouts")
    /\ ~Stopped
    /\ \E expired \in SUBSET timed :
          /\ timed' = timed \ expired
          /\ IF expired = {}
             THEN Return(t)
             ELSE \E s \in expired :
                    Then(t, <<[op |-> "giveup", sub |-> s, cause |-> "timeout"]>>)
    /\ UNCHANGED <<outputs, pending, dispatched, attempt, home, retries, crossed, takeover,
                   ending, network, localTried>>

Complete == Subs \subseteq outputs /\ \A s \in Subs : pending[s] = None

Count(t) ==
    /\ At(t, "count")
    /\ ~Stopped
    /\ Then(t, <<[op |-> IF Complete THEN "aggregate" ELSE "loop"]>>)
    /\ UNCHANGED <<books, ending, network, localTried>>

-----------------------------------------------------------------------------
(* The end: aggregate_results and deliver_result.                          *)

Aggregate(t) ==
    /\ At(t, "aggregate")
    /\ ~Stopped
    /\ IF Subs \subseteq outputs
       THEN Then(t, <<[op |-> IF aggregate = "stored" THEN "prepare" ELSE "summarise"]>>)
       ELSE \E s \in Subs \ outputs :
              Then(t, <<[op |-> "giveup", sub |-> s, cause |-> "missing"]>>)
    /\ UNCHANGED <<books, ending, network, localTried>>

\* The model's summary; an unusable one ends the task as failed.
Summarise(t) ==
    /\ At(t, "summarise")
    /\ IF Stopped
       THEN /\ aggregate' = IF stop = "paused" THEN "returned" ELSE aggregate
            /\ Return(t)
            /\ UNCHANGED verdict
       ELSE \/ /\ aggregate' = "stored"
               /\ Then(t, <<[op |-> "prepare"]>>)
               /\ UNCHANGED verdict
            \/ /\ verdict' = "failed"
               /\ Return(t)
               /\ UNCHANGED aggregate
    /\ UNCHANGED <<books, stop, failure, ready, delivery, continues, network, localTried>>

Prepare(t) ==
    /\ At(t, "prepare")
    /\ ~Stopped
    /\ delivery' = "prepared"
    /\ Then(t, <<[op |-> "deliver"]>>)
    /\ UNCHANGED <<books, stop, failure, ready, aggregate, verdict, continues, network, localTried>>

Deliver(t) ==
    /\ At(t, "deliver")
    /\ ~Stopped
    /\ delivery' = "sending"
    /\ Then(t, <<[op |-> "posting"]>>)
    /\ UNCHANGED <<books, stop, failure, ready, aggregate, verdict, continues, network, localTried>>

\* Faulty: a delivery without an acknowledgement is taken for done.
PostedBlindly(t) ==
    /\ At(t, "posting")
    /\ \E acknowledged \in BOOLEAN :
          delivery' = IF acknowledged THEN "acknowledged" ELSE delivery
    /\ verdict' = IF Stopped THEN verdict ELSE "completed"
    /\ Return(t)
    /\ UNCHANGED <<books, stop, failure, ready, aggregate, continues, network, localTried>>

\* The Secretary acknowledges, or no acknowledgement arrives.  A stopped PM keeps
\* the acknowledgement but reports no verdict.
Posted(t) ==
    /\ At(t, "posting")
    /\ \E acknowledged \in BOOLEAN :
          /\ delivery' = IF acknowledged THEN "acknowledged" ELSE delivery
          /\ verdict' = IF Stopped THEN verdict
                        ELSE IF acknowledged THEN "completed" ELSE "failed"
    /\ Return(t)
    /\ UNCHANGED <<books, stop, failure, ready, aggregate, continues, network, localTried>>

-----------------------------------------------------------------------------
(* Stopping and continuing: _signal_stop, checkpoint, continue_pm_once.    *)

\* Boss's pause and cancel (control_pm refuses both after a verdict); "stopped" is
\* a shutdown, a withdrawn authorisation or a checkpoint that cannot be written.
Stop(reason) ==
    /\ verdict = None
    /\ \/ stop = ""
       \/ stop = "paused" /\ reason = "cancelled"
    /\ stop' = reason
    /\ UNCHANGED <<agenda, books, failure, ready, aggregate, delivery, verdict, continues,
                   network, localTried>>

\* The thread functions return when the stop event is set.
StopOps == {"create", "team", "release", "ready", "begin", "send", "verify", "failed", "elsewhere",
            "giveup", "reports", "resume", "loop", "poll", "timeouts", "count", "aggregate",
            "prepare", "deliver"}

\* validate_snapshot: every execution without an accepted output has a result, or a
\* station that can be asked.
Continuable ==
    \A s \in Subs \ outputs :
        \/ attempt[s] = NoAttempt
        \/ attempt[s].received # None
        \/ attempt[s].station \in Stations /\ attempt[s].phase = "active"

\* A new PM object goes on from the last checkpoint, once nothing of the old one runs.
Continue ==
    /\ stop = "paused"
    /\ \A t \in Threads : agenda[t] = <<>>
    /\ Continuable
    /\ continues < MaxContinues
    /\ continues' = continues + 1
    /\ stop' = ""
    /\ ready' = FALSE
    /\ dispatched' = {s \in dispatched : attempt[s] # NoAttempt \/ s \in outputs}
    /\ agenda' = [agenda EXCEPT !["main"] = <<[op |-> "resume"], [op |-> "create"], [op |-> "ready"]>>,
                                !["loop"] = <<[op |-> "loop"]>>]
    /\ UNCHANGED <<outputs, pending, attempt, home, retries, crossed, takeover, timed,
                   failure, aggregate, delivery, verdict, network, localTried>>

\* _run_resumed: what has an execution leaves the queue; retained results are
\* processed again as if they had just arrived.
Resume(t) ==
    /\ At(t, "resume")
    /\ ~Stopped
    /\ LET retained == {s \in Subs \ outputs : attempt[s].received # None}
       IN  /\ pending' = [s \in Subs |-> IF attempt[s] # NoAttempt \/ s \in outputs
                                         THEN None ELSE pending[s]]
           /\ attempt' = [s \in Subs |-> IF s \in retained
                                         THEN [attempt[s] EXCEPT !.phase = "active"] ELSE attempt[s]]
           /\ Then(t, <<[op |-> "reports",
                         todo |-> {[sub |-> s, number |-> attempt[s].number] : s \in retained}]>>)
    /\ UNCHANGED <<outputs, dispatched, home, retries, crossed, takeover, timed,
                   ending, network, localTried>>

Reinject(t) ==
    /\ At(t, "reports")
    /\ ~Stopped
    /\ \/ /\ Now(t).todo = {}
          /\ Return(t)
       \/ \E q \in Now(t).todo :
             Then(t, <<[op |-> "receive", sub |-> q.sub, number |-> q.number,
                        status |-> attempt[q.sub].received],
                       [Now(t) EXCEPT !.todo = @ \ {q}]>>)
    /\ UNCHANGED <<books, ending, network, localTried>>

-----------------------------------------------------------------------------
(* The stations, as ExecutionOnce lets a PM see them.                      *)

\* A request arrives, at any time or never, and its execution starts.
Arrive(m) ==
    /\ m \in wire
    /\ wire' = wire \ {m}
    /\ runs' = runs \cup {[sub |-> m.sub, number |-> m.number, status |-> "running"]}
    /\ UNCHANGED <<agenda, books, ending, localTried>>

\* It ends, or its station restarts: "unknown" for ever.
RunEnds(r) ==
    /\ r \in runs
    /\ r.status = "running"
    /\ \E a \in Terminal : runs' = (runs \ {r}) \cup {[r EXCEPT !.status = a]}
    /\ UNCHANGED <<agenda, books, ending, wire, localTried>>

Step(t) ==
    \/ \E op \in StopOps : ReturnIfStopped(t, op)
    \/ CreateTeam(t) \/ TeamComplete(t)
    \/ \E s \in Subs : PlaceLocally(t, s) \/ \E w \in Stations : PlaceAt(t, s, w)
    \/ Release(t) \/ ReleaseItem(t) \/ SetReady(t)
    \/ Begin(t) \/ Send(t) \/ AwaitNothing(t) \/ AwaitReceipt(t) \/ ExecuteLocally(t)
    \/ Receive(t) \/ Retain(t) \/ Verify(t) \/ Accept(t)
    \/ HandleFailure(t) \/ (\E w \in Stations : RetryElsewhere(t, w)) \/ TakeOver(t) \/ GiveUp(t)
    \/ Poll(t) \/ CheckTimeouts(t) \/ Count(t) \/ LoopRound(t)
    \/ Aggregate(t) \/ Summarise(t) \/ Prepare(t) \/ Deliver(t) \/ Posted(t)
    \/ Resume(t) \/ Reinject(t)

Next ==
    \/ \E t \in Threads : Step(t) \/ GlobalTimeout(t)
    \/ \E reason \in {"paused", "cancelled", "stopped"} : Stop(reason)
    \/ Continue
    \/ \E m \in wire : Arrive(m)
    \/ \E r \in runs : RunEnds(r)

Spec == Init /\ [][Next]_vars

\* Every thread goes on: calls to stations and models have timeouts, local executions
\* end.  Time passes: a running timer expires in some later round.  Nothing is
\* assumed about the network and the stations, nor about the global time limit.
Fairness ==
    /\ \A t \in Threads : WF_vars(Step(t))
    /\ SF_vars(CheckTimeouts("loop") /\ timed' # timed)

FairSpec == Spec /\ Fairness

-----------------------------------------------------------------------------
(* Properties.                                                             *)

Executing(s) ==
    {t \in Threads : \E i \in DOMAIN agenda[t] :
                        agenda[t][i].op = "executing" /\ agenda[t][i].sub = s}

\* Whatever is retried, moved to another station or continued, a subtask is never
\* executed twice at the same time, nor can a delayed request still cause that.
OneExecution ==
    \A s \in Subs :
        Cardinality({m \in wire : m.sub = s})
          + Cardinality({r \in runs : r.sub = s /\ r.status = "running"})
          + Cardinality(Executing(s)) <= 1

\* An accepted output is the completed result of the last attempt, not of an earlier
\* one whose answer came late.
OutputsGenuine ==
    \A s \in outputs :
        /\ attempt[s].phase = "done" /\ attempt[s].received = "completed"
        /\ attempt[s].station \in Stations =>
              [sub |-> s, number |-> attempt[s].number, status |-> "completed"] \in runs

\* Until the PM is continued, a subtask is attempted only on top of accepted outputs of all its
\* dependencies.
DependenciesFirst ==
    continues = 0 /\ stop # "failed" =>
        \A s \in Subs : attempt[s] # NoAttempt => Deps[s] \subseteq outputs

\* What a subtask is attempted on, and what counts as its output, is genuine.
InputsGenuine == OutputsGenuine /\ DependenciesFirst

\* What is delivered is complete; a plan that fails has delivered nothing as its
\* success, and success is claimed only with the Secretary's acknowledgement.
DeliveryComplete == continues = 0 =>
    /\ delivery # "absent" /\ failure = None => Subs \subseteq outputs
    /\ verdict = "completed" =>
          delivery = "acknowledged" /\ failure = None /\ Subs \subseteq outputs

\* No subtask is forgotten: when nothing is in progress in the PM, whatever has no
\* output waits for a dependency, or for a station under a running timer.
Quiet ==
    /\ ready /\ ~Stopped
    /\ \A t \in Threads : agenda[t] = IF t = "loop" THEN <<[op |-> "loop"]>> ELSE <<>>

NothingForgotten ==
    continues = 0 /\ Quiet => \A s \in Subs :
        \/ s \in outputs
        \/ pending[s] # None /\ ~(Deps[s] \subseteq outputs)
        \/ attempt[s].phase = "active" /\ attempt[s].station \in Stations /\ s \in timed

\* Recovery is bounded: the retries, one other station and one takeover by the PM.
BoundedAttempts == \A s \in Subs : attempt[s].number <= MaxRetries + 3

\* A plan that fails because a subtask kept failing has tried the PM itself as well.
LadderComplete ==
    failure # None => (failure.cause = "exhausted" => failure.sub \in localTried)

\* Until the PM is continued, recovery ends, and not before the last rung.
LadderKept == continues = 0 => BoundedAttempts /\ LadderComplete

\* The plan comes to an end: it is delivered, given up or stopped.
Ends == <>(Stopped \/ verdict # None)

StopHolds ==
    Stopped /\ stop' # "" =>
        /\ outputs' \subseteq outputs
        /\ \A s \in Subs : attempt'[s].number = attempt[s].number
        /\ delivery' \in {delivery, "acknowledged"}
        /\ verdict' = verdict

\* A stop is effective: until a continuation nothing new is attempted, accepted or
\* sent to the Secretary.
StopEffective == [][StopHolds]_vars
=============================================================================
