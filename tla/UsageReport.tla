---------------------------- MODULE UsageReport ----------------------------
(***************************************************************************)
(* Every call of a language model is written into the usage log of the     *)
(* host that made it, and reported to the Secretary over two channels: a   *)
(* thread that posts batches, and a thread that pushes them over a         *)
(* WebSocket (model_resources, station_api, station_routes_resources).     *)
(*                                                                         *)
(* One host and the Secretary of its report target.  Both have the same    *)
(* pools (ConfigAlign), so that every model called has one.                *)
(***************************************************************************)
EXTENDS Naturals, Sequences

CONSTANTS Usages,     \* calls of models
          MaxReloads, \* bound: configurations loaded again
          MaxFaults   \* bound: lost or late messages, failed writes, elections

ASSUME UsageAssumption == MaxReloads \in Nat /\ MaxFaults \in Nat

VARIABLES wsOn,     \* the websockets library is installed
          inYaml,   \* resources.yaml names the Secretary
          rows,     \* rows[u]: the host's log: "" (no row), "new" or "reported"
          target,   \* _secretary_url is set
          loading,  \* a load has stopped the threads and not yet started them again
          stop,     \* _stop_evt
          reporter, \* the HTTP thread: "off", "wait", "ending" or "post"
          post,     \* the batch it posts
          pusher,   \* the WebSocket thread: "off", "down", "idle", "await", "closing", "ending"
          push,     \* the batch it waits for
          up, down, \* what is on the way in the connection's two directions
          fresh,    \* _ws_last_ok is recent
          active,   \* the target is an active Secretary
          table,    \* table[u]: rows of u at the Secretary
          seen,     \* history: calls an active Secretary has processed
          reloads, faults

vars == <<wsOn, inYaml, rows, target, loading, stop, reporter, post, pusher, push, up, down,
          fresh, active, table, seen, reloads, faults>>
settings == <<wsOn, inYaml>>
http == <<reporter, post>>
ws   == <<pusher, push, up, down, fresh>>
life == <<target, loading, stop, reloads>>
secretary == <<active, table, seen>>

TypeOK ==
    /\ wsOn \in BOOLEAN /\ inYaml \in BOOLEAN
    /\ rows \in [Usages -> {"", "new", "reported"}]
    /\ target \in BOOLEAN /\ loading \in BOOLEAN /\ stop \in BOOLEAN
    /\ reporter \in {"off", "wait", "ending", "post"}
    /\ pusher \in {"off", "down", "idle", "await", "closing", "ending"}
    /\ post \subseteq Usages /\ push \subseteq Usages
    /\ up \in Seq(SUBSET Usages) /\ down \in Seq({"ok", "no", "ping"})
    /\ fresh \in BOOLEAN /\ active \in BOOLEAN
    /\ table \in [Usages -> 0..2] /\ seen \subseteq Usages
    /\ reloads \in 0..MaxReloads /\ faults \in 0..MaxFaults

\* The configuration has been loaded once, and no target is known yet.
Init ==
    /\ wsOn \in BOOLEAN /\ inYaml \in BOOLEAN
    /\ rows = [u \in Usages |-> ""]
    /\ target = FALSE /\ loading = TRUE /\ stop = TRUE
    /\ reporter = "off" /\ post = {}
    /\ pusher = "off" /\ push = {} /\ up = <<>> /\ down = <<>> /\ fresh = FALSE
    /\ active = TRUE
    /\ table = [u \in Usages |-> 0] /\ seen = {}
    /\ reloads = 0 /\ faults = 0

Fault == faults < MaxFaults /\ faults' = faults + 1

\* record_usage after a call, at the host.
Record(u) ==
    /\ rows[u] = ""
    /\ rows' = [rows EXCEPT ![u] = "new"]
    /\ UNCHANGED <<settings, life, http, ws, secretary, faults>>

\* query_unreported_usage: fewer than its limit of 200.
Unreported == {u \in Usages : rows[u] = "new"}

MarkReported(batch) == rows' = [u \in Usages |-> IF u \in batch THEN "reported" ELSE rows[u]]

-----------------------------------------------------------------------------
(* The life of the threads.                                                *)

\* load stops the threads: those that wait on _stop_evt will end, or close their connection,
\* and those that are busy do not look at it.
Load ==
    /\ ~loading
    /\ reloads < MaxReloads
    /\ reloads' = reloads + 1
    /\ loading' = TRUE
    /\ stop' = TRUE
    /\ reporter' = IF reporter = "wait" THEN "ending" ELSE reporter
    /\ pusher' \in CASE pusher = "idle" -> {"closing"}
                    [] pusher = "down" -> {"down", "ending"}
                    [] OTHER           -> {pusher}
    /\ UNCHANGED <<settings, rows, target, post, push, up, down, fresh, secretary, faults>>

\* Faulty: with the same target as before nothing is done.
SetTargetOnce(known) ==
    /\ target' = known
    /\ reporter' = IF known /\ ~target /\ reporter = "off" THEN "wait" ELSE reporter
    /\ pusher' = IF known /\ ~target /\ wsOn /\ pusher = "off" THEN "down" ELSE pusher

\* set_report_target: a thread that is still alive is not started again.
SetTarget(known) ==
    /\ target' = known
    /\ reporter' = IF known /\ reporter = "off" THEN "wait" ELSE reporter
    /\ pusher' = IF known /\ wsOn /\ pusher = "off" THEN "down" ELSE pusher

\* The target of the file replaces the one that was injected.  Without any, _stop_evt is reset
\* when the thread that checks for alerts is started, unless the old one is still ending.
Loaded ==
    /\ loading
    /\ loading' = FALSE
    /\ SetTarget(inYaml)
    /\ stop' \in IF inYaml THEN {FALSE} ELSE BOOLEAN
    /\ UNCHANGED <<settings, rows, reloads, post, push, up, down, fresh, secretary, faults>>

\* /role/start-pm injects the Secretary's address.
StartPM ==
    /\ SetTarget(TRUE)
    /\ stop' = FALSE
    /\ UNCHANGED <<settings, rows, loading, reloads, post, push, up, down, fresh, secretary, faults>>

ThreadEnds ==
    /\ \/ reporter = "ending" /\ reporter' = "off" /\ UNCHANGED pusher
       \/ pusher = "ending" /\ pusher' = "off" /\ UNCHANGED reporter
    /\ UNCHANGED <<settings, rows, life, post, push, up, down, fresh, secretary, faults>>

-----------------------------------------------------------------------------
(* The Secretary.  Both channels run in its event loop.                    *)

\* Faulty: the row is written without looking for its usage_id.
InsertAlways(u) == table[u] + 1

\* insert_resource_usage: usage_id is unique.
Insert(u) == IF table[u] = 0 THEN 1 ELSE table[u]

Store(batch) ==
    /\ table' = [u \in Usages |-> IF u \in batch THEN Insert(u) ELSE table[u]]
    /\ seen' = seen \cup batch

\* apply_usage_batch answers well also when writing has failed.
Apply(batch) ==
    \/ Store(batch) /\ UNCHANGED faults
    \/ Fault /\ seen' = seen \cup batch /\ UNCHANGED table

Election ==
    /\ Fault
    /\ active' = ~active
    /\ UNCHANGED <<settings, rows, life, http, ws, table, seen>>

-----------------------------------------------------------------------------
(* The HTTP thread (report_once).                                          *)

\* Every minute.  It leaves the rows to the other channel while that works.
PostBegins ==
    /\ reporter = "wait" /\ target /\ ~fresh
    /\ Unreported # {}
    /\ reporter' = "post" /\ post' = Unreported
    /\ UNCHANGED <<settings, rows, life, ws, secretary, faults>>

PostDone == reporter' = IF stop THEN "ending" ELSE "wait"

\* Faulty: an error status counts as an answer.
AcceptsAnyway == TRUE

\* Only an active Secretary takes usage (check_secretary).
Accepts == active

PostAnswered ==
    /\ reporter = "post"
    /\ Accepts
    /\ IF active THEN Apply(post) ELSE UNCHANGED <<table, seen, faults>>
    /\ MarkReported(post)
    /\ PostDone /\ post' = {}
    /\ UNCHANGED <<settings, life, ws, active>>

\* Refused, or the call or its answer is lost: the rows wait for the next round.
PostFails ==
    /\ reporter = "post"
    /\ \/ ~active /\ UNCHANGED <<table, seen, faults>>
       \/ active /\ Fault /\ UNCHANGED <<table, seen>>
       \/ active /\ Fault /\ Store(post)
    /\ PostDone /\ post' = {}
    /\ UNCHANGED <<settings, rows, life, ws, active>>

-----------------------------------------------------------------------------
(* The WebSocket thread.                                                   *)

Connect ==
    /\ pusher = "down"
    /\ IF stop THEN pusher' = "off" /\ UNCHANGED fresh
       ELSE pusher' = "idle" /\ fresh' = TRUE
    /\ up' = <<>> /\ down' = <<>>
    /\ UNCHANGED <<settings, rows, life, http, push, secretary, faults>>

Push ==
    /\ pusher = "idle"
    /\ Unreported # {}
    /\ pusher' = "await" /\ push' = Unreported
    /\ up' = Append(up, Unreported)
    /\ UNCHANGED <<settings, rows, life, http, down, fresh, secretary, faults>>

\* A round without rows.
NothingToPush ==
    /\ pusher = "idle" /\ Unreported = {}
    /\ fresh' = TRUE
    /\ UNCHANGED <<settings, rows, life, http, pusher, push, up, down, secretary, faults>>

\* After its round the thread looks at _stop_evt.
PushDone == pusher' = (IF stop THEN "closing" ELSE "idle") /\ push' = {}

\* The next message is taken for the answer, whatever it answers.
Receive ==
    /\ pusher = "await" /\ down # <<>>
    /\ IF Head(down) = "ok" THEN MarkReported(push) /\ fresh' = TRUE
       ELSE UNCHANGED <<rows, fresh>>
    /\ down' = Tail(down)
    /\ PushDone
    /\ UNCHANGED <<settings, life, http, up, secretary, faults>>

\* No answer within ten seconds.
PushTimesOut ==
    /\ pusher = "await" /\ down = <<>>
    /\ Fault
    /\ PushDone
    /\ UNCHANGED <<settings, rows, life, http, up, down, fresh, secretary>>

\* The connection breaks, with what was on the way.
Break ==
    /\ pusher \in {"idle", "await"}
    /\ Fault
    /\ pusher' = "closing" /\ push' = {} /\ up' = <<>> /\ down' = <<>>
    /\ UNCHANGED <<settings, rows, life, http, fresh, secretary>>

Close ==
    /\ pusher = "closing"
    /\ pusher' = IF stop THEN "off" ELSE "down"
    /\ up' = <<>> /\ down' = <<>>
    /\ UNCHANGED <<settings, rows, life, http, push, fresh, secretary, faults>>

\* worker_ws_endpoint
Serve ==
    /\ pusher \in {"idle", "await"} /\ up # <<>>
    /\ IF active THEN Apply(Head(up)) ELSE UNCHANGED <<table, seen, faults>>
    /\ up' = Tail(up)
    /\ down' = Append(down, IF active THEN "ok" ELSE "no")
    /\ UNCHANGED <<settings, rows, life, http, pusher, push, fresh, active>>

\* A minute without a message.
Ping ==
    /\ pusher = "idle" /\ up = <<>>
    /\ Fault
    /\ down' = Append(down, "ping")
    /\ UNCHANGED <<settings, rows, life, http, pusher, push, up, fresh, secretary>>

\* The last success is more than half a minute ago.
Stale ==
    /\ fresh /\ fresh' = FALSE
    /\ UNCHANGED <<settings, rows, life, http, pusher, push, up, down, secretary, faults>>

-----------------------------------------------------------------------------
Next ==
    \/ \E u \in Usages : Record(u)
    \/ Load \/ Loaded \/ StartPM \/ ThreadEnds \/ Election
    \/ PostBegins \/ PostAnswered \/ PostFails
    \/ Connect \/ Push \/ NothingToPush \/ Receive \/ PushTimesOut \/ Break \/ Close
    \/ Serve \/ Ping \/ Stale

\* The threads and the Secretary's loop go on; PMs go on being started at the host.
Fairness ==
    /\ WF_vars(Loaded) /\ WF_vars(ThreadEnds) /\ SF_vars(StartPM)
    /\ SF_vars(PostBegins) /\ WF_vars(PostAnswered)
    /\ WF_vars(Connect) /\ WF_vars(Push) /\ WF_vars(Receive) /\ WF_vars(Close) /\ WF_vars(Serve)
    /\ WF_vars(Stale)

Spec == Init /\ [][Next]_vars /\ Fairness

-----------------------------------------------------------------------------
(* Properties.                                                             *)

\* A call is counted once at the Secretary, although both channels send it, and again after
\* every lost answer.
CountedOnce == \A u \in Usages : table[u] <= 1

\* Over HTTP alone, a row is marked only when an active Secretary has processed it.
MarkedIsSeen == ~wsOn => \A u \in Usages : rows[u] = "reported" => u \in seen

\* A call is counted at most once at the Secretary; over HTTP alone, a row is marked only when
\* an active Secretary has processed it.
CountedAsMarked == CountedOnce /\ MarkedIsSeen

\* What station_api promises of the WebSocket as well: with nothing on the way, a row that is
\* marked has been processed.
AcknowledgedIsSeen == up = <<>> => \A u \in Usages : rows[u] = "reported" => u \in seen

\* As long as the Secretary stays active and PMs go on being started, every call is reported
\* in the end, whatever is reloaded, lost or broken meanwhile.
Reported == \A u \in Usages : [](rows[u] = "new" /\ []active => <>(rows[u] = "reported"))

=============================================================================
