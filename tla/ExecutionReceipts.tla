------------------------- MODULE ExecutionReceipts -------------------------
(***************************************************************************)
(* The execution receipts of a station or worker: execution_receipts.py    *)
(* (the SQLite table) and execution_routes.py (POST /tasks/execute, the    *)
(* thread that runs the work, GET /tasks/executions/{id}).                 *)
(*                                                                         *)
(* The table survives crashes; everything else dies with its process.  A   *)
(* restarted process has a new PROCESS_OWNER, so it is a new owner here;   *)
(* two live owners may share one table, because nothing keeps a second     *)
(* worker process away from worker-executions.sqlite3.  The network may    *)
(* repeat or delay any request: a request can arrive at any live process   *)
(* at any time.                                                            *)
(***************************************************************************)
EXTENDS Naturals, FiniteSets

CONSTANTS Ids,          \* execution numbers
          Fingerprints, \* request contents
          Owners,       \* process incarnations, each with its own PROCESS_OWNER
          MaxAlive,     \* how many processes may use the table at a time
          Synchronous,  \* TRUE: worker (the request waits for the run)
          None          \* NULL in the table

ASSUME ReceiptsAssumption ==
    /\ None \notin Fingerprints
    /\ None \notin Owners
    /\ None \notin {"completed", "failed"}
    /\ MaxAlive \in Nat
    /\ Synchronous \in BOOLEAN

VARIABLES rows,     \* the table: execution_id |-> row
          alive,    \* processes that are running
          retired,  \* processes that have crashed or exited
          threads,  \* claimed executions a live process still works on
          started,  \* how often execute(payload) was called (history)
          seen      \* the statuses callers were told (history)

vars == <<rows, alive, retired, threads, started, seen>>

Outcomes == {"completed", "failed"}
Views    == Outcomes \cup {"started", "unknown"}
NoRow    == [fingerprint |-> None, owner |-> None, result |-> None]
Row      == [fingerprint : Fingerprints, owner : Owners, result : Outcomes \cup {None}]
Thread   == [id : Ids, fingerprint : Fingerprints, owner : Owners,
             step : {"claimed", "refused", "running", "publishing"},
             result : Outcomes \cup {None}]

TypeOK ==
    /\ rows \in [Ids -> Row \cup {NoRow}]
    /\ alive \subseteq Owners
    /\ retired \subseteq Owners
    /\ threads \subseteq Thread
    /\ started \in [Ids -> Nat]
    /\ seen \in [Ids -> SUBSET Views]

Init ==
    /\ rows = [i \in Ids |-> NoRow]
    /\ alive = {}
    /\ retired = {}
    /\ threads = {}
    /\ started = [i \in Ids |-> 0]
    /\ seen = [i \in Ids |-> {}]

-----------------------------------------------------------------------------
(* The store.                                                              *)

Claimed(i) == rows[i] # NoRow

\* _view_receipt: what a process with this owner answers about a claimed number.
View(row, owner) ==
    IF row.result # None THEN row.result
    ELSE IF row.owner = owner THEN "started" ELSE "unknown"

Told(i, view) == seen' = [seen EXCEPT ![i] = @ \cup {view}]

\* Faulty variants of claim(): without the owner column; taking over a claim that
\* another process left open; running a failed request again.
InsertClaimUnowned(p, i, f) ==
    /\ ~Claimed(i)
    /\ rows' = [rows EXCEPT ![i] = [fingerprint |-> f, owner |-> None, result |-> None]]

InsertClaimAbandoned(p, i, f) ==
    /\ Claimed(i) => rows[i].fingerprint = f /\ View(rows[i], p) = "unknown"
    /\ rows' = [rows EXCEPT ![i] = [fingerprint |-> f, owner |-> p, result |-> None]]

InsertClaimFailed(p, i, f) ==
    /\ Claimed(i) => rows[i].fingerprint = f /\ rows[i].result = "failed"
    /\ rows' = [rows EXCEPT ![i] = [fingerprint |-> f, owner |-> p, result |-> None]]

\* The transaction of claim(): the number is free, and the row is inserted.
InsertClaim(p, i, f) ==
    /\ ~Claimed(i)
    /\ rows' = [rows EXCEPT ![i] = [fingerprint |-> f, owner |-> p, result |-> None]]

\* The guarded UPDATE of finish(): only the claimant, only once.
MayPublish(p, i) == rows[i].owner = p /\ rows[i].result = None

PublishResult(p, i, r) ==
    rows' = IF MayPublish(p, i) THEN [rows EXCEPT ![i].result = r] ELSE rows

-----------------------------------------------------------------------------
(* The routes.                                                             *)

\* POST /tasks/execute with a free number.  The answer ("started", or for a
\* synchronous worker the final view) is given later, or never.
ClaimRequest(p, i, f) ==
    /\ p \in alive
    /\ InsertClaim(p, i, f)
    /\ threads' = threads \cup {[id |-> i, fingerprint |-> f, owner |-> p,
                                 step |-> "claimed", result |-> None]}
    /\ UNCHANGED <<alive, retired, started, seen>>

\* POST with a number that is taken by the same request: the stored view.  With
\* another request claim() raises ValueError and the caller is told nothing (409).
RepeatRequest(p, i, f) ==
    /\ p \in alive
    /\ Claimed(i)
    /\ rows[i].fingerprint = f
    /\ Told(i, View(rows[i], p))
    /\ UNCHANGED <<rows, alive, retired, threads, started>>

\* GET /tasks/executions/{id}; 404 when there is no row.
PollReceipt(p, i) ==
    /\ p \in alive
    /\ Claimed(i)
    /\ Told(i, View(rows[i], p))
    /\ UNCHANGED <<rows, alive, retired, threads, started>>

\* run(): execute(payload) is entered.  An asynchronous station has answered or
\* will answer "started" from the claim itself, whatever the table says by then.
StartRun(t) ==
    /\ t \in threads
    /\ t.step = "claimed"
    /\ started' = [started EXCEPT ![t.id] = @ + 1]
    /\ threads' = (threads \ {t}) \cup {[t EXCEPT !.step = "running"]}
    /\ IF Synchronous THEN UNCHANGED seen ELSE Told(t.id, "started")
    /\ UNCHANGED <<rows, alive, retired>>

\* The thread cannot be created: the claim is to be closed as failed without a run.
StartFails(t) ==
    /\ ~Synchronous
    /\ t \in threads
    /\ t.step = "claimed"
    /\ threads' = (threads \ {t}) \cup {[t EXCEPT !.step = "refused", !.result = "failed"]}
    /\ UNCHANGED <<rows, alive, retired, started, seen>>

\* execute() returns or raises; normalize_result maps it to an outcome.
RunEnds(t, r) ==
    /\ t \in threads
    /\ t.step = "running"
    /\ threads' = (threads \ {t}) \cup {[t EXCEPT !.step = "publishing", !.result = r]}
    /\ UNCHANGED <<rows, alive, retired, started, seen>>

\* finish() commits.  A synchronous worker, and a station that could not create
\* the thread, then answer from the table.
PublishRun(t) ==
    /\ t \in threads
    /\ t.step \in {"publishing", "refused"}
    /\ PublishResult(t.owner, t.id, t.result)
    /\ threads' = threads \ {t}
    /\ IF Synchronous \/ t.step = "refused"
       THEN Told(t.id, View(rows'[t.id], t.owner))
       ELSE UNCHANGED seen
    /\ UNCHANGED <<alive, retired, started>>

\* finish() raises.  run() logs it and leaves the claim open; after a refused
\* thread the caller gets an internal error.
PublishFails(t) ==
    /\ t \in threads
    /\ t.step \in {"publishing", "refused"}
    /\ threads' = threads \ {t}
    /\ IF Synchronous THEN Told(t.id, View(rows[t.id], t.owner)) ELSE UNCHANGED seen
    /\ UNCHANGED <<rows, alive, retired, started>>

-----------------------------------------------------------------------------
(* The processes.                                                          *)

\* A faulty start-up that closes the claims of earlier processes as failed.
BootClosing(p) ==
    /\ p \notin alive \cup retired
    /\ Cardinality(alive) < MaxAlive
    /\ alive' = alive \cup {p}
    /\ rows' = [i \in Ids |-> IF Claimed(i) /\ rows[i].result = None
                               THEN [rows[i] EXCEPT !.result = "failed"] ELSE rows[i]]
    /\ UNCHANGED <<retired, threads, started, seen>>

Boot(p) ==
    /\ p \notin alive \cup retired
    /\ Cardinality(alive) < MaxAlive
    /\ alive' = alive \cup {p}
    /\ UNCHANGED <<rows, retired, threads, started, seen>>

Crash(p) ==
    /\ p \in alive
    /\ alive' = alive \ {p}
    /\ retired' = retired \cup {p}
    /\ threads' = {t \in threads : t.owner # p}
    /\ UNCHANGED <<rows, started, seen>>

Next ==
    \/ \E p \in Owners : Boot(p) \/ Crash(p)
    \/ \E p \in Owners, i \in Ids : PollReceipt(p, i)
    \/ \E p \in Owners, i \in Ids, f \in Fingerprints :
          ClaimRequest(p, i, f) \/ RepeatRequest(p, i, f)
    \/ \E t \in threads :
          \/ StartRun(t) \/ StartFails(t)
          \/ PublishRun(t) \/ PublishFails(t)
          \/ \E r \in Outcomes : RunEnds(t, r)

Spec == Init /\ [][Next]_vars

-----------------------------------------------------------------------------
(* Properties.                                                             *)

\* However often the network repeats a request, and whatever crashes, the work
\* behind an execution number is started at most once.
AtMostOnce == \A i \in Ids : started[i] <= 1

\* No two callers hear contradictory answers, and a final answer that a caller
\* heard is what the table says from then on.
OneStory ==
    \A i \in Ids : \A r \in Outcomes : r \in seen[i] => rows[i].result = r

\* A claim whose process is gone stays as it is: nobody closes it, takes it over
\* or frees its number.
Abandoned(i) == Claimed(i) /\ rows[i].owner \in retired /\ rows[i].result = None

AbandonedUntouched ==
    [][\A i \in Ids : Abandoned(i) => rows'[i] = rows[i]]_vars

\* The receipts keep the promise of ExecutionOnce: a number is bound to one
\* request, started once, answered once, and succeeds only if it ran.
Once == INSTANCE ExecutionOnce WITH
            request <- [i \in Ids |-> rows[i].fingerprint],
            outcome <- [i \in Ids |-> rows[i].result]

ImplementsOnce == Once!Spec
=============================================================================
