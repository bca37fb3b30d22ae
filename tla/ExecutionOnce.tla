--------------------------- MODULE ExecutionOnce ---------------------------
(***************************************************************************)
(* What a station promises to the PM that sends it subtasks: an execution  *)
(* number belongs to one request for ever, the work behind it is started   *)
(* at most once, and the answer, once given, never changes.  Crashes, lost *)
(* answers and repeated requests do not appear here at all: they must be   *)
(* invisible.  ExecutionReceipts.tla is shown to implement this module.    *)
(***************************************************************************)
EXTENDS Naturals

CONSTANTS Ids,          \* execution numbers (subtask_id, or pm_id for a PM start)
          Fingerprints, \* request contents, told apart by their SHA-256
          None          \* "nothing yet"

VARIABLES request,      \* request[i]: the request the number is bound to
          started,      \* started[i]: how often the work has been started
          outcome       \* outcome[i]: the published answer

vars == <<request, started, outcome>>

Outcomes == {"completed", "failed"}

Init ==
    /\ request = [i \in Ids |-> None]
    /\ started = [i \in Ids |-> 0]
    /\ outcome = [i \in Ids |-> None]

Bind(i, f) ==
    /\ request[i] = None
    /\ request' = [request EXCEPT ![i] = f]
    /\ UNCHANGED <<started, outcome>>

Start(i) ==
    /\ request[i] # None
    /\ outcome[i] = None
    /\ started[i] = 0
    /\ started' = [started EXCEPT ![i] = 1]
    /\ UNCHANGED <<request, outcome>>

\* A failure may be published for work that never started (no thread could be
\* created); a success may not.
Publish(i, r) ==
    /\ request[i] # None
    /\ outcome[i] = None
    /\ r = "completed" => started[i] = 1
    /\ outcome' = [outcome EXCEPT ![i] = r]
    /\ UNCHANGED <<request, started>>

Next ==
    \E i \in Ids :
        \/ \E f \in Fingerprints : Bind(i, f)
        \/ Start(i)
        \/ \E r \in Outcomes : Publish(i, r)

Spec == Init /\ [][Next]_vars
=============================================================================
