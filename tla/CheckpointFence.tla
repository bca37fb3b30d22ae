---------------------------- MODULE CheckpointFence ----------------------------
(***************************************************************************)
(* The checkpoint of one project manager (PM) on its node: pm_checkpoint,  *)
(* pm_lease, pm_activity and, of pm_start, pm_resume and pm_continue, what *)
(* decides which instance of the PM may work and write.                    *)
(*                                                                         *)
(* A process of the node holds instances of the PM; it may end at any      *)
(* moment, and two processes may run at the same time.  Every call to      *)
(* SQLite is one action.  A request to resume or to continue arrives any   *)
(* number of times, in any process; the Secretary's authorisations are     *)
(* answered yes or no in every possible way (TaskLedger has its rules).    *)
(*                                                                         *)
(* A piece of work stands for whatever must not be done twice: it is       *)
(* recorded in the checkpoint first, and then begun.  What a PM that reads *)
(* a recorded piece of work in its checkpoint does is PMDispatch.          *)
(***************************************************************************)
EXTENDS Naturals

CONSTANTS Processes,    \* processes of the node, each with its own PROCESS_OWNER
          Work,
          None,
          MaxRequests,  \* bound: resume and continue requests
          MaxRevision   \* bound: revisions that keep a late result, repeat a stop or prepare a continuation


VARIABLES alive,     \* the running processes
          ended,     \* processes that have ended; none is started twice
          exclusive, \* whether the operating system's lock excludes other processes
          holders,   \* processes that hold the process lock
          startup,   \* the start receipt: the process that tried the start
          row,       \* the checkpoint
          inst,      \* inst[0]: the started instance, inst[i]: that of request i
          handler,   \* what a process does under _START_LOCK
          requests,  \* the requests made so far
          begun,     \* begun[w]: how often w was begun (history)
          launches   \* launches[i]: how often instance i was launched (history)

processes == <<alive, ended, exclusive, holders, startup>>
history   == <<begun, launches>>
vars      == <<processes, row, inst, handler, requests, history>>

Ids      == 1..MaxRequests
Origins  == 0..MaxRequests
Stops    == {"", "paused", "cancelled", "blocked", "ended"}
Owners   == [process : Processes, claim : Nat]   \* claim 0: PROCESS_OWNER itself
Prepared == [id : Ids, launched : BOOLEAN]

Checkpoints == [owner : Owners, revision : Nat, stop : Stops, known : SUBSET Work,
                recovery : Ids \cup {None}, continuation : Prepared \cup {None}]

Instances == [owner : Owners, revision : Nat, stop : Stops \cup {"checkpoint_failed"},
              busy : BOOLEAN, known : SUBSET Work, todo : SUBSET Work]

Handlings == [id : Ids, stage : {"resume", "continue", "resumed", "continued"},
              revision : Nat, known : SUBSET Work]

ASSUME FenceAssumption ==
    /\ MaxRequests \in Nat /\ MaxRevision \in Nat
    /\ None \notin Processes \cup Checkpoints \cup Prepared \cup Instances \cup Handlings

TypeOK ==
    /\ alive \subseteq Processes /\ ended \subseteq Processes /\ holders \subseteq Processes
    /\ exclusive \in BOOLEAN
    /\ startup \in Processes \cup {None}
    /\ row \in Checkpoints \cup {None}
    /\ inst \in [Origins -> Instances \cup {None}]
    /\ handler \in [Processes -> Handlings \cup {None}]
    /\ requests \in [Ids -> {None} \cup [kind : {"resume", "continue"}, revision : Nat]]
    /\ begun \in [Work -> Nat]
    /\ launches \in [Origins -> Nat]

Init ==
    /\ alive = {} /\ ended = {} /\ holders = {}
    /\ exclusive \in BOOLEAN
    /\ startup = None /\ row = None
    /\ inst = [i \in Origins |-> None]
    /\ handler = [p \in Processes |-> None]
    /\ requests = [i \in Ids |-> None]
    /\ begun = [w \in Work |-> 0]
    /\ launches = [i \in Origins |-> 0]

-----------------------------------------------------------------------------
(* Processes and their lock.                                               *)

Of(p) == {i \in Origins : inst[i] # None /\ inst[i].owner.process = p}

Boot(p) ==
    /\ p \notin alive \cup ended
    /\ alive' = alive \cup {p}
    /\ UNCHANGED <<ended, exclusive, holders, startup, row, inst, handler, requests, history>>

\* The process ends, and with it its instances, their calls, and its lock.
Die(p) ==
    /\ p \in alive
    /\ alive' = alive \ {p}
    /\ ended' = ended \cup {p}
    /\ holders' = holders \ {p}
    /\ inst' = [i \in Origins |-> IF i \in Of(p) THEN None ELSE inst[i]]
    /\ handler' = [handler EXCEPT ![p] = None]
    /\ UNCHANGED <<exclusive, startup, row, requests, history>>

\* acquire_pm_lease: held until the process ends.
Acquirable(p) == exclusive => holders \subseteq {p}

-----------------------------------------------------------------------------
(* Writing: PMCheckpoints.save and ProjectManagerAgent.checkpoint.         *)

\* Faulty: neither owner nor revision is compared.
FitsAlways(owner, revision) == TRUE

\* The row is the one that this writer has written or claimed last.
Fits(owner, revision) ==
    IF row = None THEN revision = 0 ELSE row.owner = owner /\ row.revision = revision

\* Instance i, to be in state m, writes its checkpoint ...
Saved(i, m) ==
    /\ Fits(m.owner, m.revision)
    /\ row' = [row EXCEPT !.owner = m.owner, !.revision = m.revision + 1,
                          !.stop = m.stop, !.known = m.known]
    /\ inst' = [inst EXCEPT ![i] = [m EXCEPT !.revision = @ + 1]]

\* ... or cannot, because the row is no longer its own or the disk fails: it stops for good.
Failed(i) ==
    /\ inst' = [inst EXCEPT ![i].stop = "checkpoint_failed"]
    /\ UNCHANGED row

Checkpoint(i, m) == Saved(i, m) \/ Failed(i)

\* A running instance records a piece of work that it does not know of.
Record(i, w) ==
    /\ inst[i] # None
    /\ inst[i].busy /\ inst[i].stop = ""
    /\ w \notin inst[i].known
    /\ Checkpoint(i, [inst[i] EXCEPT !.known = @ \cup {w}, !.todo = @ \cup {w}])
    /\ UNCHANGED <<processes, handler, requests, history>>

\* It is begun; a call under way is not held back by a stop.
Do(i, w) ==
    /\ inst[i] # None
    /\ inst[i].busy
    /\ w \in inst[i].todo
    /\ begun' = [begun EXCEPT ![w] = @ + 1]
    /\ inst' = [inst EXCEPT ![i].todo = @ \ {w}]
    /\ UNCHANGED <<processes, row, handler, requests, launches>>

\* The plan ends, delivered or failed.
End(i) ==
    /\ inst[i] # None
    /\ inst[i].busy /\ inst[i].stop = ""
    /\ Checkpoint(i, [inst[i] EXCEPT !.stop = "ended"])
    /\ UNCHANGED <<processes, handler, requests, history>>

\* control_pm, which waits for _START_LOCK, stops the instance that memory shows.
Control(i, action) ==
    /\ inst[i] # None
    /\ handler[inst[i].owner.process] = None
    /\ inst[i].stop \notin {"checkpoint_failed", "ended"}
    /\ inst[i].stop = "cancelled" => action = "cancelled"
    /\ inst[i].stop = action => inst[i].revision < MaxRevision
    /\ Checkpoint(i, [inst[i] EXCEPT !.stop = action])
    /\ UNCHANGED <<processes, handler, requests, history>>

\* execution_allowed finds the authorisation withdrawn, or the service shuts down.
Block(i) ==
    /\ inst[i] # None
    /\ inst[i].busy /\ inst[i].stop = ""
    /\ Checkpoint(i, [inst[i] EXCEPT !.stop = "blocked"])
    /\ UNCHANGED <<processes, handler, requests, history>>

\* A call of a paused instance returns, and its result is kept.
Retain(i) ==
    /\ inst[i] # None
    /\ inst[i].busy /\ inst[i].stop = "paused"
    /\ inst[i].revision < MaxRevision
    /\ Checkpoint(i, inst[i])
    /\ UNCHANGED <<processes, handler, requests, history>>

\* The last thread of a stopped instance returns.
Quiesce(i) ==
    /\ inst[i] # None
    /\ inst[i].busy /\ inst[i].stop # ""
    /\ inst' = [inst EXCEPT ![i].busy = FALSE, ![i].todo = {}]
    /\ UNCHANGED <<processes, row, handler, requests, history>>

-----------------------------------------------------------------------------
(* Starting, resuming and continuing.                                      *)

Fresh(owner, revision, stop, known) ==
    [owner |-> owner, revision |-> revision, stop |-> stop, busy |-> FALSE,
     known |-> known, todo |-> {}]

Self(p) == [process |-> p, claim |-> 0]

\* start_pm_once, for the one start request that gets the receipt.
Start(p) ==
    /\ p \in alive /\ handler[p] = None
    /\ startup = None
    /\ startup' = p
    /\ \/ /\ Acquirable(p)
          /\ row = None
          /\ holders' = holders \cup {p}
          /\ inst' = [inst EXCEPT ![0] = [Fresh(Self(p), 1, "", {}) EXCEPT !.busy = TRUE]]
          /\ row' = [owner |-> Self(p), revision |-> 1, stop |-> "", known |-> {},
                     recovery |-> None, continuation |-> None]
          /\ launches' = [launches EXCEPT ![0] = @ + 1]
       \/ /\ holders' = holders \/ (Acquirable(p) /\ holders' = holders \cup {p})
          /\ UNCHANGED <<inst, row, launches>>
    /\ UNCHANGED <<alive, ended, exclusive, handler, requests, begun>>

\* Faulty: the state of the PM is sent in place of what is asked for.
RequestState == [kind |-> row.stop, revision |-> row.revision]

Request == [kind |-> IF row.stop = "" THEN "resume" ELSE "continue", revision |-> row.revision]

\* Boss asks to resume a PM that is gone, or to continue one that is paused, in the
\* revision that the node has shown.
Ask(i) ==
    /\ requests[i] = None
    /\ row # None
    /\ row.stop \in {"", "paused"}
    /\ requests' = [requests EXCEPT ![i] = Request]
    /\ UNCHANGED <<processes, row, inst, handler, history>>

Idle(p) == \A i \in Of(p) : inst[i].stop # ""

\* Faulty: a thread that has been told to stop counts as gone.
QuietWhenStopped(p) == Idle(p)

\* retire_instances: nothing of the old instances in this process runs or is under way;
\* from then on they neither work nor write, and are left out.
Quiet(p) == \A i \in Of(p) : ~inst[i].busy /\ inst[i].stop # ""

Retired(p) == [i \in Origins |-> IF i \in Of(p) /\ ~inst[i].busy THEN None ELSE inst[i]]

\* resume_pm_once up to the authorisation; a repeated request is only answered.
ReadResume(p, i) ==
    /\ p \in alive /\ handler[p] = None
    /\ requests[i] # None /\ requests[i].kind = "resume"
    /\ row # None
    /\ Acquirable(p)
    /\ holders' = holders \cup {p}
    /\ handler' = IF row.recovery # i /\ Idle(p) /\ row.stop = ""
                  THEN [handler EXCEPT ![p] = [id |-> i, stage |-> "resume",
                                               revision |-> row.revision, known |-> row.known]]
                  ELSE handler
    /\ UNCHANGED <<alive, ended, exclusive, startup, row, inst, requests, history>>

\* Faulty: the revision that Boss has seen is not compared.
TakeableStale(p, i) == row.owner # Self(p)

\* PMCheckpoints.takeover: the old owner is another one, and has not written since.
Takeable(p, i) == row.owner # Self(p) /\ row.revision = requests[i].revision

Takeover(p) ==
    /\ handler[p] # None /\ handler[p].stage = "resume"
    /\ Quiet(p)
    /\ LET i == handler[p].id
       IN  IF row.recovery # i /\ Takeable(p, i)
           THEN /\ row' = [row EXCEPT !.owner = Self(p), !.revision = @ + 1, !.recovery = i]
                /\ inst' = [Retired(p) EXCEPT ![i] =
                               Fresh(Self(p), row.revision + 1, row.stop, row.known)]
                /\ handler' = [handler EXCEPT ![p].stage = "resumed"]
           ELSE /\ inst' = Retired(p)
                /\ handler' = [handler EXCEPT ![p] = None]
                /\ UNCHANGED row
    /\ UNCHANGED <<processes, requests, history>>

\* The new instance is authorised once more and writes its first checkpoint ...
LaunchResumed(p) ==
    /\ handler[p] # None /\ handler[p].stage = "resumed"
    /\ LET i == handler[p].id
       IN  /\ inst[i].stop = ""
           /\ Saved(i, [inst[i] EXCEPT !.busy = TRUE])
           /\ launches' = [launches EXCEPT ![i] = @ + 1]
    /\ handler' = [handler EXCEPT ![p] = None]
    /\ UNCHANGED <<processes, requests, begun>>

\* ... or it stops without having run.
FailResumed(p) ==
    /\ handler[p] # None /\ handler[p].stage = "resumed"
    /\ Checkpoint(handler[p].id, [inst[handler[p].id] EXCEPT !.stop = "blocked"])
    /\ handler' = [handler EXCEPT ![p] = None]
    /\ UNCHANGED <<processes, requests, history>>

\* continue_pm_once up to the first authorisation: the pause that Boss has seen, or the
\* same request again after it was prepared.
ReadContinue(p, i) ==
    /\ p \in alive /\ handler[p] = None
    /\ requests[i] # None /\ requests[i].kind = "continue"
    /\ row # None
    /\ Acquirable(p)
    /\ holders' = holders \cup {p}
    /\ LET again == row.continuation # None /\ row.continuation.id = i
       IN  handler' = IF /\ row.stop = "paused"
                         /\ IF again THEN ~row.continuation.launched
                            ELSE row.revision = requests[i].revision
                      THEN [handler EXCEPT ![p] = [id |-> i, stage |-> "continue",
                                                   revision |-> row.revision, known |-> row.known]]
                      ELSE handler
    /\ UNCHANGED <<alive, ended, exclusive, startup, row, inst, requests, history>>

\* Faulty: the row may have changed since it was read.
ClaimableStale(p) == TRUE

Claimable(p) == row.revision = handler[p].revision

\* _claim: a new owner, so that no older instance can write.
Claim(p) ==
    /\ handler[p] # None /\ handler[p].stage = "continue"
    /\ Quiet(p)
    /\ inst' = Retired(p)
    /\ LET revision == handler[p].revision + 1
       IN  IF Claimable(p)
           THEN /\ row.revision < MaxRevision
                /\ row' = [row EXCEPT !.owner = [process |-> p, claim |-> revision],
                                      !.revision = revision,
                                      !.continuation = [id |-> handler[p].id, launched |-> FALSE]]
                /\ handler' = [handler EXCEPT ![p].stage = "continued", ![p].revision = revision]
           ELSE /\ handler' = [handler EXCEPT ![p] = None]
                /\ UNCHANGED row
    /\ UNCHANGED <<processes, requests, history>>

\* The Secretary activates; the new instance goes on from the snapshot that was read.
LaunchContinued(p) ==
    /\ handler[p] # None /\ handler[p].stage = "continued"
    /\ LET i == handler[p].id
           owner == [process |-> p, claim |-> handler[p].revision]
       IN  /\ Fits(owner, handler[p].revision)
           /\ row' = [row EXCEPT !.revision = handler[p].revision + 1, !.stop = "",
                                 !.known = handler[p].known,
                                 !.recovery = i, !.continuation = [id |-> i, launched |-> TRUE]]
           /\ inst' = [inst EXCEPT ![i] = [Fresh(owner, handler[p].revision + 1, "", handler[p].known)
                                               EXCEPT !.busy = TRUE]]
           /\ launches' = [launches EXCEPT ![i] = @ + 1]
    /\ handler' = [handler EXCEPT ![p] = None]
    /\ UNCHANGED <<processes, requests, begun>>

\* The Secretary refuses or is not reached, an old call is still under way, or the
\* checkpoint cannot be written.
GiveUp(p) ==
    /\ handler[p] # None /\ handler[p].stage # "resumed"
    /\ handler' = [handler EXCEPT ![p] = None]
    /\ UNCHANGED <<processes, row, inst, requests, history>>

Next ==
    \/ \E p \in Processes :
          \/ Boot(p) \/ Die(p) \/ Start(p)
          \/ \E i \in Ids : ReadResume(p, i) \/ ReadContinue(p, i)
          \/ Takeover(p) \/ LaunchResumed(p) \/ FailResumed(p)
          \/ Claim(p) \/ LaunchContinued(p) \/ GiveUp(p)
    \/ \E i \in Origins :
          \/ \E w \in Work : Record(i, w) \/ Do(i, w)
          \/ \E action \in {"paused", "cancelled"} : Control(i, action)
          \/ End(i) \/ Block(i) \/ Retain(i) \/ Quiesce(i)
    \/ \E i \in Ids : Ask(i)

Spec == Init /\ [][Next]_vars

-----------------------------------------------------------------------------
(* Properties.                                                             *)

\* No piece of work is begun twice, whichever instances of whichever processes have
\* worked on the plan, and even where the process lock excludes nobody.
BegunOnce == \A w \in Work : begun[w] <= 1

\* Where the process lock works, calls of at most one instance are under way.
OneActive ==
    exclusive => \A i, j \in Origins :
        inst[i] # None /\ inst[j] # None => (inst[i].busy /\ inst[j].busy => i = j)

\* A resume or continue request launches at most one instance, however often it arrives.
LaunchedOnce == \A i \in Origins : launches[i] <= 1

\* What has been begun, or may still be, can be read in the checkpoint.
Recorded ==
    \A w \in Work :
        begun[w] > 0 \/ (\E i \in Origins : inst[i] # None /\ w \in inst[i].todo)
            => row # None /\ w \in row.known

\* A stop that was saved is not undone: a cancelled or ended PM stays so, and a paused
\* one goes on only by a continuation that was prepared for it.
StopKept ==
    [][row # None /\ row.stop \in {"paused", "cancelled", "ended"} /\ row'.stop # row.stop
        => /\ row.stop = "paused"
           /\ \/ row'.stop = "cancelled"
              \/ /\ row'.stop = ""
                 /\ row.continuation # None /\ ~row.continuation.launched
                 /\ row'.continuation = [row.continuation EXCEPT !.launched = TRUE]]_vars
=============================================================================
