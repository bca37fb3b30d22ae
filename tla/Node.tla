--------------------------------- MODULE Node ---------------------------------
(***************************************************************************)
(* What a station does for itself: it starts and is replaced, opens its    *)
(* database, pays for model calls, runs agents and their tools, looks at   *)
(* what a restart left, and keeps copies of its files.  The parts keep     *)
(* their state apart, so one run checks them one beside the other: a       *)
(* behaviour chooses a part and the others rest in an initial state.       *)
(***************************************************************************)
EXTENDS Integers

CONSTANTS Pids, Releases, Dated,                                  \* of StationStart
          Procs, Code, Target, Built, Keep, MaxRows,              \* of SchemaUpgrade
          Calls, Models, Keyed, Default, Pools, Covers, Quota,    \* of ModelCalls
          Renews, Expires, Strict, LastDay, MaxUsed,
          Subtasks, Jobs, TaskOf, SkillOf, Agents, Posix, MaxTurns, \* of AgentRun
          Servers, Http, Tools, Callers,                          \* of ToolGateway
          LastStep, MaxRequests, MaxBoots,                        \* of RecoveryCheck
          Stores, Databases, MaxEdits,                            \* of Backup
          MaxTime,                                                \* of CloudSync
          StartFaults, SchemaFaults, CallFaults, ToolFaults, CopyFaults  \* bounds on their faults

\* The default and the models with a key are models, and what bounds or is counted is a number.
ASSUME NodeAssumption ==
    /\ Default \in Models /\ Keyed \subseteq Models
    /\ Target \in Nat /\ Code \in [Procs -> 1..Target] /\ Built \subseteq 1..Target /\ "nobody" \notin Procs
    /\ Keep \in Nat \ {0} /\ MaxRows \in Nat /\ SchemaFaults \in Nat
    /\ Quota \in Nat /\ LastDay \in Nat /\ MaxUsed \in Nat
    /\ Renews \in [Pools -> Nat] /\ Expires \in [Pools -> Nat]
    /\ TaskOf \in [Subtasks -> Jobs] /\ Subtasks \cap Jobs = {} /\ "chat" \notin Subtasks \cup Jobs
    /\ MaxTurns \in Nat /\ MaxBoots \in Nat \ {0}
    /\ 0 \notin Pids
    /\ "none" \notin Servers /\ Http \subseteq Servers

VARIABLES duty, mishaps

\* StationStart
VARIABLES station, lock, head, blame
startVars == <<station, lock, head, blame>>

Start == INSTANCE StationStart WITH
    Versions <- Releases, MaxFaults <- StartFaults, proc <- station, faults <- mishaps

\* SchemaUpgrade
VARIABLES database, writer, opening, published, daily
schemaVars == <<database, writer, opening, published, daily>>

Schema == INSTANCE SchemaUpgrade WITH
    MaxWrites <- MaxRows, MaxFaults <- SchemaFaults,
    file <- database, lock <- writer, proc <- opening, faults <- mishaps

\* ModelCalls
VARIABLES used, status, day, alertState, pushed, call, charged
callVars == <<used, status, day, alertState, pushed, call, charged>>

Call == INSTANCE ModelCalls WITH
    MaxFaults <- CallFaults, faults <- mishaps

\* AgentRun
VARIABLES agents, custom, shared, skillNow, context, job, prompted, ended
runVars == <<agents, custom, shared, skillNow, context, job, prompted, ended>>

Run == INSTANCE AgentRun WITH
    Tasks <- Jobs, asked <- prompted

\* ToolGateway
VARIABLES known, cache, routes, client, todo, pipe, offers, op, replied
toolVars == <<known, cache, routes, client, todo, pipe, offers, op, replied>>

Tool == INSTANCE ToolGateway WITH
    Calls <- Callers, MaxFaults <- ToolFaults, index <- routes, told <- replied, faults <- mishaps

\* RecoveryCheck
VARIABLES standing, granted, boot, row, worker, work, look, pages
recoveryVars == <<standing, granted, boot, row, worker, work, look, pages>>

Recovery == INSTANCE RecoveryCheck WITH
    Last <- LastStep, task <- standing, pm <- worker

\* Backup
VARIABLES source, serving, writes, seen, remade, make, archive, undo, target
backupVars == <<source, serving, writes, seen, remade, make, archive, undo, target>>

Copy == INSTANCE Backup WITH
    Files <- Stores, MaxWrites <- MaxEdits, MaxFaults <- CopyFaults, station <- serving, faults <- mishaps

\* CloudSync
VARIABLES clock, local, cloud, sync, last, raced
cloudVars == <<clock, local, cloud, sync, last, raced>>

Cloud == INSTANCE CloudSync

-----------------------------------------------------------------------------
\* A part at rest is in one of its initial states.
NodeInit ==
    /\ duty \in {"start", "schema", "call", "run", "tool", "recovery", "backup", "cloud"}
    /\ Start!Init /\ Schema!Init /\ Call!Init /\ Run!Init
    /\ Tool!Init /\ Recovery!Init /\ Copy!Init /\ Cloud!Init
    /\ duty # "start" => head = (CHOOSE v \in Releases : TRUE) /\ \A p \in Pids : station[p] = Start!Unborn
    /\ duty # "schema" => ~database.tables
    /\ duty # "run" => ~shared
    /\ duty # "cloud" => cloud = Cloud!None

NodeNext ==
    \/ /\ duty = "start" /\ Start!Next
       /\ UNCHANGED <<duty, schemaVars, callVars, runVars, toolVars, recoveryVars, backupVars, cloudVars>>
    \/ /\ duty = "schema" /\ Schema!Next
       /\ UNCHANGED <<duty, startVars, callVars, runVars, toolVars, recoveryVars, backupVars, cloudVars>>
    \/ /\ duty = "call" /\ Call!Next
       /\ UNCHANGED <<duty, startVars, schemaVars, runVars, toolVars, recoveryVars, backupVars, cloudVars>>
    \/ /\ duty = "run" /\ Run!Next
       /\ UNCHANGED <<duty, mishaps, startVars, schemaVars, callVars, toolVars, recoveryVars, backupVars, cloudVars>>
    \/ /\ duty = "tool" /\ Tool!Next
       /\ UNCHANGED <<duty, startVars, schemaVars, callVars, runVars, recoveryVars, backupVars, cloudVars>>
    \/ /\ duty = "recovery" /\ Recovery!Next
       /\ UNCHANGED <<duty, mishaps, startVars, schemaVars, callVars, runVars, toolVars, backupVars, cloudVars>>
    \/ /\ duty = "backup" /\ Copy!Next
       /\ UNCHANGED <<duty, startVars, schemaVars, callVars, runVars, toolVars, recoveryVars, cloudVars>>
    \/ /\ duty = "cloud" /\ Cloud!Next
       /\ UNCHANGED <<duty, mishaps, startVars, schemaVars, callVars, runVars, toolVars, recoveryVars, backupVars>>

nodeVars == <<duty, mishaps, startVars, schemaVars, callVars, runVars, toolVars, recoveryVars,
              backupVars, cloudVars>>

NodeSpec == NodeInit /\ [][NodeNext]_nodeVars

-----------------------------------------------------------------------------
(* A start and the station it finds never end with no station or, but for the  *)
(* exceptions the code is known to have, with two.                             *)
StartSound == (duty = "start" => Start!TypeOK) /\ Start!OneStation /\ Start!NotLeft

(* A process that serves finds its whole schema; a migrated file can be        *)
(* restored as it was; a complete daily copy stays.                            *)
SchemaSound ==
    [](duty = "schema" => Schema!TypeOK /\ Schema!SchemaServed) /\ Schema!Restorable /\ Schema!DailyKept

(* A model call is charged once, and warnings of a pool only climb.            *)
CallsSound == (duty = "call" => Call!TypeOK) /\ Call!ChargedOnce /\ Call!WarningsClimb

(* A model is asked with the prompt and charged to the task of its own         *)
(* subtask; an agent is answered by its own call, and tools lead to servers.   *)
AgentsSound ==
    /\ Run!TypeOK /\ Run!OwnContext
    /\ duty = "tool" => Tool!TypeOK /\ Tool!AnswerIsOwn /\ Tool!RoutesLead

(* An assessment shows the states of one moment, and an authorization based on *)
(* it holds as long as the restarted PM runs.                                  *)
RecoverySound == [](Recovery!TypeOK /\ Recovery!RequestStaysValid) /\ Recovery!PictureOfOneMoment

(* A backup and its restoration hold the files of one moment; synchronisation  *)
(* keeps what was written last.                                                *)
CopiesSound == (duty = "backup" => Copy!TypeOK /\ Copy!SnapshotOfOneMoment) /\ Cloud!TypeOK /\ Cloud!NewestKept
================================================================================
