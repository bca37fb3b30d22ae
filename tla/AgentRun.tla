------------------------------ MODULE AgentRun ------------------------------
(***************************************************************************)
(* What a station does with a subtask it was given: the runtimes of its    *)
(* sub-agents and the one they share, their handlers, the loop of model    *)
(* calls and tools, and the sandbox that runs generated code               *)
(* (agent_runtime, tool_registry, sandbox, and the station's side of it in *)
(* station_controller).                                                    *)
(*                                                                         *)
(* Several subtasks run at once on one runtime, each in a thread of its    *)
(* own; what a thread keeps for itself is kept per thread here too.  Which *)
(* model answers is the module ModelCalls's.                               *)
(***************************************************************************)
EXTENDS Naturals, FiniteSets

CONSTANTS Subtasks,        \* threads too: an execution has one of its own
          Tasks, TaskOf,   \* TaskOf[s]: the task s is part of
          SkillOf,         \* "code" (one call), "react", "cli", "shell" (no model), "other" (unknown)
          Agents,          \* names of sub-agents
          Posix,           \* the station does not run under Windows
          MaxTurns

VARIABLES agents,    \* the sub-agents of this process
          custom,    \* custom[a]: a has a prompt made by its PM
          shared,    \* the shared runtime exists: this station is the Secretary
          skillNow,  \* current_skill of each runtime and thread
          context,   \* the task each thread's model calls are charged to
          job,       \* job[s]: [pc, runtime, prompt, turns]
          asked,     \* history: the last model call of each: [prompt, task]
          ended      \* what has ended this process

vars == <<agents, custom, shared, skillNow, context, job, asked, ended>>

None == "none"
Runtimes == Agents \cup {"shared"}
Threads == Subtasks \cup Tasks \cup {"chat"} \* a PM's thread goes by the name of its task

Idle == [pc |-> "idle", runtime |-> "shared", prompt |-> None, turns |-> 0]

Init ==
    /\ agents = {} /\ custom = [a \in Agents |-> FALSE] /\ shared \in BOOLEAN
    /\ skillNow = [r \in Runtimes |-> [t \in Threads |-> None]]
    /\ context = [t \in Threads |-> None]
    /\ job = [s \in Subtasks |-> Idle]
    /\ asked = [t \in Threads |-> [prompt |-> None, task |-> None]]
    /\ ended = None

Up == ended = None

-----------------------------------------------------------------------------
(* Prompts, and what a call is charged to.                                 *)

\* Faulty: an attribute of the runtime, as it was before.
SkillSlotOfRuntime(t) == "chat"

\* self._local
SkillSlot(t) == t

\* Faulty: executions take a thread of the pool that serves the chat too.
ContextSlotOfPool(t) == IF t \in Tasks THEN t ELSE "chat"

\* _ctx
ContextSlot(t) == t

\* _build_system_prompt; without a skill it holds all of them
Prompt(r, t) == IF r \in Agents /\ custom[r] THEN r ELSE skillNow[r][SkillSlot(t)]

\* record_usage without a task takes the thread's
Called(t, prompt) == asked' = [asked EXCEPT ![t] = [prompt |-> prompt, task |-> context[ContextSlot(t)]]]

-----------------------------------------------------------------------------
(* The station.                                                            *)

\* _local_create_subagent; the PM made up the name
CreateAgent(a, c) ==
    /\ Up /\ a \notin agents
    /\ agents' = agents \cup {a} /\ custom' = [custom EXCEPT ![a] = c]
    /\ UNCHANGED <<shared, skillNow, context, job, asked, ended>>

\* The shared runtime comes and goes with the Secretary's role; a running execution keeps its own.
SwitchRole ==
    /\ Up /\ shared' = ~shared
    /\ skillNow' = [skillNow EXCEPT !["shared"] = [t \in Threads |->
                       IF t \in Subtasks /\ job[t].pc \notin {"idle", "done"} THEN @[t] ELSE None]]
    /\ UNCHANGED <<agents, custom, context, job, asked, ended>>

Handler(s) ==
    CASE SkillOf[s] = "code" -> "call" [] SkillOf[s] = "react" -> "start"
      [] SkillOf[s] = "cli" -> "start" [] SkillOf[s] = "shell" -> "plain"
      [] OTHER -> "done"                                    \* an unknown skill has failed

\* _local_execute_task: an agent this process does not know of is replaced by the shared runtime.
Execute(s, a) ==
    LET r == IF a \in agents THEN a ELSE "shared"
    IN  /\ Up /\ job[s].pc = "idle"
        /\ IF r = "shared" /\ ~shared
           THEN job' = [job EXCEPT ![s].pc = "done"] /\ UNCHANGED <<skillNow, context>>
           ELSE /\ job' = [job EXCEPT ![s].pc = Handler(s), ![s].runtime = r]
                /\ IF Handler(s) = "done" THEN UNCHANGED <<skillNow, context>>
                   ELSE /\ skillNow' = [skillNow EXCEPT ![r][SkillSlot(s)] = SkillOf[s]]
                        /\ context' = [context EXCEPT ![ContextSlot(s)] = TaskOf[s]]
        /\ UNCHANGED <<agents, custom, shared, asked, ended>>

\* The PM plans, reviews or sums up.
PMCall(k) ==
    /\ Up /\ shared /\ Called(k, None)
    /\ UNCHANGED <<agents, custom, shared, skillNow, context, job, ended>>

\* A task of one step is executed in its PM's own thread, which goes on to make other calls.
ExecuteSingle(k) ==
    /\ Up /\ shared
    /\ skillNow' = [skillNow EXCEPT !["shared"][SkillSlot(k)] = "code"]
    /\ context' = [context EXCEPT ![ContextSlot(k)] = k]
    /\ asked' = [asked EXCEPT ![k] = [prompt |-> "code", task |-> k]]
    /\ UNCHANGED <<agents, custom, shared, job, ended>>

\* The Secretary talks to the user, with a prompt of its own.
Chat ==
    /\ Up /\ shared /\ Called("chat", None)
    /\ UNCHANGED <<agents, custom, shared, skillNow, context, job, ended>>

-----------------------------------------------------------------------------
(* Handlers.  Whatever they return is the result of a completed subtask,   *)
(* failed calls, rejected commands and expired limits included.            *)

Go(s, pc) == job' = [job EXCEPT ![s].pc = pc]

\* code_generation, code_review, document_summary
Call(s) ==
    /\ Up /\ job[s].pc = "call"
    /\ Called(s, Prompt(job[s].runtime, s)) /\ Go(s, "done")
    /\ UNCHANGED <<agents, custom, shared, skillNow, context, ended>>

\* shell_exec, file_ops, monitoring, rag_search
Plain(s) ==
    /\ Up /\ job[s].pc = "plain" /\ Go(s, "done")
    /\ UNCHANGED <<agents, custom, shared, skillNow, context, asked, ended>>

\* react_agent and cli_agent build their prompt once.
StartAgent(s) ==
    /\ Up /\ job[s].pc = "start"
    /\ job' = [job EXCEPT ![s].pc = IF SkillOf[s] = "react" THEN "turn" ELSE "cli",
                          ![s].prompt = Prompt(job[s].runtime, s)]
    /\ UNCHANGED <<agents, custom, shared, skillNow, context, asked, ended>>

\* The external agent has come to its end, or its time is up; it pays by other means.
CLIEnds(s) ==
    /\ Up /\ job[s].pc = "cli" /\ Go(s, "done")
    /\ UNCHANGED <<agents, custom, shared, skillNow, context, asked, ended>>

\* The model answers with tools to call, or for good.
Turn(s, tool) ==
    /\ Up /\ job[s].pc = "turn"
    /\ IF job[s].turns = MaxTurns THEN Go(s, "done") /\ UNCHANGED asked
       ELSE /\ Called(s, job[s].prompt)
            /\ job' = [job EXCEPT ![s].pc = IF tool = None THEN "done" ELSE tool, ![s].turns = @ + 1]
    /\ UNCHANGED <<agents, custom, shared, skillNow, context, ended>>

\* A tool that fails says so to the model.
ToolEnds(s) ==
    /\ Up /\ job[s].pc \in {"tool", "code"} /\ Go(s, "turn")
    /\ UNCHANGED <<agents, custom, shared, skillNow, context, asked, ended>>

\* _kill_process_tree kills the group of the code, which under POSIX is the station's own: the
\* code was started in no group or session of its own.
KillsItself == Posix

\* The sandbox's limit has expired.
CodeTimesOut(s) ==
    /\ Up /\ job[s].pc = "code"
    /\ IF KillsItself THEN ended' = "code" /\ UNCHANGED job
       ELSE Go(s, "turn") /\ UNCHANGED ended
    /\ UNCHANGED <<agents, custom, shared, skillNow, context, asked>>

\* Agents and executions are not kept.
Restart ==
    /\ ~Up /\ ended' = None
    /\ agents' = {} /\ custom' = [a \in Agents |-> FALSE]
    /\ skillNow' = [r \in Runtimes |-> [t \in Threads |-> None]]
    /\ context' = [t \in Threads |-> None]
    /\ job' = [s \in Subtasks |-> IF job[s].pc = "idle" THEN Idle ELSE [Idle EXCEPT !.pc = "done"]]
    /\ UNCHANGED <<shared, asked>>

Stop == Up /\ ended' = "stopped" /\ UNCHANGED <<agents, custom, shared, skillNow, context, job, asked>>

Next ==
    \/ SwitchRole \/ Chat \/ Stop \/ Restart
    \/ \E a \in Agents, c \in BOOLEAN : CreateAgent(a, c)
    \/ \E k \in Tasks : PMCall(k) \/ ExecuteSingle(k)
    \/ \E s \in Subtasks :
          \/ \E a \in Runtimes : Execute(s, a)
          \/ Call(s) \/ Plain(s) \/ StartAgent(s) \/ CLIEnds(s) \/ ToolEnds(s) \/ CodeTimesOut(s)
          \/ \E tool \in {None, "tool", "code"} : Turn(s, tool)

Spec == Init /\ [][Next]_vars

-----------------------------------------------------------------------------
(* Properties.                                                             *)

TypeOK ==
    /\ agents \subseteq Agents /\ ended \in {None, "stopped", "code"}
    /\ \A s \in Subtasks : job[s].runtime \in Runtimes /\ job[s].turns \in 0..MaxTurns
    /\ \A t \in Threads : context[t] \in Tasks \cup {None}

\* Subtasks that run at once do not get into each other's way: a model is asked with the
\* knowledge for the subtask's own skill, or with its agent's own prompt, and is charged to the
\* subtask's own task; what is said in the chat is never charged to a task, and what a PM
\* asks is charged to its own task or to none.
OwnContext ==
    /\ \A s \in Subtasks : asked[s].task # None =>
          asked[s].task = TaskOf[s] /\ asked[s].prompt \in {SkillOf[s]} \cup Agents
    /\ asked["chat"].task = None
    /\ \A k \in Tasks : asked[k].task \in {k, None}

\* A run of code that takes too long is ended, and the station goes on: sandbox.py says that
\* the code is isolated from it and that an expired run is forcibly ended.
OutlivesCode == ended # "code"
=============================================================================
