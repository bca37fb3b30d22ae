--------------------------------- MODULE Desk ---------------------------------
(***************************************************************************)
(* The Secretary's desk: briefs, the task a PM does by itself, chats, the  *)
(* bot, the graph of steps and the board that shows them.  They keep their *)
(* state apart, so one run checks them one beside the other: a behaviour   *)
(* chooses a part and the others rest in an initial state.                 *)
(***************************************************************************)
EXTENDS Integers, FiniteSets

CONSTANTS Sections, Texts, Blank, Requests, MaxRevision,    \* of BriefDesk
          Answers, MaxQuestions, MaxLetters,                \* of DirectTask
          MaxNotices, MaxUpdates, MaxRetry, QueueLength,    \* of BotGateway
          Messages, Tasks, MaxConvs,                        \* of ChatDesk
          Ids,                                              \* of TaskDAG
          Names, Threads, Retries, MaxRounds, MaxReports,   \* of StepBoard
          BriefFaults, DirectFaults, BotFaults, ChatFaults, BoardFaults  \* bounds on their faults

\* What is recorded of a question is not an answer; a message is tried, and kept when it fails;
\* there is a conversation, a revision and a round; and a graph has finitely many steps.
ASSUME DeskAssumption ==
    /\ Answers \cap {"none", "timeout", "question"} = {}
    /\ MaxUpdates \in Nat
    /\ MaxRetry \in Nat \ {0} /\ QueueLength \in Nat \ {0}
    /\ MaxConvs \in Nat \ {0}
    /\ MaxRevision \in Nat \ {0} /\ Blank \in Texts
    /\ MaxRounds \in Nat \ {0} /\ MaxReports \in Nat /\ Retries \in Nat
    /\ IsFiniteSet(Ids)
    /\ BriefFaults \in Nat /\ BoardFaults \in Nat

VARIABLES part, faults

\* BriefDesk
VARIABLES brief, snapshots, handoffs, listed, handing, live, thread, tasks, calls
briefVars == <<brief, snapshots, handoffs, listed, handing, live, thread, tasks, calls>>

Brief == INSTANCE BriefDesk WITH
    MaxFaults <- BriefFaults, sending <- handing

\* DirectTask
VARIABLES disk, mem, pc, stop, life, withdrawn, late, expired, questions, letters, acked, told,
          executions, delivered
directVars == <<disk, mem, pc, stop, life, withdrawn, late, expired, questions, letters, acked, told,
                executions, delivered>>

Direct == INSTANCE DirectTask WITH
    Rounds <- MaxQuestions, MaxFaults <- DirectFaults, asked <- questions, thread <- told

\* BotGateway
VARIABLES configured, channel, buffer, timer, sending, queue, accepted, arrived, noticed,
          written, forgotten, lastId, polling, batch, handled, restarts
botVars == <<configured, channel, buffer, timer, sending, queue, accepted, arrived, noticed,
             written, forgotten, lastId, polling, batch, handled, restarts>>

Bot == INSTANCE BotGateway WITH
    MaxFaults <- BotFaults

\* ChatDesk
VARIABLES index, indexFile, created, active, talk, file, chat, pms, asked, tmem, tfile, hidden
chatVars == <<index, indexFile, created, active, talk, file, chat, pms, asked, tmem, tfile, hidden>>

Chat == INSTANCE ChatDesk WITH
    MaxFaults <- ChatFaults, mem <- talk

\* TaskDAG
VARIABLES g, answer
graphVars == <<g, answer>>

Graph == INSTANCE TaskDAG

\* StepBoard
VARIABLES task, pm, post, net, posted
boardVars == <<task, pm, post, net, posted>>

Board == INSTANCE StepBoard WITH
    MaxFaults <- BoardFaults

-----------------------------------------------------------------------------
\* A part at rest is in one of its initial states.
Init ==
    /\ part \in {"brief", "direct", "bot", "chat", "graph", "board"}
    /\ Brief!Init /\ Direct!Init /\ Bot!Init /\ Chat!Init /\ Board!Init
    /\ part # "brief" => brief.revision = 0
    /\ part # "direct" => disk.complete
    /\ part # "bot" => configured = "none"
    /\ IF part = "graph" THEN Graph!Init
       ELSE answer = TRUE /\ g = Graph!Build({}, [n \in Ids |-> {}], {}, {})

Next ==
    \/ /\ part = "brief" /\ Brief!Next
       /\ UNCHANGED <<part, directVars, botVars, chatVars, graphVars, boardVars>>
    \/ /\ part = "direct" /\ Direct!Next
       /\ UNCHANGED <<part, briefVars, botVars, chatVars, graphVars, boardVars>>
    \/ /\ part = "bot" /\ Bot!Next
       /\ UNCHANGED <<part, briefVars, directVars, chatVars, graphVars, boardVars>>
    \/ /\ part = "chat" /\ Chat!Next
       /\ UNCHANGED <<part, briefVars, directVars, botVars, graphVars, boardVars>>
    \/ /\ part = "graph" /\ Graph!Next
       /\ UNCHANGED <<part, faults, briefVars, directVars, botVars, chatVars, boardVars>>
    \/ /\ part = "board" /\ Board!Next
       /\ UNCHANGED <<part, briefVars, directVars, botVars, chatVars, graphVars>>

Spec == Init /\ [][Next]_<<part, faults, briefVars, directVars, botVars, chatVars, graphVars, boardVars>>

-----------------------------------------------------------------------------
(* A revision of a brief becomes one task with its own text, a model is asked  *)
(* once for a request, and no document that was ever saved is lost.            *)
BriefsFaithful ==
    [](/\ part = "brief" => Brief!TypeOK
       /\ Brief!OneFaithfulTask /\ Brief!AskedOnce) /\ Brief!HistoryKept

(* A single task is executed and delivered once, and an answer that was        *)
(* acknowledged is the one its question gets.                                  *)
DirectFaithful == Direct!AnswerKept /\ Direct!DirectOnce

(* A notice is sent or in a queue, and a message from the phone acts once.     *)
BotFaithful == Bot!Accounted /\ Bot!CommandsOnce

(* What is said in a conversation stays in it, and a PM's thread is told once. *)
ChatFaithful == (part = "chat" => Chat!TypeOK) /\ Chat!TalkStaysHere /\ Chat!ThreadToldOnce

(* The records of every dependency agree and the order is right, and a graph   *)
(* without cycles stays one.                                                   *)
GraphFaithful == [](Graph!TypeOK /\ Graph!GraphSound) /\ Graph!StaysAcyclic

(* The board shows what the PM of its round did, and never goes back.          *)
BoardFaithful == []((part = "board" => Board!TypeOK) /\ Board!BoardTrue) /\ Board!BoardForward
================================================================================
