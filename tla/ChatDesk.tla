------------------------------ MODULE ChatDesk ------------------------------
(***************************************************************************)
(* The Secretary's conversations (chat_handler, station_routes_chat): chats *)
(* that wait for the model in threads of their own while the active        *)
(* conversation changes, conversations come and go, the PMs of tasks get   *)
(* threads in them, and PMs' questions and the answers are recorded.       *)
(*                                                                         *)
(* What a message makes the Secretary do is the other modules' (the tasks: *)
(* TaskLedger, the project description: BriefDesk, the answers themselves: *)
(* DirectTask); here a message may give a task, whose PM bears its number. *)
(***************************************************************************)
EXTENDS Naturals, Sequences, FiniteSets, SequencesExt, Functions

CONSTANTS Messages,
          Tasks,     \* the messages that give a task
          MaxConvs,  \* bound: conversations ever created
          MaxFaults  \* bound: failed writes and crashes

VARIABLES index,     \* _conv_index: the PMs with a thread in each listed conversation
          indexFile, \* index.json
          created,   \* number of conversations so far, which are numbered by it
          active,    \* _active_conv_id, 0 without one
          mem,       \* _conversations, of those loaded
          file,      \* the conversations' files
          chat,      \* chat[m]: [pc, conv] of the call of chat with message m
          pms,       \* PMs that have been started
          asked,     \* PMs that have asked their question
          tmem,      \* _pm_thread_messages, of the threads loaded
          tfile,     \* the threads' files
          hidden,    \* history: threads whose file was not loaded when they were attached
          faults

indexes == <<index, indexFile, created>>
talks == <<mem, file>>
threads == <<tmem, tfile, hidden>>
vars == <<indexes, active, talks, chat, pms, asked, threads, faults>>

Convs == 1..MaxConvs
Talk(m) == <<"talk", m>>     \* a message and its reply
Notice(p) == <<"notice", p>> \* of a PM's question
First(convs) == IF convs = {} THEN 0 ELSE CHOOSE c \in convs : \A d \in convs : c <= d
With(f, x, y) == [z \in DOMAIN f \cup {x} |-> IF z = x THEN y ELSE f[z]]
Without(f, x) == [z \in DOMAIN f \ {x} |-> f[z]]

Init ==
    /\ index = [c \in {1} |-> {}] /\ indexFile = index /\ created = 1
    /\ active = 1
    /\ mem = [c \in {1} |-> {}] /\ file = [c \in Convs |-> {}]
    /\ chat = [m \in Messages |-> [pc |-> "idle", conv |-> 0]]
    /\ pms = {} /\ asked = {}
    /\ tmem = <<>> /\ tfile = [p \in Tasks |-> <<>>] /\ hidden = {}
    /\ faults = 0

\* Every write of a file swallows its failure.
Fault == faults < MaxFaults /\ faults' = faults + 1
Writes(written, failed) == (written /\ UNCHANGED faults) \/ (failed /\ Fault)

SaveIndex(next) == index' = next /\ Writes(indexFile' = next, UNCHANGED indexFile)

\* Messages added to a conversation, in memory and to its file.  _conversations may lack one
\* that has been deleted meanwhile: it gets its entry and its file again.
Add(c, what) ==
    /\ mem' = With(mem, c, {what} \cup IF c \in DOMAIN mem THEN mem[c] ELSE {})
    /\ Writes(/\ file' = [file EXCEPT ![c] = @ \cup {what}]
              /\ indexFile' = index,
              /\ \/ file' = [file EXCEPT ![c] = @ \cup {what}] /\ UNCHANGED indexFile
                 \/ UNCHANGED file /\ indexFile' \in {index, indexFile})

-----------------------------------------------------------------------------
(* Conversations.                                                          *)

Create ==
    /\ created < MaxConvs /\ created' = created + 1
    /\ active' = created' /\ mem' = With(mem, created', {})
    /\ SaveIndex(With(index, created', {}))
    /\ UNCHANGED <<file, chat, pms, asked, threads>>

Delete(c) ==
    /\ c <= created
    /\ LET rest == Without(index, c)
       IN  /\ index' = rest /\ mem' = Without(mem, c)
           /\ active' = IF active = c THEN First(DOMAIN rest) ELSE active
           /\ Writes(indexFile' = rest /\ file' = [file EXCEPT ![c] = {}],
                     \/ UNCHANGED indexFile /\ file' = [file EXCEPT ![c] = {}]
                     \/ indexFile' = rest /\ UNCHANGED file)
    /\ UNCHANGED <<created, chat, pms, asked, threads>>

\* switch_conversation
Switch(c) ==
    /\ c \in DOMAIN index /\ active' = c
    /\ mem' = IF c \in DOMAIN mem THEN mem ELSE With(mem, c, file[c])
    /\ UNCHANGED <<indexes, file, chat, pms, asked, threads, faults>>

\* The history of the active conversation.
ClearHistory ==
    /\ active # 0
    /\ mem' = With(mem, active, {})
    /\ Writes(file' = [file EXCEPT ![active] = {}], UNCHANGED file)
    /\ UNCHANGED <<indexes, active, chat, pms, asked, threads>>

-----------------------------------------------------------------------------
(* A chat.                                                                 *)

\* The conversation is named, and exists, or is the active one; without any, one is created.
Begin(m, c) ==
    /\ chat[m].pc = "idle"
    /\ c \in DOMAIN index \/ (c = active /\ c # 0)
    /\ chat' = [chat EXCEPT ![m] = [pc |-> "entering", conv |-> c]]
    /\ UNCHANGED <<indexes, active, talks, pms, asked, threads, faults>>

\* Its messages are loaded, and it becomes the active one, deleted or not meanwhile.
Enter(m) ==
    LET c == chat[m].conv
    IN  /\ chat[m].pc = "entering"
        /\ chat' = [chat EXCEPT ![m].pc = "asking"]
        /\ active' = c
        /\ mem' = IF c \in DOMAIN mem THEN mem ELSE With(mem, c, file[c])
        /\ UNCHANGED <<indexes, file, pms, asked, threads, faults>>

\* attach_pm_thread: a thread without an entry gets an empty one, whatever its file holds.
Attach(c, p) ==
    /\ SaveIndex([index EXCEPT ![c] = @ \cup {p}])
    /\ tmem' = IF p \in DOMAIN tmem THEN tmem ELSE With(tmem, p, <<>>)
    /\ hidden' = IF p \notin DOMAIN tmem /\ tfile[p] # <<>> THEN hidden \cup {p} ELSE hidden
    /\ UNCHANGED tfile

\* _auto_attach_pm_thread: to the conversation that is now active
AttachActive(p) ==
    IF active \in DOMAIN index THEN Attach(active, p) ELSE UNCHANGED <<index, indexFile, threads, faults>>

\* The message gives a task, which is submitted, and its PM starts.
SubmitTask(m) ==
    /\ chat[m].pc = "asking" /\ m \in Tasks
    /\ chat' = [chat EXCEPT ![m].pc = "acted"]
    /\ pms' = pms \cup {m} /\ AttachActive(m)
    /\ UNCHANGED <<created, active, talks, asked>>

\* Faulty: the conversation that is active when the model has answered.
HereNow(m) == active

\* The conversation the chat began in.
Here(m) == chat[m].conv

Finish(m) ==
    /\ chat[m].pc = (IF m \in Tasks THEN "acted" ELSE "asking")
    /\ chat' = [chat EXCEPT ![m].pc = "done"]
    /\ Add(Here(m), Talk(m))
    /\ UNCHANGED <<index, created, active, pms, asked, threads>>

-----------------------------------------------------------------------------
(* The threads of PMs.                                                     *)

\* Faulty: what is not in memory does not exist.
ThreadInMemory(p) == IF p \in DOMAIN tmem THEN tmem[p] ELSE <<>>

\* get_pm_thread_messages
Thread(p) == IF p \in DOMAIN tmem THEN tmem[p] ELSE tfile[p]

\* find_conv_by_pm
Bound(p) == First({c \in DOMAIN index : p \in index[c]})

\* An entry for the thread, once; new tells whether it was not there yet.
Record(p, what, new) ==
    tmem' = With(tmem, p, IF new THEN Append(Thread(p), what) ELSE Thread(p))

\* The report of a question, which comes again when its answer was lost or the PM is
\* resumed: to the thread, and to the conversation the thread is in.
NotifyClarification(p) ==
    LET new == ~Contains(Thread(p), "question")
        c == Bound(p)
        tfiled == IF new THEN [tfile EXCEPT ![p] = Append(@, "question")] ELSE tfile
        filed == IF new /\ c # 0 THEN [file EXCEPT ![c] = @ \cup {Notice(p)}] ELSE file
        indexed == IF c # 0 THEN index ELSE indexFile
    IN  /\ p \in pms /\ asked' = asked \cup {p}
        /\ Record(p, "question", new)
        /\ mem' = IF new /\ c # 0 THEN With(mem, c, mem[c] \cup {Notice(p)}) ELSE mem
        /\ Writes(tfile' = tfiled /\ file' = filed /\ indexFile' = indexed,
                  /\ tfile' \in {tfile, tfiled} /\ file' \in {file, filed}
                  /\ indexFile' \in {indexFile, indexed})
        /\ UNCHANGED <<index, created, active, chat, pms, hidden>>

\* send_to_pm_thread, once the PM has confirmed the answer, which may be sent again; from a
\* conversation's page it makes that conversation the active one.
Reply(p) ==
    LET new == ~Contains(Thread(p), "answer")
    IN  /\ p \in asked
        /\ Record(p, "answer", new)
        /\ IF new THEN Writes(tfile' = [tfile EXCEPT ![p] = Append(@, "answer")], UNCHANGED tfile)
           ELSE UNCHANGED <<tfile, faults>>
        /\ active' \in {active} \cup DOMAIN index
        /\ UNCHANGED <<indexes, talks, chat, pms, asked, hidden>>

\* People look at a thread, which loads it.
ReadThread(p) ==
    /\ p \notin DOMAIN tmem /\ tmem' = With(tmem, p, Thread(p))
    /\ UNCHANGED <<indexes, active, talks, chat, pms, asked, tfile, hidden, faults>>

AttachAgain(c, p) ==
    /\ p \in pms /\ c \in DOMAIN index /\ p \notin index[c]
    /\ Attach(c, p)
    /\ UNCHANGED <<created, active, talks, chat, pms, asked>>

Detach(c, p) ==
    /\ c \in DOMAIN index /\ p \in index[c]
    /\ SaveIndex([index EXCEPT ![c] = @ \ {p}])
    /\ UNCHANGED <<created, active, talks, chat, pms, asked, threads>>

\* A task that has ended is deleted, with its PM's thread.
DeleteTask(p) ==
    /\ p \in pms /\ pms' = pms \ {p} /\ asked' = asked \ {p}
    /\ tmem' = Without(tmem, p)
    /\ IF Bound(p) # 0 THEN SaveIndex([index EXCEPT ![Bound(p)] = @ \ {p}]) /\ tfile' = [tfile EXCEPT ![p] = <<>>]
       ELSE UNCHANGED <<index, indexFile>> /\ Writes(tfile' = [tfile EXCEPT ![p] = <<>>], UNCHANGED tfile)
    /\ UNCHANGED <<created, active, talks, chat, hidden>>

\* The start loads every listed conversation, and makes one when there is none.
Crash ==
    /\ Fault
    /\ IF indexFile # <<>> THEN index' = indexFile /\ UNCHANGED <<indexFile, created>>
       ELSE /\ created < MaxConvs /\ created' = created + 1
            /\ index' = [c \in {created'} |-> {}] /\ indexFile' = index'
    /\ mem' = [c \in DOMAIN index' |-> file[c]]
    /\ active' = First(DOMAIN index')
    /\ chat' = [m \in Messages |-> IF chat[m].pc \in {"idle", "done"} THEN chat[m] ELSE [chat[m] EXCEPT !.pc = "lost"]]
    /\ tmem' = <<>>
    /\ UNCHANGED <<file, pms, asked, tfile, hidden>>

Next ==
    \/ Create \/ ClearHistory \/ Crash
    \/ \E m \in Messages : Enter(m) \/ SubmitTask(m) \/ Finish(m)
    \/ \E p \in Tasks : NotifyClarification(p) \/ Reply(p) \/ ReadThread(p) \/ DeleteTask(p)
    \/ \E c \in Convs :
          \/ Delete(c) \/ Switch(c)
          \/ \E m \in Messages : Begin(m, c)
          \/ \E p \in Tasks : AttachAgain(c, p) \/ Detach(c, p)

Spec == Init /\ [][Next]_vars

-----------------------------------------------------------------------------
(* Properties.                                                             *)

TypeOK ==
    /\ DOMAIN index \subseteq 1..created /\ DOMAIN indexFile \subseteq 1..created
    /\ active \in 0..created
    /\ \A m \in Messages : chat[m].pc \in {"idle", "entering", "asking", "acted", "done", "lost"}
    /\ asked \subseteq pms /\ pms \subseteq Tasks

\* A message and its reply are recorded in the conversation they belong to, in memory and in
\* its file, although others became active, came and went while the model was asked.
TalkStaysHere ==
    \A m \in Messages, c \in Convs :
        Talk(m) \in file[c] \cup (IF c \in DOMAIN mem THEN mem[c] ELSE {}) => c = chat[m].conv

\* However often a question is reported and answered, before and after restarts, its thread
\* shows both once (if it was not attached anew before it was loaded).
ThreadToldOnce ==
    \A p \in Tasks \ hidden :
        IsInjective(tfile[p]) /\ (p \in DOMAIN tmem => IsInjective(tmem[p]))
=============================================================================
