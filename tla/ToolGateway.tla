---------------------------- MODULE ToolGateway ----------------------------
(***************************************************************************)
(* The gateway of the Secretary to the servers of tools: registration, the *)
(* table that says which server has a tool, calls, reconnection            *)
(* (mcp_gateway), and the JSON-RPC conversation with a server, by the      *)
(* pipes of a process or over HTTP (mcp_client).                           *)
(*                                                                         *)
(* One lock is held for the whole of an operation, so that one operation   *)
(* runs at a time; the servers go on meanwhile.  Servers and what they     *)
(* write are external.                                                     *)
(***************************************************************************)
EXTENDS Naturals, Sequences

CONSTANTS Servers, Http, \* Http: those reached over HTTP
          Tools,
          Calls,         \* calls of tools by agents
          MaxFaults      \* bound: deaths, lines out of turn, changed tools, calls lost over HTTP

VARIABLES known,  \* registered servers
          cache,  \* tools of a registered server, as last listed
          index,  \* index[t]: the server calls of t go to
          client, \* client[s]: [alive, ready, id]: of its process, of the handshake, last number used
          todo,   \* todo[s]: requests the process has not answered: [id, what]
          pipe,   \* pipe[s]: lines not yet read
          offers, \* the tools a server really has
          op,     \* the operation that holds the lock: [kind, server, tool, step]
          told,   \* told[c]: what c was answered
          faults

wires == <<todo, pipe>>
tables == <<known, cache, index>>
vars == <<tables, client, wires, offers, op, told, faults>>

None == "none"
Gone == [alive |-> FALSE, ready |-> FALSE, id |-> 0]
Free == [kind |-> None, server |-> None, tool |-> None, step |-> None]

Init ==
    /\ known = {} /\ cache = [s \in Servers |-> {}] /\ index = [t \in Tools |-> None]
    /\ client = [s \in Servers |-> Gone]
    /\ todo = [s \in Servers |-> <<>>] /\ pipe = [s \in Servers |-> <<>>]
    /\ offers = [s \in Servers |-> Tools]
    /\ op = Free
    /\ told = [c \in Calls |-> None]
    /\ faults = 0

Fault == faults < MaxFaults /\ faults' = faults + 1
Connected(s) == client[s].ready /\ client[s].alive

-----------------------------------------------------------------------------
(* Requests.                                                               *)

\* _request: nothing is sent to a dead process.
Send(kind, s, t, step, what, ready) ==
    /\ op' = [kind |-> kind, server |-> s, tool |-> t, step |-> step]
    /\ client' = [client EXCEPT ![s].id = @ + 1, ![s].ready = ready]
    /\ todo' = IF client[s].alive /\ s \notin Http
               THEN [todo EXCEPT ![s] = Append(@, [id |-> client[s].id + 1, what |-> what])] ELSE todo

\* connect, of a new client: a new process with pipes of its own
Connect(kind, s, t) ==
    /\ op' = [kind |-> kind, server |-> s, tool |-> t, step |-> "initialize"]
    /\ client' = [client EXCEPT ![s] = [alive |-> TRUE, ready |-> FALSE, id |-> 1]]
    /\ todo' = [todo EXCEPT ![s] = IF s \in Http THEN <<>> ELSE <<[id |-> 1, what |-> "initialize"]>>]
    /\ pipe' = [pipe EXCEPT ![s] = <<>>]

\* Faulty: the table is left as it is.
WithoutLeft(s) == index

\* _disconnect_server
Without(s) == [t \in Tools |-> IF index[t] = s THEN None ELSE index[t]]

Forget(s) == known' = known \ {s} /\ cache' = [cache EXCEPT ![s] = {}] /\ index' = Without(s)

\* register_server, in place of an earlier one of that name
Register(s) ==
    /\ op = Free /\ Forget(s) /\ Connect("register", s, None)
    /\ UNCHANGED <<offers, told, faults>>

Unregister(s) ==
    /\ op = Free /\ s \in known /\ Forget(s)
    /\ client' = [client EXCEPT ![s] = Gone]
    /\ todo' = [todo EXCEPT ![s] = <<>>] /\ pipe' = [pipe EXCEPT ![s] = <<>>]
    /\ UNCHANGED <<offers, op, told, faults>>

\* call_tool; s is None unless the caller names the server
CallTool(c, t, s) ==
    LET target == IF s # None THEN s ELSE index[t]
    IN  /\ op = Free /\ told[c] = None
        /\ IF target \notin known
           THEN told' = [told EXCEPT ![c] = "error"] /\ UNCHANGED <<op, client, wires>>
           ELSE /\ IF Connected(target) THEN Send(c, target, t, "call", c, TRUE) /\ UNCHANGED pipe
                   ELSE Connect(c, target, t)
                /\ UNCHANGED told
        /\ UNCHANGED <<tables, offers, faults>>

-----------------------------------------------------------------------------
(* Answers, for the operation that waits.                                  *)

Fails ==
    /\ op' = Free
    /\ told' = IF op.kind \in Calls THEN [told EXCEPT ![op.kind] = "error"] ELSE told
    /\ UNCHANGED <<tables, todo>>

\* A handshake that fails leaves the new process to itself, and the server unregistered or
\* without a connection, as it was.
HandshakeEnds(ok) ==
    LET s == op.server
    IN  IF ok THEN /\ Send(op.kind, s, op.tool, "list", "list", TRUE)
                   /\ known' = known \cup {s} /\ UNCHANGED <<cache, index, told>>
        ELSE client' = [client EXCEPT ![s] = Gone] /\ Fails

\* _refresh_tools: the entries of tools the server no longer has are left as they are.
ListEnds(ok) ==
    LET s == op.server
        tools == IF ok THEN offers[s] ELSE {}
    IN  /\ cache' = [cache EXCEPT ![s] = tools]
        /\ index' = [t \in Tools |-> IF t \in tools THEN s ELSE index[t]]
        /\ IF op.kind = "register" THEN op' = Free /\ UNCHANGED <<client, todo>>
           ELSE Send(op.kind, s, op.tool, "call", op.kind, TRUE)
        /\ UNCHANGED <<known, told>>

CallEnds(ok, what) ==
    /\ IF ok THEN op' = Free /\ told' = [told EXCEPT ![op.kind] = what] /\ UNCHANGED <<tables, todo>>
       ELSE Fails
    /\ UNCHANGED client

\* The request of the present step has brought an answer, or none.
StepEnds(ok, what) ==
    \/ op.step = "initialize" /\ HandshakeEnds(ok)
    \/ op.step = "list" /\ ListEnds(ok)
    \/ op.step = "call" /\ CallEnds(ok, what)

\* Faulty: the first line with a number is taken for the answer.
IsAnswerAny(line) == line.id > 0

IsAnswer(line) == line.id = client[op.server].id

\* The next line: the answer, one to skip, or one that cannot be read and ends the wait.
ReadLine ==
    LET s == op.server
        line == pipe[s][1]
    IN  /\ op # Free /\ pipe[s] # <<>>
        /\ pipe' = [pipe EXCEPT ![s] = Tail(@)]
        /\ IF line.what = "garbage" THEN StepEnds(FALSE, None)
           ELSE IF IsAnswer(line) THEN StepEnds(TRUE, line.what)
           ELSE UNCHANGED <<tables, client, todo, op, told>>
        /\ UNCHANGED <<offers, faults>>

\* The process is dead and has left nothing more to read.
EndOfFile ==
    /\ op # Free /\ ~client[op.server].alive /\ pipe[op.server] = <<>>
    /\ StepEnds(FALSE, None)
    /\ UNCHANGED <<pipe, offers, faults>>

\* Over HTTP an answer belongs to its request; it may fail, or not come in time.
HttpAnswer(ok) ==
    /\ op.server \in Http /\ StepEnds(ok, op.kind)
    /\ IF ok THEN UNCHANGED faults ELSE Fault
    /\ UNCHANGED <<pipe, offers>>

-----------------------------------------------------------------------------
(* The servers' processes.                                                 *)

Answer(s) ==
    /\ client[s].alive /\ todo[s] # <<>>
    /\ pipe' = [pipe EXCEPT ![s] = Append(@, Head(todo[s]))]
    /\ todo' = [todo EXCEPT ![s] = Tail(@)]
    /\ UNCHANGED <<tables, client, offers, op, told, faults>>

\* A notification, or a line that is no JSON.
Noise(s, what) ==
    /\ client[s].alive /\ s \notin Http /\ Fault
    /\ pipe' = [pipe EXCEPT ![s] = Append(@, [id |-> 0, what |-> what])]
    /\ UNCHANGED <<tables, client, todo, offers, op, told>>

Die(s) ==
    /\ client[s].alive /\ s \notin Http /\ Fault
    /\ client' = [client EXCEPT ![s].alive = FALSE] /\ todo' = [todo EXCEPT ![s] = <<>>]
    /\ UNCHANGED <<tables, pipe, offers, op, told>>

ChangeTools(s, tools) ==
    /\ offers[s] # tools /\ Fault /\ offers' = [offers EXCEPT ![s] = tools]
    /\ UNCHANGED <<tables, client, wires, op, told>>

Next ==
    \/ ReadLine \/ EndOfFile \/ \E ok \in BOOLEAN : HttpAnswer(ok)
    \/ \E s \in Servers :
          \/ Register(s) \/ Unregister(s) \/ Answer(s) \/ Die(s)
          \/ \E what \in {"note", "garbage"} : Noise(s, what)
          \/ \E tools \in SUBSET Tools : ChangeTools(s, tools)
    \/ \E c \in Calls, t \in Tools, s \in Servers \cup {None} : CallTool(c, t, s)

Spec == Init /\ [][Next]_vars

-----------------------------------------------------------------------------
(* Properties.                                                             *)

TypeOK ==
    /\ known \subseteq Servers /\ \A s \in Servers : cache[s] \subseteq Tools
    /\ \A t \in Tools : index[t] \in Servers \cup {None}
    /\ \A s \in Http : todo[s] = <<>> /\ pipe[s] = <<>>

\* What a caller is given as the result of its tool is the answer to its own call, however
\* many earlier answers a server still had in its pipe, or an error.
AnswerIsOwn == \A c \in Calls : told[c] \in {None, "error", c}

\* The table never sends a call to a server that is not registered (any more), and a
\* connection that is ready and alive is that of a registered server.
RoutesLead ==
    /\ \A t \in Tools : index[t] \in known \cup {None}
    /\ \A s \in Servers : Connected(s) => s \in known
=============================================================================
