-------------------------- MODULE PMDispatchProofs --------------------------
(***************************************************************************)
(* What holds of a PM for any plan, any threads and any bounds: first of   *)
(* its whole life, then of its first round, until it is stopped or         *)
(* continued.                                                              *)
(***************************************************************************)
EXTENDS PMDispatch, SequenceTheorems, FiniteSetTheorems, TLAPS

\* What thread t is at, and the frames that can wait behind another one.
Cur(t) == IF agenda[t] = <<>> THEN [op |-> "idle"] ELSE Head(agenda[t])
RestOps == {"create", "release", "ready", "timeouts", "count", "items", "reports", "poll"}
Rest == {f \in Frames : f.op \in RestOps}

Shape == \A t \in Threads : \A i \in DOMAIN agenda[t] : i > 1 => agenda[t][i].op \in RestOps

\* While results of before a continuation are processed again, the main thread is alone, and what
\* it does before the next of them concerns other subtasks.
BeforeOps == {"begin", "send", "await", "executing", "receive", "verify", "accept", "failed",
              "elsewhere", "giveup", "release", "items"}
Alone ==
    \A t \in Threads : \A i \in DOMAIN agenda[t] : agenda[t][i].op \in {"resume", "reports"} =>
        /\ t = "main" /\ ~ready
        /\ \A j \in DOMAIN agenda[t] : j < i => agenda[t][j].op \in BeforeOps
        /\ \A u \in Threads \ {"main"} : Cur(u).op \in {"idle", "loop", "giveup"} /\ Len(agenda[u]) <= 1

ExecOps == {"send", "await", "executing", "receive", "verify", "accept", "failed"}
Retained ==
    \A i \in DOMAIN agenda["main"] : agenda["main"][i].op = "reports" =>
        \A q \in agenda["main"][i].todo :
            /\ attempt[q.sub].number = q.number /\ attempt[q.sub].phase = "active"
            /\ attempt[q.sub].received # None
            /\ Cur("main").op \in ExecOps => Cur("main").sub # q.sub

\* An execution is live while it is being sent, on the network or running.
Senders(s) == {t \in Threads : Cur(t).op \in {"send", "executing"} /\ Cur(t).sub = s}
Wired(s)   == {m \in wire : m.sub = s}
Running(s) == {r \in runs : r.sub = s /\ r.status = "running"}
Live(s)    == Senders(s) # {} \/ Wired(s) # {} \/ Running(s) # {}
Over(s, n) == n < attempt[s].number \/ (n = attempt[s].number /\ ~Live(s))

LiveCurrent ==
    \A s \in Subs :
        /\ \A t \in Senders(s) : Cur(t).number = attempt[s].number
        /\ \A m \in Wired(s) : m.number = attempt[s].number
        /\ \A r \in Running(s) : r.number = attempt[s].number
LiveActive ==
    \A s \in Subs : Live(s) => attempt[s].phase = "active" /\ attempt[s].received = None
LiveOnce ==
    \A s \in Subs :
        /\ \A t, u \in Senders(s) : t = u
        /\ Senders(s) # {} => Wired(s) = {} /\ Running(s) = {}
        /\ Wired(s) # {} => Running(s) = {}
Ended ==
    /\ \A t \in Threads : Cur(t).op = "receive" => Over(Cur(t).sub, Cur(t).number)
    /\ \A r \in runs : r.status # "running" => Over(r.sub, r.number)

\* A result under judgement is that of the current execution, and in one thread's hands.
JudgeOps == {"verify", "accept", "failed"}
Judged ==
    /\ \A t \in Threads : Cur(t).op \in JudgeOps =>
          /\ attempt[Cur(t).sub].phase = "processing"
          /\ Cur(t).op # "failed" => attempt[Cur(t).sub].received = "completed"
    /\ \A t, u \in Threads :
          Cur(t).op \in JudgeOps /\ Cur(u).op \in JudgeOps /\ Cur(t).sub = Cur(u).sub => t = u

\* What is taken for the result of a station is what the station reported.
Reported(s, n, status) == [sub |-> s, number |-> n, status |-> status] \in runs
Evidence ==
    /\ \A s \in Subs :
          attempt[s].received # None /\ attempt[s].station \in Stations =>
              Reported(s, attempt[s].number, attempt[s].received)
    /\ \A t \in Threads :
          Cur(t).op = "receive" =>
              (Cur(t).number = attempt[Cur(t).sub].number /\ attempt[Cur(t).sub].station \in Stations =>
                  Reported(Cur(t).sub, Cur(t).number, Cur(t).status))
    /\ \A t \in Threads :
          /\ Cur(t).op = "send" => attempt[Cur(t).sub].station = Cur(t).station
          /\ Cur(t).op = "executing" => attempt[Cur(t).sub].station = Local

Parts == /\ LiveCurrent /\ LiveActive /\ LiveOnce /\ Ended /\ Judged /\ Evidence /\ OutputsGenuine

IInv == TypeOK /\ Shape /\ Alone /\ Retained /\ Parts
-----------------------------------------------------------------------------
(* Frames.                                                                 *)

LEMMA FrameFields ==
    ASSUME NEW f \in Frames
    PROVE  /\ f.op \in {"begin", "elsewhere", "send"} => f.sub \in Subs /\ f.station \in Places
           /\ f.op \in {"send", "await", "executing", "verify", "receive"} => f.sub \in Subs /\ f.number \in Nat
           /\ f.op = "receive" => f.status \in Terminal
           /\ f.op \in {"accept", "failed"} => f.sub \in Subs
           /\ f.op = "giveup" => /\ f.sub \in Subs \cup {"global"}
                                 /\ f.cause \in {"unknown", "exhausted", "timeout", "missing"}
           /\ f.op = "team" => f.todo \in SUBSET Subs
           /\ f.op = "items" => f.todo \in SUBSET [sub : Subs, station : Places]
           /\ f.op \in {"reports", "poll"} => f.todo \in SUBSET Requests
BY DEF Frames

LEMMA PlainFrames ==
    \A o \in {"create", "release", "ready", "resume", "loop", "timeouts", "count", "aggregate",
              "summarise", "prepare", "deliver", "posting"} : [op |-> o] \in Frames
BY DEF Frames

LEMMA TodoFrames ==
    /\ \A T \in SUBSET Subs : [op |-> "team", todo |-> T] \in Frames
    /\ \A T \in SUBSET [sub : Subs, station : Places] : [op |-> "items", todo |-> T] \in Frames
    /\ \A o \in {"reports", "poll"}, T \in SUBSET Requests : [op |-> o, todo |-> T] \in Frames
BY DEF Frames

LEMMA WorkFrames ==
    ASSUME NEW s \in Subs, NEW w \in Places, NEW n \in Nat, NEW a \in Terminal
    PROVE  /\ [op |-> "begin", sub |-> s, station |-> w] \in Frames
           /\ [op |-> "elsewhere", sub |-> s, station |-> w] \in Frames
           /\ [op |-> "send", sub |-> s, number |-> n, station |-> w] \in Frames
           /\ [op |-> "await", sub |-> s, number |-> n] \in Frames
           /\ [op |-> "executing", sub |-> s, number |-> n] \in Frames
           /\ [op |-> "verify", sub |-> s, number |-> n] \in Frames
           /\ [op |-> "receive", sub |-> s, number |-> n, status |-> a] \in Frames
           /\ [op |-> "accept", sub |-> s] \in Frames
           /\ [op |-> "failed", sub |-> s] \in Frames
BY DEF Frames

LEMMA GiveUpFrames ==
    \A s \in Subs \cup {"global"}, c \in {"unknown", "exhausted", "timeout", "missing"} :
        [op |-> "giveup", sub |-> s, cause |-> c] \in Frames
BY DEF Frames

LEMMA Remaining ==
    ASSUME NEW f \in Frames, NEW T, f.op \in {"team", "items", "reports", "poll"}
    PROVE  [f EXCEPT !.todo = T] = [op |-> f.op, todo |-> T]
BY DEF Frames

-----------------------------------------------------------------------------
(* A thread goes on: its frame is replaced, the others keep theirs.        *)

Agendas == agenda \in [Threads -> Seq(Frames)]

LEMMA FrameReplaced ==
    ASSUME NEW S, NEW q \in Seq(S), q # <<>>, NEW F \in Seq(S)
    PROVE  /\ F \o Tail(q) \in Seq(S)
           /\ Len(F) \in Nat /\ Len(q) \in Nat \ {0}
           /\ Len(F \o Tail(q)) = Len(F) + Len(q) - 1
           /\ \A i \in 1..Len(F) : (F \o Tail(q))[i] = F[i]
           /\ \A i \in 2..Len(q) : (F \o Tail(q))[i + Len(F) - 1] = q[i]
<1>1. Tail(q) \in Seq(S) /\ Len(Tail(q)) = Len(q) - 1 /\ \A i \in 1..Len(Tail(q)) : Tail(q)[i] = q[i + 1]
  BY HeadTailProperties
<1>2. Len(F) \in Nat /\ Len(q) \in Nat \ {0}
  BY LenProperties, EmptySeq
<1>3. /\ F \o Tail(q) \in Seq(S) /\ Len(F \o Tail(q)) = Len(F) + Len(Tail(q))
      /\ \A i \in 1..Len(F) + Len(Tail(q)) :
            (F \o Tail(q))[i] = IF i <= Len(F) THEN F[i] ELSE Tail(q)[i - Len(F)]
  BY <1>1, ConcatProperties
<1>4. \A i \in 1..Len(F) : (F \o Tail(q))[i] = F[i]
  BY <1>1, <1>2, <1>3
<1>5. ASSUME NEW i \in 2..Len(q)
      PROVE  (F \o Tail(q))[i + Len(F) - 1] = q[i]
  <2>1. i + Len(F) - 1 \in 1..Len(F) + Len(Tail(q)) /\ ~(i + Len(F) - 1 <= Len(F))
    BY <1>1, <1>2, <1>5
  <2>2. (F \o Tail(q))[i + Len(F) - 1] = Tail(q)[i + Len(F) - 1 - Len(F)]
    BY <1>3, <2>1
  <2>3. i + Len(F) - 1 - Len(F) = i - 1 /\ i - 1 \in 1..Len(Tail(q)) /\ i - 1 + 1 = i
    BY <1>1, <1>2, <1>5
  <2> QED
    BY <1>1, <2>2, <2>3
<1> QED
  BY <1>1, <1>2, <1>3, <1>4, <1>5

\* The effect of Then, by positions.
Moved(t, F) ==
    /\ Agendas'
    /\ \A u \in Threads \ {t} : agenda'[u] = agenda[u]
    /\ Len(F) \in Nat /\ Len(agenda[t]) \in Nat \ {0}
    /\ Len(agenda'[t]) = Len(F) + Len(agenda[t]) - 1
    /\ \A i \in 1..Len(F) : agenda'[t][i] = F[i]
    /\ \A i \in 2..Len(agenda[t]) : agenda'[t][i + Len(F) - 1] = agenda[t][i]

LEMMA ThenMoves ==
    ASSUME Agendas, NEW t \in Threads, agenda[t] # <<>>, NEW F \in Seq(Frames), Then(t, F)
    PROVE  Moved(t, F)
<1>1. agenda[t] \in Seq(Frames)
  BY DEF Agendas
<1>2. agenda' = [agenda EXCEPT ![t] = F \o Tail(agenda[t])]
  BY DEF Then
<1>3. F \o Tail(agenda[t]) \in Seq(Frames)
  BY <1>1, FrameReplaced
<1>4. agenda'[t] = F \o Tail(agenda[t]) /\ \A u \in Threads \ {t} : agenda'[u] = agenda[u]
  BY <1>2 DEF Agendas
<1>5. Agendas'
  BY <1>2, <1>3 DEF Agendas
<1> QED
  BY <1>1, <1>4, <1>5, FrameReplaced DEF Moved

\* Where the frames are.
LEMMA PlacesOf ==
    ASSUME NEW q \in Seq(Frames)
    PROVE  /\ Len(q) \in Nat /\ DOMAIN q = 1..Len(q)
           /\ \A i \in DOMAIN q : q[i] \in Frames
           /\ q # <<>> => 1 \in DOMAIN q /\ Head(q) = q[1]
           /\ 1 \in DOMAIN q => q # <<>>
<1>1. Len(q) \in Nat /\ DOMAIN q = 1..Len(q) /\ q \in [1..Len(q) -> Frames]
  BY LenProperties
<1>2. q # <<>> => Len(q) \in Nat \ {0}
  BY EmptySeq
<1>3. Head(q) = q[1]
  OBVIOUS
<1>4. q = <<>> => Len(q) = 0
  BY EmptySeq
<1> QED
  BY <1>1, <1>2, <1>3, <1>4

LEMMA FramePlaces == Agendas =>
    \A t \in Threads : /\ Len(agenda[t]) \in Nat /\ DOMAIN agenda[t] = 1..Len(agenda[t])
                       /\ \A i \in DOMAIN agenda[t] : agenda[t][i] \in Frames
                       /\ agenda[t] # <<>> => 1 \in DOMAIN agenda[t] /\ Head(agenda[t]) = agenda[t][1]
                       /\ 1 \in DOMAIN agenda[t] => agenda[t] # <<>>
BY PlacesOf DEF Agendas

LEMMA FramePlacesNext == Agendas' =>
    \A t \in Threads : /\ Len(agenda'[t]) \in Nat /\ DOMAIN agenda'[t] = 1..Len(agenda'[t])
                       /\ \A i \in DOMAIN agenda'[t] : agenda'[t][i] \in Frames
                       /\ agenda'[t] # <<>> => 1 \in DOMAIN agenda'[t] /\ Head(agenda'[t]) = agenda'[t][1]
                       /\ 1 \in DOMAIN agenda'[t] => agenda'[t] # <<>>
BY PlacesOf DEF Agendas

Resting(t) == Cur(t).op \in RestOps \cup {"idle"}

\* What the others are at stays, and what was behind a frame is taken up.
LEMMA MovedCur ==
    ASSUME Agendas, Shape, NEW t \in Threads, agenda[t] # <<>>, NEW F \in Seq(Frames), Moved(t, F),
           \A i \in 1..Len(F) : i > 1 => F[i].op \in RestOps
    PROVE  /\ Shape'
           /\ \A u \in Threads \ {t} : Cur(u)' = Cur(u)
           /\ Len(F) > 0 => Cur(t)' = F[1]
           /\ Len(F) = 0 => Resting(t)'
<1>1. /\ Agendas' /\ Len(F) \in Nat /\ Len(agenda[t]) \in Nat \ {0}
      /\ \A u \in Threads \ {t} : agenda'[u] = agenda[u]
      /\ Len(agenda'[t]) = Len(F) + Len(agenda[t]) - 1
      /\ \A i \in 1..Len(F) : agenda'[t][i] = F[i]
      /\ \A i \in 2..Len(agenda[t]) : agenda'[t][i + Len(F) - 1] = agenda[t][i]
  BY DEF Moved
<1>2. /\ DOMAIN agenda[t] = 1..Len(agenda[t]) /\ DOMAIN agenda'[t] = 1..Len(agenda'[t])
      /\ agenda'[t] # <<>> => Head(agenda'[t]) = agenda'[t][1]
      /\ 1 \in DOMAIN agenda'[t] => agenda'[t] # <<>>
      /\ agenda'[t] # <<>> => 1 \in DOMAIN agenda'[t]
  BY <1>1, FramePlaces, FramePlacesNext
<1>3. ASSUME NEW i \in DOMAIN agenda'[t], i > Len(F)
      PROVE  i - Len(F) + 1 \in 2..Len(agenda[t]) /\ agenda'[t][i] = agenda[t][i - Len(F) + 1]
  <2> DEFINE j == i - Len(F) + 1
  <2>1. j \in 2..Len(agenda[t]) /\ j + Len(F) - 1 = i
    BY <1>1, <1>2, <1>3
  <2> QED
    BY <1>1, <2>1
<1>4. Shape'
  <2> SUFFICES ASSUME NEW u \in Threads, NEW i \in DOMAIN agenda'[u], i > 1
               PROVE  agenda'[u][i].op \in RestOps
    BY DEF Shape
  <2>1. CASE u # t
    BY <1>1, <2>1 DEF Shape
  <2>2. CASE u = t /\ i <= Len(F)
    <3>1. i \in 1..Len(F) /\ i > 1
      BY <1>1, <1>2, <2>2
    <3> QED
      BY <1>1, <2>2, <3>1
  <2>3. CASE u = t /\ i > Len(F)
    <3>1. i - Len(F) + 1 \in 2..Len(agenda[t]) /\ agenda'[t][i] = agenda[t][i - Len(F) + 1]
      BY <1>3, <2>3
    <3>2. i - Len(F) + 1 \in DOMAIN agenda[t] /\ i - Len(F) + 1 > 1
      BY <1>1, <1>2, <3>1
    <3> QED
      BY <2>3, <3>1, <3>2 DEF Shape
  <2> QED
    BY <1>1, <1>2, <2>1, <2>2, <2>3
<1>5. \A u \in Threads \ {t} : Cur(u)' = Cur(u)
  BY <1>1 DEF Cur
<1>6. Len(F) > 0 => Cur(t)' = F[1]
  <2> SUFFICES ASSUME Len(F) > 0 PROVE Cur(t)' = F[1]
    OBVIOUS
  <2>1. 1 \in 1..Len(F) /\ 1 \in DOMAIN agenda'[t]
    BY <1>1, <1>2
  <2> QED
    BY <1>1, <1>2, <2>1 DEF Cur
<1>7. Len(F) = 0 => Resting(t)'
  <2> SUFFICES ASSUME Len(F) = 0, agenda'[t] # <<>> PROVE Cur(t)'.op \in RestOps
    BY DEF Resting, Cur
  <2>1. 1 \in DOMAIN agenda'[t] /\ 1 > Len(F) /\ 1 - Len(F) + 1 = 2
    BY <1>1, <1>2
  <2>2. 2 \in 2..Len(agenda[t]) /\ agenda'[t][1] = agenda[t][2]
    BY <1>3, <2>1
  <2>3. 2 \in DOMAIN agenda[t] /\ 2 > 1
    BY <1>1, <1>2, <2>2
  <2> QED
    BY <1>2, <2>2, <2>3 DEF Cur, Shape
<1> QED
  BY <1>4, <1>5, <1>6, <1>7

\* The forms the actions take.
LEMMA Turned0 ==
    ASSUME Agendas, Shape, NEW t \in Threads, agenda[t] # <<>>, Return(t)
    PROVE  /\ Agendas' /\ Shape' /\ Moved(t, <<>>)
           /\ \A u \in Threads \ {t} : Cur(u)' = Cur(u)
           /\ Resting(t)'
<1>1. <<>> \in Seq(Frames) /\ Len(<<>>) = 0
  BY EmptySeq
<1>2. Moved(t, <<>>)
  BY <1>1, ThenMoves DEF Return
<1>3. Agendas'
  BY <1>2 DEF Moved
<1>4. Len(<<>>) = 0 /\ \A i \in 1..Len(<<>>) : i > 1 => <<>>[i].op \in RestOps
  BY <1>1
<1> QED
  BY <1>1, <1>2, <1>3, <1>4, MovedCur

LEMMA Turned1 ==
    ASSUME Agendas, Shape, NEW t \in Threads, agenda[t] # <<>>, NEW f \in Frames, Then(t, <<f>>)
    PROVE  /\ Agendas' /\ Shape' /\ Moved(t, <<f>>)
           /\ \A u \in Threads \ {t} : Cur(u)' = Cur(u)
           /\ Cur(t)' = f
<1>1. <<f>> \in Seq(Frames) /\ Len(<<f>>) = 1 /\ <<f>>[1] = f
  OBVIOUS
<1>2. Moved(t, <<f>>)
  BY <1>1, ThenMoves
<1>3. \A i \in 1..Len(<<f>>) : i > 1 => <<f>>[i].op \in RestOps
  BY <1>1
<1>4. Agendas'
  BY <1>2 DEF Moved
<1>5. Len(<<f>>) > 0
  BY <1>1
<1>6. /\ Shape' /\ \A u \in Threads \ {t} : Cur(u)' = Cur(u)
      /\ Cur(t)' = <<f>>[1]
  BY <1>1, <1>2, <1>3, <1>5, MovedCur
<1> QED
  BY <1>1, <1>2, <1>4, <1>6

LEMMA Turned2 ==
    ASSUME Agendas, Shape, NEW t \in Threads, agenda[t] # <<>>, NEW f \in Frames, NEW g \in Frames,
           g.op \in RestOps, Then(t, <<f, g>>)
    PROVE  /\ Agendas' /\ Shape' /\ Moved(t, <<f, g>>)
           /\ \A u \in Threads \ {t} : Cur(u)' = Cur(u)
           /\ Cur(t)' = f
<1>1. <<f, g>> \in Seq(Frames) /\ Len(<<f, g>>) = 2 /\ <<f, g>>[1] = f /\ <<f, g>>[2] = g
  OBVIOUS
<1>2. Moved(t, <<f, g>>)
  BY <1>1, ThenMoves
<1>3. \A i \in 1..Len(<<f, g>>) : i > 1 => <<f, g>>[i].op \in RestOps
  BY <1>1
<1>4. Agendas'
  BY <1>2 DEF Moved
<1>5. Len(<<f, g>>) > 0
  BY <1>1
<1>6. /\ Shape' /\ \A u \in Threads \ {t} : Cur(u)' = Cur(u)
      /\ Cur(t)' = <<f, g>>[1]
  BY <1>1, <1>2, <1>3, <1>5, MovedCur
<1> QED
  BY <1>1, <1>2, <1>4, <1>6

LEMMA Turned3 ==
    ASSUME Agendas, Shape, NEW t \in Threads, agenda[t] # <<>>,
           NEW f \in Frames, NEW g \in Frames, NEW h \in Frames,
           g.op \in RestOps, h.op \in RestOps, Then(t, <<f, g, h>>)
    PROVE  /\ Agendas' /\ Shape' /\ Moved(t, <<f, g, h>>)
           /\ \A u \in Threads \ {t} : Cur(u)' = Cur(u)
           /\ Cur(t)' = f
<1>1. /\ <<f, g, h>> \in Seq(Frames) /\ Len(<<f, g, h>>) = 3
      /\ <<f, g, h>>[1] = f /\ <<f, g, h>>[2] = g /\ <<f, g, h>>[3] = h
  OBVIOUS
<1>2. Moved(t, <<f, g, h>>)
  BY <1>1, ThenMoves
<1>3. \A i \in 1..Len(<<f, g, h>>) : i > 1 => <<f, g, h>>[i].op \in RestOps
  BY <1>1
<1>4. Agendas'
  BY <1>2 DEF Moved
<1>5. Len(<<f, g, h>>) > 0
  BY <1>1
<1>6. /\ Shape' /\ \A u \in Threads \ {t} : Cur(u)' = Cur(u)
      /\ Cur(t)' = <<f, g, h>>[1]
  BY <1>1, <1>2, <1>3, <1>5, MovedCur
<1> QED
  BY <1>1, <1>2, <1>4, <1>6

\* A frame of the new agenda is one of those put in front, or an old one that was behind.
LEMMA MovedFrom ==
    ASSUME Agendas, NEW t \in Threads, agenda[t] # <<>>, NEW F, Moved(t, F), NEW i \in DOMAIN agenda'[t]
    PROVE  \/ i \in 1..Len(F) /\ agenda'[t][i] = F[i]
           \/ /\ i > Len(F) /\ i - Len(F) + 1 \in DOMAIN agenda[t] /\ i - Len(F) + 1 > 1
              /\ agenda'[t][i] = agenda[t][i - Len(F) + 1]
<1>1. /\ Agendas' /\ Len(F) \in Nat /\ Len(agenda[t]) \in Nat \ {0}
      /\ Len(agenda'[t]) = Len(F) + Len(agenda[t]) - 1
      /\ \A j \in 1..Len(F) : agenda'[t][j] = F[j]
      /\ \A j \in 2..Len(agenda[t]) : agenda'[t][j + Len(F) - 1] = agenda[t][j]
  BY DEF Moved
<1>2. DOMAIN agenda[t] = 1..Len(agenda[t])
  BY FramePlaces
<1>3. DOMAIN agenda'[t] = 1..Len(agenda'[t])
  BY <1>1, FramePlacesNext
<1>4. CASE i <= Len(F)
  <2>1. i \in 1..Len(F)
    BY <1>1, <1>3, <1>4
  <2> QED
    BY <1>1, <2>1
<1>5. CASE ~(i <= Len(F))
  <2> DEFINE j == i - Len(F) + 1
  <2>1. i \in 1..Len(F) + Len(agenda[t]) - 1
    BY <1>1, <1>3
  <2>2. j \in 2..Len(agenda[t]) /\ j + Len(F) - 1 = i /\ i > Len(F)
    BY <1>1, <1>5, <2>1
  <2>3. agenda'[t][i] = agenda[t][j]
    BY <1>1, <2>2
  <2>4. j \in DOMAIN agenda[t] /\ j > 1
    BY <1>1, <1>2, <2>2
  <2> QED
    BY <2>2, <2>3, <2>4
<1> QED
  BY <1>4, <1>5

\* The steps of one thread that neither begin nor end the processing of retained results.
AsideOps == {"resume", "reports"}

LEMMA OneOnly == \A n \in Nat : n # 0 /\ n <= 1 => n = 1 /\ n > 0
OBVIOUS

Aside(t, F) ==
    /\ Moved(t, F)
    /\ \A i \in 1..Len(F) : i > 1 => F[i].op \in RestOps
    /\ \A i \in 1..Len(F) : F[i].op \notin AsideOps
    /\ Cur(t).op \in BeforeOps => \A i \in 1..Len(F) : F[i].op \in BeforeOps
    /\ Cur(t).op \in {"loop", "giveup"} /\ ~ready => Len(F) <= 1
    /\ Cur(t).op \in {"loop", "giveup"} /\ ~ready => (Len(F) = 1 => F[1].op = "giveup")
    /\ ready' = ready \/ Cur(t).op = "ready"

LEMMA AloneKept ==
    ASSUME Agendas, Shape, Alone, NEW t \in Threads, agenda[t] # <<>>, NEW F \in Seq(Frames), Aside(t, F)
    PROVE  Alone'
<1>00. Moved(t, F) /\ \A i \in 1..Len(F) : i > 1 => F[i].op \in RestOps
  BY DEF Aside
<1>0. /\ \A u \in Threads \ {t} : agenda'[u] = agenda[u]
      /\ Len(F) \in Nat /\ Len(agenda[t]) \in Nat \ {0}
      /\ Len(agenda'[t]) = Len(F) + Len(agenda[t]) - 1
  BY <1>00 DEF Moved
<1>1. /\ \A u \in Threads \ {t} : Cur(u)' = Cur(u)
      /\ Len(F) > 0 => Cur(t)' = F[1]
  BY <1>00, MovedCur
<1>2. 1 \in DOMAIN agenda[t] /\ Cur(t) = agenda[t][1]
  BY FramePlaces DEF Cur
<1> SUFFICES ASSUME NEW u \in Threads, NEW i \in DOMAIN agenda'[u], agenda'[u][i].op \in AsideOps
             PROVE  /\ u = "main" /\ ~ready'
                    /\ \A j \in DOMAIN agenda'[u] : j < i => agenda'[u][j].op \in BeforeOps
                    /\ \A v \in Threads \ {"main"} :
                          Cur(v)'.op \in {"idle", "loop", "giveup"} /\ Len(agenda'[v]) <= 1
  BY DEF Alone, AsideOps
<1>3. CASE u # t
  <2>1. i \in DOMAIN agenda[u] /\ agenda[u][i].op \in {"resume", "reports"} /\ agenda'[u] = agenda[u]
    BY <1>0, <1>3 DEF AsideOps
  <2>2. /\ u = "main" /\ ~ready
        /\ \A j \in DOMAIN agenda[u] : j < i => agenda[u][j].op \in BeforeOps
        /\ \A v \in Threads \ {"main"} : Cur(v).op \in {"idle", "loop", "giveup"} /\ Len(agenda[v]) <= 1
    BY <2>1 DEF Alone
  <2>3. Cur(t).op \in {"loop", "giveup"} /\ Len(agenda[t]) = 1
    <3>1. Cur(t).op \in {"idle", "loop", "giveup"} /\ Len(agenda[t]) <= 1
      BY <1>3, <2>2
    <3>2. Cur(t).op # "idle"
      <4>1. agenda[t][1] \in Frames
        BY <1>2, FramePlaces
      <4>2. \A f \in Frames : f.op # "idle"
        BY DEF Frames
      <4> QED
        BY <1>2, <4>1, <4>2
    <3>3. Len(agenda[t]) = 1
      <4>1. Len(agenda[t]) <= 1
        BY <3>1
      <4>2. Len(agenda[t]) \in Nat /\ Len(agenda[t]) # 0
        BY <1>0
      <4> QED
        BY <4>1, <4>2, OneOnly
    <3> QED
      BY <3>1, <3>2, <3>3
  <2>4. ~ready'
    BY <2>2, <2>3 DEF Aside
  <2>5. Len(F) <= 1 /\ (Len(F) = 1 => F[1].op = "giveup")
    BY <2>2, <2>3 DEF Aside
  <2>6. Len(agenda'[t]) <= 1
    BY <1>0, <2>3, <2>5
  <2>7. Cur(t)'.op \in {"idle", "giveup"}
    <3>1. CASE Len(F) = 0
      <4>1. Len(agenda'[t]) = 0
        BY <1>0, <2>3, <3>1
      <4>2. agenda'[t] = <<>>
        <5>1. agenda'[t] \in Seq(Frames)
          BY <1>00 DEF Moved, Agendas
        <5> QED
          BY <4>1, <5>1, EmptySeq
      <4> QED
        BY <4>2 DEF Cur
    <3>2. CASE Len(F) # 0
      <4>1. Len(F) = 1 /\ Len(F) > 0
        <5>1. Len(F) <= 1
          BY <2>5
        <5>2. Len(F) \in Nat
          BY <1>0
        <5> QED
          BY <3>2, <5>1, <5>2, OneOnly
      <4> QED
        BY <1>1, <2>5, <4>1
    <3> QED
      BY <3>1, <3>2
  <2>8. \A v \in Threads \ {"main"} : Cur(v)'.op \in {"idle", "loop", "giveup"} /\ Len(agenda'[v]) <= 1
    <3> SUFFICES ASSUME NEW v \in Threads \ {"main"}
                 PROVE  Cur(v)'.op \in {"idle", "loop", "giveup"} /\ Len(agenda'[v]) <= 1
      OBVIOUS
    <3>1. CASE v = t
      BY <2>6, <2>7, <3>1
    <3>2. CASE v # t
      BY <1>0, <1>1, <2>2, <3>2
    <3> QED
      BY <3>1, <3>2
  <2> QED
    BY <2>1, <2>2, <2>4, <2>8
<1>4. CASE u = t
  <2> DEFINE k == i - Len(F) + 1
  <2>1. i > Len(F) /\ k \in DOMAIN agenda[t] /\ k > 1 /\ agenda'[t][i] = agenda[t][k]
    <3>1. \A j \in 1..Len(F) : F[j].op \notin AsideOps
      BY DEF Aside
    <3> QED
      BY <1>00, <1>4, <3>1, MovedFrom
  <2>2. /\ t = "main" /\ ~ready
        /\ \A j \in DOMAIN agenda[t] : j < k => agenda[t][j].op \in BeforeOps
        /\ \A v \in Threads \ {"main"} : Cur(v).op \in {"idle", "loop", "giveup"} /\ Len(agenda[v]) <= 1
    <3>1. agenda[t][k].op \in {"resume", "reports"}
      BY <1>4, <2>1 DEF AsideOps
    <3> HIDE DEF k
    <3> QED
      BY <2>1, <3>1 DEF Alone
  <2>3. Cur(t).op \in BeforeOps
    BY <1>2, <2>1, <2>2
  <2>4. ~ready'
    BY <2>2, <2>3 DEF BeforeOps, Aside
  <2>5. ASSUME NEW j \in DOMAIN agenda'[t], j < i
        PROVE  agenda'[t][j].op \in BeforeOps
    <3>1. CASE j \in 1..Len(F) /\ agenda'[t][j] = F[j]
      BY <2>3, <3>1 DEF Aside
    <3>2. CASE /\ j > Len(F) /\ j - Len(F) + 1 \in DOMAIN agenda[t] /\ j - Len(F) + 1 > 1
               /\ agenda'[t][j] = agenda[t][j - Len(F) + 1]
      <4>1. i \in Int /\ j \in Int
        BY <1>00, <1>4, <2>5, FramePlacesNext DEF Moved
      <4>2. j - Len(F) + 1 < k
        BY <1>0, <2>5, <4>1
      <4> QED
        BY <2>2, <3>2, <4>2
    <3> QED
      BY <1>00, <2>5, <3>1, <3>2, MovedFrom
  <2>6. \A v \in Threads \ {"main"} : Cur(v)' = Cur(v) /\ agenda'[v] = agenda[v]
    BY <1>0, <1>1, <2>2
  <2> QED
    BY <1>4, <2>2, <2>4, <2>5, <2>6
<1> QED
  BY <1>3, <1>4

\* Other subtasks' executions are left alone, and so are those of other threads' frames.
Spares(t, F) ==
    /\ \A s \in Subs : \/ attempt'[s] = attempt[s]
                       \/ attempt[s].phase # "active"
                       \/ Cur(t).op \in ExecOps /\ Cur(t).sub = s
    /\ Len(F) > 0 /\ F[1].op \in ExecOps =>
          \/ Cur(t).op \in ExecOps /\ Cur(t).sub = F[1].sub
          \/ attempt[F[1].sub].phase # "active"
          \/ Cur(t).op = "poll"

LEMMA RetainedKept ==
    ASSUME Agendas, Shape, Alone, Retained, NEW t \in Threads, agenda[t] # <<>>, NEW F \in Seq(Frames),
           Aside(t, F), Spares(t, F)
    PROVE  Retained'
<1>00. Moved(t, F) /\ \A i \in 1..Len(F) : i > 1 => F[i].op \in RestOps
  BY DEF Aside
<1>0. /\ \A u \in Threads \ {t} : agenda'[u] = agenda[u]
      /\ Len(F) \in Nat /\ Len(agenda[t]) \in Nat \ {0}
  BY <1>00 DEF Moved
<1>1. /\ \A u \in Threads \ {t} : Cur(u)' = Cur(u)
      /\ Len(F) > 0 => Cur(t)' = F[1]
      /\ Len(F) = 0 => Resting(t)'
  BY <1>00, MovedCur
<1>2. 1 \in DOMAIN agenda[t] /\ Cur(t) = agenda[t][1] /\ "main" \in Threads
  BY FramePlaces DEF Cur, Threads
<1> SUFFICES ASSUME NEW i \in DOMAIN agenda'["main"], agenda'["main"][i].op = "reports",
                    NEW q \in agenda'["main"][i].todo
             PROVE  /\ attempt'[q.sub].number = q.number /\ attempt'[q.sub].phase = "active"
                    /\ attempt'[q.sub].received # None
                    /\ Cur("main")'.op \in ExecOps => Cur("main")'.sub # q.sub
  BY DEF Retained
<1>3. q.sub \in Subs
  <2>1. Agendas'
    BY <1>00 DEF Moved
  <2>2. agenda'["main"][i] \in Frames
    BY <1>2, <2>1, FramePlacesNext
  <2>3. agenda'["main"][i].todo \in SUBSET Requests
    BY <2>2, FrameFields
  <2> QED
    BY <2>3 DEF Requests
<1>4. CASE t # "main"
  <2>1. agenda'["main"] = agenda["main"] /\ Cur("main")' = Cur("main")
    BY <1>0, <1>1, <1>2, <1>4
  <2>2. /\ attempt[q.sub].number = q.number /\ attempt[q.sub].phase = "active"
        /\ attempt[q.sub].received # None
        /\ Cur("main").op \in ExecOps => Cur("main").sub # q.sub
    BY <2>1 DEF Retained
  <2>3. Cur(t).op \in {"idle", "loop", "giveup"}
    BY <1>2, <1>4, <2>1 DEF Alone
  <2>4. attempt'[q.sub] = attempt[q.sub]
    BY <1>3, <2>2, <2>3 DEF Spares, ExecOps
  <2> QED
    BY <2>1, <2>2, <2>4
<1>5. CASE t = "main"
  <2> DEFINE k == i - Len(F) + 1
  <2>1. k \in DOMAIN agenda[t] /\ k > 1 /\ agenda'[t][i] = agenda[t][k]
    <3>1. \A j \in 1..Len(F) : F[j].op # "reports"
      BY DEF Aside, AsideOps
    <3> QED
      BY <1>00, <1>5, <3>1, MovedFrom
  <2> HIDE DEF k
  <2>2. agenda["main"][k].op = "reports" /\ q \in agenda["main"][k].todo
    BY <1>5, <2>1
  <2>3. /\ attempt[q.sub].number = q.number /\ attempt[q.sub].phase = "active"
        /\ attempt[q.sub].received # None
        /\ Cur("main").op \in ExecOps => Cur("main").sub # q.sub
    BY <1>5, <2>1, <2>2 DEF Retained
  <2>4. Cur("main").op \in BeforeOps
    <3>1. \A j \in DOMAIN agenda["main"] : j < k => agenda["main"][j].op \in BeforeOps
      BY <1>2, <1>5, <2>1, <2>2 DEF Alone
    <3> QED
      BY <1>2, <1>5, <2>1, <3>1
  <2>5. attempt'[q.sub] = attempt[q.sub]
    BY <1>3, <1>5, <2>3 DEF Spares
  <2>6. Cur("main")'.op \in ExecOps => Cur("main")'.sub # q.sub
    <3> SUFFICES ASSUME Cur("main")'.op \in ExecOps PROVE Cur("main")'.sub # q.sub
      OBVIOUS
    <3>1. Len(F) > 0
      <4>1. Len(F) # 0
        BY <1>1, <1>5 DEF Resting, RestOps, ExecOps
      <4> QED
        BY <1>0, <4>1
    <3>2. Cur("main")' = F[1]
      BY <1>1, <1>5, <3>1
    <3> QED
      BY <1>5, <2>3, <2>4, <3>1, <3>2 DEF Spares, BeforeOps
  <2> QED
    BY <2>3, <2>5, <2>6
<1> QED
  BY <1>4, <1>5
-----------------------------------------------------------------------------
(* Executions and their results.                                           *)

WatchOps == {"send", "executing", "receive", "verify", "accept", "failed"}

LEMMA Facts ==
    ASSUME TypeOK
    PROVE  /\ Agendas
           /\ \A t \in Threads : Cur(t) \in Frames \/ Cur(t).op = "idle"
           /\ \A t \in Threads : Cur(t).op \in WatchOps => Cur(t).sub \in Subs
           /\ \A t \in Threads : Cur(t).op \in {"send", "executing", "receive"} => Cur(t).number \in Nat
           /\ \A s \in Subs : attempt[s].number \in Nat
           /\ \A m \in wire : m.sub \in Subs /\ m.number \in Nat
           /\ \A r \in runs : r.sub \in Subs /\ r.number \in Nat
<1>1. Agendas
  BY DEF TypeOK, Agendas
<1>2. \A t \in Threads : Cur(t) \in Frames \/ Cur(t).op = "idle"
  BY <1>1, FramePlaces DEF Cur
<1>3. \A t \in Threads : /\ Cur(t).op \in WatchOps => Cur(t).sub \in Subs
                         /\ Cur(t).op \in {"send", "executing", "receive"} => Cur(t).number \in Nat
  <2> TAKE t \in Threads
  <2>1. CASE Cur(t).op = "idle"
    BY <2>1 DEF WatchOps
  <2>2. CASE Cur(t) \in Frames
    BY <2>2, FrameFields DEF WatchOps
  <2> QED
    BY <1>2, <2>1, <2>2
<1>4. \A s \in Subs : attempt[s].number \in Nat
  BY DEF TypeOK
<1>5. \A m \in wire : m.sub \in Subs /\ m.number \in Nat
  BY DEF TypeOK, Requests
<1>6. \A r \in runs : r.sub \in Subs /\ r.number \in Nat
  BY DEF TypeOK
<1> QED
  BY <1>1, <1>2, <1>3, <1>4, <1>5, <1>6

\* Fewer things are live when no one begins to send.
LEMMA LiveShrinks ==
    ASSUME \A u \in Threads : Cur(u)' = Cur(u) \/ Cur(u)'.op \notin {"send", "executing"},
           wire' \subseteq wire, {r \in runs' : r.status = "running"} \subseteq runs
    PROVE  \A s : /\ Senders(s)' \subseteq Senders(s) /\ Wired(s)' \subseteq Wired(s)
                  /\ Running(s)' \subseteq Running(s) /\ (Live(s)' => Live(s))
                  /\ \A u \in Senders(s)' : Cur(u)' = Cur(u)
BY DEF Senders, Wired, Running, Live

\* The steps that do not touch executions.
LEMMA QuietlyKept ==
    ASSUME TypeOK, Parts, outputs' \subseteq outputs, attempt' = attempt, wire' = wire, runs' = runs,
           \A u \in Threads : Cur(u)' = Cur(u) \/ Cur(u)'.op \notin WatchOps
    PROVE  Parts'
<1>1. \A s : /\ Senders(s)' \subseteq Senders(s) /\ Wired(s)' \subseteq Wired(s)
             /\ Running(s)' \subseteq Running(s) /\ (Live(s)' => Live(s))
             /\ \A u \in Senders(s)' : Cur(u)' = Cur(u)
  BY LiveShrinks DEF WatchOps
<1>2. \A s, n : Over(s, n) => Over(s, n)'
  BY <1>1 DEF Over
<1>3. LiveCurrent'
  BY <1>1 DEF Parts, LiveCurrent
<1>4. LiveActive'
  BY <1>1 DEF Parts, LiveActive
<1>5. LiveOnce'
  BY <1>1 DEF Parts, LiveOnce
<1>6. Ended'
  BY <1>2 DEF Parts, Ended, WatchOps
<1>7. Judged'
  BY DEF Parts, Judged, WatchOps, JudgeOps
<1>8. Evidence'
  BY DEF Parts, Evidence, WatchOps, Reported
<1>9. OutputsGenuine'
  BY DEF Parts, OutputsGenuine
<1> QED
  BY <1>3, <1>4, <1>5, <1>6, <1>7, <1>8, <1>9 DEF Parts

\* A final answer reaches a thread.
LEMMA AnswerKept ==
    ASSUME TypeOK, Parts, outputs' = outputs, attempt' = attempt, wire' = wire, runs' = runs,
           NEW t \in Threads, \A u \in Threads \ {t} : Cur(u)' = Cur(u),
           NEW f \in Frames, Cur(t)' = f, f.op = "receive", Over(f.sub, f.number)',
           f.number = attempt[f.sub].number /\ attempt[f.sub].station \in Stations =>
               Reported(f.sub, f.number, f.status)
    PROVE  Parts'
<1>1. \A s : /\ Senders(s)' \subseteq Senders(s) /\ Wired(s)' \subseteq Wired(s)
             /\ Running(s)' \subseteq Running(s) /\ (Live(s)' => Live(s))
             /\ \A u \in Senders(s)' : Cur(u)' = Cur(u)
  BY LiveShrinks
<1>2. \A s, n : Over(s, n) => Over(s, n)'
  BY <1>1 DEF Over
<1>3. LiveCurrent'
  BY <1>1 DEF Parts, LiveCurrent
<1>4. LiveActive'
  BY <1>1 DEF Parts, LiveActive
<1>5. LiveOnce'
  BY <1>1 DEF Parts, LiveOnce
<1>6. Ended'
  <2>1. \A u \in Threads : (Cur(u).op = "receive" => Over(Cur(u).sub, Cur(u).number))'
    <3> SUFFICES ASSUME NEW u \in Threads PROVE (Cur(u).op = "receive" => Over(Cur(u).sub, Cur(u).number))'
      OBVIOUS
    <3>1. CASE u = t
      BY <3>1
    <3>2. CASE u # t
      BY <1>2, <3>2 DEF Parts, Ended
    <3> QED
      BY <3>1, <3>2
  <2>2. \A r \in runs' : r.status # "running" => Over(r.sub, r.number)'
    BY <1>2 DEF Parts, Ended
  <2> QED
    BY <2>1, <2>2 DEF Ended
<1>7. Judged'
  BY DEF Parts, Judged, JudgeOps
<1>8. Evidence'
  BY DEF Parts, Evidence, Reported
<1>9. OutputsGenuine'
  BY DEF Parts, OutputsGenuine
<1> QED
  BY <1>3, <1>4, <1>5, <1>6, <1>7, <1>8, <1>9 DEF Parts

\* _begin_attempt: nothing of the subtask is live, and no result of it is under judgement.
LEMMA BeginKept ==
    ASSUME TypeOK, Parts, outputs' = outputs, wire' = wire, runs' = runs,
           NEW t \in Threads, \A u \in Threads \ {t} : Cur(u)' = Cur(u), Cur(t).op = "begin",
           NEW s \in Subs, NEW w \in Places, s \notin outputs, ~Underway(s),
           Cur(t)' = [op |-> "send", sub |-> s, number |-> attempt[s].number + 1, station |-> w],
           attempt' = [attempt EXCEPT ![s] =
               [number |-> attempt[s].number + 1, station |-> w, phase |-> "active", received |-> None]]
    PROVE  Parts'
<1> DEFINE n == attempt[s].number + 1
           new == [number |-> n, station |-> w, phase |-> "active", received |-> None]
           frame == [op |-> "send", sub |-> s, number |-> n, station |-> w]
<1>1. /\ attempt'[s] = new /\ \A x \in Subs : x # s => attempt'[x] = attempt[x]
      /\ new.number = n /\ new.station = w /\ new.phase = "active" /\ new.received = None
  BY DEF TypeOK
<1>2. frame.op = "send" /\ frame.sub = s /\ frame.number = n /\ frame.station = w /\ Cur(t)' = frame
  OBVIOUS
<1>3. ~Live(s)
  BY DEF Parts, LiveActive, Underway
<1>4. n \in Nat /\ attempt[s].number \in Nat /\ attempt[s].number < n
  <2>1. attempt[s].number \in Nat
    BY Facts
  <2> QED
    BY <2>1
<1> HIDE DEF n, new, frame
<1>5. \A x \in Subs : x # s => /\ Senders(x)' = Senders(x) /\ Wired(x)' = Wired(x) /\ Running(x)' = Running(x)
                               /\ (Live(x)' <=> Live(x)) /\ \A u \in Senders(x)' : Cur(u)' = Cur(u)
  BY <1>2 DEF Senders, Wired, Running, Live
<1>6. Senders(s)' = {t} /\ Wired(s)' = {} /\ Running(s)' = {}
  BY <1>2, <1>3 DEF Senders, Wired, Running, Live
<1>7. \A x \in Subs, k \in Nat : Over(x, k) => Over(x, k)'
  <2> SUFFICES ASSUME NEW x \in Subs, NEW k \in Nat, Over(x, k) PROVE Over(x, k)'
    OBVIOUS
  <2>1. CASE x = s
    <3>1. k < n
      <4>1. k < attempt[s].number \/ k = attempt[s].number
        BY <2>1 DEF Over
      <4> QED
        BY <1>4, <4>1
    <3> QED
      BY <1>1, <2>1, <3>1 DEF Over
  <2>2. CASE x # s
    BY <1>1, <1>5, <2>2 DEF Over
  <2> QED
    BY <2>1, <2>2
<1>8. LiveCurrent'
  <2> SUFFICES ASSUME NEW x \in Subs
               PROVE  /\ \A u \in Senders(x)' : Cur(u)'.number = attempt'[x].number
                      /\ \A m \in Wired(x)' : m.number = attempt'[x].number
                      /\ \A r \in Running(x)' : r.number = attempt'[x].number
    BY DEF LiveCurrent
  <2>1. CASE x = s
    BY <1>1, <1>2, <1>6, <2>1
  <2>2. CASE x # s
    BY <1>1, <1>5, <2>2 DEF Parts, LiveCurrent
  <2> QED
    BY <2>1, <2>2
<1>9. LiveActive'
  <2> SUFFICES ASSUME NEW x \in Subs, Live(x)'
               PROVE  attempt'[x].phase = "active" /\ attempt'[x].received = None
    BY DEF LiveActive
  <2>1. CASE x = s
    BY <1>1, <2>1
  <2>2. CASE x # s
    BY <1>1, <1>5, <2>2 DEF Parts, LiveActive
  <2> QED
    BY <2>1, <2>2
<1>10. LiveOnce'
  <2> SUFFICES ASSUME NEW x \in Subs
               PROVE  /\ \A u, v \in Senders(x)' : u = v
                      /\ Senders(x)' # {} => Wired(x)' = {} /\ Running(x)' = {}
                      /\ Wired(x)' # {} => Running(x)' = {}
    BY DEF LiveOnce
  <2>1. CASE x = s
    BY <1>6, <2>1
  <2>2. CASE x # s
    BY <1>5, <2>2 DEF Parts, LiveOnce
  <2> QED
    BY <2>1, <2>2
<1>11. Ended'
  <2>1. \A u \in Threads : (Cur(u).op = "receive" => Over(Cur(u).sub, Cur(u).number))'
    <3> SUFFICES ASSUME NEW u \in Threads, (Cur(u).op = "receive")' PROVE Over(Cur(u).sub, Cur(u).number)'
      OBVIOUS
    <3>1. u # t /\ Cur(u)' = Cur(u)
      BY <1>2
    <3>2. Cur(u).sub \in Subs /\ Cur(u).number \in Nat /\ Over(Cur(u).sub, Cur(u).number)
      BY <3>1, Facts DEF Parts, Ended, WatchOps
    <3> QED
      BY <1>7, <3>1, <3>2
  <2>2. \A r \in runs' : r.status # "running" => Over(r.sub, r.number)'
    BY <1>7, Facts DEF Parts, Ended
  <2> QED
    BY <2>1, <2>2 DEF Ended
<1>12. Judged'
  <2>1. \A u \in Threads : Cur(u)'.op \in JudgeOps =>
            u # t /\ Cur(u)' = Cur(u) /\ Cur(u).sub \in Subs /\ Cur(u).sub # s
    <3> SUFFICES ASSUME NEW u \in Threads, Cur(u)'.op \in JudgeOps
                 PROVE  u # t /\ Cur(u)' = Cur(u) /\ Cur(u).sub \in Subs /\ Cur(u).sub # s
      OBVIOUS
    <3>1. u # t /\ Cur(u)' = Cur(u)
      BY <1>2 DEF JudgeOps
    <3>2. Cur(u).sub \in Subs /\ attempt[Cur(u).sub].phase = "processing"
      BY <3>1, Facts DEF Parts, Judged, JudgeOps, WatchOps
    <3> QED
      BY <3>1, <3>2 DEF Underway
  <2> QED
    BY <1>1, <2>1 DEF Parts, Judged
<1>13. Evidence'
  <2>1. \A x \in Subs : attempt'[x].received # None /\ attempt'[x].station \in Stations =>
            [sub |-> x, number |-> attempt'[x].number, status |-> attempt'[x].received] \in runs'
    BY <1>1 DEF Parts, Evidence, Reported
  <2>2. \A u \in Threads : Cur(u)'.op = "receive" =>
            (Cur(u)'.number = attempt'[Cur(u)'.sub].number /\ attempt'[Cur(u)'.sub].station \in Stations =>
                [sub |-> Cur(u)'.sub, number |-> Cur(u)'.number, status |-> Cur(u)'.status] \in runs')
    <3> SUFFICES ASSUME NEW u \in Threads, Cur(u)'.op = "receive",
                        Cur(u)'.number = attempt'[Cur(u)'.sub].number, attempt'[Cur(u)'.sub].station \in Stations
                 PROVE  [sub |-> Cur(u)'.sub, number |-> Cur(u)'.number, status |-> Cur(u)'.status] \in runs'
      OBVIOUS
    <3>1. u # t /\ Cur(u)' = Cur(u)
      BY <1>2
    <3>2. Cur(u).sub \in Subs /\ Cur(u).number \in Nat /\ Over(Cur(u).sub, Cur(u).number)
      BY <3>1, Facts DEF Parts, Ended, WatchOps
    <3>3. Cur(u).sub # s
      <4> SUFFICES ASSUME Cur(u).sub = s PROVE FALSE
        OBVIOUS
      <4>1. Cur(u).number < attempt[s].number \/ Cur(u).number = attempt[s].number
        BY <3>2 DEF Over
      <4>2. Cur(u).number = n
        BY <1>1, <3>1
      <4> QED
        BY <1>4, <3>2, <4>1, <4>2
    <3> QED
      BY <1>1, <3>1, <3>2, <3>3 DEF Parts, Evidence, Reported
  <2>3. ASSUME NEW u \in Threads
        PROVE  /\ Cur(u)'.op = "send" => attempt'[Cur(u)'.sub].station = Cur(u)'.station
               /\ Cur(u)'.op = "executing" => attempt'[Cur(u)'.sub].station = Local
    <3>1. CASE u = t
      BY <1>1, <1>2, <3>1
    <3>2. CASE u # t /\ Cur(u).op \in {"send", "executing"}
      <4>1. Cur(u)' = Cur(u) /\ Cur(u).sub \in Subs
        BY <3>2, Facts DEF WatchOps
      <4>2. Cur(u).sub # s
        BY <1>3, <3>2 DEF Live, Senders
      <4> QED
        BY <1>1, <4>1, <4>2 DEF Parts, Evidence
    <3>3. CASE u # t /\ Cur(u).op \notin {"send", "executing"}
      BY <3>3
    <3> QED
      BY <3>1, <3>2, <3>3
  <2> QED
    BY <2>1, <2>2, <2>3 DEF Evidence, Reported
<1>14. OutputsGenuine'
  <2>1. outputs \subseteq Subs
    BY DEF TypeOK
  <2> QED
    BY <1>1, <2>1 DEF Parts, OutputsGenuine
<1> QED
  BY <1>8, <1>9, <1>10, <1>11, <1>12, <1>13, <1>14 DEF Parts

AttemptRecords == [number : Nat, station : Places \cup {None},
                   phase : {"none", "active", "processing", "done"}, received : Terminal \cup {None}]

\* An execution that is over gets its result, or its result is dealt with.
PhaseStep(t, s, new) ==
    /\ wire' = wire /\ runs' = runs
    /\ \A u \in Threads \ {t} : Cur(u)' = Cur(u)
    /\ Cur(t)'.op \notin {"send", "executing", "receive"}
    /\ ~Live(s)
    /\ attempt' = [attempt EXCEPT ![s] = new]
    /\ new.number = attempt[s].number /\ new.station = attempt[s].station
    /\ \A u \in Threads \ {t} : Cur(u).op \in JudgeOps /\ Cur(u).sub = s =>
           new.phase = "processing" /\ (Cur(u).op # "failed" => new.received = "completed")
    /\ Cur(t)'.op \in JudgeOps =>
           /\ Cur(t)'.sub = s /\ new.phase = "processing"
           /\ Cur(t)'.op # "failed" => new.received = "completed"
           /\ \A u \in Threads \ {t} : Cur(u).op \in JudgeOps => Cur(u).sub # s
    /\ new.received # None /\ attempt[s].station \in Stations => Reported(s, attempt[s].number, new.received)
    /\ outputs' \subseteq outputs \cup {s}
    /\ s \in outputs' => new.phase = "done" /\ new.received = "completed"

LEMMA PhaseKept ==
    ASSUME TypeOK, Parts, NEW t \in Threads, NEW s \in Subs, NEW new \in AttemptRecords, PhaseStep(t, s, new)
    PROVE  Parts'
<1> USE DEF PhaseStep
<1>0. attempt'[s] = new /\ \A x \in Subs : x # s => attempt'[x] = attempt[x]
  BY DEF TypeOK
<1>1. /\ attempt'[s].phase = new.phase /\ attempt'[s].received = new.received
      /\ \A x \in Subs : x # s => attempt'[x] = attempt[x]
      /\ \A x \in Subs : attempt'[x].number = attempt[x].number /\ attempt'[x].station = attempt[x].station
  <2>1. \A x \in Subs : attempt'[x].number = attempt[x].number /\ attempt'[x].station = attempt[x].station
    <3> TAKE x \in Subs
    <3>1. CASE x = s
      BY <1>0, <3>1
    <3>2. CASE x # s
      BY <1>0, <3>2
    <3> QED
      BY <3>1, <3>2
  <2> QED
    BY <1>0, <2>1
<1>2. \A x : /\ Senders(x)' \subseteq Senders(x) /\ Wired(x)' \subseteq Wired(x)
             /\ Running(x)' \subseteq Running(x) /\ (Live(x)' => Live(x))
             /\ \A u \in Senders(x)' : Cur(u)' = Cur(u)
  BY LiveShrinks
<1>3. \A x \in Subs : \A n : Over(x, n) => Over(x, n)'
  BY <1>1, <1>2 DEF Over
<1>4. LiveCurrent'
  <2> SUFFICES ASSUME NEW x \in Subs
               PROVE  /\ \A u \in Senders(x)' : Cur(u)'.number = attempt'[x].number
                      /\ \A m \in Wired(x)' : m.number = attempt'[x].number
                      /\ \A r \in Running(x)' : r.number = attempt'[x].number
    BY DEF LiveCurrent
  <2>1. attempt'[x].number = attempt[x].number
    BY <1>1
  <2> QED
    BY <1>2, <2>1 DEF Parts, LiveCurrent
<1>5. LiveActive'
  <2> SUFFICES ASSUME NEW x \in Subs, Live(x)'
               PROVE  attempt'[x].phase = "active" /\ attempt'[x].received = None
    BY DEF LiveActive
  <2>1. Live(x) /\ x # s
    BY <1>2
  <2>2. attempt'[x] = attempt[x]
    BY <1>1, <2>1
  <2> QED
    BY <2>1, <2>2 DEF Parts, LiveActive
<1>6. LiveOnce'
  BY <1>2 DEF Parts, LiveOnce
<1>7. Ended'
  <2>1. \A u \in Threads : (Cur(u).op = "receive" => Over(Cur(u).sub, Cur(u).number))'
    <3> SUFFICES ASSUME NEW u \in Threads, (Cur(u).op = "receive")' PROVE Over(Cur(u).sub, Cur(u).number)'
      OBVIOUS
    <3>1. Cur(u)' = Cur(u)
      OBVIOUS
    <3>2. Cur(u).sub \in Subs /\ Over(Cur(u).sub, Cur(u).number)
      BY <3>1, Facts DEF Parts, Ended, WatchOps
    <3> QED
      BY <1>3, <3>1, <3>2
  <2>2. \A r \in runs' : r.status # "running" => Over(r.sub, r.number)'
    BY <1>3, Facts DEF Parts, Ended
  <2> QED
    BY <2>1, <2>2 DEF Ended
<1>8. Judged'
  <2>1. \A u \in Threads : Cur(u).op \in JudgeOps => Cur(u).sub \in Subs
    BY Facts DEF JudgeOps, WatchOps
  <2>2. ASSUME NEW u \in Threads, Cur(u)'.op \in JudgeOps
        PROVE  /\ attempt'[Cur(u)'.sub].phase = "processing"
               /\ Cur(u)'.op # "failed" => attempt'[Cur(u)'.sub].received = "completed"
    <3>1. CASE u = t
      BY <1>1, <2>2, <3>1
    <3>2. CASE u # t
      <4>1. Cur(u)' = Cur(u) /\ Cur(u).op \in JudgeOps /\ Cur(u).sub \in Subs
        BY <2>1, <2>2, <3>2
      <4>2. CASE Cur(u).sub = s
        BY <1>1, <3>2, <4>1, <4>2
      <4>3. CASE Cur(u).sub # s
        <5>1. attempt'[Cur(u).sub] = attempt[Cur(u).sub]
          BY <1>1, <4>1, <4>3
        <5> QED
          BY <4>1, <5>1 DEF Parts, Judged
      <4> QED
        BY <4>2, <4>3
    <3> QED
      BY <3>1, <3>2
  <2>3. ASSUME NEW u \in Threads, NEW v \in Threads,
               Cur(u)'.op \in JudgeOps, Cur(v)'.op \in JudgeOps, Cur(u)'.sub = Cur(v)'.sub
        PROVE  u = v
    <3>1. CASE u # t /\ v # t
      BY <2>3, <3>1 DEF Parts, Judged
    <3>2. CASE u = t /\ v # t
      BY <2>3, <3>2
    <3>3. CASE u # t /\ v = t
      BY <2>3, <3>3
    <3> QED
      BY <3>1, <3>2, <3>3
  <2> QED
    BY <2>2, <2>3 DEF Judged
<1>9. Evidence'
  <2>1. \A x \in Subs : attempt'[x].received # None /\ attempt'[x].station \in Stations =>
            [sub |-> x, number |-> attempt'[x].number, status |-> attempt'[x].received] \in runs'
    <3> TAKE x \in Subs
    <3>1. CASE x = s
      BY <1>1, <3>1 DEF Reported
    <3>2. CASE x # s
      <4>1. attempt'[x] = attempt[x]
        BY <1>1, <3>2
      <4> QED
        BY <4>1 DEF Parts, Evidence, Reported
    <3> QED
      BY <3>1, <3>2
  <2>2. \A u \in Threads : Cur(u)'.op \in {"send", "executing", "receive"} =>
            Cur(u)' = Cur(u) /\ Cur(u).sub \in Subs
    BY Facts DEF WatchOps
  <2>3. ASSUME NEW u \in Threads, Cur(u)'.op \in {"send", "executing", "receive"}
        PROVE  /\ Cur(u)'.op = "receive" =>
                     (Cur(u)'.number = attempt'[Cur(u)'.sub].number /\ attempt'[Cur(u)'.sub].station \in Stations =>
                          [sub |-> Cur(u)'.sub, number |-> Cur(u)'.number, status |-> Cur(u)'.status] \in runs')
               /\ Cur(u)'.op = "send" => attempt'[Cur(u)'.sub].station = Cur(u)'.station
               /\ Cur(u)'.op = "executing" => attempt'[Cur(u)'.sub].station = Local
    <3>1. Cur(u)' = Cur(u) /\ Cur(u).sub \in Subs
      BY <2>2, <2>3
    <3>2. attempt'[Cur(u).sub].number = attempt[Cur(u).sub].number /\ attempt'[Cur(u).sub].station = attempt[Cur(u).sub].station
      BY <1>1, <3>1
    <3> QED
      BY <3>1, <3>2 DEF Parts, Evidence, Reported
  <2> QED
    BY <2>1, <2>3 DEF Evidence, Reported
<1>10. OutputsGenuine'
  <2> SUFFICES ASSUME NEW x \in outputs'
               PROVE  /\ attempt'[x].phase = "done" /\ attempt'[x].received = "completed"
                      /\ attempt'[x].station \in Stations =>
                            [sub |-> x, number |-> attempt'[x].number, status |-> "completed"] \in runs'
    BY DEF OutputsGenuine
  <2>1. CASE x = s
    <3>1. new.received = "completed" /\ new.phase = "done" /\ new.received # None
      BY <2>1, DispatchAssumption DEF DispatchAssumption
    <3>2. attempt'[s].number = attempt[s].number /\ attempt'[s].station = attempt[s].station
      BY <1>1
    <3> QED
      BY <1>1, <2>1, <3>1, <3>2 DEF Reported
  <2>2. CASE x # s
    <3>1. x \in outputs /\ x \in Subs
      BY <2>2 DEF TypeOK
    <3> QED
      <4>1. attempt'[x] = attempt[x]
        BY <1>1, <2>2, <3>1
      <4> QED
        BY <3>1, <4>1 DEF Parts, OutputsGenuine
  <2> QED
    BY <2>1, <2>2
<1> QED
  BY <1>4, <1>5, <1>6, <1>7, <1>8, <1>9, <1>10 DEF Parts

\* The model has judged an output.
LEMMA VerifyKept ==
    ASSUME TypeOK, Parts, wire' = wire, runs' = runs, attempt' = attempt, outputs' = outputs,
           NEW t \in Threads, \A u \in Threads \ {t} : Cur(u)' = Cur(u),
           Cur(t).op = "verify", Cur(t)'.op \in {"accept", "failed"}, Cur(t)'.sub = Cur(t).sub
    PROVE  Parts'
<1>1. \A s : /\ Senders(s)' \subseteq Senders(s) /\ Wired(s)' \subseteq Wired(s)
             /\ Running(s)' \subseteq Running(s) /\ (Live(s)' => Live(s))
             /\ \A u \in Senders(s)' : Cur(u)' = Cur(u)
  BY LiveShrinks
<1>2. \A s, n : Over(s, n) => Over(s, n)'
  BY <1>1 DEF Over
<1>3. LiveCurrent'
  BY <1>1 DEF Parts, LiveCurrent
<1>4. LiveActive'
  BY <1>1 DEF Parts, LiveActive
<1>5. LiveOnce'
  BY <1>1 DEF Parts, LiveOnce
<1>6. Ended'
  BY <1>2 DEF Parts, Ended
<1>7. Judged'
  BY DEF Parts, Judged, JudgeOps
<1>8. Evidence'
  BY DEF Parts, Evidence, Reported
<1>9. OutputsGenuine'
  BY DEF Parts, OutputsGenuine
<1> QED
  BY <1>3, <1>4, <1>5, <1>6, <1>7, <1>8, <1>9 DEF Parts

\* The request leaves for the network, or for the PM's own runtime.
LEMMA SendKept ==
    ASSUME TypeOK, Parts, outputs' = outputs, attempt' = attempt, runs' = runs,
           NEW t \in Threads, \A u \in Threads \ {t} : Cur(u)' = Cur(u), Cur(t).op = "send",
           NEW s \in Subs, NEW n \in Nat, s = Cur(t).sub, n = Cur(t).number,
           \/ /\ Cur(t).station = Local /\ wire' = wire
              /\ Cur(t)' = [op |-> "executing", sub |-> s, number |-> n]
           \/ wire' = wire \cup {[sub |-> s, number |-> n]} /\ Cur(t)'.op = "await"
    PROVE  Parts'
<1>1. /\ t \in Senders(s) /\ Live(s) /\ n = attempt[s].number
      /\ \A u \in Senders(s) : u = t
      /\ Wired(s) = {} /\ Running(s) = {}
  <2>1. t \in Senders(s)
    BY DEF Senders
  <2> QED
    BY <2>1 DEF Parts, LiveOnce, LiveCurrent, Live
<1>2. /\ \A u \in Threads : Cur(u)'.op \in WatchOps /\ u # t => Cur(u)' = Cur(u)
      /\ Cur(t)'.op \in WatchOps =>
            /\ Cur(t)'.op = "executing" /\ Cur(t)'.sub = s /\ Cur(t)'.number = n
            /\ Cur(t).station = Local /\ wire' = wire
  BY DEF WatchOps
<1>3. \A x : x # s => /\ Senders(x)' = Senders(x) /\ Wired(x)' = Wired(x) /\ Running(x)' = Running(x)
                      /\ (Live(x)' <=> Live(x)) /\ \A u \in Senders(x)' : Cur(u)' = Cur(u)
  BY <1>2 DEF Senders, Wired, Running, Live, WatchOps
<1>4. /\ Running(s)' = {}
      /\ \/ Senders(s)' = {t} /\ Wired(s)' = {} /\ Cur(t)'.number = n
         \/ Senders(s)' = {} /\ Wired(s)' = {[sub |-> s, number |-> n]}
  <2>1. Running(s)' = {}
    BY <1>1 DEF Running
  <2>2. \A u \in Senders(s)' : u = t
    BY <1>1, <1>2 DEF Senders, WatchOps
  <2>3. CASE Cur(t)'.op = "executing"
    <3>1. t \in Senders(s)' /\ Wired(s)' = {}
      BY <1>1, <1>2, <2>3 DEF Senders, Wired, WatchOps
    <3> QED
      BY <1>2, <2>1, <2>2, <2>3, <3>1 DEF WatchOps
  <2>4. CASE Cur(t)'.op # "executing"
    <3>1. wire' = wire \cup {[sub |-> s, number |-> n]} /\ Cur(t)'.op = "await"
      BY <2>4
    <3>2. Senders(s)' = {}
      BY <2>2, <3>1 DEF Senders
    <3>3. Wired(s)' = {[sub |-> s, number |-> n]}
      BY <1>1, <3>1 DEF Wired
    <3> QED
      BY <2>1, <3>2, <3>3
  <2> QED
    BY <2>3, <2>4
<1>5. \A x, k : Over(x, k) => Over(x, k)'
  BY <1>1, <1>3 DEF Over
<1>6. LiveCurrent'
  <2> SUFFICES ASSUME NEW x \in Subs
               PROVE  /\ \A u \in Senders(x)' : Cur(u)'.number = attempt'[x].number
                      /\ \A m \in Wired(x)' : m.number = attempt'[x].number
                      /\ \A r \in Running(x)' : r.number = attempt'[x].number
    BY DEF LiveCurrent
  <2>1. CASE x = s
    BY <1>1, <1>4, <2>1
  <2>2. CASE x # s
    BY <1>3, <2>2 DEF Parts, LiveCurrent
  <2> QED
    BY <2>1, <2>2
<1>7. LiveActive'
  BY <1>1, <1>3 DEF Parts, LiveActive
<1>8. LiveOnce'
  <2> SUFFICES ASSUME NEW x \in Subs
               PROVE  /\ \A u, v \in Senders(x)' : u = v
                      /\ Senders(x)' # {} => Wired(x)' = {} /\ Running(x)' = {}
                      /\ Wired(x)' # {} => Running(x)' = {}
    BY DEF LiveOnce
  <2>1. CASE x = s
    BY <1>4, <2>1
  <2>2. CASE x # s
    BY <1>3, <2>2 DEF Parts, LiveOnce
  <2> QED
    BY <2>1, <2>2
<1>9. Ended'
  BY <1>2, <1>5 DEF Parts, Ended, WatchOps
<1>10. Judged'
  BY <1>2 DEF Parts, Judged, JudgeOps, WatchOps
<1>11. Evidence'
  <2>1. Cur(t)'.op = "executing" => attempt'[Cur(t)'.sub].station = Local
    BY <1>2 DEF Parts, Evidence, WatchOps
  <2>2. Cur(t)'.op \notin {"send", "receive"}
    BY <1>2 DEF WatchOps
  <2> QED
    BY <1>2, <2>1, <2>2 DEF Parts, Evidence, WatchOps, Reported
<1>12. OutputsGenuine'
  BY DEF Parts, OutputsGenuine
<1> QED
  BY <1>6, <1>7, <1>8, <1>9, <1>10, <1>11, <1>12 DEF Parts

\* A request arrives at its station.
LEMMA ArriveKept ==
    ASSUME TypeOK, Parts, NEW m \in wire, Arrive(m)
    PROVE  Parts'
<1> DEFINE s == m.sub
           run == [sub |-> s, number |-> m.number, status |-> "running"]
<1>1. /\ s \in Subs /\ wire' = wire \ {m} /\ runs' = runs \cup {run}
      /\ outputs' = outputs /\ attempt' = attempt /\ \A u \in Threads : Cur(u)' = Cur(u)
  BY Facts DEF Arrive, books, Cur
<1>2. run.sub = s /\ run.number = m.number /\ run.status = "running"
  OBVIOUS
<1> HIDE DEF run
<1>3. Wired(s) = {m} /\ m.number = attempt[s].number /\ Senders(s) = {} /\ Running(s) = {} /\ Live(s)
  <2>1. m \in Wired(s)
    BY DEF Wired
  <2>2. m.number = attempt[s].number /\ \A k \in Wired(s) : k.number = attempt[s].number
    BY <1>1, <2>1 DEF Parts, LiveCurrent
  <2>3. \A k \in Wired(s) : k = m
    <3> TAKE k \in Wired(s)
    <3>1. k \in Requests /\ m \in Requests
      BY DEF Wired, TypeOK
    <3>2. k.sub = m.sub /\ k.number = m.number
      BY <2>2 DEF Wired
    <3> QED
      BY <3>1, <3>2 DEF Requests
  <2> QED
    BY <1>1, <2>1, <2>2, <2>3 DEF Parts, LiveOnce, Live
<1>4. /\ \A x : Senders(x)' = Senders(x) /\ (x # s => Wired(x)' = Wired(x) /\ Running(x)' = Running(x))
      /\ Wired(s)' = {} /\ Running(s)' = {run}
  <2>1. \A x : Senders(x)' = Senders(x)
    BY <1>1 DEF Senders
  <2>2. \A x : x # s => Wired(x)' = Wired(x) /\ Running(x)' = Running(x)
    BY <1>1, <1>2 DEF Wired, Running
  <2>3. Wired(s)' = {}
    BY <1>1, <1>3 DEF Wired
  <2>4. Running(s)' = {run}
    BY <1>1, <1>2, <1>3 DEF Running
  <2> QED
    BY <2>1, <2>2, <2>3, <2>4
<1>5. \A x : Live(x)' => Live(x)
  BY <1>3, <1>4 DEF Live
<1>6. \A x, k : Over(x, k) => Over(x, k)'
  BY <1>1, <1>5 DEF Over
<1>7. LiveCurrent'
  <2> SUFFICES ASSUME NEW x \in Subs
               PROVE  /\ \A u \in Senders(x)' : Cur(u)'.number = attempt'[x].number
                      /\ \A k \in Wired(x)' : k.number = attempt'[x].number
                      /\ \A r \in Running(x)' : r.number = attempt'[x].number
    BY DEF LiveCurrent
  <2>1. CASE x = s
    BY <1>1, <1>2, <1>3, <1>4, <2>1
  <2>2. CASE x # s
    BY <1>1, <1>4, <2>2 DEF Parts, LiveCurrent, Senders
  <2> QED
    BY <2>1, <2>2
<1>8. LiveActive'
  BY <1>1, <1>5 DEF Parts, LiveActive
<1>9. LiveOnce'
  <2> SUFFICES ASSUME NEW x \in Subs
               PROVE  /\ \A u, v \in Senders(x)' : u = v
                      /\ Senders(x)' # {} => Wired(x)' = {} /\ Running(x)' = {}
                      /\ Wired(x)' # {} => Running(x)' = {}
    BY DEF LiveOnce
  <2>1. CASE x = s
    BY <1>3, <1>4, <2>1
  <2>2. CASE x # s
    BY <1>4, <2>2 DEF Parts, LiveOnce
  <2> QED
    BY <2>1, <2>2
<1>10. Ended'
  <2>1. \A u \in Threads : (Cur(u).op = "receive" => Over(Cur(u).sub, Cur(u).number))'
    BY <1>1, <1>6 DEF Parts, Ended
  <2>2. \A r \in runs' : r.status # "running" => Over(r.sub, r.number)'
    BY <1>1, <1>2, <1>6 DEF Parts, Ended
  <2> QED
    BY <2>1, <2>2 DEF Ended
<1>11. Judged'
  BY <1>1 DEF Parts, Judged
<1>12. Evidence'
  BY <1>1 DEF Parts, Evidence, Reported
<1>13. OutputsGenuine'
  BY <1>1 DEF Parts, OutputsGenuine
<1> QED
  BY <1>7, <1>8, <1>9, <1>10, <1>11, <1>12, <1>13 DEF Parts

\* Its execution ends.
LEMMA RunEndsKept ==
    ASSUME TypeOK, Parts, NEW r \in runs, RunEnds(r)
    PROVE  Parts'
<1> DEFINE s == r.sub
<1>0. PICK a \in Terminal : runs' = (runs \ {r}) \cup {[r EXCEPT !.status = a]}
  BY DEF RunEnds
<1> DEFINE run == [r EXCEPT !.status = a]
<1>1. /\ s \in Subs /\ wire' = wire /\ runs' = (runs \ {r}) \cup {run} /\ r.status = "running"
      /\ outputs' = outputs /\ attempt' = attempt /\ \A u \in Threads : Cur(u)' = Cur(u)
  BY <1>0, Facts DEF RunEnds, books, Cur
<1>2. run.sub = s /\ run.number = r.number /\ run.status # "running"
  <2>1. r \in [sub : Subs, number : Nat, status : Terminal \cup {"running"}]
    BY DEF TypeOK
  <2>2. run.status = a
    BY <2>1
  <2>3. a # "running"
    BY DEF Terminal
  <2> QED
    BY <2>1, <2>2, <2>3
<1> HIDE DEF run
<1>3. Running(s) = {r} /\ r.number = attempt[s].number /\ Senders(s) = {} /\ Wired(s) = {}
  <2>1. r \in Running(s)
    BY <1>1 DEF Running
  <2>2. r.number = attempt[s].number /\ \A k \in Running(s) : k.number = attempt[s].number
    BY <1>1, <2>1 DEF Parts, LiveCurrent
  <2>3. \A k \in Running(s) : k = r
    <3> TAKE k \in Running(s)
    <3> DEFINE R == [sub : Subs, number : Nat, status : Terminal \cup {"running"}]
    <3>1. k \in R /\ r \in R
      BY DEF Running, TypeOK
    <3>2. k.sub = r.sub /\ k.number = r.number /\ k.status = r.status
      BY <1>1, <2>2 DEF Running
    <3> QED
      BY <3>1, <3>2
  <2> QED
    BY <1>1, <2>1, <2>2, <2>3 DEF Parts, LiveOnce
<1>4. /\ \A x : Senders(x)' = Senders(x) /\ Wired(x)' = Wired(x) /\ Running(x)' \subseteq Running(x)
      /\ Running(s)' = {}
  <2>1. \A x : Senders(x)' = Senders(x) /\ Wired(x)' = Wired(x)
    BY <1>1 DEF Senders, Wired
  <2>2. \A x : Running(x)' \subseteq Running(x)
    BY <1>1, <1>2 DEF Running
  <2>3. Running(s)' = {}
    BY <1>1, <1>2, <1>3 DEF Running
  <2> QED
    BY <2>1, <2>2, <2>3
<1>5. /\ \A x : Live(x)' => Live(x)
      /\ ~Live(s)'
  BY <1>3, <1>4 DEF Live
<1>6. \A x, k : Over(x, k) => Over(x, k)'
  BY <1>1, <1>5 DEF Over
<1>7. LiveCurrent'
  BY <1>1, <1>4 DEF Parts, LiveCurrent, Senders
<1>8. LiveActive'
  BY <1>1, <1>5 DEF Parts, LiveActive
<1>9. LiveOnce'
  BY <1>4 DEF Parts, LiveOnce
<1>10. Ended'
  <2>1. \A u \in Threads : (Cur(u).op = "receive" => Over(Cur(u).sub, Cur(u).number))'
    BY <1>1, <1>6 DEF Parts, Ended
  <2>2. Over(s, r.number)'
    BY <1>1, <1>3, <1>5 DEF Over
  <2>3. \A x \in runs' : x.status # "running" => Over(x.sub, x.number)'
    BY <1>1, <1>2, <1>6, <2>2 DEF Parts, Ended
  <2> QED
    BY <2>1, <2>3 DEF Ended
<1>11. Judged'
  BY <1>1 DEF Parts, Judged
<1>12. \A x, n, status : Reported(x, n, status) /\ status # "running" => Reported(x, n, status)'
  BY <1>1 DEF Reported
<1>13. \A x \in Subs : attempt[x].received # None => attempt[x].received # "running"
  BY DEF TypeOK, Terminal
<1>14. Evidence'
  <2>1. \A u \in Threads : Cur(u).op = "receive" => Cur(u).status # "running"
    <3> SUFFICES ASSUME NEW u \in Threads, Cur(u).op = "receive" PROVE Cur(u).status # "running"
      OBVIOUS
    <3>1. Cur(u) \in Frames
      BY Facts
    <3> QED
      BY <3>1, FrameFields DEF Terminal
  <2>2. \A x \in Subs : attempt'[x].received # None /\ attempt'[x].station \in Stations =>
            [sub |-> x, number |-> attempt'[x].number, status |-> attempt'[x].received] \in runs'
    BY <1>1, <1>12, <1>13 DEF Parts, Evidence, Reported
  <2>3. \A u \in Threads : Cur(u)'.op = "receive" =>
            (Cur(u)'.number = attempt'[Cur(u)'.sub].number /\ attempt'[Cur(u)'.sub].station \in Stations =>
                [sub |-> Cur(u)'.sub, number |-> Cur(u)'.number, status |-> Cur(u)'.status] \in runs')
    BY <1>1, <1>12, <2>1 DEF Parts, Evidence, Reported
  <2>4. \A u \in Threads : /\ Cur(u)'.op = "send" => attempt'[Cur(u)'.sub].station = Cur(u)'.station
                           /\ Cur(u)'.op = "executing" => attempt'[Cur(u)'.sub].station = Local
    BY <1>1 DEF Parts, Evidence
  <2> QED
    BY <2>2, <2>3, <2>4 DEF Evidence, Reported
<1>15. OutputsGenuine'
  BY <1>1, <1>12 DEF Parts, OutputsGenuine, Reported
<1> QED
  BY <1>7, <1>8, <1>9, <1>10, <1>11, <1>14, <1>15 DEF Parts

-----------------------------------------------------------------------------
(* A step of one thread, in each of the forms it takes.                    *)

LEMMA AtFrame ==
    ASSUME Agendas, NEW t \in Threads, NEW o, At(t, o)
    PROVE  agenda[t] # <<>> /\ Now(t) = Cur(t) /\ Cur(t).op = o /\ Cur(t) \in Frames
<1>1. agenda[t] # <<>> /\ Head(agenda[t]).op = o
  BY DEF At
<1>2. Now(t) = Cur(t)
  BY <1>1 DEF Now, Cur
<1>3. Cur(t) \in Frames
  BY <1>1, FramePlaces DEF Cur
<1> QED
  BY <1>1, <1>2, <1>3 DEF Now

Unhurt == TypeOK /\ Shape /\ Alone /\ Retained
Walked(t) == Agendas' /\ Shape' /\ Alone' /\ Retained' /\ \A u \in Threads \ {t} : Cur(u)' = Cur(u)

\* A thread deals with the executions of its own subtask, and of those not under way.
OwnOnly(t) ==
    /\ ready' = ready \/ Cur(t).op = "ready"
    /\ \A s \in Subs : \/ attempt'[s] = attempt[s]
                       \/ attempt[s].phase # "active"
                       \/ Cur(t).op \in ExecOps /\ Cur(t).sub = s

\* The frame f that thread t goes on with.
Follows(t, f) ==
    /\ f.op \notin AsideOps
    /\ Cur(t).op \in BeforeOps => f.op \in BeforeOps
    /\ f.op \in ExecOps => \/ Cur(t).op \in ExecOps /\ Cur(t).sub = f.sub
                           \/ attempt[f.sub].phase # "active"
                           \/ Cur(t).op = "poll"

LEMMA Walk0 ==
    ASSUME Unhurt, NEW t \in Threads, agenda[t] # <<>>, Return(t), OwnOnly(t)
    PROVE  Walked(t) /\ Resting(t)'
<1>1. Agendas /\ Shape /\ Alone /\ Retained
  BY Facts DEF Unhurt
<1>2. /\ Agendas' /\ Shape' /\ Moved(t, <<>>)
      /\ \A u \in Threads \ {t} : Cur(u)' = Cur(u)
      /\ Resting(t)'
  BY <1>1, Turned0
<1>3. <<>> \in Seq(Frames) /\ Len(<<>>) = 0
  BY EmptySeq
<1>4. Aside(t, <<>>)
  BY <1>2, <1>3 DEF Aside, OwnOnly
<1>5. Spares(t, <<>>)
  BY <1>3 DEF Spares, OwnOnly
<1>6. Alone'
  BY <1>1, <1>3, <1>4, AloneKept
<1>7. Retained'
  BY <1>1, <1>3, <1>4, <1>5, RetainedKept
<1> QED
  BY <1>2, <1>6, <1>7 DEF Walked

LEMMA Walk1 ==
    ASSUME Unhurt, NEW t \in Threads, agenda[t] # <<>>, NEW f \in Frames, Then(t, <<f>>), OwnOnly(t),
           Follows(t, f), Cur(t).op \in {"loop", "giveup"} /\ ~ready => f.op = "giveup"
    PROVE  Walked(t) /\ Cur(t)' = f
<1>1. Agendas /\ Shape /\ Alone /\ Retained
  BY Facts DEF Unhurt
<1>2. /\ Agendas' /\ Shape' /\ Moved(t, <<f>>)
      /\ \A u \in Threads \ {t} : Cur(u)' = Cur(u)
      /\ Cur(t)' = f
  BY <1>1, Turned1
<1>3. <<f>> \in Seq(Frames) /\ Len(<<f>>) = 1 /\ <<f>>[1] = f
  OBVIOUS
<1>4. \A i \in 1..Len(<<f>>) : i = 1
  BY <1>3
<1>5. /\ \A i \in 1..Len(<<f>>) : i > 1 => <<f>>[i].op \in RestOps
      /\ Len(<<f>>) <= 1
  BY <1>3
<1>6. Aside(t, <<f>>)
  <2>1. \A i \in 1..Len(<<f>>) : <<f>>[i].op \notin AsideOps
    BY <1>3, <1>4 DEF Follows
  <2>2. Cur(t).op \in BeforeOps => \A i \in 1..Len(<<f>>) : <<f>>[i].op \in BeforeOps
    BY <1>3, <1>4 DEF Follows
  <2>3. Cur(t).op \in {"loop", "giveup"} /\ ~ready => (Len(<<f>>) = 1 => <<f>>[1].op = "giveup")
    BY <1>3
  <2>4. ready' = ready \/ Cur(t).op = "ready"
    BY DEF OwnOnly
  <2> QED
    BY <1>2, <1>5, <2>1, <2>2, <2>3, <2>4 DEF Aside
<1>7. Spares(t, <<f>>)
  BY <1>3 DEF Spares, OwnOnly, Follows
<1>8. Alone'
  BY <1>1, <1>3, <1>6, AloneKept
<1>9. Retained'
  BY <1>1, <1>3, <1>6, <1>7, RetainedKept
<1> QED
  BY <1>2, <1>8, <1>9 DEF Walked

LEMMA Walk2 ==
    ASSUME Unhurt, NEW t \in Threads, agenda[t] # <<>>, NEW f \in Frames, NEW g \in Frames,
           Then(t, <<f, g>>), OwnOnly(t), Follows(t, f), g.op \in RestOps \ AsideOps,
           Cur(t).op \in BeforeOps => g.op \in BeforeOps, Cur(t).op \notin {"loop", "giveup"}
    PROVE  Walked(t) /\ Cur(t)' = f
<1>1. Agendas /\ Shape /\ Alone /\ Retained
  BY Facts DEF Unhurt
<1>2. /\ Agendas' /\ Shape' /\ Moved(t, <<f, g>>)
      /\ \A u \in Threads \ {t} : Cur(u)' = Cur(u)
      /\ Cur(t)' = f
  BY <1>1, Turned2
<1>3. <<f, g>> \in Seq(Frames) /\ Len(<<f, g>>) = 2 /\ <<f, g>>[1] = f /\ <<f, g>>[2] = g
  OBVIOUS
<1>4. \A i \in 1..Len(<<f, g>>) : <<f, g>>[i] \in {f, g} /\ (i > 1 => <<f, g>>[i] = g)
  BY <1>3
<1>6. Aside(t, <<f, g>>)
  <2>1. \A i \in 1..Len(<<f, g>>) : <<f, g>>[i].op \notin AsideOps
    BY <1>4 DEF Follows
  <2>2. Cur(t).op \in BeforeOps => \A i \in 1..Len(<<f, g>>) : <<f, g>>[i].op \in BeforeOps
    BY <1>4 DEF Follows
  <2>3. \A i \in 1..Len(<<f, g>>) : i > 1 => <<f, g>>[i].op \in RestOps
    BY <1>4
  <2>4. ready' = ready \/ Cur(t).op = "ready"
    BY DEF OwnOnly
  <2> QED
    BY <1>2, <2>1, <2>2, <2>3, <2>4 DEF Aside
<1>7. Spares(t, <<f, g>>)
  BY <1>3 DEF Spares, OwnOnly, Follows
<1>8. Alone'
  BY <1>1, <1>3, <1>6, AloneKept
<1>9. Retained'
  BY <1>1, <1>3, <1>6, <1>7, RetainedKept
<1> QED
  BY <1>2, <1>8, <1>9 DEF Walked

LEMMA Walk3 ==
    ASSUME Unhurt, NEW t \in Threads, agenda[t] # <<>>, NEW f \in Frames, NEW g \in Frames, NEW h \in Frames,
           Then(t, <<f, g, h>>), OwnOnly(t), Follows(t, f), g.op \in RestOps \ AsideOps,
           h.op \in RestOps \ AsideOps, Cur(t).op = "loop", ready
    PROVE  Walked(t) /\ Cur(t)' = f
<1>1. Agendas /\ Shape /\ Alone /\ Retained
  BY Facts DEF Unhurt
<1>2. /\ Agendas' /\ Shape' /\ Moved(t, <<f, g, h>>)
      /\ \A u \in Threads \ {t} : Cur(u)' = Cur(u)
      /\ Cur(t)' = f
  BY <1>1, Turned3
<1>3. /\ <<f, g, h>> \in Seq(Frames) /\ Len(<<f, g, h>>) = 3
      /\ <<f, g, h>>[1] = f /\ <<f, g, h>>[2] = g /\ <<f, g, h>>[3] = h
  OBVIOUS
<1>4. \A i \in 1..Len(<<f, g, h>>) : <<f, g, h>>[i] \in {f, g, h} /\ (i > 1 => <<f, g, h>>[i] \in {g, h})
  BY <1>3
<1>6. Aside(t, <<f, g, h>>)
  <2>1. \A i \in 1..Len(<<f, g, h>>) : <<f, g, h>>[i].op \notin AsideOps
    BY <1>4 DEF Follows
  <2>2. Cur(t).op \notin BeforeOps
    BY DEF BeforeOps
  <2>3. \A i \in 1..Len(<<f, g, h>>) : i > 1 => <<f, g, h>>[i].op \in RestOps
    BY <1>4
  <2>4. ready' = ready \/ Cur(t).op = "ready"
    BY DEF OwnOnly
  <2> QED
    BY <1>2, <2>1, <2>2, <2>3, <2>4 DEF Aside
<1>7. Spares(t, <<f, g, h>>)
  BY <1>3 DEF Spares, OwnOnly, Follows
<1>8. Alone'
  BY <1>1, <1>3, <1>6, AloneKept
<1>9. Retained'
  BY <1>1, <1>3, <1>6, <1>7, RetainedKept
<1> QED
  BY <1>2, <1>8, <1>9 DEF Walked

-----------------------------------------------------------------------------
(* Steps that leave every execution alone.                                 *)

BookTypes ==
    /\ outputs \subseteq Subs
    /\ pending \in [Subs -> Places \cup {None}]
    /\ dispatched \subseteq Subs
    /\ attempt \in [Subs -> [number : Nat, station : Places \cup {None},
                             phase : {"none", "active", "processing", "done"},
                             received : Terminal \cup {None}]]
    /\ home \in [Subs -> Places]
    /\ retries \in [Subs -> Nat]
    /\ crossed \subseteq Subs /\ takeover \subseteq Subs /\ timed \subseteq Subs
EndTypes ==
    /\ stop \in {"", "paused", "cancelled", "stopped", "failed"}
    /\ failure \in {None} \cup [sub : Subs \cup {"global"},
                              cause : {"unknown", "exhausted", "timeout", "missing"}]
    /\ ready \in BOOLEAN
    /\ aggregate \in {"absent", "returned", "stored"}
    /\ delivery \in {"absent", "prepared", "sending", "acknowledged"}
    /\ verdict \in {"completed", "failed", None}
    /\ continues \in 0..MaxContinues
NetTypes ==
    /\ wire \subseteq Requests
    /\ runs \subseteq [sub : Subs, number : Nat, status : Terminal \cup {"running"}]
    /\ localTried \subseteq Subs

LEMMA TypeParts == TypeOK <=> Agendas /\ BookTypes /\ EndTypes /\ NetTypes
BY DEF TypeOK, Agendas, BookTypes, EndTypes, NetTypes

Kept == Agendas' /\ Shape' /\ Alone' /\ Retained' /\ Parts'

LEMMA KeptAll ==
    ASSUME Kept, BookTypes', EndTypes', NetTypes'
    PROVE  IInv'
<1>1. TypeOK'
  BY TypeParts, PTL DEF Kept
<1> QED
  BY <1>1 DEF Kept, IInv

Calm(t) ==
    /\ attempt' = attempt /\ wire' = wire /\ runs' = runs /\ outputs' \subseteq outputs
    /\ ready' = ready \/ Cur(t).op = "ready"

LEMMA QuietWalk ==
    ASSUME IInv, NEW t \in Threads, Walked(t), Calm(t), Cur(t)'.op \notin WatchOps
    PROVE  Kept
<1>1. Parts'
  BY QuietlyKept DEF IInv, Walked, Calm
<1> QED
  BY <1>1 DEF Walked, Kept

LEMMA Quiet0 ==
    ASSUME IInv, NEW t \in Threads, agenda[t] # <<>>, Return(t), Calm(t)
    PROVE  Kept
<1>1. Unhurt /\ OwnOnly(t)
  BY DEF IInv, Unhurt, OwnOnly, Calm
<1>2. Walked(t) /\ Resting(t)'
  BY <1>1, Walk0
<1>3. Cur(t)'.op \notin WatchOps
  BY <1>2 DEF Resting, RestOps, WatchOps
<1> QED
  BY <1>2, <1>3, QuietWalk

LEMMA Quiet1 ==
    ASSUME IInv, NEW t \in Threads, agenda[t] # <<>>, NEW f \in Frames, Then(t, <<f>>), Calm(t),
           f.op \notin AsideOps \cup ExecOps, Cur(t).op \in BeforeOps => f.op \in BeforeOps,
           Cur(t).op \in {"loop", "giveup"} /\ ~ready => f.op = "giveup"
    PROVE  Kept
<1>1. Unhurt /\ OwnOnly(t) /\ Follows(t, f)
  BY DEF IInv, Unhurt, OwnOnly, Calm, Follows
<1>2. Walked(t) /\ Cur(t)' = f
  BY <1>1, Walk1
<1>3. Cur(t)'.op \notin WatchOps
  BY <1>2 DEF ExecOps, WatchOps
<1> QED
  BY <1>2, <1>3, QuietWalk

LEMMA Quiet2 ==
    ASSUME IInv, NEW t \in Threads, agenda[t] # <<>>, NEW f \in Frames, NEW g \in Frames,
           Then(t, <<f, g>>), Calm(t), f.op \notin AsideOps \cup ExecOps, g.op \in RestOps \ AsideOps,
           Cur(t).op \in BeforeOps => f.op \in BeforeOps /\ g.op \in BeforeOps,
           Cur(t).op \notin {"loop", "giveup"}
    PROVE  Kept
<1>1. Unhurt /\ OwnOnly(t) /\ Follows(t, f)
  BY DEF IInv, Unhurt, OwnOnly, Calm, Follows
<1>2. Walked(t) /\ Cur(t)' = f
  BY <1>1, Walk2
<1>3. Cur(t)'.op \notin WatchOps
  BY <1>2 DEF ExecOps, WatchOps
<1> QED
  BY <1>2, <1>3, QuietWalk

-----------------------------------------------------------------------------
(* Dispatching and the stop keep the invariant.                            *)

LEMMA Standing == IInv => Agendas /\ Shape /\ Alone /\ Retained /\ Parts /\ BookTypes /\ EndTypes /\ NetTypes
BY TypeParts DEF IInv

LEMMA BooksStay == ASSUME IInv, UNCHANGED books PROVE BookTypes'
BY Standing DEF books, BookTypes

LEMMA EndingStays == ASSUME IInv, UNCHANGED ending PROVE EndTypes'
BY Standing DEF ending, EndTypes

LEMMA NetworkStays == ASSUME IInv, UNCHANGED network, UNCHANGED localTried PROVE NetTypes'
BY Standing DEF network, NetTypes

LEMMA StopReturn ==
    ASSUME IInv, NEW t \in Threads, NEW op \in StopOps, ReturnIfStopped(t, op)
    PROVE  IInv'
<1>1. agenda[t] # <<>> /\ Return(t)
  BY Standing, AtFrame DEF ReturnIfStopped
<1>2. Calm(t)
  BY DEF ReturnIfStopped, Calm, books, ending, network
<1>3. Kept
  BY <1>1, <1>2, Quiet0
<1>4. BookTypes' /\ EndTypes' /\ NetTypes'
  <2>1. BookTypes'
    BY BooksStay DEF ReturnIfStopped
  <2>2. EndTypes'
    BY EndingStays DEF ReturnIfStopped
  <2>3. NetTypes'
    BY NetworkStays DEF ReturnIfStopped
  <2> QED
    BY <2>1, <2>2, <2>3
<1> QED
  BY <1>3, <1>4, KeptAll

LEMMA CreateTeamStep ==
    ASSUME IInv, NEW t \in Threads, CreateTeam(t)
    PROVE  IInv'
<1>1. agenda[t] # <<>> /\ Cur(t).op = "create"
  BY Standing, AtFrame DEF CreateTeam
<1>2. Calm(t)
  BY DEF CreateTeam, Calm, ending, network
<1>3. /\ [op |-> "release"] \in Frames /\ [op |-> "team", todo |-> Unplaced] \in Frames
      /\ [op |-> "release"].op = "release" /\ [op |-> "team", todo |-> Unplaced].op = "team"
  BY PlainFrames, TodoFrames DEF Unplaced
<1>4. Kept
  <2>1. CASE Return(t)
    BY <1>1, <1>2, <2>1, Quiet0
  <2>2. CASE Then(t, <<[op |-> "release"]>>)
    BY <1>1, <1>2, <1>3, <2>2, Quiet1 DEF AsideOps, ExecOps, BeforeOps
  <2>3. CASE Then(t, <<[op |-> "team", todo |-> Unplaced], [op |-> "release"]>>)
    BY <1>1, <1>2, <1>3, <2>3, Quiet2 DEF AsideOps, ExecOps, BeforeOps, RestOps
  <2> QED
    BY <2>1, <2>2, <2>3 DEF CreateTeam
<1>5. pending' \in [Subs -> Places \cup {None}]
  BY Standing DEF CreateTeam, BookTypes, Places
<1>6. BookTypes' /\ EndTypes' /\ NetTypes'
  <2>1. BookTypes'
    BY <1>5, Standing DEF CreateTeam, BookTypes
  <2>2. EndTypes'
    BY <1>5, EndingStays DEF CreateTeam
  <2>3. NetTypes'
    BY <1>5, NetworkStays DEF CreateTeam
  <2> QED
    BY <2>1, <2>2, <2>3
<1> QED
  BY <1>4, <1>6, KeptAll

LEMMA TeamCompleteStep ==
    ASSUME IInv, NEW t \in Threads, TeamComplete(t)
    PROVE  IInv'
<1>1. agenda[t] # <<>> /\ Return(t)
  BY Standing, AtFrame DEF TeamComplete
<1>2. Calm(t)
  BY DEF TeamComplete, Calm, books, ending, network
<1>3. Kept
  BY <1>1, <1>2, Quiet0
<1>4. BookTypes' /\ EndTypes' /\ NetTypes'
  <2>1. BookTypes'
    BY BooksStay DEF TeamComplete
  <2>2. EndTypes'
    BY EndingStays DEF TeamComplete
  <2>3. NetTypes'
    BY NetworkStays DEF TeamComplete
  <2> QED
    BY <2>1, <2>2, <2>3
<1> QED
  BY <1>3, <1>4, KeptAll

\* A team frame with one subtask less.
LEMMA TeamRest ==
    ASSUME Agendas, NEW t \in Threads, At(t, "team"), NEW s \in Subs
    PROVE  /\ [Now(t) EXCEPT !.todo = @ \ {s}] \in Frames
           /\ [Now(t) EXCEPT !.todo = @ \ {s}].op = "team"
<1>1. Now(t) \in Frames /\ Now(t).op = "team"
  BY AtFrame
<1>2. Now(t).todo \in SUBSET Subs
  BY <1>1, FrameFields
<1>3. [Now(t) EXCEPT !.todo = @ \ {s}] = [op |-> "team", todo |-> Now(t).todo \ {s}]
  BY <1>1, Remaining
<1> QED
  BY <1>2, <1>3, TodoFrames

LEMMA PlaceLocallyStep ==
    ASSUME IInv, NEW t \in Threads, NEW s \in Subs, PlaceLocally(t, s)
    PROVE  IInv'
<1> DEFINE rest == [Now(t) EXCEPT !.todo = @ \ {s}]
<1>1. agenda[t] # <<>> /\ Cur(t).op = "team" /\ rest \in Frames /\ rest.op = "team" /\ Then(t, <<rest>>)
  BY Standing, AtFrame, TeamRest DEF PlaceLocally
<1>2. Calm(t)
  BY DEF PlaceLocally, Calm, ending, network
<1> HIDE DEF rest
<1>3. Kept
  BY <1>1, <1>2, Quiet1 DEF AsideOps, ExecOps, BeforeOps
<1>4. pending' \in [Subs -> Places \cup {None}]
  BY Standing DEF PlaceLocally, BookTypes, Places
<1>5. BookTypes' /\ EndTypes' /\ NetTypes'
  <2>1. BookTypes'
    BY <1>4, Standing DEF PlaceLocally, BookTypes
  <2>2. EndTypes'
    BY <1>4, EndingStays DEF PlaceLocally
  <2>3. NetTypes'
    BY <1>4, NetworkStays DEF PlaceLocally
  <2> QED
    BY <2>1, <2>2, <2>3
<1> QED
  BY <1>3, <1>5, KeptAll

LEMMA ReleaseStep ==
    ASSUME IInv, NEW t \in Threads, Release(t)
    PROVE  IInv'
<1> DEFINE items == {[sub |-> s, station |-> pending[s]] : s \in Releasable}
           frame == [op |-> "items", todo |-> items]
<1>1. agenda[t] # <<>> /\ Cur(t).op = "release"
  BY Standing, AtFrame DEF Release
<1>2. Calm(t)
  BY DEF Release, Calm, ending, network
<1>3. frame \in Frames /\ frame.op = "items"
  <2>1. \A s \in Releasable : s \in Subs /\ pending[s] \in Places
    BY Standing DEF Releasable, BookTypes
  <2>2. items \in SUBSET [sub : Subs, station : Places]
    BY <2>1
  <2> QED
    BY <2>2, TodoFrames
<1>4. Return(t) \/ Then(t, <<frame>>)
  BY DEF Release, Return
<1> HIDE DEF frame
<1>5. Kept
  <2>1. CASE Return(t)
    BY <1>1, <1>2, <2>1, Quiet0
  <2>2. CASE Then(t, <<frame>>)
    BY <1>1, <1>2, <1>3, <2>2, Quiet1 DEF AsideOps, ExecOps, BeforeOps
  <2> QED
    BY <1>4, <2>1, <2>2
<1>6. pending' \in [Subs -> Places \cup {None}] /\ dispatched' \subseteq Subs
  BY Standing DEF Release, BookTypes, Places, Releasable
<1>7. BookTypes' /\ EndTypes' /\ NetTypes'
  <2>1. BookTypes'
    BY <1>6, Standing DEF Release, BookTypes
  <2>2. EndTypes'
    BY <1>6, EndingStays DEF Release
  <2>3. NetTypes'
    BY <1>6, NetworkStays DEF Release
  <2> QED
    BY <2>1, <2>2, <2>3
<1> QED
  BY <1>5, <1>7, KeptAll

LEMMA ReleaseItemStep ==
    ASSUME IInv, NEW t \in Threads, ReleaseItem(t)
    PROVE  IInv'
<1>1. agenda[t] # <<>> /\ Cur(t).op = "items" /\ Now(t) = Cur(t) /\ Cur(t) \in Frames
  BY Standing, AtFrame DEF ReleaseItem
<1>2. Calm(t)
  BY DEF ReleaseItem, Calm, ending, network
<1>3. Cur(t).todo \in SUBSET [sub : Subs, station : Places]
  BY <1>1, FrameFields
<1>4. Kept /\ timed' \subseteq Subs
  <2>1. CASE Return(t) /\ UNCHANGED timed
    BY <1>1, <1>2, <2>1, Quiet0, Standing DEF BookTypes
  <2>2. ASSUME NEW i \in Now(t).todo, MaybeUnsaved(timed', timed \cup {i.sub}, timed),
               Then(t, <<[op |-> "begin", sub |-> i.sub, station |-> i.station],
                         [Now(t) EXCEPT !.todo = @ \ {i}]>>)
        PROVE  Kept /\ timed' \subseteq Subs
    <3> DEFINE f == [op |-> "begin", sub |-> i.sub, station |-> i.station]
               g == [Now(t) EXCEPT !.todo = @ \ {i}]
    <3>1. i.sub \in Subs /\ i.station \in Places
      BY <1>1, <1>3
    <3>2. f \in Frames /\ f.op = "begin"
      BY <3>1 DEF Frames
    <3>3. g = [op |-> "items", todo |-> Cur(t).todo \ {i}]
      <4>1. Now(t) \in Frames /\ Now(t).op = "items"
        BY <1>1
      <4>2. g = [op |-> "items", todo |-> Now(t).todo \ {i}]
        BY <4>1, Remaining
      <4> QED
        BY <1>1, <4>2
    <3>4. g \in Frames /\ g.op = "items"
      BY <1>3, <3>3, TodoFrames
    <3>5. Then(t, <<f, g>>)
      BY <2>2
    <3> HIDE DEF f, g
    <3>6. Kept
      BY <1>1, <1>2, <3>2, <3>4, <3>5, Quiet2 DEF AsideOps, ExecOps, BeforeOps, RestOps
    <3>7. timed' \subseteq Subs
      BY <2>2, <3>1, Standing DEF MaybeUnsaved, BookTypes
    <3> QED
      BY <3>6, <3>7
  <2> QED
    BY <2>1, <2>2 DEF ReleaseItem
<1>5. BookTypes' /\ EndTypes' /\ NetTypes'
  <2>1. BookTypes'
    BY <1>4, Standing DEF ReleaseItem, BookTypes
  <2>2. EndTypes'
    BY <1>4, EndingStays DEF ReleaseItem
  <2>3. NetTypes'
    BY <1>4, NetworkStays DEF ReleaseItem
  <2> QED
    BY <2>1, <2>2, <2>3
<1> QED
  BY <1>4, <1>5, KeptAll

LEMMA SetReadyStep ==
    ASSUME IInv, NEW t \in Threads, SetReady(t)
    PROVE  IInv'
<1>1. agenda[t] # <<>> /\ Cur(t).op = "ready" /\ Return(t)
  BY Standing, AtFrame DEF SetReady
<1>2. Calm(t)
  <2>1. ready' = TRUE
    BY DEF SetReady
  <2>2. attempt' = attempt /\ wire' = wire /\ runs' = runs /\ outputs' \subseteq outputs
    BY DEF SetReady, books, network
  <2> QED
    BY <1>1, <2>1, <2>2 DEF Calm
<1>3. Kept
  BY <1>1, <1>2, Quiet0
<1>4. BookTypes' /\ EndTypes' /\ NetTypes'
  <2>1. BookTypes'
    BY BooksStay DEF SetReady
  <2>2. EndTypes'
    BY Standing DEF SetReady, EndTypes
  <2>3. NetTypes'
    BY NetworkStays DEF SetReady
  <2> QED
    BY <2>1, <2>2, <2>3
<1> QED
  BY <1>3, <1>4, KeptAll

-----------------------------------------------------------------------------
(* Steps that concern several threads, or none.                            *)

\* Only the main thread has more than one frame, or another one than those named by Alone, while
\* retained results wait; so a step at any other frame means that none do.
LEMMA NoneAside ==
    ASSUME Agendas, Alone, NEW t \in Threads, agenda[t] # <<>>,
           Cur(t).op \notin BeforeOps \cup {"loop", "giveup", "resume", "reports"}
    PROVE  \A u \in Threads : \A i \in DOMAIN agenda[u] : agenda[u][i].op \notin AsideOps
<1> SUFFICES ASSUME NEW u \in Threads, NEW i \in DOMAIN agenda[u], agenda[u][i].op \in {"resume", "reports"}
             PROVE  FALSE
  BY DEF AsideOps
<1>1. /\ u = "main" /\ \A j \in DOMAIN agenda[u] : j < i => agenda[u][j].op \in BeforeOps
      /\ \A v \in Threads \ {"main"} : Cur(v).op \in {"idle", "loop", "giveup"}
  BY DEF Alone
<1>2. 1 \in DOMAIN agenda[t] /\ Cur(t) = agenda[t][1] /\ agenda[t][1] \in Frames
  BY FramePlaces DEF Cur
<1>3. Cur(t).op # "idle"
  <2>1. \A f \in Frames : f.op # "idle"
    BY DEF Frames
  <2> QED
    BY <1>2, <2>1
<1>4. t = "main"
  BY <1>1, <1>3
<1>5. i = 1 \/ i > 1
  <2>1. DOMAIN agenda[u] = 1..Len(agenda[u]) /\ Len(agenda[u]) \in Nat
    BY FramePlaces
  <2> QED
    BY <2>1
<1>6. CASE i = 1
  BY <1>1, <1>2, <1>4, <1>6
<1>7. CASE i > 1
  BY <1>1, <1>2, <1>4, <1>7
<1> QED
  BY <1>5, <1>6, <1>7

LEMMA PlaceAtStep ==
    ASSUME IInv, NEW t \in Threads, NEW s \in Subs, NEW w \in Stations, PlaceAt(t, s, w)
    PROVE  IInv'
<1> DEFINE f == [Now(t) EXCEPT !.todo = @ \ {s}]
           b == [op |-> "begin", sub |-> s, station |-> w]
           rest == <<f>> \o Tail(agenda[t])
<1>0. Agendas /\ Shape /\ Alone /\ Retained /\ Parts /\ TypeOK
  BY DEF IInv, TypeOK, Agendas
<1>1. /\ agenda[t] # <<>> /\ Cur(t).op = "team" /\ f \in Frames /\ f.op = "team"
      /\ b \in Frames /\ b.op = "begin" /\ s \in Threads
  <2>1. agenda[t] # <<>> /\ Cur(t).op = "team"
    BY <1>0, AtFrame DEF PlaceAt
  <2>2. f \in Frames /\ f.op = "team"
    BY <1>0, AtFrame, TeamRest DEF PlaceAt
  <2>3. s \in Threads
    BY <1>0, AtFrame, TeamRest DEF PlaceAt, Frames, Threads
  <2>4. b \in Frames /\ b.op = "begin"
    BY DEF Frames, Places
  <2> QED
    BY <2>1, <2>2, <2>3, <2>4
<1>2. \/ agenda' = [agenda EXCEPT ![t] = rest, ![s] = <<b>>]
      \/ agenda' = [agenda EXCEPT ![t] = rest]
  BY DEF PlaceAt
<1>3. rest \in Seq(Frames) /\ <<b>> \in Seq(Frames)
  <2>1. agenda[t] \in Seq(Frames)
    BY <1>0 DEF Agendas
  <2> QED
    BY <1>1, <2>1, FrameReplaced
<1>4. /\ Len(rest) \in Nat \ {0} /\ DOMAIN rest = 1..Len(rest) /\ rest[1] = f /\ Head(rest) = f /\ rest # <<>>
      /\ \A i \in DOMAIN rest : i > 1 => i \in DOMAIN agenda[t] /\ rest[i] = agenda[t][i]
  <2>1. agenda[t] \in Seq(Frames) /\ Len(agenda[t]) \in Nat /\ DOMAIN agenda[t] = 1..Len(agenda[t])
    BY <1>0, FramePlaces DEF Agendas
  <2>2. <<f>> \in Seq(Frames) /\ Len(<<f>>) = 1 /\ <<f>>[1] = f
    BY <1>1
  <2>3. /\ Len(rest) = Len(agenda[t]) /\ Len(agenda[t]) \in Nat \ {0}
        /\ \A i \in 1..1 : rest[i] = <<f>>[i]
        /\ \A i \in 2..Len(agenda[t]) : rest[i + 1 - 1] = agenda[t][i]
    <3>1. /\ Len(rest) = Len(<<f>>) + Len(agenda[t]) - 1 /\ Len(agenda[t]) \in Nat \ {0}
          /\ \A i \in 1..Len(<<f>>) : rest[i] = <<f>>[i]
          /\ \A i \in 2..Len(agenda[t]) : rest[i + Len(<<f>>) - 1] = agenda[t][i]
      BY <1>1, <2>1, <2>2, FrameReplaced
    <3> HIDE DEF rest, f
    <3>2. Len(rest) = Len(agenda[t])
      BY <2>2, <3>1
    <3> QED
      BY <2>2, <3>1, <3>2
  <2>4. rest[1] = f
    BY <2>2, <2>3
  <2>5. DOMAIN rest = 1..Len(rest) /\ (rest # <<>> => Head(rest) = rest[1]) /\ (1 \in DOMAIN rest => rest # <<>>)
    BY <1>3, PlacesOf
  <2> HIDE DEF rest, f
  <2>6. Len(rest) \in Nat \ {0} /\ 1 \in DOMAIN rest
    BY <2>3, <2>5
  <2>7. ASSUME NEW i \in DOMAIN rest, i > 1
        PROVE  i \in DOMAIN agenda[t] /\ rest[i] = agenda[t][i]
    <3>1. i \in 2..Len(agenda[t]) /\ i + 1 - 1 = i /\ i \in DOMAIN agenda[t]
      BY <2>1, <2>3, <2>5, <2>7
    <3> QED
      BY <2>3, <3>1
  <2> QED
    BY <2>4, <2>5, <2>6, <2>7
<1>5. /\ <<b>>[1] = b /\ Head(<<b>>) = b /\ <<b>> # <<>> /\ \A i \in DOMAIN <<b>> : i = 1
  OBVIOUS
<1> HIDE DEF rest, f, b
<1>6. /\ \A u \in Threads \ {s, t} : agenda'[u] = agenda[u]
      /\ agenda'[t] \in {rest, <<b>>}
      /\ agenda'[s] \in {rest, <<b>>, agenda[s]}
      /\ Agendas'
  BY <1>1, <1>2, <1>3, <1>0 DEF Agendas
<1>7. \A u \in Threads : agenda'[u] = agenda[u] \/ agenda'[u] = <<b>> \/ (u = t /\ agenda'[u] = rest)
  BY <1>0, <1>1, <1>2 DEF Agendas
<1>8. Shape'
  <2> SUFFICES ASSUME NEW u \in Threads, NEW i \in DOMAIN agenda'[u], i > 1 PROVE agenda'[u][i].op \in RestOps
    BY DEF Shape
  <2>1. CASE agenda'[u] = agenda[u]
    BY <1>0, <2>1 DEF Shape
  <2>2. CASE agenda'[u] = <<b>>
    BY <1>5, <2>2
  <2>3. CASE u = t /\ agenda'[u] = rest
    BY <1>0, <1>4, <2>3 DEF Shape
  <2> QED
    BY <1>7, <2>1, <2>2, <2>3
<1>9. \A u \in Threads : \A i \in DOMAIN agenda'[u] : agenda'[u][i].op \notin AsideOps
  <2> SUFFICES ASSUME NEW u \in Threads, NEW i \in DOMAIN agenda'[u] PROVE agenda'[u][i].op \notin AsideOps
    OBVIOUS
  <2>1. \A v \in Threads : \A j \in DOMAIN agenda[v] : agenda[v][j].op \notin AsideOps
    BY <1>0, <1>1, NoneAside DEF BeforeOps
  <2>2. CASE agenda'[u] = agenda[u]
    BY <2>1, <2>2
  <2>3. CASE agenda'[u] = <<b>>
    BY <1>1, <1>5, <2>3 DEF AsideOps
  <2>4. CASE u = t /\ agenda'[u] = rest
    <3>1. i = 1 \/ i > 1
      BY <1>4, <2>4
    <3>2. CASE i = 1
      BY <1>1, <1>4, <2>4, <3>2 DEF AsideOps
    <3>3. CASE i > 1
      BY <1>4, <2>1, <2>4, <3>3
    <3> QED
      BY <3>1, <3>2, <3>3
  <2> QED
    BY <1>7, <2>2, <2>3, <2>4
<1>10. Alone' /\ Retained'
  <2>1. "main" \in Threads
    BY DEF Threads
  <2> QED
    BY <1>9, <2>1 DEF Alone, Retained, AsideOps
<1>11. \A u \in Threads : Cur(u)' = Cur(u) \/ Cur(u)'.op \notin WatchOps
  <2> SUFFICES ASSUME NEW u \in Threads PROVE Cur(u)' = Cur(u) \/ Cur(u)'.op \notin WatchOps
    OBVIOUS
  <2>1. CASE agenda'[u] = agenda[u]
    BY <2>1 DEF Cur
  <2>2. CASE agenda'[u] = <<b>>
    BY <1>1, <1>5, <2>2 DEF Cur, WatchOps
  <2>3. CASE u = t /\ agenda'[u] = rest
    BY <1>1, <1>4, <2>3 DEF Cur, WatchOps
  <2> QED
    BY <1>7, <2>1, <2>2, <2>3
<1>12. attempt' = attempt /\ wire' = wire /\ runs' = runs /\ outputs' \subseteq outputs
  BY DEF PlaceAt, network
<1>13. Parts'
  BY <1>0, <1>11, <1>12, QuietlyKept
<1>14. Kept
  BY <1>6, <1>8, <1>10, <1>13 DEF Kept
<1>15. home' \in [Subs -> Places] /\ pending' \in [Subs -> Places \cup {None}] /\ dispatched' \subseteq Subs /\ timed' \subseteq Subs
  BY Standing DEF PlaceAt, BookTypes, Places
<1>16. BookTypes' /\ EndTypes' /\ NetTypes'
  <2>1. BookTypes'
    BY <1>15, Standing DEF PlaceAt, BookTypes
  <2>2. EndTypes'
    BY <1>15, EndingStays DEF PlaceAt
  <2>3. NetTypes'
    BY <1>15, NetworkStays DEF PlaceAt
  <2> QED
    BY <2>1, <2>2, <2>3
<1> QED
  BY <1>14, <1>16, KeptAll

\* Nothing moves but the stop reason.
LEMMA StopStep ==
    ASSUME IInv, NEW reason \in {"paused", "cancelled", "stopped"}, Stop(reason)
    PROVE  IInv'
<1>1. agenda' = agenda /\ ready' = ready /\ attempt' = attempt /\ wire' = wire /\ runs' = runs /\ outputs' = outputs
  BY DEF Stop, books, network
<1>2. \A u \in Threads : Cur(u)' = Cur(u)
  BY <1>1 DEF Cur
<1>3. Agendas' /\ Shape' /\ Alone' /\ Retained'
  BY <1>1, <1>2, Standing DEF Agendas, Shape, Alone, Retained, Cur
<1>4. Parts'
  BY <1>1, <1>2, QuietlyKept DEF IInv
<1>5. BookTypes' /\ EndTypes' /\ NetTypes'
  <2>1. BookTypes'
    BY BooksStay DEF Stop
  <2>2. EndTypes'
    BY Standing DEF Stop, EndTypes
  <2>3. NetTypes'
    BY NetworkStays DEF Stop
  <2> QED
    BY <2>1, <2>2, <2>3
<1> QED
  BY <1>3, <1>4, <1>5, KeptAll DEF Kept

LEMMA OneAtMost == \A n : n = 0 \/ n = 1 => n <= 1
OBVIOUS

LEMMA OneMore == \A m \in Nat : \A c \in 0..m : c < m => c + 1 \in 0..m
OBVIOUS

LEMMA ContinueStep ==
    ASSUME IInv, Continue
    PROVE  IInv'
<1> DEFINE f == [op |-> "resume"]
           g == [op |-> "create"]
           h == [op |-> "ready"]
           l == [op |-> "loop"]
<1>0. Agendas /\ Parts /\ TypeOK /\ BookTypes /\ EndTypes /\ NetTypes
  BY Standing DEF IInv
<1>1. /\ f \in Frames /\ g \in Frames /\ h \in Frames /\ l \in Frames
      /\ f.op = "resume" /\ g.op = "create" /\ h.op = "ready" /\ l.op = "loop"
  BY PlainFrames
<1>2. agenda' = [agenda EXCEPT !["main"] = <<f, g, h>>, !["loop"] = <<l>>]
  BY DEF Continue
<1> HIDE DEF f, g, h, l
<1>3. /\ <<f, g, h>> \in Seq(Frames) /\ DOMAIN <<f, g, h>> = 1..3 /\ <<f, g, h>> # <<>>
      /\ <<f, g, h>>[1] = f /\ <<f, g, h>>[2] = g /\ <<f, g, h>>[3] = h /\ Head(<<f, g, h>>) = f
      /\ <<l>> \in Seq(Frames) /\ DOMAIN <<l>> = 1..1 /\ <<l>> # <<>> /\ <<l>>[1] = l /\ Head(<<l>>) = l /\ Len(<<l>>) = 1
  BY <1>1
<1>4. /\ "main" \in Threads /\ "loop" \in Threads /\ "main" # "loop"
      /\ agenda'["main"] = <<f, g, h>> /\ agenda'["loop"] = <<l>>
      /\ \A u \in Threads \ {"main", "loop"} : agenda'[u] = <<>>
  <2>1. "main" \in Threads /\ "loop" \in Threads /\ "main" # "loop"
    BY DEF Threads
  <2>2. \A u \in Threads : agenda[u] = <<>>
    BY DEF Continue
  <2> QED
    BY <1>0, <1>2, <2>1, <2>2 DEF Agendas
<1>5. Agendas'
  BY <1>0, <1>2, <1>3 DEF Agendas
<1>6. Cur("main")' = f /\ Cur("loop")' = l /\ \A u \in Threads \ {"main", "loop"} : Cur(u)'.op = "idle"
  BY <1>3, <1>4 DEF Cur
<1>7. DOMAIN <<>> = {} /\ Len(<<>>) = 0
  <2>1. <<>> \in Seq(Frames) /\ Len(<<>>) = 0
    BY EmptySeq
  <2>2. DOMAIN <<>> = 1..0
    BY <2>1, LenProperties
  <2> QED
    BY <2>1, <2>2
<1>8. \A u \in Threads : \A i \in DOMAIN agenda'[u] :
          \/ u = "main" /\ i = 1 /\ agenda'[u][i] = f
          \/ u = "main" /\ i \in {2, 3} /\ agenda'[u][i] \in {g, h}
          \/ u = "loop" /\ i = 1 /\ agenda'[u][i] = l
  <2> SUFFICES ASSUME NEW u \in Threads, NEW i \in DOMAIN agenda'[u]
               PROVE  \/ u = "main" /\ i = 1 /\ agenda'[u][i] = f
                      \/ u = "main" /\ i \in {2, 3} /\ agenda'[u][i] \in {g, h}
                      \/ u = "loop" /\ i = 1 /\ agenda'[u][i] = l
    OBVIOUS
  <2>1. CASE u = "main"
    <3>1. i \in 1..3
      BY <1>3, <1>4, <2>1
    <3>2. i = 1 \/ i = 2 \/ i = 3
      BY <3>1
    <3> QED
      BY <1>3, <1>4, <2>1, <3>2
  <2>2. CASE u = "loop"
    BY <1>3, <1>4, <2>2
  <2>3. CASE u \notin {"main", "loop"}
    BY <1>4, <1>7, <2>3
  <2> QED
    BY <2>1, <2>2, <2>3
<1>9. Shape'
  BY <1>1, <1>8 DEF Shape, RestOps
<1>10. Alone'
  <2> SUFFICES ASSUME NEW u \in Threads, NEW i \in DOMAIN agenda'[u], agenda'[u][i].op \in {"resume", "reports"}
               PROVE  /\ u = "main" /\ ~ready'
                      /\ \A j \in DOMAIN agenda'[u] : j < i => agenda'[u][j].op \in BeforeOps
                      /\ \A v \in Threads \ {"main"} : Cur(v)'.op \in {"idle", "loop", "giveup"} /\ Len(agenda'[v]) <= 1
    BY DEF Alone
  <2>1. u = "main" /\ i = 1
    BY <1>1, <1>8
  <2>2. \A j \in DOMAIN agenda'[u] : ~(j < i)
    <3>1. \A j \in DOMAIN agenda'[u] : j \in 1..3
      BY <1>3, <1>4, <2>1
    <3> QED
      BY <2>1, <3>1
  <2>3. ~ready'
    BY DEF Continue
  <2>4. \A v \in Threads \ {"main"} : Len(agenda'[v]) <= 1
    <3> TAKE v \in Threads \ {"main"}
    <3>1. Len(agenda'[v]) = 0 \/ Len(agenda'[v]) = 1
      BY <1>3, <1>4, <1>7
    <3> QED
      BY <3>1, OneAtMost
  <2>5. \A v \in Threads \ {"main"} : Cur(v)'.op \in {"idle", "loop", "giveup"}
    BY <1>1, <1>6
  <2> QED
    BY <2>1, <2>2, <2>3, <2>4, <2>5
<1>11. Retained'
  BY <1>1, <1>4, <1>8 DEF Retained
<1>12. attempt' = attempt /\ wire' = wire /\ runs' = runs /\ outputs' \subseteq outputs
  BY DEF Continue, network
<1>13. \A u \in Threads : Cur(u)'.op \notin WatchOps
  BY <1>1, <1>6 DEF WatchOps
<1>14. Parts'
  BY <1>0, <1>12, <1>13, QuietlyKept
<1>15. Kept
  BY <1>5, <1>9, <1>10, <1>11, <1>14 DEF Kept
<1>16. EndTypes'
  <2>1. continues' \in 0..MaxContinues
    <3>1. MaxContinues \in Nat
      BY DispatchAssumption DEF DispatchAssumption
    <3>2. continues \in 0..MaxContinues /\ continues < MaxContinues /\ continues' = continues + 1
      BY <1>0 DEF Continue, EndTypes
    <3> QED
      BY <3>1, <3>2, OneMore
  <2> QED
    BY <1>0, <2>1 DEF Continue, EndTypes
<1>17. BookTypes' /\ NetTypes'
  BY <1>0 DEF Continue, network, BookTypes, NetTypes
<1> QED
  BY <1>15, <1>16, <1>17, KeptAll

-----------------------------------------------------------------------------
(* Recovery without an execution, the progress loop and the delivery.      *)

LEMMA AwaitNothingStep ==
    ASSUME IInv, NEW t \in Threads, AwaitNothing(t)
    PROVE  IInv'
<1>1. agenda[t] # <<>> /\ Return(t)
  BY Standing, AtFrame DEF AwaitNothing
<1>2. Calm(t)
  BY DEF AwaitNothing, Calm, books, ending, network
<1>3. Kept
  BY <1>1, <1>2, Quiet0
<1>4. BookTypes' /\ EndTypes' /\ NetTypes'
  <2>1. BookTypes'
    BY BooksStay DEF AwaitNothing
  <2>2. EndTypes'
    BY EndingStays DEF AwaitNothing
  <2>3. NetTypes'
    BY NetworkStays DEF AwaitNothing
  <2> QED
    BY <2>1, <2>2, <2>3
<1> QED
  BY <1>3, <1>4, KeptAll

LEMMA RetryElsewhereStep ==
    ASSUME IInv, NEW t \in Threads, NEW w \in Stations, RetryElsewhere(t, w)
    PROVE  IInv'
<1> DEFINE f == [op |-> "begin", sub |-> Now(t).sub, station |-> w]
<1>1. agenda[t] # <<>> /\ Cur(t).op = "elsewhere" /\ Now(t) = Cur(t) /\ Cur(t) \in Frames
  BY Standing, AtFrame DEF RetryElsewhere
<1>2. Calm(t)
  BY DEF RetryElsewhere, Calm, ending, network
<1>3. Now(t).sub \in Subs /\ w \in Places
  BY <1>1, FrameFields DEF Places
<1>4. f \in Frames /\ f.op = "begin" /\ Then(t, <<f>>)
  BY <1>3 DEF Frames, RetryElsewhere
<1> HIDE DEF f
<1>5. Kept
  BY <1>1, <1>2, <1>4, Quiet1 DEF AsideOps, ExecOps, BeforeOps
<1>6. home' \in [Subs -> Places]
  BY <1>3, Standing DEF RetryElsewhere, BookTypes
<1>7. BookTypes' /\ EndTypes' /\ NetTypes'
  <2>1. BookTypes'
    BY <1>6, Standing DEF RetryElsewhere, BookTypes
  <2>2. EndTypes'
    BY <1>6, EndingStays DEF RetryElsewhere
  <2>3. NetTypes'
    BY <1>6, NetworkStays DEF RetryElsewhere
  <2> QED
    BY <2>1, <2>2, <2>3
<1> QED
  BY <1>5, <1>7, KeptAll

LEMMA TakeOverStep ==
    ASSUME IInv, NEW t \in Threads, TakeOver(t)
    PROVE  IInv'
<1> DEFINE s == Now(t).sub
           f == [op |-> "begin", sub |-> s, station |-> Local]
<1>1. agenda[t] # <<>> /\ Cur(t).op = "elsewhere" /\ Now(t) = Cur(t) /\ Cur(t) \in Frames
  BY Standing, AtFrame DEF TakeOver
<1>2. Calm(t)
  BY DEF TakeOver, Calm, ending, network
<1>3. s \in Subs /\ Local \in Places
  BY <1>1, FrameFields DEF Places
<1>4. f \in Frames /\ f.op = "begin"
  BY <1>3 DEF Frames
<1>5. Return(t) \/ Then(t, <<f>>)
  BY DEF TakeOver
<1> HIDE DEF f
<1>6. Kept
  <2>1. CASE Return(t)
    BY <1>1, <1>2, <2>1, Quiet0
  <2>2. CASE Then(t, <<f>>)
    BY <1>1, <1>2, <1>4, <2>2, Quiet1 DEF AsideOps, ExecOps, BeforeOps
  <2> QED
    BY <1>5, <2>1, <2>2
<1>7. retries' \in [Subs -> Nat] /\ takeover' \subseteq Subs /\ timed' \subseteq Subs
  <2>1. \A n \in Nat : n + 1 \in Nat
    OBVIOUS
  <2>2. retries[s] + 1 \in Nat
    BY <1>3, <2>1, Standing DEF BookTypes
  <2> QED
    BY <1>3, <2>2, Standing DEF TakeOver, BookTypes
<1>8. BookTypes' /\ EndTypes' /\ NetTypes'
  <2>1. outputs' \subseteq Subs
    BY <1>2, Standing DEF Calm, BookTypes
  <2>2. BookTypes'
    BY <1>7, <2>1, Standing DEF TakeOver, BookTypes
  <2>3. EndTypes'
    BY EndingStays DEF TakeOver
  <2>4. NetTypes'
    BY NetworkStays DEF TakeOver
  <2> QED
    BY <2>2, <2>3, <2>4
<1> QED
  BY <1>6, <1>8, KeptAll

LEMMA GiveUpStep ==
    ASSUME IInv, NEW t \in Threads, GiveUp(t)
    PROVE  IInv'
<1>1. agenda[t] # <<>> /\ Return(t) /\ Now(t) = Cur(t) /\ Cur(t).op = "giveup" /\ Cur(t) \in Frames
  BY Standing, AtFrame DEF GiveUp
<1>2. Calm(t)
  BY DEF GiveUp, Calm, network
<1>3. Kept
  BY <1>1, <1>2, Quiet0
<1>4. /\ Now(t).sub \in Subs \cup {"global"}
      /\ Now(t).cause \in {"unknown", "exhausted", "timeout", "missing"}
  BY <1>1, FrameFields
<1>5. failure' \in [sub : Subs \cup {"global"}, cause : {"unknown", "exhausted", "timeout", "missing"}]
  BY <1>4 DEF GiveUp
<1>6. BookTypes'
  BY <1>2, Standing DEF GiveUp, BookTypes, Calm
<1>7. EndTypes' /\ NetTypes'
  <2>1. EndTypes'
    BY <1>5, Standing DEF GiveUp, EndTypes
  <2>2. NetTypes'
    BY <1>5, NetworkStays DEF GiveUp
  <2> QED
    BY <2>1, <2>2
<1> QED
  BY <1>3, <1>6, <1>7, KeptAll

LEMMA LoopRoundStep ==
    ASSUME IInv, NEW t \in Threads, LoopRound(t)
    PROVE  IInv'
<1> DEFINE f == [op |-> "poll", todo |-> Outstanding]
           g == [op |-> "timeouts"]
           h == [op |-> "count"]
<1>1. agenda[t] # <<>> /\ Cur(t).op = "loop" /\ ready
  BY Standing, AtFrame DEF LoopRound
<1>2. Calm(t)
  BY DEF LoopRound, Calm, books, ending, network
<1>3. Outstanding \in SUBSET Requests
  BY Standing DEF Outstanding, Requests, BookTypes
<1>4. /\ f \in Frames /\ g \in Frames /\ h \in Frames
      /\ f.op = "poll" /\ g.op = "timeouts" /\ h.op = "count" /\ Then(t, <<f, g, h>>)
  BY <1>3, PlainFrames, TodoFrames DEF LoopRound
<1> HIDE DEF f, g, h
<1>5. Unhurt /\ OwnOnly(t) /\ Follows(t, f)
  BY <1>1, <1>2, <1>4 DEF IInv, Unhurt, OwnOnly, Calm, Follows, AsideOps, ExecOps, BeforeOps
<1>6. Walked(t) /\ Cur(t)' = f
  BY <1>1, <1>4, <1>5, Walk3 DEF RestOps, AsideOps
<1>7. Kept
  BY <1>2, <1>4, <1>6, QuietWalk DEF WatchOps
<1>8. BookTypes' /\ EndTypes' /\ NetTypes'
  <2>1. BookTypes'
    BY BooksStay DEF LoopRound
  <2>2. EndTypes'
    BY EndingStays DEF LoopRound
  <2>3. NetTypes'
    BY NetworkStays DEF LoopRound
  <2> QED
    BY <2>1, <2>2, <2>3
<1> QED
  BY <1>7, <1>8, KeptAll

LEMMA GlobalTimeoutStep ==
    ASSUME IInv, NEW t \in Threads, GlobalTimeout(t)
    PROVE  IInv'
<1> DEFINE f == [op |-> "giveup", sub |-> "global", cause |-> "timeout"]
<1>1. agenda[t] # <<>> /\ Cur(t).op = "loop"
  BY Standing, AtFrame DEF GlobalTimeout
<1>2. Calm(t)
  BY DEF GlobalTimeout, Calm, books, ending, network
<1>3. f \in Frames /\ f.op = "giveup" /\ Then(t, <<f>>)
  BY GiveUpFrames DEF GlobalTimeout
<1> HIDE DEF f
<1>4. Kept
  BY <1>1, <1>2, <1>3, Quiet1 DEF AsideOps, ExecOps, BeforeOps
<1>5. BookTypes' /\ EndTypes' /\ NetTypes'
  <2>1. BookTypes'
    BY BooksStay DEF GlobalTimeout
  <2>2. EndTypes'
    BY EndingStays DEF GlobalTimeout
  <2>3. NetTypes'
    BY NetworkStays DEF GlobalTimeout
  <2> QED
    BY <2>1, <2>2, <2>3
<1> QED
  BY <1>4, <1>5, KeptAll

LEMMA CheckTimeoutsStep ==
    ASSUME IInv, NEW t \in Threads, CheckTimeouts(t)
    PROVE  IInv'
<1>1. agenda[t] # <<>> /\ Cur(t).op = "timeouts"
  BY Standing, AtFrame DEF CheckTimeouts
<1>2. Calm(t)
  BY DEF CheckTimeouts, Calm, ending, network
<1>3. timed' \subseteq Subs
  BY Standing DEF CheckTimeouts, BookTypes
<1>4. Kept
  <2>1. CASE Return(t)
    BY <1>1, <1>2, <2>1, Quiet0
  <2>2. ASSUME NEW s \in timed, Then(t, <<[op |-> "giveup", sub |-> s, cause |-> "timeout"]>>)
        PROVE  Kept
    <3> DEFINE f == [op |-> "giveup", sub |-> s, cause |-> "timeout"]
    <3>1. s \in Subs
      BY Standing DEF BookTypes
    <3>2. f \in Frames /\ f.op = "giveup" /\ Then(t, <<f>>)
      BY <2>2, <3>1, GiveUpFrames
    <3> HIDE DEF f
    <3> QED
      BY <1>1, <1>2, <3>2, Quiet1 DEF AsideOps, ExecOps, BeforeOps
  <2> QED
    BY <2>1, <2>2 DEF CheckTimeouts
<1>5. BookTypes' /\ EndTypes' /\ NetTypes'
  <2>1. BookTypes'
    BY <1>3, Standing DEF CheckTimeouts, BookTypes
  <2>2. EndTypes'
    BY <1>3, EndingStays DEF CheckTimeouts
  <2>3. NetTypes'
    BY <1>3, NetworkStays DEF CheckTimeouts
  <2> QED
    BY <2>1, <2>2, <2>3
<1> QED
  BY <1>4, <1>5, KeptAll

LEMMA CountStep ==
    ASSUME IInv, NEW t \in Threads, Count(t)
    PROVE  IInv'
<1>1. agenda[t] # <<>> /\ Cur(t).op = "count"
  BY Standing, AtFrame DEF Count
<1>2. Calm(t)
  BY DEF Count, Calm, books, ending, network
<1>3. PICK f \in Frames : f.op \in {"aggregate", "loop"} /\ Then(t, <<f>>)
  <2>1. [op |-> "aggregate"] \in Frames /\ [op |-> "loop"] \in Frames
    BY PlainFrames
  <2>2. Then(t, <<[op |-> "aggregate"]>>) \/ Then(t, <<[op |-> "loop"]>>)
    BY DEF Count
  <2> QED
    BY <2>1, <2>2
<1>4. Kept
  BY <1>1, <1>2, <1>3, Quiet1 DEF AsideOps, ExecOps, BeforeOps
<1>5. BookTypes' /\ EndTypes' /\ NetTypes'
  <2>1. BookTypes'
    BY BooksStay DEF Count
  <2>2. EndTypes'
    BY EndingStays DEF Count
  <2>3. NetTypes'
    BY NetworkStays DEF Count
  <2> QED
    BY <2>1, <2>2, <2>3
<1> QED
  BY <1>4, <1>5, KeptAll

LEMMA AggregateStep ==
    ASSUME IInv, NEW t \in Threads, Aggregate(t)
    PROVE  IInv'
<1>1. agenda[t] # <<>> /\ Cur(t).op = "aggregate"
  BY Standing, AtFrame DEF Aggregate
<1>2. Calm(t)
  BY DEF Aggregate, Calm, books, ending, network
<1>3. PICK f \in Frames : f.op \in {"prepare", "summarise", "giveup"} /\ Then(t, <<f>>)
  <2>1. CASE Subs \subseteq outputs
    <3>1. [op |-> "prepare"] \in Frames /\ [op |-> "summarise"] \in Frames
      BY PlainFrames
    <3>2. Then(t, <<[op |-> "prepare"]>>) \/ Then(t, <<[op |-> "summarise"]>>)
      BY <2>1 DEF Aggregate
    <3> QED
      BY <3>1, <3>2
  <2>2. CASE ~(Subs \subseteq outputs)
    <3>1. PICK s \in Subs : Then(t, <<[op |-> "giveup", sub |-> s, cause |-> "missing"]>>)
      BY <2>2 DEF Aggregate
    <3>2. [op |-> "giveup", sub |-> s, cause |-> "missing"] \in Frames
      BY GiveUpFrames
    <3> QED
      BY <3>1, <3>2
  <2> QED
    BY <2>1, <2>2
<1>4. Kept
  BY <1>1, <1>2, <1>3, Quiet1 DEF AsideOps, ExecOps, BeforeOps
<1>5. BookTypes' /\ EndTypes' /\ NetTypes'
  <2>1. BookTypes'
    BY BooksStay DEF Aggregate
  <2>2. EndTypes'
    BY EndingStays DEF Aggregate
  <2>3. NetTypes'
    BY NetworkStays DEF Aggregate
  <2> QED
    BY <2>1, <2>2, <2>3
<1> QED
  BY <1>4, <1>5, KeptAll

LEMMA SummariseStep ==
    ASSUME IInv, NEW t \in Threads, Summarise(t)
    PROVE  IInv'
<1>1. agenda[t] # <<>> /\ Cur(t).op = "summarise"
  BY Standing, AtFrame DEF Summarise
<1>2. Calm(t)
  BY DEF Summarise, Calm, books, network
<1>3. [op |-> "prepare"] \in Frames /\ [op |-> "prepare"].op = "prepare"
  BY PlainFrames
<1>4. Return(t) \/ Then(t, <<[op |-> "prepare"]>>)
  BY DEF Summarise
<1>5. Kept
  <2>1. CASE Return(t)
    BY <1>1, <1>2, <2>1, Quiet0
  <2>2. CASE Then(t, <<[op |-> "prepare"]>>)
    BY <1>1, <1>2, <1>3, <2>2, Quiet1 DEF AsideOps, ExecOps, BeforeOps
  <2> QED
    BY <1>4, <2>1, <2>2
<1>6. BookTypes' /\ NetTypes'
  BY BooksStay, NetworkStays DEF Summarise
<1>7. EndTypes'
  <2>1. /\ UNCHANGED <<stop, failure, ready, delivery, continues>>
        /\ aggregate' = aggregate \/ aggregate' = "returned" \/ aggregate' = "stored"
        /\ verdict' = verdict \/ verdict' = "failed"
    BY DEF Summarise
  <2>2. aggregate' \in {"absent", "returned", "stored"} /\ verdict' \in {"completed", "failed", None}
    BY <2>1, Standing DEF EndTypes
  <2> QED
    BY <2>1, <2>2, Standing DEF EndTypes
<1> QED
  BY <1>5, <1>6, <1>7, KeptAll

LEMMA PrepareStep ==
    ASSUME IInv, NEW t \in Threads, Prepare(t)
    PROVE  IInv'
<1>1. agenda[t] # <<>> /\ Cur(t).op = "prepare" /\ Then(t, <<[op |-> "deliver"]>>)
  BY Standing, AtFrame DEF Prepare
<1>2. Calm(t)
  BY DEF Prepare, Calm, books, network
<1>3. [op |-> "deliver"] \in Frames /\ [op |-> "deliver"].op = "deliver"
  BY PlainFrames
<1>4. Kept
  BY <1>1, <1>2, <1>3, Quiet1 DEF AsideOps, ExecOps, BeforeOps
<1>5. BookTypes' /\ EndTypes' /\ NetTypes'
  <2>1. BookTypes'
    BY BooksStay DEF Prepare
  <2>2. EndTypes'
    BY Standing DEF Prepare, EndTypes
  <2>3. NetTypes'
    BY NetworkStays DEF Prepare
  <2> QED
    BY <2>1, <2>2, <2>3
<1> QED
  BY <1>4, <1>5, KeptAll

LEMMA DeliverStep ==
    ASSUME IInv, NEW t \in Threads, Deliver(t)
    PROVE  IInv'
<1>1. agenda[t] # <<>> /\ Cur(t).op = "deliver" /\ Then(t, <<[op |-> "posting"]>>)
  BY Standing, AtFrame DEF Deliver
<1>2. Calm(t)
  BY DEF Deliver, Calm, books, network
<1>3. [op |-> "posting"] \in Frames /\ [op |-> "posting"].op = "posting"
  BY PlainFrames
<1>4. Kept
  BY <1>1, <1>2, <1>3, Quiet1 DEF AsideOps, ExecOps, BeforeOps
<1>5. BookTypes' /\ EndTypes' /\ NetTypes'
  <2>1. BookTypes'
    BY BooksStay DEF Deliver
  <2>2. EndTypes'
    BY Standing DEF Deliver, EndTypes
  <2>3. NetTypes'
    BY NetworkStays DEF Deliver
  <2> QED
    BY <2>1, <2>2, <2>3
<1> QED
  BY <1>4, <1>5, KeptAll

LEMMA PostedStep ==
    ASSUME IInv, NEW t \in Threads, Posted(t)
    PROVE  IInv'
<1>1. agenda[t] # <<>> /\ Return(t)
  BY Standing, AtFrame DEF Posted
<1>2. Calm(t)
  BY DEF Posted, Calm, books, network
<1>3. Kept
  BY <1>1, <1>2, Quiet0
<1>4. BookTypes' /\ NetTypes'
  BY BooksStay, NetworkStays DEF Posted
<1>5. EndTypes'
  <2>1. PICK b \in BOOLEAN :
            /\ delivery' = IF b THEN "acknowledged" ELSE delivery
            /\ verdict' = IF Stopped THEN verdict ELSE IF b THEN "completed" ELSE "failed"
    BY DEF Posted
  <2>2. UNCHANGED <<stop, failure, ready, aggregate, continues>>
    BY DEF Posted
  <2>3. verdict' \in {"completed", "failed", None}
    BY <2>1, Standing DEF EndTypes
  <2>4. delivery' \in {"absent", "prepared", "sending", "acknowledged"}
    BY <2>1, Standing DEF EndTypes
  <2> QED
    BY <2>2, <2>3, <2>4, Standing DEF EndTypes
<1> QED
  BY <1>3, <1>4, <1>5, KeptAll

-----------------------------------------------------------------------------
(* Sending, answers and results keep the invariant.                        *)

LEMMA ArriveStep ==
    ASSUME IInv, NEW m \in wire, Arrive(m)
    PROVE  IInv'
<1>1. agenda' = agenda /\ ready' = ready /\ attempt' = attempt
  BY DEF Arrive, books, ending
<1>2. Agendas' /\ Shape' /\ Alone' /\ Retained'
  BY <1>1, Standing DEF Agendas, Shape, Alone, Retained, Cur
<1>3. Parts'
  BY ArriveKept DEF IInv
<1>4. NetTypes'
  <2>1. m \in Requests
    BY Standing DEF NetTypes
  <2>2. [sub |-> m.sub, number |-> m.number, status |-> "running"]
            \in [sub : Subs, number : Nat, status : Terminal \cup {"running"}]
    BY <2>1 DEF Requests
  <2> QED
    BY <2>2, Standing DEF NetTypes, Arrive
<1>5. BookTypes' /\ EndTypes'
  BY BooksStay, EndingStays DEF Arrive
<1> QED
  BY <1>2, <1>3, <1>4, <1>5, KeptAll DEF Kept

LEMMA RunEndsStep ==
    ASSUME IInv, NEW r \in runs, RunEnds(r)
    PROVE  IInv'
<1>1. agenda' = agenda /\ ready' = ready /\ attempt' = attempt
  BY DEF RunEnds, books, ending
<1>2. Agendas' /\ Shape' /\ Alone' /\ Retained'
  BY <1>1, Standing DEF Agendas, Shape, Alone, Retained, Cur
<1>3. Parts'
  BY RunEndsKept DEF IInv
<1>4. NetTypes'
  <2>1. r \in [sub : Subs, number : Nat, status : Terminal \cup {"running"}]
    BY Standing DEF NetTypes
  <2>2. \A a \in Terminal : [r EXCEPT !.status = a] \in [sub : Subs, number : Nat, status : Terminal \cup {"running"}]
    BY <2>1
  <2> QED
    BY <2>2, Standing DEF NetTypes, RunEnds
<1>5. BookTypes' /\ EndTypes'
  BY BooksStay, EndingStays DEF RunEnds
<1> QED
  BY <1>2, <1>3, <1>4, <1>5, KeptAll DEF Kept

LEMMA BeginStep ==
    ASSUME IInv, NEW t \in Threads, Begin(t)
    PROVE  IInv'
<1> DEFINE s == Now(t).sub
           w == Now(t).station
           n == attempt[s].number + 1
           new == [number |-> n, station |-> w, phase |-> "active", received |-> None]
           f == [op |-> "send", sub |-> s, number |-> n, station |-> w]
<1>1. agenda[t] # <<>> /\ Cur(t).op = "begin" /\ Now(t) = Cur(t) /\ Cur(t) \in Frames
  BY Standing, AtFrame DEF Begin
<1>2. s \in Subs /\ w \in Places
  BY <1>1, FrameFields
<1>3. n \in Nat
  <2>1. \A k \in Nat : k + 1 \in Nat
    OBVIOUS
  <2> QED
    BY <1>2, <2>1, Standing DEF BookTypes
<1>4. outputs' = outputs /\ wire' = wire /\ runs' = runs /\ ready' = ready
  BY DEF Begin, ending, network
<1>5. CASE s \in outputs \/ Underway(s)
  <2>1. Return(t) /\ attempt' = attempt /\ timed' = timed /\ localTried' = localTried
    BY <1>5 DEF Begin
  <2>2. Calm(t)
    BY <1>4, <2>1 DEF Calm
  <2>3. Kept
    BY <1>1, <2>1, <2>2, Quiet0
  <2>4. BookTypes' /\ EndTypes' /\ NetTypes'
    <3>1. BookTypes'
      BY <2>1, Standing DEF Begin, BookTypes
    <3>2. EndTypes'
      BY <2>1, EndingStays DEF Begin
    <3>3. NetTypes'
      BY <2>1, NetworkStays DEF Begin
    <3> QED
      BY <3>1, <3>2, <3>3
  <2> QED
    BY <2>3, <2>4, KeptAll
<1>6. CASE s \notin outputs /\ ~Underway(s)
  <2>1. /\ attempt' = [attempt EXCEPT ![s] = new] /\ timed' = timed \cup {s}
        /\ localTried' \in {localTried, localTried \cup {s}} /\ Then(t, <<f>>)
    BY <1>6 DEF Begin
  <2>2. f \in Frames /\ f.op = "send" /\ f.sub = s
    BY <1>2, <1>3 DEF Frames
  <2>3. \A x \in Subs : x # s => attempt'[x] = attempt[x]
    BY <2>1, Standing DEF BookTypes
  <2>4. Unhurt /\ OwnOnly(t) /\ Follows(t, f)
    <3>1. attempt[s].phase # "active"
      BY <1>6 DEF Underway
    <3>2. \A x \in Subs : attempt'[x] = attempt[x] \/ attempt[x].phase # "active"
      BY <2>3, <3>1
    <3> HIDE DEF s, f, new
    <3> QED
      BY <1>1, <1>4, <2>2, <3>1, <3>2 DEF IInv, Unhurt, OwnOnly, Follows, AsideOps, BeforeOps
  <2>5. Walked(t) /\ Cur(t)' = f
    <3> HIDE DEF f
    <3> QED
      BY <1>1, <2>1, <2>2, <2>4, Walk1
  <2>6. Parts'
    <3>1. TypeOK /\ Parts /\ \A u \in Threads \ {t} : Cur(u)' = Cur(u)
      BY <2>5 DEF IInv, Walked
    <3>2. /\ Cur(t)' = [op |-> "send", sub |-> s, number |-> attempt[s].number + 1, station |-> w]
          /\ attempt' = [attempt EXCEPT ![s] =
                [number |-> attempt[s].number + 1, station |-> w, phase |-> "active", received |-> None]]
      BY <2>1, <2>5
    <3> HIDE DEF s, w, n, f, new
    <3> QED
      BY <1>1, <1>2, <1>4, <1>6, <3>1, <3>2, BeginKept
  <2>7. BookTypes'
    <3>1. new \in [number : Nat, station : Places \cup {None},
                   phase : {"none", "active", "processing", "done"}, received : Terminal \cup {None}]
      BY <1>2, <1>3
    <3> HIDE DEF s, w, n, f, new
    <3> QED
      BY <1>2, <1>4, <2>1, <3>1, Standing DEF Begin, BookTypes
  <2>8. EndTypes' /\ NetTypes'
    <3>1. EndTypes'
      BY <1>2, <1>4, <2>1, EndingStays DEF Begin
    <3>2. NetTypes'
      BY <1>2, <1>4, <2>1, Standing DEF Begin, NetTypes
    <3> QED
      BY <3>1, <3>2
  <2> QED
    BY <2>5, <2>6, <2>7, <2>8, KeptAll DEF Walked, Kept
<1> QED
  BY <1>5, <1>6

LEMMA SendStep ==
    ASSUME IInv, NEW t \in Threads, Send(t)
    PROVE  IInv'
<1> DEFINE s == Now(t).sub
           n == Now(t).number
<1>1. agenda[t] # <<>> /\ Cur(t).op = "send" /\ Now(t) = Cur(t) /\ Cur(t) \in Frames
  BY Standing, AtFrame DEF Send
<1>2. s \in Subs /\ n \in Nat
  BY <1>1, FrameFields
<1>3. outputs' = outputs /\ attempt' = attempt /\ runs' = runs /\ ready' = ready
  BY DEF Send, books, ending
<1>4. PICK f \in Frames : /\ Then(t, <<f>>) /\ f.op \in {"executing", "await"} /\ f.sub = s
                          /\ \/ /\ Cur(t).station = Local /\ wire' = wire
                                /\ f = [op |-> "executing", sub |-> s, number |-> n]
                             \/ wire' = wire \cup {[sub |-> s, number |-> n]} /\ f.op = "await"
  <2>1. [op |-> "executing", sub |-> s, number |-> n] \in Frames /\ [op |-> "await", sub |-> s, number |-> n] \in Frames
    BY <1>2 DEF Frames
  <2>2. CASE Now(t).station = Local
    <3>1. Then(t, <<[op |-> "executing", sub |-> s, number |-> n]>>) /\ wire' = wire
      BY <2>2 DEF Send
    <3> QED
      BY <1>1, <2>1, <2>2, <3>1
  <2>3. CASE Now(t).station # Local
    <3>1. Then(t, <<[op |-> "await", sub |-> s, number |-> n]>>) /\ wire' = wire \cup {[sub |-> s, number |-> n]}
      BY <2>3 DEF Send
    <3> QED
      BY <2>1, <3>1
  <2> QED
    BY <2>2, <2>3
<1>5. Unhurt /\ OwnOnly(t) /\ Follows(t, f)
  BY <1>1, <1>3, <1>4 DEF IInv, Unhurt, OwnOnly, Follows, AsideOps, BeforeOps, ExecOps
<1>6. Walked(t) /\ Cur(t)' = f
  BY <1>1, <1>4, <1>5, Walk1
<1>7. Parts'
  <2>1. TypeOK /\ Parts /\ \A u \in Threads \ {t} : Cur(u)' = Cur(u)
    BY <1>6 DEF IInv, Walked
  <2>2. s = Cur(t).sub /\ n = Cur(t).number
    BY <1>1
  <2> HIDE DEF s, n
  <2> QED
    BY <1>1, <1>2, <1>3, <1>4, <1>6, <2>1, <2>2, SendKept
<1>8. NetTypes'
  <2>1. [sub |-> s, number |-> n] \in Requests
    BY <1>2 DEF Requests
  <2>2. wire' \subseteq wire \cup {[sub |-> s, number |-> n]}
    BY <1>4
  <2> QED
    BY <2>1, <2>2, Standing DEF Send, NetTypes
<1>9. BookTypes' /\ EndTypes'
  BY BooksStay, EndingStays DEF Send
<1> QED
  BY <1>6, <1>7, <1>8, <1>9, KeptAll DEF Walked, Kept

\* What a station answers about an execution is what it has recorded, and final.
LEMMA AnswersFinal ==
    ASSUME TypeOK, Parts, NEW s \in Subs, NEW n \in Nat, NEW a \in Answers(s, n)
    PROVE  a \in Terminal /\ Over(s, n) /\ Reported(s, n, a)
<1>1. PICK r \in runs : r.sub = s /\ r.number = n /\ r.status = a
  BY DEF Answers
<1>2. a \in Terminal /\ a # "running"
  BY DEF Answers, Terminal
<1>3. r \in [sub : Subs, number : Nat, status : Terminal \cup {"running"}]
  BY DEF TypeOK
<1>4. r = [sub |-> s, number |-> n, status |-> a]
  BY <1>1, <1>3
<1>5. Over(s, n)
  BY <1>1, <1>2 DEF Parts, Ended
<1> QED
  BY <1>1, <1>2, <1>4, <1>5 DEF Reported

LEMMA AwaitReceiptStep ==
    ASSUME IInv, NEW t \in Threads, AwaitReceipt(t)
    PROVE  IInv'
<1>1. agenda[t] # <<>> /\ Cur(t).op = "await" /\ Now(t) = Cur(t) /\ Cur(t) \in Frames
  BY Standing, AtFrame DEF AwaitReceipt
<1>2. PICK s \in Subs, n \in Nat : s = Cur(t).sub /\ n = Cur(t).number
  BY <1>1, FrameFields
<1>3. outputs' = outputs /\ attempt' = attempt /\ wire' = wire /\ runs' = runs /\ ready' = ready
  BY DEF AwaitReceipt, books, ending, network
<1>4. PICK a \in Answers(s, n) : Then(t, <<[op |-> "receive", sub |-> s, number |-> n, status |-> a]>>)
  BY <1>1, <1>2 DEF AwaitReceipt
<1> DEFINE f == [op |-> "receive", sub |-> s, number |-> n, status |-> a]
<1>5. a \in Terminal /\ Over(s, n) /\ Reported(s, n, a)
  BY <1>2, AnswersFinal DEF IInv
<1>6. /\ f \in Frames /\ f.op = "receive" /\ f.sub = s /\ f.number = n /\ f.status = a /\ Then(t, <<f>>)
      /\ f.sub = Cur(t).sub
  BY <1>1, <1>2, <1>4, <1>5 DEF Frames
<1> HIDE DEF f
<1>7. Unhurt /\ OwnOnly(t) /\ Follows(t, f)
  BY <1>1, <1>3, <1>6 DEF IInv, Unhurt, OwnOnly, Follows, AsideOps, BeforeOps, ExecOps
<1>8. Walked(t) /\ Cur(t)' = f
  BY <1>1, <1>6, <1>7, Walk1
<1>9. Parts'
  <2>1. TypeOK /\ Parts /\ \A u \in Threads \ {t} : Cur(u)' = Cur(u)
    BY <1>8 DEF IInv, Walked
  <2>2. \A u \in Threads : Cur(u)' = Cur(u) \/ Cur(u)'.op \notin {"send", "executing"}
    BY <1>6, <1>8, <2>1
  <2>3. Live(s)' => Live(s)
    BY <1>3, <2>2, LiveShrinks
  <2>4. Over(f.sub, f.number)'
    BY <1>3, <1>5, <1>6, <2>3 DEF Over
  <2> QED
    BY <1>3, <1>5, <1>6, <1>8, <2>1, <2>4, AnswerKept
<1>10. BookTypes' /\ EndTypes' /\ NetTypes'
  <2>1. BookTypes'
    BY BooksStay DEF AwaitReceipt
  <2>2. EndTypes'
    BY EndingStays DEF AwaitReceipt
  <2>3. NetTypes'
    BY NetworkStays DEF AwaitReceipt
  <2> QED
    BY <2>1, <2>2, <2>3
<1> QED
  BY <1>8, <1>9, <1>10, KeptAll DEF Walked, Kept

LEMMA ExecuteLocallyStep ==
    ASSUME IInv, NEW t \in Threads, ExecuteLocally(t)
    PROVE  IInv'
<1>1. agenda[t] # <<>> /\ Cur(t).op = "executing" /\ Now(t) = Cur(t) /\ Cur(t) \in Frames
  BY Standing, AtFrame DEF ExecuteLocally
<1>2. PICK s \in Subs, n \in Nat : s = Cur(t).sub /\ n = Cur(t).number
  BY <1>1, FrameFields
<1>3. outputs' = outputs /\ attempt' = attempt /\ wire' = wire /\ runs' = runs /\ ready' = ready
  BY DEF ExecuteLocally, books, ending, network
<1>4. PICK a \in {"completed", "failed"} :
          Then(t, <<[op |-> "receive", sub |-> s, number |-> n, status |-> a]>>)
  BY <1>1, <1>2 DEF ExecuteLocally
<1> DEFINE f == [op |-> "receive", sub |-> s, number |-> n, status |-> a]
<1>6. /\ f \in Frames /\ f.op = "receive" /\ f.sub = s /\ f.number = n /\ f.status = a /\ Then(t, <<f>>)
      /\ f.sub = Cur(t).sub
  BY <1>1, <1>2, <1>4 DEF Frames, Terminal
<1>5. s = Cur(t).sub /\ n = Cur(t).number
  BY <1>2
<1> HIDE DEF f
<1>7. Unhurt /\ OwnOnly(t) /\ Follows(t, f)
  BY <1>1, <1>3, <1>6 DEF IInv, Unhurt, OwnOnly, Follows, AsideOps, BeforeOps, ExecOps
<1>8. Walked(t) /\ Cur(t)' = f
  BY <1>1, <1>6, <1>7, Walk1
<1>9. Parts'
  <2>1. TypeOK /\ Parts /\ \A u \in Threads \ {t} : Cur(u)' = Cur(u)
    BY <1>8 DEF IInv, Walked
  <2>2. t \in Senders(s)
    BY <1>1, <1>5 DEF Senders
  <2>3. /\ n = attempt[s].number /\ \A u \in Senders(s) : u = t
        /\ Wired(s) = {} /\ Running(s) = {}
    BY <1>2, <1>5, <2>1, <2>2 DEF Parts, LiveCurrent, LiveOnce
  <2>4. Senders(s)' = {}
    BY <1>6, <1>8, <2>1, <2>3 DEF Senders
  <2>5. ~Live(s)'
    BY <1>3, <2>3, <2>4 DEF Live, Wired, Running
  <2>6. Over(f.sub, f.number)'
    BY <1>3, <1>6, <2>3, <2>5 DEF Over
  <2>7. attempt[s].station = Local /\ Local \notin Stations
    BY <1>1, <1>5, <2>1, DispatchAssumption DEF Parts, Evidence, DispatchAssumption
  <2> QED
    BY <1>3, <1>6, <1>8, <2>1, <2>6, <2>7, AnswerKept
<1>10. BookTypes' /\ EndTypes' /\ NetTypes'
  <2>1. BookTypes'
    BY BooksStay DEF ExecuteLocally
  <2>2. EndTypes'
    BY EndingStays DEF ExecuteLocally
  <2>3. NetTypes'
    BY NetworkStays DEF ExecuteLocally
  <2> QED
    BY <2>1, <2>2, <2>3
<1> QED
  BY <1>8, <1>9, <1>10, KeptAll DEF Walked, Kept

LEMMA PollStep ==
    ASSUME IInv, NEW t \in Threads, Poll(t)
    PROVE  IInv'
<1>1. agenda[t] # <<>> /\ Cur(t).op = "poll" /\ Now(t) = Cur(t) /\ Cur(t) \in Frames
  BY Standing, AtFrame DEF Poll
<1>2. Cur(t).todo \in SUBSET Requests
  BY <1>1, FrameFields
<1>3. outputs' = outputs /\ attempt' = attempt /\ wire' = wire /\ runs' = runs /\ ready' = ready
  BY DEF Poll, books, ending, network
<1>4. Calm(t)
  BY <1>3 DEF Calm
<1>5. ASSUME NEW q \in Now(t).todo
      PROVE  /\ q \in Requests /\ q.sub \in Subs /\ q.number \in Nat
             /\ [Now(t) EXCEPT !.todo = @ \ {q}] \in Frames
             /\ [Now(t) EXCEPT !.todo = @ \ {q}].op = "poll"
  <2>1. Now(t) \in Frames /\ Now(t).op = "poll"
    BY <1>1
  <2>2. [Now(t) EXCEPT !.todo = @ \ {q}] = [op |-> "poll", todo |-> Now(t).todo \ {q}]
    BY <2>1, Remaining
  <2>3. Now(t).todo \ {q} \in SUBSET Requests
    BY <1>1, <1>2
  <2> QED
    BY <1>1, <1>2, <2>2, <2>3, TodoFrames DEF Requests
<1>6. Kept
  <2>1. CASE Return(t)
    BY <1>1, <1>4, <2>1, Quiet0
  <2>2. ASSUME NEW q \in Now(t).todo, Then(t, <<[Now(t) EXCEPT !.todo = @ \ {q}]>>)
        PROVE  Kept
    <3> DEFINE g == [Now(t) EXCEPT !.todo = @ \ {q}]
    <3>1. g \in Frames /\ g.op = "poll" /\ Then(t, <<g>>)
      BY <1>5, <2>2
    <3> HIDE DEF g
    <3> QED
      BY <1>1, <1>4, <3>1, Quiet1 DEF AsideOps, ExecOps, BeforeOps
  <2>3. ASSUME NEW q \in Now(t).todo, NEW a \in Answers(q.sub, q.number),
               Then(t, <<[op |-> "receive", sub |-> q.sub, number |-> q.number, status |-> a],
                         [Now(t) EXCEPT !.todo = @ \ {q}]>>)
        PROVE  Kept
    <3> DEFINE g == [Now(t) EXCEPT !.todo = @ \ {q}]
               f == [op |-> "receive", sub |-> q.sub, number |-> q.number, status |-> a]
    <3>1. g \in Frames /\ g.op = "poll" /\ Then(t, <<f, g>>)
      BY <1>5, <2>3
    <3>2. a \in Terminal /\ Over(q.sub, q.number) /\ Reported(q.sub, q.number, a)
      BY <1>5, AnswersFinal DEF IInv
    <3>3. f \in Frames /\ f.op = "receive" /\ f.sub = q.sub /\ f.number = q.number /\ f.status = a
      BY <1>5, <3>2 DEF Frames
    <3> HIDE DEF f, g
    <3>4. Unhurt /\ OwnOnly(t) /\ Follows(t, f)
      BY <1>1, <1>3, <3>3 DEF IInv, Unhurt, OwnOnly, Follows, AsideOps, BeforeOps, ExecOps
    <3>5. Walked(t) /\ Cur(t)' = f
      BY <1>1, <3>1, <3>3, <3>4, Walk2 DEF RestOps, AsideOps, BeforeOps
    <3>6. Parts'
      <4>1. TypeOK /\ Parts /\ \A u \in Threads \ {t} : Cur(u)' = Cur(u)
        BY <3>5 DEF IInv, Walked
      <4>2. \A u \in Threads : Cur(u)' = Cur(u) \/ Cur(u)'.op \notin {"send", "executing"}
        BY <3>3, <3>5, <4>1
      <4>3. Live(q.sub)' => Live(q.sub)
        BY <1>3, <4>2, LiveShrinks
      <4>4. Over(f.sub, f.number)'
        BY <1>3, <3>2, <3>3, <4>3 DEF Over
      <4> QED
        BY <1>3, <3>2, <3>3, <3>5, <4>1, <4>4, AnswerKept
    <3> QED
      BY <3>5, <3>6 DEF Walked, Kept
  <2> QED
    BY <2>1, <2>2, <2>3 DEF Poll
<1>7. BookTypes' /\ EndTypes' /\ NetTypes'
  <2>1. BookTypes'
    BY BooksStay DEF Poll
  <2>2. EndTypes'
    BY EndingStays DEF Poll
  <2>3. NetTypes'
    BY NetworkStays DEF Poll
  <2> QED
    BY <2>1, <2>2, <2>3
<1> QED
  BY <1>6, <1>7, KeptAll

\* An execution's result is recorded, or dealt with.
LEMMA NewPhase ==
    ASSUME TypeOK, NEW s \in Subs, NEW a \in Terminal
    PROVE  \E new \in AttemptRecords :
              /\ new = [attempt[s] EXCEPT !.phase = "processing", !.received = a]
              /\ new.phase = "processing" /\ new.received = a
              /\ new.number = attempt[s].number /\ new.station = attempt[s].station
<1>1. attempt[s] \in AttemptRecords
  BY DEF TypeOK, AttemptRecords
<1> USE <1>1 DEF AttemptRecords
<1> WITNESS [attempt[s] EXCEPT !.phase = "processing", !.received = a] \in AttemptRecords
<1> QED
  OBVIOUS

LEMMA DonePhase ==
    ASSUME TypeOK, NEW s \in Subs
    PROVE  \E new \in AttemptRecords :
              /\ new = [attempt[s] EXCEPT !.phase = "done"]
              /\ new.phase = "done" /\ new.received = attempt[s].received
              /\ new.number = attempt[s].number /\ new.station = attempt[s].station
<1>1. attempt[s] \in AttemptRecords
  BY DEF TypeOK, AttemptRecords
<1> USE <1>1 DEF AttemptRecords
<1> WITNESS [attempt[s] EXCEPT !.phase = "done"] \in AttemptRecords
<1> QED
  OBVIOUS

LEMMA BooksRewritten ==
    ASSUME BookTypes, NEW s \in Subs, NEW new \in AttemptRecords, attempt' = [attempt EXCEPT ![s] = new],
           pending' = pending, dispatched' = dispatched, home' = home,
           outputs' \subseteq Subs, retries' \in [Subs -> Nat], crossed' \subseteq Subs,
           takeover' \subseteq Subs, timed' \subseteq Subs
    PROVE  BookTypes'
BY DEF BookTypes, AttemptRecords

\* An answer about the current execution means that nothing of it is live any more.
LEMMA AnsweredDead ==
    ASSUME TypeOK, Parts, NEW t \in Threads, Cur(t).op = "receive", Current(Cur(t))
    PROVE  ~Live(Cur(t).sub)
<1>1. PICK s \in Subs, n \in Nat : s = Cur(t).sub /\ n = Cur(t).number
  BY Facts DEF WatchOps
<1>2. n < attempt[s].number \/ (n = attempt[s].number /\ ~Live(s))
  BY <1>1 DEF Parts, Ended, Over
<1>3. n = attempt[s].number
  BY <1>1 DEF Current
<1>4. ~(n < attempt[s].number)
  BY <1>3
<1> QED
  BY <1>1, <1>2, <1>4

LEMMA JudgedDead ==
    ASSUME TypeOK, Parts, NEW t \in Threads, Cur(t).op \in JudgeOps
    PROVE  ~Live(Cur(t).sub)
<1>1. Cur(t).sub \in Subs /\ attempt[Cur(t).sub].phase = "processing"
  BY Facts DEF Parts, Judged, JudgeOps, WatchOps
<1> QED
  BY <1>1 DEF Parts, LiveActive

LEMMA ReceiveStep ==
    ASSUME IInv, NEW t \in Threads, Receive(t)
    PROVE  IInv'
<1>1. agenda[t] # <<>> /\ Cur(t).op = "receive" /\ Now(t) = Cur(t) /\ Cur(t) \in Frames
  BY Standing, AtFrame DEF Receive
<1>2. PICK s \in Subs, n \in Nat, a \in Terminal : s = Cur(t).sub /\ n = Cur(t).number /\ a = Cur(t).status
  BY <1>1, FrameFields
<1>3. outputs' = outputs /\ wire' = wire /\ runs' = runs /\ ready' = ready
  BY DEF Receive, ending, network
<1>4. CASE Return(t) /\ UNCHANGED attempt
  <2>1. Calm(t)
    BY <1>3, <1>4 DEF Calm
  <2>2. Kept
    BY <1>1, <1>4, <2>1, Quiet0
  <2>3. BookTypes' /\ EndTypes' /\ NetTypes'
    <3>1. BookTypes'
      BY <1>4, Standing DEF Receive, BookTypes
    <3>2. EndTypes'
      BY <1>4, EndingStays DEF Receive
    <3>3. NetTypes'
      BY <1>4, NetworkStays DEF Receive
    <3> QED
      BY <3>1, <3>2, <3>3
  <2> QED
    BY <2>2, <2>3, KeptAll
<1>5. CASE ~(s \in outputs \/ ~Current(Cur(t)) \/ attempt[s].phase # "active")
  <2>1. PICK f \in Frames : /\ Then(t, <<f>>)
                            /\ f.op \in {"verify", "failed", "giveup"}
                            /\ f.op \in JudgeOps => f.sub = s /\ (f.op # "failed" => a = "completed")
    <3> DEFINE v == [op |-> "verify", sub |-> s, number |-> n]
               l == [op |-> "failed", sub |-> s]
               g == [op |-> "giveup", sub |-> s, cause |-> "unknown"]
    <3>1. v \in Frames /\ l \in Frames /\ g \in Frames
      BY GiveUpFrames DEF Frames
    <3>2. /\ a = "completed" => Then(t, <<v>>)
          /\ a = "failed" => Then(t, <<l>>)
          /\ a \notin {"completed", "failed"} => Then(t, <<g>>)
      BY <1>1, <1>2, <1>5 DEF Receive
    <3>3. CASE a = "completed"
      BY <3>1, <3>2, <3>3
    <3>4. CASE a = "failed"
      BY <3>1, <3>2, <3>4
    <3>5. CASE a \notin {"completed", "failed"}
      BY <3>1, <3>2, <3>5 DEF JudgeOps
    <3> QED
      BY <3>3, <3>4, <3>5
  <2>3. PICK new \in AttemptRecords :
            /\ new = [attempt[s] EXCEPT !.phase = "processing", !.received = a]
            /\ new.phase = "processing" /\ new.received = a
            /\ new.number = attempt[s].number /\ new.station = attempt[s].station
    BY NewPhase DEF IInv
  <2>4. attempt' = [attempt EXCEPT ![s] = new]
    <3>1. attempt' = [attempt EXCEPT ![s].phase = "processing", ![s].received = a]
      BY <1>1, <1>2, <1>5 DEF Receive
    <3> QED
      BY <2>3, <3>1
  <2>5. \A x \in Subs : x # s => attempt'[x] = attempt[x]
    BY <2>4, Standing DEF BookTypes
  <2>6. Unhurt /\ OwnOnly(t) /\ Follows(t, f)
    BY <1>1, <1>2, <1>3, <2>1, <2>5 DEF IInv, Unhurt, OwnOnly, Follows, AsideOps, BeforeOps, ExecOps, JudgeOps
  <2>7. Walked(t) /\ Cur(t)' = f
    BY <1>1, <2>1, <2>6, Walk1
  <2>8. Parts'
    <3>1. TypeOK /\ Parts /\ \A u \in Threads \ {t} : Cur(u)' = Cur(u)
      BY <2>7 DEF IInv, Walked
    <3>2. ~Live(s)
      BY <1>1, <1>2, <1>5, <3>1, AnsweredDead
    <3>3. \A u \in Threads \ {t} : Cur(u).op \in JudgeOps => Cur(u).sub # s
      BY <1>5, <3>1 DEF Parts, Judged
    <3>4. attempt[s].station \in Stations => Reported(s, attempt[s].number, a)
      BY <1>1, <1>2, <1>5, <3>1 DEF Parts, Evidence, Current
    <3>5. Cur(t)'.op \notin {"send", "executing", "receive"}
      BY <2>1, <2>7
    <3>6. Cur(t)'.op \in JudgeOps => Cur(t)'.sub = s /\ (Cur(t)'.op # "failed" => a = "completed")
      BY <2>1, <2>7
    <3>7. PhaseStep(t, s, new)
      BY <1>3, <1>5, <2>3, <2>4, <3>1, <3>2, <3>3, <3>4, <3>5, <3>6 DEF PhaseStep
    <3> QED
      BY <3>1, <3>7, PhaseKept
  <2>9. BookTypes'
    BY <2>3, <2>4, Standing, BooksRewritten DEF Receive, BookTypes
  <2>10. EndTypes' /\ NetTypes'
    <3>1. EndTypes'
      BY EndingStays DEF Receive
    <3>2. NetTypes'
      BY NetworkStays DEF Receive
    <3> QED
      BY <3>1, <3>2
  <2> QED
    BY <2>7, <2>8, <2>9, <2>10, KeptAll DEF Walked, Kept
<1>6. (Return(t) /\ UNCHANGED attempt) \/ ~(s \in outputs \/ ~Current(Cur(t)) \/ attempt[s].phase # "active")
  BY <1>1, <1>2 DEF Receive
<1> QED
  BY <1>4, <1>5, <1>6

LEMMA RetainStep ==
    ASSUME IInv, NEW t \in Threads, Retain(t)
    PROVE  IInv'
<1>1. agenda[t] # <<>> /\ Cur(t).op = "receive" /\ Now(t) = Cur(t) /\ Cur(t) \in Frames /\ Return(t)
  BY Standing, AtFrame DEF Retain
<1>2. PICK s \in Subs, n \in Nat, a \in Terminal : s = Cur(t).sub /\ n = Cur(t).number /\ a = Cur(t).status
  BY <1>1, FrameFields
<1>3. outputs' = outputs /\ wire' = wire /\ runs' = runs /\ ready' = ready
  BY DEF Retain, ending, network
<1>4. CASE attempt' = attempt
  <2>1. Calm(t)
    BY <1>3, <1>4 DEF Calm
  <2>2. Kept
    BY <1>1, <2>1, Quiet0
  <2>3. BookTypes' /\ EndTypes' /\ NetTypes'
    <3>1. BookTypes'
      BY <1>4, Standing DEF Retain, BookTypes
    <3>2. EndTypes'
      BY <1>4, EndingStays DEF Retain
    <3>3. NetTypes'
      BY <1>4, NetworkStays DEF Retain
    <3> QED
      BY <3>1, <3>2, <3>3
  <2> QED
    BY <2>2, <2>3, KeptAll
<1>5. CASE /\ s \notin outputs /\ Current(Cur(t)) /\ Underway(s) /\ attempt[s].received = None
           /\ attempt' = [attempt EXCEPT ![s].phase = "processing", ![s].received = a]
  <2>3. PICK new \in AttemptRecords :
            /\ new = [attempt[s] EXCEPT !.phase = "processing", !.received = a]
            /\ new.phase = "processing" /\ new.received = a
            /\ new.number = attempt[s].number /\ new.station = attempt[s].station
    BY NewPhase DEF IInv
  <2>4. attempt' = [attempt EXCEPT ![s] = new]
    BY <1>5, <2>3
  <2>5. \A x \in Subs : x # s => attempt'[x] = attempt[x]
    BY <2>4, Standing DEF BookTypes
  <2>6. Unhurt /\ OwnOnly(t)
    BY <1>1, <1>2, <1>3, <2>5 DEF IInv, Unhurt, OwnOnly, ExecOps
  <2>7. Walked(t) /\ Resting(t)'
    BY <1>1, <2>6, Walk0
  <2>8. Parts'
    <3>1. TypeOK /\ Parts /\ \A u \in Threads \ {t} : Cur(u)' = Cur(u)
      BY <2>7 DEF IInv, Walked
    <3>2. ~Live(s)
      BY <1>1, <1>2, <1>5, <3>1, AnsweredDead
    <3>3. \A u \in Threads \ {t} : Cur(u).op \in JudgeOps /\ Cur(u).sub = s => Cur(u).op = "failed"
      <4>1. "completed" # None
        BY DispatchAssumption DEF DispatchAssumption
      <4> QED
        BY <1>5, <3>1, <4>1 DEF Parts, Judged
    <3>4. attempt[s].station \in Stations => Reported(s, attempt[s].number, a)
      BY <1>1, <1>2, <1>5, <3>1 DEF Parts, Evidence, Current
    <3>5. Cur(t)'.op \notin {"send", "executing", "receive"} /\ Cur(t)'.op \notin JudgeOps
      BY <2>7 DEF Resting, RestOps, JudgeOps
    <3>6. PhaseStep(t, s, new)
      BY <1>3, <1>5, <2>3, <2>4, <3>1, <3>2, <3>3, <3>4, <3>5 DEF PhaseStep
    <3> QED
      BY <3>1, <3>6, PhaseKept
  <2>9. BookTypes'
    <3>1. /\ pending' = pending /\ dispatched' = dispatched /\ home' = home /\ outputs' \subseteq Subs
          /\ retries' \in [Subs -> Nat] /\ crossed' \subseteq Subs /\ takeover' \subseteq Subs
          /\ timed' \subseteq Subs
      BY Standing DEF Retain, BookTypes
    <3> QED
      BY <2>3, <2>4, <3>1, Standing, BooksRewritten
  <2>10. EndTypes' /\ NetTypes'
    <3>1. EndTypes'
      BY EndingStays DEF Retain
    <3>2. NetTypes'
      BY NetworkStays DEF Retain
    <3> QED
      BY <3>1, <3>2
  <2> QED
    BY <2>7, <2>8, <2>9, <2>10, KeptAll DEF Walked, Kept
<1> QED
  BY <1>1, <1>2, <1>4, <1>5 DEF Retain

LEMMA VerifyStep ==
    ASSUME IInv, NEW t \in Threads, Verify(t)
    PROVE  IInv'
<1>1. agenda[t] # <<>> /\ Cur(t).op = "verify" /\ Now(t) = Cur(t) /\ Cur(t) \in Frames
  BY Standing, AtFrame DEF Verify
<1>2. PICK s \in Subs : s = Cur(t).sub
  BY <1>1, FrameFields
<1>3. outputs' = outputs /\ attempt' = attempt /\ wire' = wire /\ runs' = runs /\ ready' = ready
  BY DEF Verify, books, ending, network
<1>4. PICK f \in Frames : Then(t, <<f>>) /\ f.op \in {"accept", "failed"} /\ f.sub = s
  <2>1. PICK next \in {"accept", "failed"} : Then(t, <<[op |-> next, sub |-> s]>>)
    BY <1>1, <1>2 DEF Verify
  <2>2. [op |-> next, sub |-> s] \in Frames
    BY DEF Frames
  <2> QED
    BY <2>1, <2>2
<1>5. Unhurt /\ OwnOnly(t) /\ Follows(t, f)
  BY <1>1, <1>2, <1>3, <1>4 DEF IInv, Unhurt, OwnOnly, Follows, AsideOps, BeforeOps, ExecOps
<1>6. Walked(t) /\ Cur(t)' = f
  BY <1>1, <1>4, <1>5, Walk1
<1>7. Parts'
  BY <1>1, <1>2, <1>3, <1>4, <1>6, VerifyKept DEF IInv, Walked
<1>8. BookTypes' /\ EndTypes' /\ NetTypes'
  <2>1. BookTypes'
    BY BooksStay DEF Verify
  <2>2. EndTypes'
    BY EndingStays DEF Verify
  <2>3. NetTypes'
    BY NetworkStays DEF Verify
  <2> QED
    BY <2>1, <2>2, <2>3
<1> QED
  BY <1>6, <1>7, <1>8, KeptAll DEF Walked, Kept

LEMMA AcceptStep ==
    ASSUME IInv, NEW t \in Threads, Accept(t)
    PROVE  IInv'
<1>1. agenda[t] # <<>> /\ Cur(t).op = "accept" /\ Now(t) = Cur(t) /\ Cur(t) \in Frames
  BY Standing, AtFrame DEF Accept
<1>2. PICK s \in Subs : s = Cur(t).sub
  BY <1>1, FrameFields
<1>3. wire' = wire /\ runs' = runs /\ ready' = ready /\ takeover' \subseteq Subs
  BY Standing DEF Accept, ending, network, MaybeUnsaved, BookTypes
<1>4. CASE Stopped
  <2>1. Return(t) /\ UNCHANGED <<outputs, attempt, timed>>
    BY <1>4 DEF Accept
  <2>2. Calm(t)
    BY <1>3, <2>1 DEF Calm
  <2>3. Kept
    BY <1>1, <2>1, <2>2, Quiet0
  <2>4. BookTypes' /\ EndTypes' /\ NetTypes'
    <3>1. BookTypes'
      BY <1>3, <2>1, Standing DEF Accept, BookTypes
    <3>2. EndTypes'
      BY <1>3, <2>1, EndingStays DEF Accept
    <3>3. NetTypes'
      BY <1>3, <2>1, NetworkStays DEF Accept
    <3> QED
      BY <3>1, <3>2, <3>3
  <2> QED
    BY <2>3, <2>4, KeptAll
<1>5. CASE ~Stopped
  <2>1. /\ outputs' = outputs \cup {s} /\ timed' = timed \ {s} /\ Then(t, <<[op |-> "release"]>>)
        /\ attempt' = [attempt EXCEPT ![s].phase = "done"]
    BY <1>1, <1>2, <1>5 DEF Accept
  <2>3. PICK new \in AttemptRecords :
            /\ new = [attempt[s] EXCEPT !.phase = "done"]
            /\ new.phase = "done" /\ new.received = attempt[s].received
            /\ new.number = attempt[s].number /\ new.station = attempt[s].station
    BY DonePhase DEF IInv
  <2>4. attempt' = [attempt EXCEPT ![s] = new]
    BY <2>1, <2>3
  <2>5. \A x \in Subs : x # s => attempt'[x] = attempt[x]
    BY <2>4, Standing DEF BookTypes
  <2>6. PICK f \in Frames : f.op = "release" /\ Then(t, <<f>>)
    BY <2>1, PlainFrames
  <2>7. Unhurt /\ OwnOnly(t) /\ Follows(t, f)
    BY <1>1, <1>2, <1>3, <2>5, <2>6 DEF IInv, Unhurt, OwnOnly, Follows, AsideOps, BeforeOps, ExecOps
  <2>8. Walked(t) /\ Cur(t)' = f
    BY <1>1, <2>6, <2>7, Walk1
  <2>9. Parts'
    <3>1. TypeOK /\ Parts /\ \A u \in Threads \ {t} : Cur(u)' = Cur(u)
      BY <2>8 DEF IInv, Walked
    <3>2. ~Live(s) /\ attempt[s].received = "completed"
      BY <1>1, <1>2, <3>1, JudgedDead DEF Parts, Judged, JudgeOps
    <3>3. \A u \in Threads \ {t} : Cur(u).op \in JudgeOps => Cur(u).sub # s
      BY <1>1, <1>2, <3>1 DEF Parts, Judged, JudgeOps
    <3>4. attempt[s].received # None /\ attempt[s].station \in Stations =>
              Reported(s, attempt[s].number, attempt[s].received)
      BY <3>1 DEF Parts, Evidence
    <3>5. Cur(t)'.op \notin {"send", "executing", "receive"} /\ Cur(t)'.op \notin JudgeOps
      BY <2>6, <2>8 DEF JudgeOps
    <3>6. PhaseStep(t, s, new)
      BY <1>3, <2>1, <2>3, <2>4, <3>1, <3>2, <3>3, <3>4, <3>5 DEF PhaseStep
    <3> QED
      BY <3>1, <3>6, PhaseKept
  <2>10. outputs' \subseteq Subs /\ timed' \subseteq Subs
    BY <2>1, Standing DEF BookTypes
  <2>11. BookTypes'
    BY <1>3, <2>3, <2>4, <2>10, Standing, BooksRewritten DEF Accept, BookTypes
  <2>12. EndTypes' /\ NetTypes'
    <3>1. EndTypes'
      BY EndingStays DEF Accept
    <3>2. NetTypes'
      BY NetworkStays DEF Accept
    <3> QED
      BY <3>1, <3>2
  <2> QED
    BY <2>8, <2>9, <2>11, <2>12, KeptAll DEF Walked, Kept
<1> QED
  BY <1>4, <1>5

LEMMA HandleFailureStep ==
    ASSUME IInv, NEW t \in Threads, HandleFailure(t)
    PROVE  IInv'
<1>1. agenda[t] # <<>> /\ Cur(t).op = "failed" /\ Now(t) = Cur(t) /\ Cur(t) \in Frames
  BY Standing, AtFrame DEF HandleFailure
<1>2. PICK s \in Subs : s = Cur(t).sub
  BY <1>1, FrameFields
<1>3. /\ wire' = wire /\ runs' = runs /\ ready' = ready
      /\ attempt' = [attempt EXCEPT ![s].phase = "done"]
      /\ \/ outputs' = outputs /\ timed' = timed /\ retries' = retries
         \/ outputs' = outputs \ {s} /\ timed' = timed \cup {s} /\ retries' = [retries EXCEPT ![s] = @ + 1]
  BY <1>1, <1>2 DEF HandleFailure, ending, network
<1>4. PICK f \in Frames : Then(t, <<f>>) /\ f.op \in {"giveup", "begin", "elsewhere"}
  <2> DEFINE g == [op |-> "giveup", sub |-> s, cause |-> "exhausted"]
             b == [op |-> "begin", sub |-> s, station |-> home[s]]
             e == [op |-> "elsewhere", sub |-> s, station |-> home[s]]
             l == [op |-> "begin", sub |-> s, station |-> Local]
  <2>1. g \in Frames /\ b \in Frames /\ e \in Frames /\ l \in Frames
    <3>1. home[s] \in Places /\ Local \in Places
      BY Standing DEF BookTypes, Places
    <3> QED
      BY <3>1, GiveUpFrames DEF Frames
  <2>2. Then(t, <<g>>) \/ Then(t, <<b>>) \/ Then(t, <<e>>) \/ Then(t, <<l>>)
    <3>1. /\ Recovery(s) = "fail" => Then(t, <<g>>)
          /\ Recovery(s) = "retry" => Then(t, <<b>>)
          /\ Recovery(s) = "cross" => Then(t, <<e>>)
          /\ Recovery(s) \notin {"fail", "retry", "cross"} => Then(t, <<l>>)
      <4>1. Then(t, << CASE Recovery(s) = "fail" -> g
                         [] Recovery(s) = "retry" -> b
                         [] Recovery(s) = "cross" -> e
                         [] OTHER -> l >>)
        BY <1>1, <1>2 DEF HandleFailure
      <4> HIDE DEF g, b, e, l
      <4> QED
        BY <4>1
    <3> QED
      BY <3>1
  <2>3. g.op = "giveup" /\ b.op = "begin" /\ e.op = "elsewhere" /\ l.op = "begin"
    OBVIOUS
  <2> HIDE DEF g, b, e, l
  <2> QED
    BY <2>1, <2>2, <2>3
<1>6. PICK new \in AttemptRecords :
          /\ new = [attempt[s] EXCEPT !.phase = "done"]
          /\ new.phase = "done" /\ new.received = attempt[s].received
          /\ new.number = attempt[s].number /\ new.station = attempt[s].station
  BY DonePhase DEF IInv
<1>7. attempt' = [attempt EXCEPT ![s] = new]
  BY <1>3, <1>6
<1>8. \A x \in Subs : x # s => attempt'[x] = attempt[x]
  BY <1>7, Standing DEF BookTypes
<1>9. Unhurt /\ OwnOnly(t) /\ Follows(t, f)
  BY <1>1, <1>2, <1>3, <1>4, <1>8 DEF IInv, Unhurt, OwnOnly, Follows, AsideOps, BeforeOps, ExecOps
<1>10. Walked(t) /\ Cur(t)' = f
  BY <1>1, <1>4, <1>9, Walk1
<1>11. Parts'
  <2>1. TypeOK /\ Parts /\ \A u \in Threads \ {t} : Cur(u)' = Cur(u)
    BY <1>10 DEF IInv, Walked
  <2>2. ~Live(s) /\ attempt[s].phase = "processing"
    BY <1>1, <1>2, <2>1, JudgedDead DEF Parts, Judged, JudgeOps
  <2>3. \A u \in Threads \ {t} : Cur(u).op \in JudgeOps => Cur(u).sub # s
    BY <1>1, <1>2, <2>1 DEF Parts, Judged, JudgeOps
  <2>4. attempt[s].received # None /\ attempt[s].station \in Stations =>
            Reported(s, attempt[s].number, attempt[s].received)
    BY <2>1 DEF Parts, Evidence
  <2>5. Cur(t)'.op \notin {"send", "executing", "receive"} /\ Cur(t)'.op \notin JudgeOps
    BY <1>4, <1>10 DEF JudgeOps
  <2>6. outputs' \subseteq outputs /\ s \notin outputs'
    BY <1>3, <2>1, <2>2 DEF Parts, OutputsGenuine
  <2>7. PhaseStep(t, s, new)
    BY <1>3, <1>6, <1>7, <2>1, <2>2, <2>3, <2>4, <2>5, <2>6 DEF PhaseStep
  <2> QED
    BY <2>1, <2>7, PhaseKept
<1>12. BookTypes'
  <2>1. outputs' \subseteq Subs /\ timed' \subseteq Subs
    BY <1>3, Standing DEF BookTypes
  <2>2. retries' \in [Subs -> Nat]
    <3>1. \A k \in Nat : k + 1 \in Nat
      OBVIOUS
    <3>2. retries \in [Subs -> Nat]
      BY Standing DEF BookTypes
    <3>3. retries[s] + 1 \in Nat
      BY <3>1, <3>2
    <3>4. retries' = retries \/ retries' = [retries EXCEPT ![s] = retries[s] + 1]
      BY <1>3
    <3> QED
      BY <3>2, <3>3, <3>4
  <2>3. takeover' \subseteq Subs
    BY <1>1, <1>2, Standing DEF HandleFailure, BookTypes
  <2>4. crossed' \subseteq Subs
    BY <1>1, <1>2, Standing DEF HandleFailure, BookTypes
  <2>5. pending' = pending /\ dispatched' = dispatched /\ home' = home
    BY DEF HandleFailure
  <2> QED
    BY <1>6, <1>7, <2>1, <2>2, <2>3, <2>4, <2>5, Standing, BooksRewritten
<1>13. EndTypes' /\ NetTypes'
  <2>1. EndTypes'
    BY EndingStays DEF HandleFailure
  <2>2. NetTypes'
    BY NetworkStays DEF HandleFailure
  <2> QED
    BY <2>1, <2>2
<1> QED
  BY <1>10, <1>11, <1>12, <1>13, KeptAll DEF Walked, Kept

-----------------------------------------------------------------------------
(* Results of before a continuation are processed again.                   *)

\* A thread at "resume" or "reports" is the main one, and nothing of that kind lies behind it.
LEMMA AsideFirst ==
    ASSUME Agendas, Shape, Alone, NEW t \in Threads, agenda[t] # <<>>, Cur(t).op \in AsideOps
    PROVE  /\ t = "main" /\ ~ready
           /\ \A u \in Threads \ {"main"} : Cur(u).op \in {"idle", "loop", "giveup"} /\ Len(agenda[u]) <= 1
           /\ \A i \in DOMAIN agenda[t] : i > 1 => agenda[t][i].op \notin AsideOps
<1>1. 1 \in DOMAIN agenda[t] /\ Cur(t) = agenda[t][1]
  BY FramePlaces DEF Cur
<1>2. /\ t = "main" /\ ~ready
      /\ \A u \in Threads \ {"main"} : Cur(u).op \in {"idle", "loop", "giveup"} /\ Len(agenda[u]) <= 1
  BY <1>1 DEF Alone, AsideOps
<1>3. \A i \in DOMAIN agenda[t] : i > 1 => agenda[t][i].op \notin AsideOps
  BY <1>1 DEF Alone, AsideOps, BeforeOps
<1> QED
  BY <1>2, <1>3

\* Then only the frames put in front can be of that kind.
LEMMA AsideNext ==
    ASSUME Agendas, NEW t \in Threads, agenda[t] # <<>>, NEW F \in Seq(Frames), Moved(t, F),
           \A i \in DOMAIN agenda[t] : i > 1 => agenda[t][i].op \notin AsideOps
    PROVE  \A i \in DOMAIN agenda'[t] : agenda'[t][i].op \in AsideOps => i \in 1..Len(F) /\ agenda'[t][i] = F[i]
<1> SUFFICES ASSUME NEW i \in DOMAIN agenda'[t], agenda'[t][i].op \in AsideOps
             PROVE  i \in 1..Len(F) /\ agenda'[t][i] = F[i]
  OBVIOUS
<1>1. \/ i \in 1..Len(F) /\ agenda'[t][i] = F[i]
      \/ /\ i - Len(F) + 1 \in DOMAIN agenda[t] /\ i - Len(F) + 1 > 1
         /\ agenda'[t][i] = agenda[t][i - Len(F) + 1]
  BY MovedFrom
<1> QED
  BY <1>1

LEMMA ResumeStep ==
    ASSUME IInv, NEW t \in Threads, Resume(t)
    PROVE  IInv'
<1> DEFINE retained == {s \in Subs \ outputs : attempt[s].received # None}
           todo == {[sub |-> s, number |-> attempt[s].number] : s \in retained}
<1>0. Agendas /\ Shape /\ Alone /\ Retained /\ Parts /\ TypeOK
  BY Standing DEF IInv
<1>1. agenda[t] # <<>> /\ Cur(t).op = "resume"
  BY <1>0, AtFrame DEF Resume
<1>2. /\ outputs' = outputs /\ wire' = wire /\ runs' = runs /\ ready' = ready
      /\ attempt' = [s \in Subs |-> IF s \in retained
                                    THEN [attempt[s] EXCEPT !.phase = "active"] ELSE attempt[s]]
      /\ Then(t, <<[op |-> "reports", todo |-> todo]>>)
  BY DEF Resume, ending, network
<1>3. todo \in SUBSET Requests
  <2>1. \A s \in Subs : [sub |-> s, number |-> attempt[s].number] \in Requests
    BY <1>0 DEF TypeOK, Requests
  <2> QED
    BY <2>1
<1>4. PICK f \in Frames : f.op = "reports" /\ f.todo = todo /\ Then(t, <<f>>)
  BY <1>2, <1>3, TodoFrames
<1>5. /\ t = "main" /\ ~ready
      /\ \A u \in Threads \ {"main"} : Cur(u).op \in {"idle", "loop", "giveup"} /\ Len(agenda[u]) <= 1
      /\ \A i \in DOMAIN agenda[t] : i > 1 => agenda[t][i].op \notin AsideOps
  BY <1>0, <1>1, AsideFirst DEF AsideOps
<1>6. /\ Agendas' /\ Shape' /\ Moved(t, <<f>>)
      /\ \A u \in Threads \ {t} : Cur(u)' = Cur(u)
      /\ Cur(t)' = f
  BY <1>0, <1>1, <1>4, Turned1
<1>7. \A x \in Subs : /\ attempt'[x].number = attempt[x].number /\ attempt'[x].station = attempt[x].station
                      /\ attempt'[x].received = attempt[x].received
                      /\ x \in retained => attempt'[x].phase = "active"
                      /\ x \notin retained => attempt'[x] = attempt[x]
  <2> TAKE x \in Subs
  <2>1. attempt[x] \in AttemptRecords
    BY <1>0 DEF TypeOK, AttemptRecords
  <2>2. CASE x \in retained
    <3>1. attempt'[x] = [attempt[x] EXCEPT !.phase = "active"]
      BY <1>2, <2>2
    <3> HIDE DEF retained
    <3> QED
      BY <2>1, <2>2, <3>1 DEF AttemptRecords
  <2>3. CASE x \notin retained
    <3>1. attempt'[x] = attempt[x]
      BY <1>2, <2>3
    <3> HIDE DEF retained
    <3> QED
      BY <2>3, <3>1
  <2> QED
    BY <2>2, <2>3
<1>8. \A i \in DOMAIN agenda'[t] : agenda'[t][i].op \in AsideOps => i = 1 /\ agenda'[t][i] = f
  <2>1. <<f>> \in Seq(Frames) /\ Len(<<f>>) = 1 /\ <<f>>[1] = f
    OBVIOUS
  <2>2. \A i \in 1..Len(<<f>>) : i = 1
    BY <2>1
  <2> QED
    BY <1>0, <1>1, <1>5, <1>6, <2>1, <2>2, AsideNext
<1>9. Alone'
  <2> SUFFICES ASSUME NEW u \in Threads, NEW i \in DOMAIN agenda'[u], agenda'[u][i].op \in {"resume", "reports"}
               PROVE  /\ u = "main" /\ ~ready'
                      /\ \A j \in DOMAIN agenda'[u] : j < i => agenda'[u][j].op \in BeforeOps
                      /\ \A v \in Threads \ {"main"} : Cur(v)'.op \in {"idle", "loop", "giveup"} /\ Len(agenda'[v]) <= 1
    BY DEF Alone
  <2>1. \A v \in Threads \ {"main"} : agenda'[v] = agenda[v] /\ Cur(v)' = Cur(v)
    BY <1>5, <1>6 DEF Moved
  <2>2. u = "main"
    <3> SUFFICES ASSUME u # "main" PROVE FALSE
      OBVIOUS
    <3>1. i \in DOMAIN agenda[u] /\ agenda[u][i].op \in {"resume", "reports"}
      BY <2>1
    <3> QED
      BY <1>0, <3>1 DEF Alone
  <2>3. i = 1
    BY <1>5, <1>8, <2>2 DEF AsideOps
  <2>4. \A j \in DOMAIN agenda'[u] : ~(j < i)
    <3>1. DOMAIN agenda'[u] = 1..Len(agenda'[u]) /\ Len(agenda'[u]) \in Nat
      BY <1>6, FramePlacesNext
    <3> QED
      BY <2>3, <3>1
  <2> QED
    BY <1>2, <1>5, <2>1, <2>2, <2>4
<1>10. Retained'
  <2> SUFFICES ASSUME NEW i \in DOMAIN agenda'["main"], agenda'["main"][i].op = "reports",
                      NEW q \in agenda'["main"][i].todo
               PROVE  /\ attempt'[q.sub].number = q.number /\ attempt'[q.sub].phase = "active"
                      /\ attempt'[q.sub].received # None
                      /\ Cur("main")'.op \in ExecOps => Cur("main")'.sub # q.sub
    BY DEF Retained
  <2>1. q \in todo
    BY <1>4, <1>5, <1>8 DEF AsideOps
  <2>2. q.sub \in retained /\ q.sub \in Subs /\ q.number = attempt[q.sub].number /\ attempt[q.sub].received # None
    BY <2>1
  <2>3. Cur("main")'.op \notin ExecOps
    BY <1>4, <1>5, <1>6 DEF ExecOps
  <2> HIDE DEF retained, todo
  <2> QED
    BY <1>7, <2>2, <2>3
<1>11. Parts'
  <2>1. \A x : /\ Senders(x)' \subseteq Senders(x) /\ Wired(x)' \subseteq Wired(x)
               /\ Running(x)' \subseteq Running(x) /\ (Live(x)' => Live(x))
               /\ \A u \in Senders(x)' : Cur(u)' = Cur(u)
    <3>1. \A u \in Threads : Cur(u)' = Cur(u) \/ Cur(u)'.op \notin {"send", "executing"}
      BY <1>4, <1>6
    <3> QED
      BY <1>2, <3>1, LiveShrinks
  <2>2. \A x \in Subs : \A n : Over(x, n) => Over(x, n)'
    BY <1>7, <2>1 DEF Over
  <2>3. \A u \in Threads : Cur(u)'.op \notin WatchOps
    BY <1>4, <1>5, <1>6 DEF WatchOps
  <2>4. LiveCurrent'
    <3> SUFFICES ASSUME NEW x \in Subs
                 PROVE  /\ \A u \in Senders(x)' : Cur(u)'.number = attempt'[x].number
                        /\ \A m \in Wired(x)' : m.number = attempt'[x].number
                        /\ \A r \in Running(x)' : r.number = attempt'[x].number
      BY DEF LiveCurrent
    <3>1. attempt'[x].number = attempt[x].number
      BY <1>7
    <3> QED
      BY <1>0, <2>1, <3>1 DEF Parts, LiveCurrent
  <2>5. LiveActive'
    <3> SUFFICES ASSUME NEW x \in Subs, Live(x)'
                 PROVE  attempt'[x].phase = "active" /\ attempt'[x].received = None
      BY DEF LiveActive
    <3>1. attempt[x].phase = "active" /\ attempt[x].received = None
      BY <1>0, <2>1 DEF Parts, LiveActive
    <3>2. x \notin retained
      BY <3>1
    <3> HIDE DEF retained
    <3> QED
      BY <1>7, <3>1, <3>2
  <2>6. LiveOnce'
    BY <1>0, <2>1 DEF Parts, LiveOnce
  <2>7. Ended'
    <3>1. \A r \in runs' : r.status # "running" => Over(r.sub, r.number)'
      BY <1>0, <1>2, <2>2, Facts DEF Parts, Ended
    <3> QED
      BY <2>3, <3>1 DEF Ended, WatchOps
  <2>8. Judged'
    BY <2>3 DEF Judged, JudgeOps, WatchOps
  <2>9. Evidence'
    <3>1. \A x \in Subs : attempt'[x].received # None /\ attempt'[x].station \in Stations =>
              [sub |-> x, number |-> attempt'[x].number, status |-> attempt'[x].received] \in runs'
      <4> TAKE x \in Subs
      <4>1. /\ attempt'[x].number = attempt[x].number /\ attempt'[x].station = attempt[x].station
            /\ attempt'[x].received = attempt[x].received
        BY <1>7
      <4> QED
        BY <1>0, <1>2, <4>1 DEF Parts, Evidence, Reported
    <3> QED
      BY <2>3, <3>1 DEF Evidence, WatchOps, Reported
  <2>10. OutputsGenuine'
    <3>1. \A x \in outputs : attempt'[x] = attempt[x]
      BY <1>0, <1>7 DEF TypeOK
    <3> QED
      BY <1>0, <1>2, <3>1 DEF Parts, OutputsGenuine
  <2> QED
    BY <2>4, <2>5, <2>6, <2>7, <2>8, <2>9, <2>10 DEF Parts
<1>12. BookTypes'
  <2>1. \A x \in Subs : attempt'[x] \in AttemptRecords
    <3> TAKE x \in Subs
    <3>1. attempt[x] \in AttemptRecords
      BY <1>0 DEF TypeOK, AttemptRecords
    <3>2. attempt'[x] = attempt[x] \/ attempt'[x] = [attempt[x] EXCEPT !.phase = "active"]
      BY <1>2
    <3> QED
      BY <3>1, <3>2 DEF AttemptRecords
  <2>2. attempt' \in [Subs -> AttemptRecords]
    <3> DEFINE R(s) == IF s \in retained THEN [attempt[s] EXCEPT !.phase = "active"] ELSE attempt[s]
    <3>1. attempt' = [s \in Subs |-> R(s)]
      BY <1>2
    <3> HIDE DEF R
    <3> QED
      BY <2>1, <3>1
  <2>3. pending' \in [Subs -> Places \cup {None}]
    BY Standing DEF Resume, BookTypes
  <2> QED
    BY <2>2, <2>3, Standing DEF Resume, BookTypes, AttemptRecords
<1>13. EndTypes' /\ NetTypes'
  <2>1. EndTypes'
    BY EndingStays DEF Resume
  <2>2. NetTypes'
    BY NetworkStays DEF Resume
  <2> QED
    BY <2>1, <2>2
<1> QED
  BY <1>6, <1>9, <1>10, <1>11, <1>12, <1>13, KeptAll DEF Kept

LEMMA ReportsRest ==
    ASSUME NEW f \in Frames, f.op = "reports", NEW q
    PROVE  [f EXCEPT !.todo = @ \ {q}] = [op |-> "reports", todo |-> f.todo \ {q}]
BY Remaining

LEMMA ReinjectStep ==
    ASSUME IInv, NEW t \in Threads, Reinject(t)
    PROVE  IInv'
<1>0. Agendas /\ Shape /\ Alone /\ Retained /\ Parts /\ TypeOK
  BY Standing DEF IInv
<1>1. agenda[t] # <<>> /\ Cur(t).op = "reports" /\ Now(t) = Cur(t) /\ Cur(t) \in Frames
  BY <1>0, AtFrame DEF Reinject
<1>2. outputs' = outputs /\ attempt' = attempt /\ wire' = wire /\ runs' = runs /\ ready' = ready
  BY DEF Reinject, books, ending, network
<1>3. BookTypes' /\ EndTypes' /\ NetTypes'
  <2>1. BookTypes'
    BY BooksStay DEF Reinject
  <2>2. EndTypes'
    BY EndingStays DEF Reinject
  <2>3. NetTypes'
    BY NetworkStays DEF Reinject
  <2> QED
    BY <2>1, <2>2, <2>3
<1>4. CASE Return(t)
  <2>1. Calm(t)
    BY <1>2 DEF Calm
  <2>2. Kept
    BY <1>1, <1>4, <2>1, Quiet0
  <2> QED
    BY <1>3, <2>2, KeptAll
<1>5. ASSUME NEW q \in Cur(t).todo,
             Then(t, <<[op |-> "receive", sub |-> q.sub, number |-> q.number,
                        status |-> attempt[q.sub].received],
                       [Now(t) EXCEPT !.todo = @ \ {q}]>>)
      PROVE  Kept
  <2>1. Cur(t).todo \in SUBSET Requests
    BY <1>1, FrameFields
  <2>2. PICK s \in Subs, n \in Nat : s = q.sub /\ n = q.number
    BY <2>1 DEF Requests
  <2>3. /\ t = "main" /\ ~ready
        /\ \A u \in Threads \ {"main"} : Cur(u).op \in {"idle", "loop", "giveup"} /\ Len(agenda[u]) <= 1
        /\ \A i \in DOMAIN agenda[t] : i > 1 => agenda[t][i].op \notin AsideOps
    BY <1>0, <1>1, AsideFirst DEF AsideOps
  <2>4. \A p \in Cur(t).todo : /\ attempt[p.sub].number = p.number /\ attempt[p.sub].phase = "active"
                               /\ attempt[p.sub].received # None
    <3>1. 1 \in DOMAIN agenda[t] /\ Cur(t) = agenda[t][1]
      BY <1>0, <1>1, FramePlaces DEF Cur
    <3> QED
      BY <1>0, <1>1, <2>3, <3>1 DEF Retained
  <2>5. PICK a \in Terminal : a = attempt[s].received
    BY <1>0, <2>2, <2>4 DEF TypeOK
  <2>6. PICK f \in Frames : f.op = "receive" /\ f.sub = s /\ f.number = n /\ f.status = a
                            /\ f = [op |-> "receive", sub |-> s, number |-> n, status |-> a]
    BY DEF Frames
  <2>7. PICK g \in Frames : g.op = "reports" /\ g.todo = Cur(t).todo \ {q}
                            /\ g = [Now(t) EXCEPT !.todo = @ \ {q}]
    <3>1. Now(t) \in Frames /\ Now(t).op = "reports"
      BY <1>1
    <3>3. Now(t).todo \ {q} \in SUBSET Requests
      BY <1>1, <2>1
    <3>4. [Now(t) EXCEPT !.todo = @ \ {q}] = [op |-> "reports", todo |-> Now(t).todo \ {q}]
      BY <3>1, ReportsRest
    <3> QED
      BY <1>1, <3>3, <3>4, TodoFrames
  <2>8. Then(t, <<f, g>>)
    BY <1>5, <2>2, <2>5, <2>6, <2>7
  <2>9. /\ Agendas' /\ Shape' /\ Moved(t, <<f, g>>)
        /\ \A u \in Threads \ {t} : Cur(u)' = Cur(u)
        /\ Cur(t)' = f
    BY <1>0, <1>1, <2>7, <2>8, Turned2 DEF RestOps
  <2>10. <<f, g>> \in Seq(Frames) /\ Len(<<f, g>>) = 2 /\ <<f, g>>[1] = f /\ <<f, g>>[2] = g
    OBVIOUS
  <2>11. \A i \in DOMAIN agenda'[t] : agenda'[t][i].op \in AsideOps => i = 2 /\ agenda'[t][i] = g
    <3> SUFFICES ASSUME NEW i \in DOMAIN agenda'[t], agenda'[t][i].op \in AsideOps
                 PROVE  i = 2 /\ agenda'[t][i] = g
      OBVIOUS
    <3>1. i \in 1..Len(<<f, g>>) /\ agenda'[t][i] = <<f, g>>[i]
      BY <1>0, <1>1, <2>3, <2>9, <2>10, AsideNext
    <3>2. i = 1 \/ i = 2
      BY <2>10, <3>1
    <3> QED
      BY <2>6, <2>10, <3>1, <3>2 DEF AsideOps
  <2>12. Alone'
    <3> SUFFICES ASSUME NEW u \in Threads, NEW i \in DOMAIN agenda'[u], agenda'[u][i].op \in {"resume", "reports"}
                 PROVE  /\ u = "main" /\ ~ready'
                        /\ \A j \in DOMAIN agenda'[u] : j < i => agenda'[u][j].op \in BeforeOps
                        /\ \A v \in Threads \ {"main"} : Cur(v)'.op \in {"idle", "loop", "giveup"} /\ Len(agenda'[v]) <= 1
      BY DEF Alone
    <3>1. \A v \in Threads \ {"main"} : agenda'[v] = agenda[v] /\ Cur(v)' = Cur(v)
      BY <2>3, <2>9 DEF Moved
    <3>2. u = "main"
      <4> SUFFICES ASSUME u # "main" PROVE FALSE
        OBVIOUS
      <4>1. i \in DOMAIN agenda[u] /\ agenda[u][i].op \in {"resume", "reports"}
        BY <3>1
      <4> QED
        BY <1>0, <4>1 DEF Alone
    <3>3. i = 2
      BY <2>3, <2>11, <3>2 DEF AsideOps
    <3>4. \A j \in DOMAIN agenda'[u] : j < i => agenda'[u][j] = f
      <4> SUFFICES ASSUME NEW j \in DOMAIN agenda'[u], j < i PROVE agenda'[u][j] = f
        OBVIOUS
      <4>1. DOMAIN agenda'[u] = 1..Len(agenda'[u]) /\ Len(agenda'[u]) \in Nat
        BY <2>9, FramePlacesNext
      <4>2. j = 1
        BY <3>3, <4>1
      <4>3. agenda'[u] # <<>> /\ Head(agenda'[u]) = agenda'[u][1]
        BY <2>9, <4>2, FramePlacesNext
      <4> QED
        BY <2>3, <2>9, <3>2, <4>2, <4>3 DEF Cur
    <3> QED
      BY <1>2, <2>3, <2>6, <3>1, <3>2, <3>4 DEF BeforeOps
  <2>13. Retained'
    <3> SUFFICES ASSUME NEW i \in DOMAIN agenda'["main"], agenda'["main"][i].op = "reports",
                        NEW p \in agenda'["main"][i].todo
                 PROVE  /\ attempt'[p.sub].number = p.number /\ attempt'[p.sub].phase = "active"
                        /\ attempt'[p.sub].received # None
                        /\ Cur("main")'.op \in ExecOps => Cur("main")'.sub # p.sub
      BY DEF Retained
    <3>1. p \in Cur(t).todo /\ p # q
      BY <2>3, <2>7, <2>11 DEF AsideOps
    <3>2. Cur("main")' = f
      BY <2>3, <2>9
    <3>3. p.sub # q.sub
      <4>1. p \in Requests /\ q \in Requests
        BY <2>1, <3>1
      <4>2. p.number = attempt[p.sub].number /\ q.number = attempt[q.sub].number
        BY <2>4, <3>1
      <4>3. p.sub = q.sub => p.number = q.number
        BY <4>2
      <4> QED
        BY <3>1, <4>1, <4>3 DEF Requests
    <3> QED
      BY <1>2, <2>2, <2>4, <2>6, <3>1, <3>2, <3>3
  <2>14. Parts'
    <3>1. ~Live(s)
      BY <1>0, <2>2, <2>4 DEF Parts, LiveActive
    <3>2. \A u \in Threads : Cur(u)' = Cur(u) \/ Cur(u)'.op \notin {"send", "executing"}
      BY <2>6, <2>9
    <3>3. Live(s)' => Live(s)
      BY <1>2, <3>2, LiveShrinks
    <3>4. n = attempt[s].number
      BY <2>2, <2>4
    <3>5. Over(f.sub, f.number)'
      BY <1>2, <2>6, <3>1, <3>3, <3>4 DEF Over
    <3>6. attempt[s].station \in Stations => Reported(s, n, a)
      BY <1>0, <2>2, <2>4, <2>5, <3>4 DEF Parts, Evidence
    <3> QED
      BY <1>0, <1>2, <2>6, <2>9, <3>5, <3>6, AnswerKept
  <2> QED
    BY <2>9, <2>12, <2>13, <2>14 DEF Kept
<1> QED
  BY <1>1, <1>3, <1>4, <1>5, KeptAll DEF Reinject

-----------------------------------------------------------------------------
(* The invariant.                                                          *)

LEMMA InitIInv == Init => IInv
<1> SUFFICES ASSUME Init PROVE IInv
  OBVIOUS
<1> DEFINE c == [op |-> "create"]
           r == [op |-> "ready"]
           l == [op |-> "loop"]
<1>1. c \in Frames /\ r \in Frames /\ l \in Frames /\ c.op = "create" /\ r.op = "ready" /\ l.op = "loop"
  BY PlainFrames
<1>2. agenda = [t \in Threads |-> CASE t = "main" -> <<c, r>> [] t = "loop" -> <<l>> [] OTHER -> <<>>]
  BY DEF Init
<1> HIDE DEF c, r, l
<1>3. /\ <<c, r>> \in Seq(Frames) /\ DOMAIN <<c, r>> = 1..2 /\ <<c, r>> # <<>>
      /\ <<c, r>>[1] = c /\ <<c, r>>[2] = r /\ Head(<<c, r>>) = c
      /\ <<l>> \in Seq(Frames) /\ DOMAIN <<l>> = 1..1 /\ <<l>> # <<>> /\ <<l>>[1] = l /\ Head(<<l>>) = l
      /\ <<>> \in Seq(Frames)
  BY <1>1
<1>4. \A t \in Threads : \/ agenda[t] = <<c, r>>
                         \/ agenda[t] = <<l>>
                         \/ agenda[t] = <<>>
  BY <1>2
<1>5. Agendas
  <2> DEFINE A(t) == CASE t = "main" -> <<c, r>> [] t = "loop" -> <<l>> [] OTHER -> <<>>
  <2>1. \A t \in Threads : A(t) \in Seq(Frames)
    BY <1>3
  <2>2. agenda = [t \in Threads |-> A(t)]
    BY <1>2
  <2> HIDE DEF A
  <2> QED
    BY <2>1, <2>2 DEF Agendas
<1>6. DOMAIN <<>> = {}
  <2>1. <<>> \in Seq(Frames) /\ Len(<<>>) = 0
    BY EmptySeq
  <2>2. DOMAIN <<>> = 1..0
    BY <2>1, LenProperties
  <2> QED
    BY <2>2
<1>7. \A t \in Threads : \A i \in DOMAIN agenda[t] :
          /\ agenda[t][i].op \in {"create", "ready", "loop"}
          /\ i > 1 => agenda[t][i].op = "ready"
  <2> TAKE t \in Threads
  <2>1. CASE agenda[t] = <<c, r>>
    <3>1. \A i \in DOMAIN agenda[t] : i = 1 \/ i = 2
      BY <1>3, <2>1
    <3> QED
      BY <1>1, <1>3, <2>1, <3>1
  <2>2. CASE agenda[t] = <<l>>
    <3>1. \A i \in DOMAIN agenda[t] : i = 1
      BY <1>3, <2>2
    <3>2. ~(1 > 1)
      OBVIOUS
    <3> QED
      BY <1>1, <1>3, <2>2, <3>1, <3>2
  <2>3. CASE agenda[t] = <<>>
    BY <1>6, <2>3
  <2> QED
    BY <1>4, <2>1, <2>2, <2>3
<1>8. \A t \in Threads : Cur(t).op \in {"create", "loop", "idle"}
  BY <1>1, <1>3, <1>4 DEF Cur
<1>9. Shape
  BY <1>7 DEF Shape, RestOps
<1>10. Alone
  BY <1>7 DEF Alone
<1>11. Retained
  <2>1. "main" \in Threads
    BY DEF Threads
  <2> QED
    BY <1>7, <2>1 DEF Retained
<1>12. /\ attempt = [s \in Subs |-> NoAttempt] /\ outputs = {} /\ wire = {} /\ runs = {}
       /\ \A s \in Subs : attempt[s] = NoAttempt
  BY DEF Init
<1>13. NoAttempt \in AttemptRecords /\ NoAttempt.received = None
  BY DEF NoAttempt, AttemptRecords
<1>14. BookTypes
  <2>1. attempt \in [Subs -> AttemptRecords]
    BY <1>12, <1>13
  <2>2. home \in [Subs -> Places] /\ pending \in [Subs -> Places \cup {None}]
    BY DEF Init, Places
  <2>3. retries \in [Subs -> Nat]
    BY DEF Init
  <2>4. dispatched = {} /\ outputs = {} /\ crossed = {} /\ takeover = {} /\ timed = {}
    BY DEF Init
  <2> QED
    BY <2>1, <2>2, <2>3, <2>4 DEF BookTypes, AttemptRecords
<1>15. EndTypes
  <2>1. continues \in 0..MaxContinues
    <3>1. MaxContinues \in Nat /\ continues = 0
      BY DispatchAssumption DEF Init, DispatchAssumption
    <3> QED
      BY <3>1
  <2> QED
    BY <2>1 DEF Init, EndTypes
<1>16. NetTypes
  BY DEF Init, NetTypes
<1>17. TypeOK
  BY <1>5, <1>14, <1>15, <1>16, TypeParts
<1>18. \A s \in Subs : Senders(s) = {} /\ Wired(s) = {} /\ Running(s) = {}
  BY <1>8, <1>12 DEF Senders, Wired, Running
<1>19. Parts
  <2>1. LiveCurrent /\ LiveOnce
    BY <1>18 DEF LiveCurrent, LiveOnce
  <2>2. LiveActive
    BY <1>18 DEF LiveActive, Live
  <2>3. Ended
    BY <1>8, <1>12 DEF Ended
  <2>4. Judged
    BY <1>8 DEF Judged, JudgeOps
  <2>5. Evidence
    BY <1>8, <1>12, <1>13 DEF Evidence
  <2>6. OutputsGenuine
    BY <1>12 DEF OutputsGenuine
  <2> QED
    BY <2>1, <2>2, <2>3, <2>4, <2>5, <2>6 DEF Parts
<1> QED
  BY <1>9, <1>10, <1>11, <1>17, <1>19 DEF IInv

LEMMA StepIInv == IInv /\ [Next]_vars => IInv'
<1> SUFFICES ASSUME IInv, [Next]_vars PROVE IInv'
  OBVIOUS
<1>1. ASSUME NEW t \in Threads, NEW op \in StopOps, ReturnIfStopped(t, op)
      PROVE  IInv'
  BY <1>1, StopReturn
<1>2. ASSUME NEW t \in Threads, CreateTeam(t) \/ TeamComplete(t) \/ Release(t) \/ ReleaseItem(t) \/ SetReady(t)
      PROVE  IInv'
  BY <1>2, CreateTeamStep, TeamCompleteStep, ReleaseStep, ReleaseItemStep, SetReadyStep
<1>3. ASSUME NEW t \in Threads, NEW s \in Subs, PlaceLocally(t, s) \/ \E w \in Stations : PlaceAt(t, s, w)
      PROVE  IInv'
  BY <1>3, PlaceLocallyStep, PlaceAtStep
<1>4. ASSUME NEW t \in Threads, Begin(t) \/ Send(t) \/ AwaitNothing(t) \/ AwaitReceipt(t) \/ ExecuteLocally(t)
      PROVE  IInv'
  BY <1>4, BeginStep, SendStep, AwaitNothingStep, AwaitReceiptStep, ExecuteLocallyStep
<1>5. ASSUME NEW t \in Threads, Receive(t) \/ Retain(t) \/ Verify(t) \/ Accept(t)
      PROVE  IInv'
  BY <1>5, ReceiveStep, RetainStep, VerifyStep, AcceptStep
<1>6. ASSUME NEW t \in Threads,
             HandleFailure(t) \/ (\E w \in Stations : RetryElsewhere(t, w)) \/ TakeOver(t) \/ GiveUp(t)
      PROVE  IInv'
  BY <1>6, HandleFailureStep, RetryElsewhereStep, TakeOverStep, GiveUpStep
<1>7. ASSUME NEW t \in Threads, Poll(t) \/ CheckTimeouts(t) \/ Count(t) \/ LoopRound(t) \/ GlobalTimeout(t)
      PROVE  IInv'
  BY <1>7, PollStep, CheckTimeoutsStep, CountStep, LoopRoundStep, GlobalTimeoutStep
<1>8. ASSUME NEW t \in Threads, Aggregate(t) \/ Summarise(t) \/ Prepare(t) \/ Deliver(t) \/ Posted(t)
      PROVE  IInv'
  BY <1>8, AggregateStep, SummariseStep, PrepareStep, DeliverStep, PostedStep
<1>9. ASSUME NEW t \in Threads, Resume(t) \/ Reinject(t)
      PROVE  IInv'
  BY <1>9, ResumeStep, ReinjectStep
<1>10. ASSUME NEW reason \in {"paused", "cancelled", "stopped"}, Stop(reason)
       PROVE  IInv'
  BY <1>10, StopStep
<1>11. CASE Continue
  BY <1>11, ContinueStep
<1>12. ASSUME NEW m \in wire, Arrive(m)
       PROVE  IInv'
  BY <1>12, ArriveStep
<1>13. ASSUME NEW r \in runs, RunEnds(r)
       PROVE  IInv'
  BY <1>13, RunEndsStep
<1>14. CASE UNCHANGED vars
  <2>1. /\ agenda' = agenda /\ ready' = ready /\ attempt' = attempt /\ wire' = wire
        /\ runs' = runs /\ outputs' = outputs
    BY <1>14 DEF vars, books, ending, network
  <2>2. \A u \in Threads : Cur(u)' = Cur(u)
    BY <2>1 DEF Cur
  <2>3. Agendas' /\ Shape' /\ Alone' /\ Retained'
    BY <2>1, <2>2, Standing DEF Agendas, Shape, Alone, Retained, Cur
  <2>4. Parts'
    BY <2>1, <2>2, QuietlyKept DEF IInv
  <2>5. BookTypes' /\ EndTypes' /\ NetTypes'
    <3>1. BookTypes'
      BY <1>14, BooksStay DEF vars
    <3>2. EndTypes'
      BY <1>14, EndingStays DEF vars
    <3>3. NetTypes'
      BY <1>14, NetworkStays DEF vars
    <3> QED
      BY <3>1, <3>2, <3>3
  <2> QED
    BY <2>3, <2>4, <2>5, KeptAll DEF Kept
<1> QED
  BY <1>1, <1>2, <1>3, <1>4, <1>5, <1>6, <1>7, <1>8, <1>9, <1>10, <1>11, <1>12, <1>13, <1>14 DEF Next, Step

\* The strengthening is an invariant: agendas of the shape the code gives them, one live execution
\* per subtask, and results that are what the stations reported.
LEMMA Inductive == Spec => []IInv
BY InitIInv, StepIInv, PTL DEF Spec

\* The PM's records have their types.
THEOREM TypeCorrect == Spec => []TypeOK
<1>1. IInv => TypeOK
  BY DEF IInv
<1> QED
  BY <1>1, Inductive, PTL

\* An accepted output is the completed result of the last attempt.
THEOREM AcceptedIsGenuine == Spec => []OutputsGenuine
<1>1. IInv => OutputsGenuine
  BY DEF IInv, Parts
<1> QED
  BY <1>1, Inductive, PTL

-----------------------------------------------------------------------------
(* A subtask is never executed twice at the same time.                     *)

LEMMA SmallSets ==
    ASSUME NEW S, \A x, y \in S : x = y
    PROVE  Cardinality(S) \in {0, 1} /\ (Cardinality(S) = 1 => S # {})
<1>1. CASE S = {}
  BY <1>1, FS_EmptySet
<1>2. CASE S # {}
  <2>1. PICK x : S = {x}
    BY <1>2
  <2> QED
    BY <1>2, <2>1, FS_Singleton
<1> QED
  BY <1>1, <1>2

LEMMA AtMostOne ==
    \A a, b, c \in {0, 1} : ~(a = 1 /\ b = 1) /\ ~(a = 1 /\ c = 1) /\ ~(b = 1 /\ c = 1) => a + b + c <= 1
OBVIOUS

LEMMA OneLive == IInv => OneExecution
<1> SUFFICES ASSUME IInv, NEW s \in Subs
             PROVE  Cardinality({m \in wire : m.sub = s})
                      + Cardinality({r \in runs : r.sub = s /\ r.status = "running"})
                      + Cardinality(Executing(s)) <= 1
  BY DEF OneExecution
<1>0. Agendas /\ Shape /\ Parts /\ TypeOK
  BY Standing DEF IInv
<1>1. Executing(s) \subseteq Senders(s)
  <2> SUFFICES ASSUME NEW t \in Threads, NEW i \in DOMAIN agenda[t],
                      agenda[t][i].op = "executing", agenda[t][i].sub = s
               PROVE  t \in Senders(s)
    BY DEF Executing
  <2>1. /\ DOMAIN agenda[t] = 1..Len(agenda[t]) /\ Len(agenda[t]) \in Nat
        /\ 1 \in DOMAIN agenda[t] => agenda[t] # <<>>
        /\ agenda[t] # <<>> => Head(agenda[t]) = agenda[t][1]
    BY <1>0, FramePlaces
  <2>2. ~(i > 1)
    BY <1>0 DEF Shape, RestOps
  <2>3. i = 1
    BY <2>1, <2>2
  <2> QED
    BY <2>1, <2>3 DEF Senders, Cur
<1>2. \A t, u \in Executing(s) : t = u
  <2>1. Senders(s) \subseteq Threads
    BY DEF Senders
  <2> QED
    BY <1>0, <1>1, <2>1 DEF Parts, LiveOnce
<1>3. \A m, k \in Wired(s) : m = k
  <2> TAKE m, k \in Wired(s)
  <2>1. m \in Requests /\ k \in Requests
    BY <1>0 DEF Wired, TypeOK
  <2>2. m.sub = k.sub /\ m.number = k.number
    BY <1>0 DEF Wired, Parts, LiveCurrent
  <2> QED
    BY <2>1, <2>2 DEF Requests
<1>4. \A r, k \in Running(s) : r = k
  <2> TAKE r, k \in Running(s)
  <2> DEFINE R == [sub : Subs, number : Nat, status : Terminal \cup {"running"}]
  <2>1. r \in R /\ k \in R
    BY <1>0 DEF Running, TypeOK
  <2>2. r.sub = k.sub /\ r.number = k.number /\ r.status = k.status
    BY <1>0 DEF Running, Parts, LiveCurrent
  <2> QED
    BY <2>1, <2>2
<1>5. /\ Executing(s) # {} => Wired(s) = {} /\ Running(s) = {}
      /\ Wired(s) # {} => Running(s) = {}
  BY <1>0, <1>1 DEF Parts, LiveOnce
<1> DEFINE a == Cardinality(Wired(s))
           b == Cardinality(Running(s))
           c == Cardinality(Executing(s))
<1>6. /\ a \in {0, 1} /\ (a = 1 => Wired(s) # {})
      /\ b \in {0, 1} /\ (b = 1 => Running(s) # {})
      /\ c \in {0, 1} /\ (c = 1 => Executing(s) # {})
  BY <1>2, <1>3, <1>4, SmallSets
<1>7. a + b + c <= 1
  <2> HIDE DEF a, b, c
  <2> QED
    BY <1>5, <1>6, AtMostOne
<1> QED
  BY <1>7 DEF Wired, Running

\* Whatever is retried, moved or continued, a subtask is never executed twice at the same time,
\* and no delayed request can still cause that.
THEOREM ExecutesOnce == Spec => []OneExecution
BY OneLive, Inductive, PTL

-----------------------------------------------------------------------------
(* A stop is effective.                                                    *)

LEMMA StepStops == IInv /\ [Next]_vars => StopHolds
<1> SUFFICES ASSUME IInv, [Next]_vars, Stopped, stop' # ""
             PROVE  /\ outputs' \subseteq outputs
                    /\ \A s \in Subs : attempt'[s].number = attempt[s].number
                    /\ delivery' \in {delivery, "acknowledged"}
                    /\ verdict' = verdict
  BY DEF StopHolds
<1> DEFINE Held == /\ outputs' \subseteq outputs
                   /\ \A s \in Subs : attempt'[s].number = attempt[s].number
                   /\ delivery' \in {delivery, "acknowledged"}
                   /\ verdict' = verdict
<1>0. \A s \in Subs : attempt[s] \in AttemptRecords
  BY DEF IInv, TypeOK, AttemptRecords
<1>1. ASSUME NEW t \in Threads, Step(t) \/ GlobalTimeout(t)
      PROVE  Held
  <2>1. CASE \E op \in StopOps : ReturnIfStopped(t, op)
    BY <2>1 DEF ReturnIfStopped, books, ending
  <2>2. CASE TeamComplete(t) \/ \E s \in Subs, w \in Stations : PlaceAt(t, s, w)
    BY <2>2 DEF TeamComplete, PlaceAt, books, ending
  <2>3. CASE ReleaseItem(t) \/ AwaitNothing(t) \/ AwaitReceipt(t) \/ ExecuteLocally(t)
    BY <2>3 DEF ReleaseItem, AwaitNothing, AwaitReceipt, ExecuteLocally, books, ending
  <2>4. CASE Retain(t)
    <3>1. outputs' \subseteq outputs /\ delivery' = delivery /\ verdict' = verdict
      BY <2>4 DEF Retain, ending
    <3>2. \A s \in Subs : attempt'[s].number = attempt[s].number
      <4> DEFINE x == Now(t).sub
                 new == [attempt[x] EXCEPT !.phase = "processing", !.received = Now(t).status]
      <4>1. attempt' = attempt \/ attempt' = [attempt EXCEPT ![x] = new]
        BY <2>4 DEF Retain
      <4>2. attempt \in [Subs -> AttemptRecords]
        BY DEF IInv, TypeOK, AttemptRecords
      <4>3. x \in Subs => new.number = attempt[x].number
        BY <1>0 DEF AttemptRecords
      <4> HIDE DEF x, new
      <4> QED
        BY <4>1, <4>2, <4>3
    <3> QED
      BY <3>1, <3>2
  <2>5. CASE Accept(t)
    BY <2>5 DEF Accept, ending
  <2>6. CASE Summarise(t) \/ Posted(t)
    BY <2>6 DEF Summarise, Posted, books
  <2> QED
    BY <1>1, <2>1, <2>2, <2>3, <2>4, <2>5, <2>6
       DEF Step, CreateTeam, PlaceLocally, Release, SetReady, Begin, Send, Receive, Verify, HandleFailure,
           RetryElsewhere, TakeOver, GiveUp, Poll, CheckTimeouts, Count, LoopRound, GlobalTimeout,
           Aggregate, Prepare, Deliver, Resume, Reinject
<1>2. ASSUME NEW reason \in {"paused", "cancelled", "stopped"}, Stop(reason)
      PROVE  Held
  BY <1>2 DEF Stop, books
<1>3. ~Continue
  BY DEF Continue
<1>4. ASSUME NEW m \in wire, Arrive(m)
      PROVE  Held
  BY <1>4 DEF Arrive, books, ending
<1>5. ASSUME NEW r \in runs, RunEnds(r)
      PROVE  Held
  BY <1>5 DEF RunEnds, books, ending
<1>6. CASE UNCHANGED vars
  BY <1>6 DEF vars, books, ending
<1> QED
  BY <1>1, <1>2, <1>3, <1>4, <1>5, <1>6 DEF Next

\* Until a continuation a stopped PM attempts nothing new, accepts nothing and sends nothing to the
\* Secretary.
THEOREM StopsWork == Spec => StopEffective
BY Inductive, StepStops, PTL DEF Spec, StopEffective

-----------------------------------------------------------------------------
(* The first round: what each thread has in hand, by the place of a frame  *)
(* from the end of the agenda, which no other frame's coming and going     *)
(* changes.                                                                *)

Idle == [op |-> "idle"]
FrameAt(t, d) == IF d \in 0..Len(agenda[t]) - 1 THEN agenda[t][Len(agenda[t]) - d] ELSE Idle

LEMMA Spots ==
    ASSUME Agendas, NEW t \in Threads
    PROVE  /\ \A d \in Nat : FrameAt(t, d) \in Frames \/ FrameAt(t, d) = Idle
           /\ agenda[t] = <<>> => Cur(t) = Idle /\ \A d \in Nat : FrameAt(t, d) = Idle
           /\ agenda[t] # <<>> => /\ Len(agenda[t]) - 1 \in Nat /\ Cur(t) \in Frames
                                  /\ FrameAt(t, Len(agenda[t]) - 1) = Cur(t)
<1>1. /\ Len(agenda[t]) \in Nat /\ DOMAIN agenda[t] = 1..Len(agenda[t])
      /\ \A i \in DOMAIN agenda[t] : agenda[t][i] \in Frames
      /\ agenda[t] # <<>> => 1 \in DOMAIN agenda[t] /\ Head(agenda[t]) = agenda[t][1]
  BY FramePlaces
<1>2. ASSUME NEW d \in Nat
      PROVE  FrameAt(t, d) \in Frames \/ FrameAt(t, d) = Idle
  <2>1. CASE d \in 0..Len(agenda[t]) - 1
    <3>1. Len(agenda[t]) - d \in DOMAIN agenda[t]
      BY <1>1, <2>1
    <3> QED
      BY <1>1, <2>1, <3>1 DEF FrameAt
  <2> QED
    BY <2>1 DEF FrameAt
<1>3. ASSUME agenda[t] = <<>>
      PROVE  Cur(t) = Idle /\ \A d \in Nat : FrameAt(t, d) = Idle
  <2>1. Len(agenda[t]) = 0
    BY <1>3, EmptySeq
  <2> QED
    BY <1>3, <2>1 DEF Cur, FrameAt, Idle
<1>4. ASSUME agenda[t] # <<>>
      PROVE  /\ Len(agenda[t]) - 1 \in Nat /\ Cur(t) \in Frames
             /\ FrameAt(t, Len(agenda[t]) - 1) = Cur(t)
  <2>1. 1 \in 1..Len(agenda[t]) /\ Cur(t) = agenda[t][1] /\ agenda[t][1] \in Frames
    BY <1>1, <1>4 DEF Cur
  <2>2. /\ Len(agenda[t]) - 1 \in 0..Len(agenda[t]) - 1
        /\ Len(agenda[t]) - (Len(agenda[t]) - 1) = 1
    BY <1>1, <2>1
  <2> QED
    BY <1>1, <2>1, <2>2 DEF FrameAt
<1> QED
  BY <1>2, <1>3, <1>4

LEMMA MovedSpots ==
    ASSUME Agendas, NEW t \in Threads, agenda[t] # <<>>, NEW F \in Seq(Frames), Moved(t, F)
    PROVE  \E d \in Nat :
              /\ d = Len(agenda[t]) - 1
              /\ FrameAt(t, d) = Cur(t)
              /\ \A e \in Nat : e > d => FrameAt(t, e) = Idle
              /\ \A e \in Nat : e < d => FrameAt(t, e)' = FrameAt(t, e)
              /\ \A k \in 1..Len(F) : FrameAt(t, d + Len(F) - k)' = F[k]
              /\ \A e \in Nat : e >= d + Len(F) => FrameAt(t, e)' = Idle
              /\ \A u \in Threads, e \in Nat : u # t => FrameAt(u, e)' = FrameAt(u, e)
<1>0. PICK n \in Nat, m \in Nat, l \in Nat : n = Len(agenda[t]) /\ m = Len(agenda'[t]) /\ l = Len(F)
  <2>1. Len(F) \in Nat /\ Len(agenda[t]) \in Nat \ {0} /\ Len(agenda'[t]) = Len(F) + Len(agenda[t]) - 1
    BY DEF Moved
  <2>2. Len(agenda[t]) \in Nat /\ Len(agenda'[t]) \in Nat
    BY <2>1
  <2> QED
    BY <2>1, <2>2
<1>1. /\ Agendas' /\ l \in Nat /\ n \in Nat \ {0} /\ m \in Nat
      /\ \A u \in Threads \ {t} : agenda'[u] = agenda[u]
      /\ m = l + n - 1
      /\ \A i \in 1..l : agenda'[t][i] = F[i]
      /\ \A i \in 2..n : agenda'[t][i + l - 1] = agenda[t][i]
  BY <1>0 DEF Moved
<1>2. \A e \in Nat : FrameAt(t, e) = IF e \in 0..n - 1 THEN agenda[t][n - e] ELSE Idle
  BY <1>0 DEF FrameAt
<1>3. \A e \in Nat : FrameAt(t, e)' = IF e \in 0..m - 1 THEN agenda'[t][m - e] ELSE Idle
  BY <1>0 DEF FrameAt, Idle
<1>4. \A u \in Threads, e \in Nat : u # t => FrameAt(u, e)' = FrameAt(u, e)
  BY <1>1 DEF FrameAt, Idle
<1>5. FrameAt(t, n - 1) = Cur(t)
  BY <1>0, Spots
<1>6. n - 1 \in Nat
  BY <1>1
<1>7. \A e \in Nat : e > n - 1 => FrameAt(t, e) = Idle
  <2> SUFFICES ASSUME NEW e \in Nat, e > n - 1 PROVE FrameAt(t, e) = Idle
    OBVIOUS
  <2>1. e \notin 0..n - 1
    BY <1>1
  <2> QED
    BY <1>2, <2>1
<1>8. ASSUME NEW e \in Nat, e < n - 1
      PROVE  FrameAt(t, e)' = FrameAt(t, e)
  <2>1. e \in 0..n - 1 /\ e \in 0..m - 1 /\ n - e \in 2..n /\ n - e + l - 1 = m - e
    BY <1>1, <1>8
  <2> QED
    BY <1>1, <1>2, <1>3, <2>1
<1>9. ASSUME NEW k \in 1..l
      PROVE  FrameAt(t, n - 1 + l - k)' = F[k]
  <2>1. n - 1 + l - k \in Nat /\ n - 1 + l - k \in 0..m - 1 /\ m - (n - 1 + l - k) = k
    BY <1>1
  <2> QED
    BY <1>1, <1>3, <2>1
<1>10. ASSUME NEW e \in Nat, e >= n - 1 + l
       PROVE  FrameAt(t, e)' = Idle
  <2>1. e \notin 0..m - 1
    BY <1>1, <1>10
  <2> QED
    BY <1>3, <2>1
<1> QED
  BY <1>0, <1>4, <1>5, <1>6, <1>7, <1>8, <1>9, <1>10

\* Thread t is at the frame at d; what it has from d on changes.
Above(t, d) ==
    /\ d = Len(agenda[t]) - 1
    /\ FrameAt(t, d) = Cur(t)
    /\ \A e \in Nat : e > d => FrameAt(t, e) = Idle
    /\ \A u \in Threads, e \in Nat : u # t \/ e < d => FrameAt(u, e)' = FrameAt(u, e)

\* It goes on to g with f on top of it.
Put(t, d, f, g) ==
    /\ Above(t, d)
    /\ FrameAt(t, d)' = g /\ FrameAt(t, d + 1)' = f
    /\ \A e \in Nat : e > d + 1 => FrameAt(t, e)' = Idle

\* It goes on to h with g and f on top of it.
PutThree(t, d, f, g, h) ==
    /\ Above(t, d)
    /\ FrameAt(t, d)' = h /\ FrameAt(t, d + 1)' = g /\ FrameAt(t, d + 2)' = f
    /\ \A e \in Nat : e > d + 2 => FrameAt(t, e)' = Idle

LEMMA Put0 ==
    ASSUME Agendas, NEW t \in Threads, agenda[t] # <<>>, Return(t)
    PROVE  \E d \in Nat : Put(t, d, Idle, Idle)
<1>1. <<>> \in Seq(Frames) /\ Len(<<>>) = 0
  BY EmptySeq
<1>2. Moved(t, <<>>)
  BY <1>1, ThenMoves DEF Return
<1>3. PICK d \in Nat :
              /\ d = Len(agenda[t]) - 1
              /\ FrameAt(t, d) = Cur(t)
              /\ \A e \in Nat : e > d => FrameAt(t, e) = Idle
              /\ \A e \in Nat : e < d => FrameAt(t, e)' = FrameAt(t, e)
              /\ \A e \in Nat : e >= d + Len(<<>>) => FrameAt(t, e)' = Idle
              /\ \A u \in Threads, e \in Nat : u # t => FrameAt(u, e)' = FrameAt(u, e)
  BY <1>1, <1>2, MovedSpots
<1>4. \A e \in Nat : e >= d => FrameAt(t, e)' = Idle
  BY <1>1, <1>3
<1>5. d + 1 \in Nat /\ d >= d /\ d + 1 >= d /\ \A e \in Nat : e > d + 1 => e >= d
  OBVIOUS
<1> QED
  BY <1>3, <1>4, <1>5 DEF Put, Above

LEMMA Put1 ==
    ASSUME Agendas, NEW t \in Threads, agenda[t] # <<>>, NEW f \in Frames, Then(t, <<f>>)
    PROVE  \E d \in Nat : Put(t, d, Idle, f)
<1>1. <<f>> \in Seq(Frames) /\ Len(<<f>>) = 1 /\ <<f>>[1] = f
  OBVIOUS
<1>2. Moved(t, <<f>>)
  BY <1>1, ThenMoves
<1>3. PICK d \in Nat :
              /\ d = Len(agenda[t]) - 1
              /\ FrameAt(t, d) = Cur(t)
              /\ \A e \in Nat : e > d => FrameAt(t, e) = Idle
              /\ \A e \in Nat : e < d => FrameAt(t, e)' = FrameAt(t, e)
              /\ \A k \in 1..Len(<<f>>) : FrameAt(t, d + Len(<<f>>) - k)' = <<f>>[k]
              /\ \A e \in Nat : e >= d + Len(<<f>>) => FrameAt(t, e)' = Idle
              /\ \A u \in Threads, e \in Nat : u # t => FrameAt(u, e)' = FrameAt(u, e)
  BY <1>1, <1>2, MovedSpots
<1>4. \A e \in Nat : e >= d + 1 => FrameAt(t, e)' = Idle
  BY <1>1, <1>3
<1>5. /\ d + 1 \in Nat /\ d + 1 >= d + 1 /\ d + 1 - 1 = d /\ 1 \in 1..1
      /\ \A e \in Nat : e > d + 1 => e >= d + 1
  OBVIOUS
<1>6. FrameAt(t, d + 1 - 1)' = <<f>>[1]
  BY <1>1, <1>3, <1>5
<1>7. FrameAt(t, d)' = f
  BY <1>1, <1>5, <1>6
<1> QED
  BY <1>3, <1>4, <1>5, <1>7 DEF Put, Above

LEMMA Put2 ==
    ASSUME Agendas, NEW t \in Threads, agenda[t] # <<>>, NEW f \in Frames, NEW g \in Frames,
           Then(t, <<f, g>>)
    PROVE  \E d \in Nat : Put(t, d, f, g)
<1>1. <<f, g>> \in Seq(Frames) /\ Len(<<f, g>>) = 2 /\ <<f, g>>[1] = f /\ <<f, g>>[2] = g
  OBVIOUS
<1>2. Moved(t, <<f, g>>)
  BY <1>1, ThenMoves
<1>3. PICK d \in Nat :
              /\ d = Len(agenda[t]) - 1
              /\ FrameAt(t, d) = Cur(t)
              /\ \A e \in Nat : e > d => FrameAt(t, e) = Idle
              /\ \A e \in Nat : e < d => FrameAt(t, e)' = FrameAt(t, e)
              /\ \A k \in 1..Len(<<f, g>>) : FrameAt(t, d + Len(<<f, g>>) - k)' = <<f, g>>[k]
              /\ \A e \in Nat : e >= d + Len(<<f, g>>) => FrameAt(t, e)' = Idle
              /\ \A u \in Threads, e \in Nat : u # t => FrameAt(u, e)' = FrameAt(u, e)
  BY <1>1, <1>2, MovedSpots
<1>4. \A e \in Nat : e >= d + 2 => FrameAt(t, e)' = Idle
  BY <1>1, <1>3
<1>5. /\ d + 1 \in Nat /\ d + 2 - 1 = d + 1 /\ d + 2 - 2 = d /\ 1 \in 1..2 /\ 2 \in 1..2
      /\ \A e \in Nat : e > d + 1 => e >= d + 2
  OBVIOUS
<1>6. FrameAt(t, d + 2 - 1)' = <<f, g>>[1] /\ FrameAt(t, d + 2 - 2)' = <<f, g>>[2]
  BY <1>1, <1>3, <1>5
<1>7. FrameAt(t, d + 1)' = f /\ FrameAt(t, d)' = g
  BY <1>1, <1>5, <1>6
<1> QED
  BY <1>3, <1>4, <1>5, <1>7 DEF Put, Above

LEMMA Put3 ==
    ASSUME Agendas, NEW t \in Threads, agenda[t] # <<>>, NEW f \in Frames, NEW g \in Frames,
           NEW h \in Frames, Then(t, <<f, g, h>>)
    PROVE  \E d \in Nat : PutThree(t, d, f, g, h)
<1> DEFINE F == <<f, g, h>>
<1>1. F \in Seq(Frames) /\ Len(F) = 3 /\ F[1] = f /\ F[2] = g /\ F[3] = h
  OBVIOUS
<1>2. Moved(t, F)
  BY <1>1, ThenMoves
<1> HIDE DEF F
<1>3. PICK d \in Nat :
              /\ d = Len(agenda[t]) - 1
              /\ FrameAt(t, d) = Cur(t)
              /\ \A e \in Nat : e > d => FrameAt(t, e) = Idle
              /\ \A e \in Nat : e < d => FrameAt(t, e)' = FrameAt(t, e)
              /\ \A k \in 1..Len(F) : FrameAt(t, d + Len(F) - k)' = F[k]
              /\ \A e \in Nat : e >= d + Len(F) => FrameAt(t, e)' = Idle
              /\ \A u \in Threads, e \in Nat : u # t => FrameAt(u, e)' = FrameAt(u, e)
  BY <1>1, <1>2, MovedSpots
<1>4. \A e \in Nat : e >= d + 3 => FrameAt(t, e)' = Idle
  BY <1>1, <1>3
<1>5. /\ d + 3 - 1 = d + 2 /\ d + 3 - 2 = d + 1 /\ d + 3 - 3 = d
      /\ 1 \in 1..3 /\ 2 \in 1..3 /\ 3 \in 1..3
      /\ \A e \in Nat : e > d + 2 => e >= d + 3
  OBVIOUS
<1>6. FrameAt(t, d + 3 - 1)' = F[1] /\ FrameAt(t, d + 3 - 2)' = F[2] /\ FrameAt(t, d + 3 - 3)' = F[3]
  BY <1>1, <1>3, <1>5
<1>7. FrameAt(t, d + 2)' = f /\ FrameAt(t, d + 1)' = g /\ FrameAt(t, d)' = h
  BY <1>1, <1>5, <1>6
<1>8. Above(t, d)
  BY <1>3 DEF Above
<1>9. \A e \in Nat : e > d + 2 => FrameAt(t, e)' = Idle
  BY <1>4, <1>5
<1>10. PutThree(t, d, f, g, h)
  BY <1>7, <1>8, <1>9 DEF PutThree
<1> QED
  BY <1>10


-----------------------------------------------------------------------------
(* Who has a subtask in hand: at most one frame, and only where its books  *)
(* say so.  Until the PM is stopped or continued, that is all there is.    *)

Working == continues = 0 /\ ~Stopped

LoopOps == {"loop", "poll", "timeouts", "count", "aggregate", "summarise", "prepare", "deliver", "posting"}
Fitting(t, d, f) ==
    /\ f.op \in LoopOps => t = "loop"
    /\ f.op \in LoopOps \ {"poll", "timeouts"} => d = 0
    /\ f.op \in {"team", "ready"} => t = "main"
    /\ f.op = "team" => d = 2
    /\ f.op = "giveup" => IF f.cause \in {"timeout", "missing"} THEN t = "loop" ELSE f.sub \in Subs
    /\ f.op \notin {"create", "resume", "reports"}
Roles == \A t \in Threads, d \in Nat : Fitting(t, d, FrameAt(t, d))
TeamFirst == FrameAt("main", 2).op = "team" => FrameAt("main", 1).op = "release"

HandOps == {"team", "items", "begin", "elsewhere", "verify", "accept", "failed", "unknown", "exhausted"}
HandSet == [thread : Threads, place : Nat, op : HandOps, station : Places \cup {None}]
Holds(f, s, o, w) ==
    \/ f.op = "team" /\ o = "team" /\ s \in f.todo /\ w = None
    \/ f.op = "items" /\ o = "items" /\ [sub |-> s, station |-> w] \in f.todo
    \/ f.op \in {"begin", "elsewhere"} /\ o = f.op /\ f.sub = s /\ w = f.station
    \/ f.op \in {"verify", "accept", "failed"} /\ o = f.op /\ f.sub = s /\ w = None
    \/ f.op = "giveup" /\ f.cause \in {"unknown", "exhausted"} /\ o = f.cause /\ f.sub = s /\ w = None
Hands(s) == {h \in HandSet : Holds(FrameAt(h.thread, h.place), s, h.op, h.station)}

Unheld(f, s) == \A o \in HandOps, w \in Places \cup {None} : ~Holds(f, s, o, w)

LEMMA Empty ==
    /\ \A s : Unheld(Idle, s)
    /\ \A f, s : f.op \notin {"team", "items", "begin", "elsewhere", "verify", "accept", "failed", "giveup"}
                     => Unheld(f, s)
    /\ \A f, s : f.op = "giveup" /\ f.cause \notin {"unknown", "exhausted"} => Unheld(f, s)
BY DEF Unheld, Holds, Idle

LEMMA OthersUnheld ==
    \A f, s : f.op \in {"begin", "elsewhere", "verify", "accept", "failed", "giveup"} /\ f.sub # s => Unheld(f, s)
BY DEF Unheld, Holds

\* A step of thread t at d, seen by what is in hand.
LEMMA HandsMove ==
    ASSUME NEW t \in Threads, NEW d \in Nat, NEW f, NEW g, Put(t, d, f, g), NEW s,
           NEW h \in HandSet
    PROVE  h \in Hands(s)' <=>
              \/ h \in Hands(s) /\ ~(h.thread = t /\ h.place = d)
              \/ h.thread = t /\ h.place = d /\ Holds(g, s, h.op, h.station)
              \/ h.thread = t /\ h.place = d + 1 /\ Holds(f, s, h.op, h.station)
<1>1. /\ d + 1 \in Nat /\ h.thread \in Threads /\ h.place \in Nat
      /\ h.op \in HandOps /\ h.station \in Places \cup {None}
  BY DEF HandSet
<1>2. /\ h \in Hands(s) <=> Holds(FrameAt(h.thread, h.place), s, h.op, h.station)
      /\ h \in Hands(s)' <=> Holds(FrameAt(h.thread, h.place)', s, h.op, h.station)
  BY DEF Hands, Holds
<1>3. /\ FrameAt(t, d)' = g /\ FrameAt(t, d + 1)' = f
      /\ \A e \in Nat : e > d + 1 => FrameAt(t, e)' = Idle
      /\ \A e \in Nat : e > d => FrameAt(t, e) = Idle
      /\ \A u \in Threads, e \in Nat : u # t \/ e < d => FrameAt(u, e)' = FrameAt(u, e)
  BY DEF Put, Above
<1>4. ~Holds(Idle, s, h.op, h.station)
  BY DEF Holds, Idle
<1>5. CASE h.thread # t \/ h.place < d
  <2>1. FrameAt(h.thread, h.place)' = FrameAt(h.thread, h.place)
    BY <1>1, <1>3, <1>5
  <2>2. ~(h.thread = t /\ h.place = d) /\ ~(h.thread = t /\ h.place = d + 1)
    BY <1>1, <1>5
  <2> QED
    BY <1>2, <2>1, <2>2
<1>6. CASE h.thread = t /\ h.place = d
  <2>1. h.place # d + 1
    BY <1>6
  <2>2. FrameAt(h.thread, h.place)' = g
    BY <1>3, <1>6
  <2> QED
    BY <1>2, <1>6, <2>1, <2>2
<1>7. CASE h.thread = t /\ h.place = d + 1
  <2>1. h.place # d /\ d + 1 > d
    BY <1>7
  <2>2. FrameAt(h.thread, h.place)' = f /\ FrameAt(h.thread, h.place) = Idle
    BY <1>1, <1>3, <1>7, <2>1
  <2> QED
    BY <1>2, <1>4, <1>7, <2>1, <2>2
<1>8. CASE h.thread = t /\ h.place > d + 1
  <2>1. h.place # d /\ h.place # d + 1 /\ h.place > d
    BY <1>1, <1>8
  <2>2. FrameAt(h.thread, h.place)' = Idle /\ FrameAt(h.thread, h.place) = Idle
    BY <1>1, <1>3, <1>8, <2>1
  <2> QED
    BY <1>2, <1>4, <1>8, <2>1, <2>2
<1>9. h.place < d \/ h.place = d \/ h.place = d + 1 \/ h.place > d + 1
  BY <1>1
<1> QED
  BY <1>5, <1>6, <1>7, <1>8, <1>9

\* Hands that do not concern s.
LEMMA HandsRest ==
    ASSUME NEW t \in Threads, NEW d \in Nat, NEW f, NEW g, Put(t, d, f, g), NEW s,
           Unheld(f, s),
           \A o \in HandOps, w \in Places \cup {None} : Holds(g, s, o, w) <=> Holds(Cur(t), s, o, w)
    PROVE  Hands(s)' = Hands(s)
<1>1. ASSUME NEW h \in HandSet
      PROVE  h \in Hands(s)' <=> h \in Hands(s)
  <2>1. h.op \in HandOps /\ h.station \in Places \cup {None}
    BY DEF HandSet
  <2>2. h.thread = t /\ h.place = d => (h \in Hands(s) <=> Holds(g, s, h.op, h.station))
    BY <2>1 DEF Hands, Put, Above
  <2>3. ~Holds(f, s, h.op, h.station)
    BY <2>1 DEF Unheld
  <2> QED
    BY <2>2, <2>3, HandsMove
<1>2. Hands(s) \subseteq HandSet /\ Hands(s)' \subseteq HandSet
  BY DEF Hands, HandSet
<1> QED
  BY <1>1, <1>2

Free(s)       == Hands(s) = {}
Held(s, o, w) == \E h \in HandSet : Hands(s) = {h} /\ h.op = o /\ h.station = w
HeldNext(s, o, w) == \E h \in HandSet : Hands(s)' = {h} /\ h.op = o /\ h.station = w
OneHand(s)   == \A h, k \in Hands(s) : h = k
Only(s, t, d) == \A h \in Hands(s) : h.thread = t /\ h.place = d

\* The frame f has s in hand for o at w, and for nothing else.
Sole(f, s, o, w) ==
    /\ o \in HandOps /\ w \in Places \cup {None}
    /\ \A p \in HandOps, x \in Places \cup {None} : Holds(f, s, p, x) <=> p = o /\ x = w

LEMMA HandMade ==
    ASSUME NEW t \in Threads, NEW d \in Nat, NEW o \in HandOps, NEW w \in Places \cup {None}
    PROVE  \E h \in HandSet : h.thread = t /\ h.place = d /\ h.op = o /\ h.station = w
<1>1. [thread |-> t, place |-> d, op |-> o, station |-> w] \in HandSet
  BY DEF HandSet
<1> QED
  BY <1>1

\* Hands are the same by their fields.
LEMMA HandIs ==
    ASSUME NEW h \in HandSet, NEW k \in HandSet,
           h.thread = k.thread, h.place = k.place, h.op = k.op, h.station = k.station
    PROVE  h = k
<1>1. h = [thread |-> h.thread, place |-> h.place, op |-> h.op, station |-> h.station]
  BY DEF HandSet
<1>2. k = [thread |-> k.thread, place |-> k.place, op |-> k.op, station |-> k.station]
  BY DEF HandSet
<1> QED
  BY <1>1, <1>2

\* What the current frame has in hand is all there is.
LEMMA HandIsCur ==
    ASSUME NEW t \in Threads, NEW d \in Nat, NEW f, NEW g, Put(t, d, f, g), NEW s, OneHand(s),
           NEW o \in HandOps, NEW w \in Places \cup {None}, Holds(Cur(t), s, o, w)
    PROVE  Held(s, o, w) /\ Only(s, t, d)
<1>1. PICK h \in HandSet : h.thread = t /\ h.place = d /\ h.op = o /\ h.station = w
  BY HandMade
<1>2. FrameAt(t, d) = Cur(t)
  BY DEF Put, Above
<1>3. h \in Hands(s)
  BY <1>1, <1>2 DEF Hands
<1>4. Hands(s) = {h}
  BY <1>3 DEF OneHand
<1> QED
  BY <1>1, <1>4 DEF Held, Only

LEMMA HandGone ==
    ASSUME NEW t \in Threads, NEW d \in Nat, NEW f, NEW g, Put(t, d, f, g), NEW s, Only(s, t, d),
           Unheld(f, s), Unheld(g, s)
    PROVE  Free(s)'
<1>1. ASSUME NEW h \in HandSet PROVE h \notin Hands(s)'
  <2>1. h.op \in HandOps /\ h.station \in Places \cup {None}
    BY DEF HandSet
  <2>2. ~Holds(f, s, h.op, h.station) /\ ~Holds(g, s, h.op, h.station)
    BY <2>1 DEF Unheld
  <2> QED
    BY <2>2, HandsMove DEF Only
<1>2. Hands(s)' \subseteq HandSet
  BY DEF Hands, HandSet
<1> QED
  BY <1>1, <1>2 DEF Free

LEMMA HandBelow ==
    ASSUME NEW t \in Threads, NEW d \in Nat, NEW f, NEW g, Put(t, d, f, g), NEW s, Only(s, t, d),
           Unheld(f, s), NEW o, NEW w, Sole(g, s, o, w)
    PROVE  HeldNext(s, o, w)
<1>1. PICK k \in HandSet : k.thread = t /\ k.place = d /\ k.op = o /\ k.station = w
  BY HandMade DEF Sole
<1>2. ASSUME NEW h \in HandSet PROVE h \in Hands(s)' <=> h = k
  <2>1. h.op \in HandOps /\ h.station \in Places \cup {None}
    BY DEF HandSet
  <2>2. ~Holds(f, s, h.op, h.station) /\ (Holds(g, s, h.op, h.station) <=> h.op = o /\ h.station = w)
    BY <2>1 DEF Unheld, Sole
  <2>3. h \in Hands(s)' <=> h.thread = t /\ h.place = d /\ h.op = o /\ h.station = w
    BY <2>2, HandsMove DEF Only
  <2> QED
    BY <1>1, <2>3, HandIs
<1>3. Hands(s)' \subseteq HandSet
  BY DEF Hands, HandSet
<1>4. Hands(s)' = {k}
  BY <1>2, <1>3
<1> QED
  BY <1>1, <1>4 DEF HeldNext

LEMMA HandOnTop ==
    ASSUME NEW t \in Threads, NEW d \in Nat, NEW f, NEW g, Put(t, d, f, g), NEW s, Only(s, t, d),
           Unheld(g, s), NEW o, NEW w, Sole(f, s, o, w)
    PROVE  HeldNext(s, o, w)
<1>0. d + 1 \in Nat
  OBVIOUS
<1>1. PICK k \in HandSet : k.thread = t /\ k.place = d + 1 /\ k.op = o /\ k.station = w
  BY <1>0, HandMade DEF Sole
<1>2. ASSUME NEW h \in HandSet PROVE h \in Hands(s)' <=> h = k
  <2>1. h.op \in HandOps /\ h.station \in Places \cup {None}
    BY DEF HandSet
  <2>2. ~Holds(g, s, h.op, h.station) /\ (Holds(f, s, h.op, h.station) <=> h.op = o /\ h.station = w)
    BY <2>1 DEF Unheld, Sole
  <2>3. h \in Hands(s)' <=> h.thread = t /\ h.place = d + 1 /\ h.op = o /\ h.station = w
    BY <2>2, HandsMove DEF Only
  <2> QED
    BY <1>1, <2>3, HandIs
<1>3. Hands(s)' \subseteq HandSet
  BY DEF Hands, HandSet
<1>4. Hands(s)' = {k}
  BY <1>2, <1>3
<1> QED
  BY <1>1, <1>4 DEF HeldNext

-----------------------------------------------------------------------------
(* What is known of one subtask.                                           *)

PhasesOf(o) ==
    CASE o \in {"team", "items"} -> {"none"}
      [] o = "begin" -> {"none", "done"}
      [] o \in {"elsewhere", "exhausted"} -> {"done"}
      [] OTHER -> {"processing"}

\* It is in one hand at a time, and in none while it waits, is executed or has its output.
Carried(s) ==
    /\ OneHand(s)
    /\ \A h \in Hands(s) :
          s \notin outputs /\ pending[s] = None /\ attempt[s].phase \in PhasesOf(h.op)
    /\ pending[s] # None => attempt[s].phase = "none" /\ s \notin outputs
    /\ attempt[s].phase = "none" => attempt[s] = NoAttempt

\* It is attempted on top of its dependencies.
Ordered(s) ==
    /\ attempt[s] # NoAttempt => Deps[s] \subseteq outputs
    /\ \A h \in Hands(s) : h.op \in {"items", "begin"} => Deps[s] \subseteq outputs

\* It goes up the ladder: retries, another station, the PM itself.
InPlay == {"begin", "elsewhere", "verify", "accept", "failed"}
Bounded(s) ==
    /\ attempt[s].number <= retries[s] + 1
    /\ retries[s] <= MaxRetries + 2
    /\ retries[s] > MaxRetries => s \in crossed
    /\ attempt[s] = NoAttempt => retries[s] = 0
    /\ \A h \in Hands(s) : h.op \in {"begin", "elsewhere"} => attempt[s].number <= retries[s]
LastRung(s) ==
    retries[s] > MaxRetries + 1 /\ s \notin takeover =>
        attempt[s].phase # "active" /\ \A h \in Hands(s) : h.op \notin InPlay
AtHome(s) ==
    /\ s \in takeover => attempt[s] # NoAttempt
    /\ s \in takeover \/ home[s] = Local =>
          /\ Underway(s) => s \in localTried
          /\ \A h \in Hands(s) : h.op = "begin" => h.station = Local
    /\ home[s] = Local =>
          /\ pending[s] \in {None, Local}
          /\ \A h \in Hands(s) : h.op = "items" => h.station = Local
    /\ \A h \in Hands(s) :
          /\ h.op = "elsewhere" => s \in crossed /\ s \notin takeover
          /\ h.op = "exhausted" => s \in localTried

\* It is not forgotten.
Somewhere(s) == attempt[s].phase # "active" => s \in outputs \/ pending[s] # None \/ ~Free(s)

Known(s) == Carried(s) /\ Ordered(s) /\ Bounded(s) /\ LastRung(s) /\ AtHome(s) /\ Somewhere(s)

-----------------------------------------------------------------------------
(* What a step may do with one subtask.                                    *)

PlanSame(s)  == pending'[s] = pending[s] /\ home'[s] = home[s]
TriesSame(s) == /\ retries'[s] = retries[s]
                /\ (s \in crossed' <=> s \in crossed) /\ (s \in takeover' <=> s \in takeover)
WorkSame(s)  == /\ attempt'[s] = attempt[s]
                /\ (s \in outputs' <=> s \in outputs) /\ (s \in localTried' <=> s \in localTried)

Rests(s) == Hands(s)' = Hands(s) /\ PlanSame(s) /\ TriesSame(s) /\ WorkSame(s)

\* From the team to the queue, or to a thread of its own.
Queued(s) ==
    /\ Held(s, "team", None) /\ Free(s)' /\ TriesSame(s) /\ WorkSame(s)
    /\ pending'[s] \in Places
    /\ \/ home'[s] = home[s] /\ pending'[s] = Local
       \/ home'[s] \in Stations
Launched(s) ==
    /\ Held(s, "team", None) /\ TriesSame(s) /\ WorkSame(s)
    /\ home'[s] \in Stations /\ HeldNext(s, "begin", home'[s]) /\ pending'[s] = pending[s]
    /\ Deps[s] = {}

\* From the queue to the items, and from these to its execution.
Released(s) ==
    /\ pending[s] # None /\ Deps[s] \subseteq outputs
    /\ HeldNext(s, "items", pending[s])
    /\ pending'[s] = None /\ home'[s] = home[s] /\ TriesSame(s) /\ WorkSame(s)
Picked(s) ==
    \E w \in Places : /\ Held(s, "items", w) /\ HeldNext(s, "begin", w)
                      /\ PlanSame(s) /\ TriesSame(s) /\ WorkSame(s)
Begun(s) ==
    \E w \in Places :
        /\ Held(s, "begin", w) /\ Free(s)'
        /\ attempt'[s] = [number |-> attempt[s].number + 1, station |-> w,
                          phase |-> "active", received |-> None]
        /\ s \in localTried' <=> s \in localTried \/ w = Local
        /\ (s \in outputs' <=> s \in outputs) /\ PlanSame(s) /\ TriesSame(s)

\* The attempt is the same one, in another phase.
Phased(s, phase) ==
    /\ attempt'[s].number = attempt[s].number /\ attempt'[s].phase = phase
    /\ s \in localTried' <=> s \in localTried

Received(s) ==
    /\ attempt[s].phase = "active" /\ s \notin outputs /\ Phased(s, "processing")
    /\ \E o \in {"verify", "failed", "unknown"} : HeldNext(s, o, None)
    /\ (s \in outputs' <=> s \in outputs) /\ PlanSame(s) /\ TriesSame(s)
Judges(s) ==
    /\ Held(s, "verify", None)
    /\ \E o \in {"accept", "failed"} : HeldNext(s, o, None)
    /\ PlanSame(s) /\ TriesSame(s) /\ WorkSame(s)
Accepted(s) ==
    /\ Held(s, "accept", None) /\ Free(s)' /\ Phased(s, "done")
    /\ s \in outputs' /\ s \notin takeover' /\ PlanSame(s)
    /\ retries'[s] = retries[s] /\ (s \in crossed' <=> s \in crossed)

\* The next rung.
Failed(s) ==
    /\ Held(s, "failed", None) /\ Phased(s, "done") /\ PlanSame(s)
    /\ s \in outputs' <=> s \in outputs
    /\ \/ /\ s \notin takeover /\ retries[s] < MaxRetries /\ retries'[s] = retries[s] + 1
          /\ (s \in crossed' <=> s \in crossed) /\ s \notin takeover'
          /\ HeldNext(s, "begin", home[s])
       \/ /\ s \notin takeover /\ home[s] # Local /\ s \notin crossed
          /\ retries'[s] = retries[s] + 1
          /\ s \in crossed' /\ s \notin takeover'
          /\ \E w \in Places : HeldNext(s, "elsewhere", w)
       \/ /\ s \notin takeover /\ s \in crossed /\ retries'[s] = retries[s] + 1
          /\ s \in crossed' /\ s \in takeover'
          /\ HeldNext(s, "begin", Local)
       \/ /\ s \in takeover \/ home[s] = Local
          /\ retries'[s] = retries[s] /\ (s \in crossed' <=> s \in crossed) /\ s \notin takeover'
          /\ HeldNext(s, "exhausted", None)
Elsewhere(s) ==
    /\ \E w \in Places : Held(s, "elsewhere", w)
    /\ WorkSame(s) /\ pending'[s] = pending[s] /\ (s \in crossed' <=> s \in crossed)
    /\ \/ /\ home'[s] \in Stations /\ HeldNext(s, "begin", home'[s])
          /\ retries'[s] = retries[s] /\ (s \in takeover' <=> s \in takeover)
       \/ /\ home'[s] = home[s] /\ HeldNext(s, "begin", Local)
          /\ retries'[s] = retries[s] + 1 /\ s \in takeover'

Life(s) ==
    \/ Rests(s) \/ Queued(s) \/ Launched(s) \/ Released(s) \/ Picked(s) \/ Begun(s)
    \/ Received(s) \/ Judges(s) \/ Accepted(s) \/ Failed(s) \/ Elsewhere(s)

\* The books of one subtask, of their types.
BookOf(s) ==
    /\ attempt[s] \in [number : Nat, station : Places \cup {None},
                       phase : {"none", "active", "processing", "done"},
                       received : Terminal \cup {None}]
    /\ pending[s] \in Places \cup {None} /\ home[s] \in Places /\ retries[s] \in Nat

LEMMA BookHas == ASSUME IInv, NEW s \in Subs PROVE BookOf(s)
BY Standing DEF BookTypes, BookOf

LEMMA BookHasNext == ASSUME IInv', NEW s \in Subs PROVE BookOf(s)'
<1>1. BookTypes'
  BY Standing, PTL
<1> QED
  BY <1>1 DEF BookTypes, BookOf

LEMMA LifeCarries ==
    ASSUME NEW s \in Subs, Carried(s), BookOf(s), BookOf(s)', Life(s)
    PROVE  Carried(s)'
<1> USE DEF Carried, OneHand, Free, Held, HeldNext, PhasesOf, PlanSame, WorkSame, Phased
<1>1. CASE Rests(s)
  BY <1>1 DEF Rests
<1>2. CASE Queued(s)
  BY <1>2 DEF Queued
<1>3. CASE Launched(s)
  BY <1>3 DEF Launched
<1>4. CASE Released(s)
  BY <1>4 DEF Released
<1>5. CASE Picked(s)
  BY <1>5 DEF Picked
<1>6. CASE Begun(s)
  BY <1>6 DEF Begun
<1>7. CASE Received(s)
  BY <1>7 DEF Received
<1>8. CASE Judges(s)
  BY <1>8 DEF Judges
<1>9. CASE Accepted(s)
  BY <1>9 DEF Accepted
<1>10. CASE Failed(s)
  BY <1>10 DEF Failed
<1>11. CASE Elsewhere(s)
  BY <1>11 DEF Elsewhere
<1> QED
  BY <1>1, <1>2, <1>3, <1>4, <1>5, <1>6, <1>7, <1>8, <1>9, <1>10, <1>11 DEF Life

LEMMA LifeOrders ==
    ASSUME NEW s \in Subs, Carried(s), Ordered(s), BookOf(s), BookOf(s)', Life(s), outputs \subseteq outputs'
    PROVE  Ordered(s)'
<1> USE DEF Ordered, Carried, Free, Held, HeldNext, PhasesOf, PlanSame, WorkSame, Phased
<1>1. CASE Rests(s)
  BY <1>1 DEF Rests
<1>2. CASE Queued(s)
  BY <1>2 DEF Queued
<1>3. CASE Launched(s)
  BY <1>3 DEF Launched
<1>4. CASE Released(s)
  BY <1>4 DEF Released
<1>5. CASE Picked(s)
  BY <1>5 DEF Picked
<1>6. CASE Begun(s)
  BY <1>6 DEF Begun
<1>7. CASE Received(s)
  BY <1>7 DEF Received, NoAttempt
<1>8. CASE Judges(s)
  BY <1>8 DEF Judges
<1>9. CASE Accepted(s)
  BY <1>9 DEF Accepted, NoAttempt
<1>10. CASE Failed(s)
  BY <1>10 DEF Failed, NoAttempt
<1>11. CASE Elsewhere(s)
  BY <1>11 DEF Elsewhere, NoAttempt
<1> QED
  BY <1>1, <1>2, <1>3, <1>4, <1>5, <1>6, <1>7, <1>8, <1>9, <1>10, <1>11 DEF Life

LEMMA LifeRemembers ==
    ASSUME NEW s \in Subs, Carried(s), Somewhere(s), BookOf(s), BookOf(s)', Life(s)
    PROVE  Somewhere(s)'
<1> USE DEF Somewhere, Carried, Free, Held, HeldNext, PhasesOf, PlanSame, WorkSame, Phased
<1>1. CASE Rests(s)
  BY <1>1 DEF Rests
<1>2. CASE Queued(s)
  BY <1>2, DispatchAssumption DEF Queued, Places
<1>3. CASE Launched(s)
  BY <1>3 DEF Launched
<1>4. CASE Released(s)
  BY <1>4 DEF Released
<1>5. CASE Picked(s)
  BY <1>5 DEF Picked
<1>6. CASE Begun(s)
  BY <1>6 DEF Begun
<1>7. CASE Received(s)
  BY <1>7 DEF Received
<1>8. CASE Judges(s)
  BY <1>8 DEF Judges
<1>9. CASE Accepted(s)
  BY <1>9 DEF Accepted
<1>10. CASE Failed(s)
  BY <1>10 DEF Failed
<1>11. CASE Elsewhere(s)
  BY <1>11 DEF Elsewhere
<1> QED
  BY <1>1, <1>2, <1>3, <1>4, <1>5, <1>6, <1>7, <1>8, <1>9, <1>10, <1>11 DEF Life

LEMMA LifeStaysHome ==
    ASSUME NEW s \in Subs, Carried(s), AtHome(s), BookOf(s), BookOf(s)', Life(s)
    PROVE  AtHome(s)'
<1> USE DEF AtHome, Carried, Free, Held, HeldNext, PhasesOf, PlanSame, WorkSame, TriesSame, Phased, Underway
<1>0. Local \notin Stations /\ None \notin Stations /\ None # Local
  BY DispatchAssumption
<1>1. CASE Rests(s)
  BY <1>1 DEF Rests
<1>2. CASE Queued(s)
  BY <1>0, <1>2 DEF Queued
<1>3. CASE Launched(s)
  BY <1>0, <1>3 DEF Launched
<1>4. CASE Released(s)
  BY <1>0, <1>4 DEF Released
<1>5. CASE Picked(s)
  BY <1>5 DEF Picked
<1>6. CASE Begun(s)
  BY <1>6 DEF Begun, NoAttempt
<1>7. CASE Received(s)
  BY <1>7 DEF Received, NoAttempt
<1>8. CASE Judges(s)
  BY <1>8 DEF Judges
<1>9. CASE Accepted(s)
  BY <1>9 DEF Accepted
<1>10. CASE Failed(s)
  BY <1>0, <1>10 DEF Failed, NoAttempt
<1>11. CASE Elsewhere(s)
  BY <1>0, <1>11 DEF Elsewhere, NoAttempt
<1> QED
  BY <1>1, <1>2, <1>3, <1>4, <1>5, <1>6, <1>7, <1>8, <1>9, <1>10, <1>11 DEF Life

\* The arithmetic of the rungs.
LEMMA Rungs ==
    \A m, n, r \in Nat :
        /\ 0 <= r + 1 /\ 0 <= m + 2 /\ (r = 0 => ~(r > m) /\ ~(r > m + 1))
        /\ n <= r => n + 1 <= r + 1
        /\ n <= r + 1 => n <= r + 1 + 1
        /\ r < m => r + 1 <= m + 2 /\ ~(r + 1 > m) /\ ~(r + 1 > m + 1)
        /\ ~(r > m) => r + 1 <= m + 2 /\ ~(r + 1 > m + 1)
        /\ ~(r > m + 1) => r + 1 <= m + 2
        /\ r > m + 1 => r > m
OBVIOUS

LEMMA LifeClimbs ==
    ASSUME NEW s \in Subs, Carried(s), Bounded(s), LastRung(s), AtHome(s), BookOf(s), BookOf(s)', Life(s)
    PROVE  Bounded(s)' /\ LastRung(s)'
<1> USE DEF Carried, Free, Held, HeldNext, PhasesOf, PlanSame, WorkSame, TriesSame, Phased, InPlay, BookOf
<1>0. MaxRetries \in Nat /\ attempt[s].number \in Nat /\ retries[s] \in Nat
  BY DispatchAssumption
<1>00. NoAttempt.phase = "none" /\ NoAttempt.number = 0
  BY DEF NoAttempt
<1>1. CASE Rests(s)
  <2>1. Bounded(s)'
    BY <1>0, <1>00, <1>1, Rungs DEF Bounded, LastRung, Rests
  <2>2. LastRung(s)'
    BY <1>0, <1>00, <1>1, Rungs DEF Bounded, LastRung, Rests
  <2> QED
    BY <2>1, <2>2
<1>2. CASE Queued(s)
  <2>1. Bounded(s)'
    BY <1>0, <1>00, <1>2, Rungs DEF Bounded, LastRung, Queued
  <2>2. LastRung(s)'
    BY <1>0, <1>00, <1>2, Rungs DEF Bounded, LastRung, Queued
  <2> QED
    BY <2>1, <2>2
<1>3. CASE Launched(s)
  <2>1. Bounded(s)'
    BY <1>0, <1>00, <1>3, Rungs DEF Bounded, LastRung, Launched
  <2>2. LastRung(s)'
    BY <1>0, <1>00, <1>3, Rungs DEF Bounded, LastRung, Launched
  <2> QED
    BY <2>1, <2>2
<1>4. CASE Released(s)
  <2>1. Bounded(s)'
    BY <1>0, <1>00, <1>4, Rungs DEF Bounded, LastRung, Released
  <2>2. LastRung(s)'
    BY <1>0, <1>00, <1>4, Rungs DEF Bounded, LastRung, Released
  <2> QED
    BY <2>1, <2>2
<1>5. CASE Picked(s)
  <2>1. Bounded(s)'
    BY <1>0, <1>00, <1>5, Rungs DEF Bounded, LastRung, Picked
  <2>2. LastRung(s)'
    BY <1>0, <1>00, <1>5, Rungs DEF Bounded, LastRung, Picked
  <2> QED
    BY <2>1, <2>2
<1>6. CASE Begun(s)
  <2>1. Bounded(s)'
    BY <1>0, <1>00, <1>6, Rungs DEF Bounded, LastRung, Begun
  <2>2. LastRung(s)'
    BY <1>0, <1>00, <1>6, Rungs DEF Bounded, LastRung, Begun
  <2> QED
    BY <2>1, <2>2
<1>7. CASE Received(s)
  <2>1. Bounded(s)'
    BY <1>0, <1>00, <1>7, Rungs DEF Bounded, LastRung, Received
  <2>2. LastRung(s)'
    BY <1>0, <1>00, <1>7, Rungs DEF Bounded, LastRung, Received
  <2> QED
    BY <2>1, <2>2
<1>8. CASE Judges(s)
  <2>1. Bounded(s)'
    BY <1>0, <1>00, <1>8, Rungs DEF Bounded, LastRung, Judges
  <2>2. LastRung(s)'
    BY <1>0, <1>00, <1>8, Rungs DEF Bounded, LastRung, Judges
  <2> QED
    BY <2>1, <2>2
<1>9. CASE Accepted(s)
  <2>1. Bounded(s)'
    BY <1>0, <1>00, <1>9, Rungs DEF Bounded, LastRung, Accepted
  <2>2. LastRung(s)'
    BY <1>0, <1>00, <1>9, Rungs DEF Bounded, LastRung, Accepted
  <2> QED
    BY <2>1, <2>2
<1>10. CASE Failed(s)
  <2>1. Bounded(s)'
    BY <1>0, <1>00, <1>10, Rungs DEF Bounded, LastRung, Failed
  <2>2. LastRung(s)'
    BY <1>0, <1>00, <1>10, Rungs DEF Bounded, LastRung, Failed
  <2> QED
    BY <2>1, <2>2
<1>11. CASE Elsewhere(s)
  <2>1. Bounded(s)'
    BY <1>0, <1>00, <1>11, Rungs DEF Bounded, LastRung, AtHome, Elsewhere
  <2>2. LastRung(s)'
    BY <1>0, <1>00, <1>11, Rungs DEF Bounded, LastRung, Elsewhere
  <2> QED
    BY <2>1, <2>2
<1> QED
  BY <1>1, <1>2, <1>3, <1>4, <1>5, <1>6, <1>7, <1>8, <1>9, <1>10, <1>11 DEF Life

\* Whatever happens to it, a subtask stays known.
LEMMA LifeGoesOn ==
    ASSUME IInv, IInv', NEW s \in Subs, Known(s), Life(s), outputs \subseteq outputs'
    PROVE  Known(s)'
<1>1. BookOf(s) /\ BookOf(s)'
  BY BookHas, BookHasNext
<1>2. Carried(s)' /\ Ordered(s)' /\ Somewhere(s)' /\ AtHome(s)'
  BY <1>1, LifeCarries, LifeOrders, LifeRemembers, LifeStaysHome DEF Known
<1>3. Bounded(s)' /\ LastRung(s)'
  BY <1>1, LifeClimbs DEF Known
<1> QED
  BY <1>2, <1>3 DEF Known

-----------------------------------------------------------------------------
(* What is known of the threads.                                           *)

\* While a team is placed, the threads of its subtasks have not started.
Spare(s) == (\E h \in Hands(s) : h.op = "team") => \A d \in Nat : FrameAt(s, d) = Idle

\* What waits for nothing any more is about to be released.
HasRelease == \E t \in Threads, d \in Nat : FrameAt(t, d).op = "release"
Freed(s)   == pending[s] # None /\ Deps[s] \subseteq outputs => HasRelease

\* An execution is at a station, or in the hands of a thread; and it has a timer, until one of
\* the timers has run out.
CarryOps == {"send", "executing", "receive"}
Carries(f, s) == f.op \in CarryOps /\ f.sub = s /\ f.number = attempt[s].number
Asked(s) ==
    attempt[s].phase = "active" =>
        \/ attempt[s].station \in Stations
        \/ \E t \in Threads, d \in Nat : Carries(FrameAt(t, d), s)
GivingUp == \E d \in Nat : FrameAt("loop", d).op = "giveup"
Timed(s) == attempt[s].phase = "active" => s \in timed \/ GivingUp

\* The loop ends with all outputs, and only once.
Late == {"summarise", "prepare", "deliver", "posting"}
Delivering ==
    /\ failure = None
    /\ FrameAt("loop", 0).op \in Late \/ delivery # "absent" \/ verdict = "completed"
           => Subs \subseteq outputs
    /\ verdict = "completed" => delivery = "acknowledged"
    /\ verdict # None => \A d \in Nat : FrameAt("loop", d) = Idle

Orderly ==
    /\ Roles /\ TeamFirst /\ Delivering
    /\ \A s \in Subs : Known(s) /\ Spare(s) /\ Freed(s) /\ Asked(s) /\ Timed(s)

LEMMA NotIdle == \A f \in Frames : f.op # "idle" /\ f # Idle
BY DEF Frames, Idle

\* Thread t takes a step at d, f on top of g.
Steps(t, d, f, g) ==
    /\ Put(t, d, f, g)
    /\ agenda[t] # <<>> /\ Cur(t) \in Frames
    /\ Fitting(t, d, g) /\ Fitting(t, d + 1, f)
    /\ f.op # "team" /\ (g.op = "team" => Cur(t).op = "team")

LEMMA OtherFramesStay ==
    ASSUME NEW t \in Threads, NEW d \in Nat, NEW f, NEW g, Put(t, d, f, g),
           NEW u \in Threads, NEW e \in Nat, FrameAt(u, e) # Idle, u # t \/ e # d
    PROVE  FrameAt(u, e)' = FrameAt(u, e)
<1>1. u # t \/ e < d \/ e = d \/ e > d
  OBVIOUS
<1> QED
  BY <1>1 DEF Put, Above

LEMMA FramesKept ==
    ASSUME Roles, TeamFirst, NEW t \in Threads, NEW d \in Nat, NEW f, NEW g, Steps(t, d, f, g)
    PROVE  Roles' /\ TeamFirst'
<1>1. /\ FrameAt(t, d) = Cur(t) /\ FrameAt(t, d)' = g /\ FrameAt(t, d + 1)' = f
      /\ \A e \in Nat : e > d + 1 => FrameAt(t, e)' = Idle
      /\ \A u \in Threads, e \in Nat : u # t \/ e < d => FrameAt(u, e)' = FrameAt(u, e)
      /\ Fitting(t, d, g) /\ Fitting(t, d + 1, f)
      /\ f.op # "team" /\ (g.op = "team" => Cur(t).op = "team")
  BY DEF Steps, Put, Above
<1>2. Roles'
  <2> SUFFICES ASSUME NEW u \in Threads, NEW e \in Nat
               PROVE  Fitting(u, e, FrameAt(u, e)')
    BY DEF Roles, Fitting
  <2>1. CASE u # t \/ e < d
    BY <1>1, <2>1 DEF Roles
  <2>2. CASE u = t /\ e = d
    BY <1>1, <2>2
  <2>3. CASE u = t /\ e = d + 1
    BY <1>1, <2>3
  <2>4. CASE u = t /\ e > d + 1
    BY <1>1, <2>4 DEF Fitting, Idle, LoopOps
  <2>5. e < d \/ e = d \/ e = d + 1 \/ e > d + 1
    OBVIOUS
  <2> QED
    BY <2>1, <2>2, <2>3, <2>4, <2>5
<1>3. TeamFirst'
  <2> SUFFICES ASSUME FrameAt("main", 2)'.op = "team" PROVE FrameAt("main", 1)'.op = "release"
    BY DEF TeamFirst
  <2>0. "main" \in Threads
    BY DEF Threads
  <2>1. CASE t # "main" \/ d > 2
    <3>1. FrameAt("main", 2)' = FrameAt("main", 2) /\ FrameAt("main", 1)' = FrameAt("main", 1)
      BY <1>1, <2>0, <2>1
    <3> QED
      BY <3>1 DEF TeamFirst
  <2>2. CASE t = "main" /\ d = 2
    <3>1. FrameAt("main", 2)' = g /\ FrameAt("main", 1)' = FrameAt("main", 1)
      BY <1>1, <2>0, <2>2
    <3> QED
      BY <1>1, <2>2, <3>1 DEF TeamFirst
  <2>3. CASE t = "main" /\ d < 2
    <3>1. d + 1 = 2 \/ 2 > d + 1
      BY <2>3
    <3>2. FrameAt("main", 2)' = f \/ FrameAt("main", 2)' = Idle
      BY <1>1, <2>3, <3>1
    <3> QED
      BY <1>1, <3>2 DEF Idle
  <2>4. d > 2 \/ d = 2 \/ d < 2
    OBVIOUS
  <2> QED
    BY <2>1, <2>2, <2>3, <2>4
<1> QED
  BY <1>2, <1>3

LEMMA SpareKept ==
    ASSUME NEW s \in Subs, Carried(s), Spare(s), Life(s),
           NEW t \in Threads, NEW d \in Nat, NEW f, NEW g, Steps(t, d, f, g)
    PROVE  Spare(s)'
<1> SUFFICES ASSUME NEW h \in Hands(s)', h.op = "team", NEW e \in Nat
             PROVE  FrameAt(s, e)' = Idle
  BY DEF Spare, Idle
<1>1. Rests(s)
  BY DEF Life, Queued, Launched, Released, Picked, Begun, Received, Judges, Accepted, Failed,
         Elsewhere, Free, HeldNext
<1>2. \A i \in Nat : FrameAt(s, i) = Idle
  BY <1>1 DEF Rests, Spare
<1>3. s # t
  BY <1>2, NotIdle DEF Steps, Put, Above
<1>4. s \in Threads
  BY DEF Threads
<1> QED
  BY <1>2, <1>3, <1>4 DEF Steps, Put, Above

LEMMA ReleaseStays ==
    ASSUME NEW t \in Threads, NEW d \in Nat, NEW f, NEW g, Steps(t, d, f, g),
           Cur(t).op # "release", HasRelease
    PROVE  HasRelease'
<1>1. PICK u \in Threads, e \in Nat : FrameAt(u, e).op = "release"
  BY DEF HasRelease
<1>2. FrameAt(u, e) # Idle /\ (u # t \/ e # d)
  BY <1>1 DEF Idle, Steps, Put, Above
<1>3. FrameAt(u, e)' = FrameAt(u, e)
  BY <1>2, OtherFramesStay DEF Steps
<1> QED
  BY <1>1, <1>3 DEF HasRelease

LEMMA FreedKept ==
    ASSUME NEW s \in Subs, Freed(s), NEW t \in Threads, NEW d \in Nat, NEW f, NEW g, Steps(t, d, f, g),
           Cur(t).op # "release", pending'[s] = pending[s], outputs' = outputs
    PROVE  Freed(s)'
BY ReleaseStays DEF Freed

LEMMA AskedKept ==
    ASSUME NEW s \in Subs, Asked(s), NEW t \in Threads, NEW d \in Nat, NEW f, NEW g, Steps(t, d, f, g),
           attempt'[s] = attempt[s] \/ attempt'[s].phase # "active",
           ~Carries(Cur(t), s)
    PROVE  Asked(s)'
<1> SUFFICES ASSUME attempt'[s] = attempt[s], attempt[s].phase = "active", attempt[s].station \notin Stations
             PROVE  \E u \in Threads, e \in Nat : Carries(FrameAt(u, e), s)'
  BY DEF Asked
<1>1. PICK u \in Threads, e \in Nat : Carries(FrameAt(u, e), s)
  BY DEF Asked
<1>2. FrameAt(u, e) # Idle /\ (u # t \/ e # d)
  BY <1>1 DEF Carries, CarryOps, Idle, Steps, Put, Above
<1>3. FrameAt(u, e)' = FrameAt(u, e)
  BY <1>2, OtherFramesStay DEF Steps
<1> QED
  BY <1>1, <1>3 DEF Carries

LEMMA TimedKept ==
    ASSUME NEW s \in Subs, Timed(s), NEW t \in Threads, NEW d \in Nat, NEW f, NEW g, Steps(t, d, f, g),
           attempt'[s] = attempt[s] \/ attempt'[s].phase # "active",
           s \in timed => s \in timed', Cur(t).op # "giveup"
    PROVE  Timed(s)'
<1> SUFFICES ASSUME GivingUp PROVE GivingUp'
  BY DEF Timed
<1>0. "loop" \in Threads
  BY DEF Threads
<1>1. PICK e \in Nat : FrameAt("loop", e).op = "giveup"
  BY DEF GivingUp
<1>2. FrameAt("loop", e) # Idle /\ ("loop" # t \/ e # d)
  BY <1>1 DEF Idle, Steps, Put, Above
<1>3. FrameAt("loop", e)' = FrameAt("loop", e)
  BY <1>0, <1>2, OtherFramesStay DEF Steps
<1> QED
  BY <1>1, <1>3 DEF GivingUp

LEMMA DeliveringKept ==
    ASSUME Delivering, NEW t \in Threads, NEW d \in Nat, NEW f, NEW g, Steps(t, d, f, g),
           outputs \subseteq outputs', UNCHANGED <<failure, delivery, verdict>>,
           t = "loop" => g.op \notin Late
    PROVE  Delivering'
<1>0. "loop" \in Threads /\ 0 \in Nat /\ d + 1 # 0 /\ d + 1 \in Nat
  BY DEF Threads
<1>1. /\ FrameAt(t, d) = Cur(t) /\ FrameAt(t, d)' = g
      /\ \A u \in Threads, e \in Nat : u # t \/ e < d => FrameAt(u, e)' = FrameAt(u, e)
      /\ Cur(t) \in Frames
  BY DEF Steps, Put, Above
<1>2. FrameAt("loop", 0)'.op \in Late => FrameAt("loop", 0).op \in Late
  <2>1. CASE t # "loop" \/ 0 < d
    BY <1>0, <1>1, <2>1
  <2>2. CASE t = "loop" /\ d = 0
    BY <1>1, <2>2
  <2> QED
    BY <2>1, <2>2
<1>3. verdict # None => \A e \in Nat : FrameAt("loop", e)' = Idle
  <2> SUFFICES ASSUME verdict # None, NEW e \in Nat PROVE FrameAt("loop", e)' = Idle
    OBVIOUS
  <2>1. \A i \in Nat : FrameAt("loop", i) = Idle
    BY DEF Delivering
  <2>2. t # "loop"
    BY <1>1, <2>1, NotIdle
  <2> QED
    BY <1>0, <1>1, <2>1, <2>2
<1>4. /\ failure' = None
      /\ FrameAt("loop", 0)'.op \in Late \/ delivery' # "absent" \/ verdict' = "completed"
           => Subs \subseteq outputs'
      /\ verdict' = "completed" => delivery' = "acknowledged"
  BY <1>2 DEF Delivering
<1> QED
  BY <1>3, <1>4 DEF Delivering, Idle

-----------------------------------------------------------------------------
(* The steps of the first round, one by one.                               *)

LEMMA PlainFits ==
    /\ \A t, d, f : f.op \notin LoopOps \cup {"team", "ready", "giveup", "create", "resume", "reports"}
                        => Fitting(t, d, f)
    /\ \A t, d : Fitting(t, d, Idle)
BY DEF Fitting, Idle, LoopOps

\* The frame that thread t is at fits, so what it goes on with need fit only after it.
Suits(t, f) == \A d \in Nat : Fitting(t, d, Cur(t)) => Fitting(t, d, f)

LEMMA StepsReturn ==
    ASSUME IInv, Roles, NEW t \in Threads, agenda[t] # <<>>, Return(t)
    PROVE  \E d \in Nat : Steps(t, d, Idle, Idle)
<1>1. PICK d \in Nat : Put(t, d, Idle, Idle)
  BY Standing, Put0
<1>2. Cur(t) \in Frames
  BY Standing, Spots
<1>3. Idle.op # "team"
  BY DEF Idle
<1> QED
  BY <1>1, <1>2, <1>3, PlainFits DEF Steps

LEMMA StepsOne ==
    ASSUME IInv, Roles, NEW t \in Threads, agenda[t] # <<>>, NEW f \in Frames, Then(t, <<f>>),
           Suits(t, f), f.op = "team" => Cur(t).op = "team"
    PROVE  \E d \in Nat : Steps(t, d, Idle, f)
<1>1. PICK d \in Nat : Put(t, d, Idle, f)
  BY Standing, Put1
<1>2. Cur(t) \in Frames
  BY Standing, Spots
<1>3. Idle.op # "team"
  BY DEF Idle
<1>4. Fitting(t, d, f)
  BY <1>1 DEF Roles, Suits, Put, Above
<1> QED
  BY <1>1, <1>2, <1>3, <1>4, PlainFits DEF Steps

LEMMA StepsTwo ==
    ASSUME IInv, Roles, NEW t \in Threads, agenda[t] # <<>>, NEW f \in Frames, NEW g \in Frames,
           Then(t, <<f, g>>), Suits(t, g), \A d \in Nat : Fitting(t, d, f),
           f.op # "team", g.op # "team"
    PROVE  \E d \in Nat : Steps(t, d, f, g)
<1>1. PICK d \in Nat : Put(t, d, f, g)
  BY Standing, Put2
<1>2. Cur(t) \in Frames
  BY Standing, Spots
<1>3. d + 1 \in Nat
  OBVIOUS
<1>4. Fitting(t, d, g) /\ Fitting(t, d + 1, f)
  BY <1>1, <1>3 DEF Roles, Suits, Put, Above
<1> QED
  BY <1>1, <1>2, <1>4 DEF Steps

\* All subtasks go on with their lives, the threads with theirs.
Lives == \A s \in Subs : Life(s)

LEMMA OutputsGrow ==
    ASSUME IInv, IInv', Lives
    PROVE  outputs \subseteq outputs'
<1>1. outputs \subseteq Subs
  BY Standing DEF BookTypes
<1>2. \A s \in Subs : Life(s) => (s \in outputs => s \in outputs')
  BY DEF Life, Rests, Queued, Launched, Released, Picked, Begun, Received, Judges, Accepted, Failed,
         Elsewhere, WorkSame
<1> QED
  BY <1>1, <1>2 DEF Lives

LEMMA OrderlyKept ==
    ASSUME IInv, IInv', Orderly, NEW t \in Threads, NEW d \in Nat, NEW f, NEW g, Steps(t, d, f, g),
           Lives, Delivering', \A s \in Subs : (Freed(s) /\ Asked(s) /\ Timed(s))'
    PROVE  Orderly'
<1>1. Roles' /\ TeamFirst'
  BY FramesKept DEF Orderly
<1>2. outputs \subseteq outputs'
  BY OutputsGrow
<1>3. ASSUME NEW s \in Subs PROVE Known(s)' /\ Spare(s)'
  <2>1. Known(s) /\ Carried(s) /\ Spare(s) /\ Life(s)
    BY DEF Orderly, Known, Lives
  <2> QED
    BY <1>2, <2>1, LifeGoesOn, SpareKept
<1> QED
  BY <1>1, <1>3 DEF Orderly

\* Nothing changes in the books but timers that are set.
BooksStand == UNCHANGED <<outputs, pending, attempt, home, retries, crossed, takeover, localTried>>
BooksRest  == BooksStand /\ timed \subseteq timed'
OutsideRests == UNCHANGED <<failure, delivery, verdict>>
HandsRestAll(t, f, g) ==
    \A s \in Subs :
        /\ Unheld(f, s)
        /\ \A o \in HandOps, w \in Places \cup {None} : Holds(g, s, o, w) <=> Holds(Cur(t), s, o, w)

LEMMA RestsAll ==
    ASSUME NEW t \in Threads, NEW d \in Nat, NEW f, NEW g, Steps(t, d, f, g), HandsRestAll(t, f, g), BooksStand
    PROVE  Lives
<1> SUFFICES ASSUME NEW s \in Subs PROVE Rests(s)
  BY DEF Lives, Life
<1>1. Hands(s)' = Hands(s)
  BY HandsRest DEF HandsRestAll, Steps
<1> QED
  BY <1>1 DEF Rests, BooksStand, PlanSame, TriesSame, WorkSame

LEMMA RestsOrderly ==
    ASSUME IInv, IInv', Orderly, NEW t \in Threads, NEW d \in Nat, NEW f, NEW g, Steps(t, d, f, g),
           HandsRestAll(t, f, g), BooksRest, Delivering', \A s \in Subs : Asked(s)',
           Cur(t).op \notin {"release", "giveup"}
    PROVE  Orderly'
<1>1. Lives
  BY RestsAll DEF BooksRest
<1>2. ASSUME NEW s \in Subs PROVE Freed(s)' /\ Timed(s)'
  BY FreedKept, TimedKept DEF Orderly, BooksRest, BooksStand
<1> QED
  BY <1>1, <1>2, OrderlyKept

LEMMA QuietOrderly ==
    ASSUME IInv, IInv', Orderly, NEW t \in Threads, NEW d \in Nat, NEW f, NEW g, Steps(t, d, f, g),
           HandsRestAll(t, f, g), BooksRest, OutsideRests, t = "loop" => g.op \notin Late,
           Cur(t).op \notin {"release", "giveup"} \cup CarryOps
    PROVE  Orderly'
<1>1. Delivering'
  BY DeliveringKept DEF Orderly, BooksRest, BooksStand, OutsideRests
<1>2. ASSUME NEW s \in Subs PROVE Asked(s)'
  BY AskedKept DEF Orderly, BooksRest, BooksStand, Carries
<1> QED
  BY <1>1, <1>2, RestsOrderly

\* Frames that have nothing in hand.
HandFrames == {"team", "items", "begin", "elsewhere", "verify", "accept", "failed", "giveup"}
Handless(f) == f.op \notin HandFrames \/ (f.op = "giveup" /\ f.cause \notin {"unknown", "exhausted"})

LEMMA NothingInHand ==
    ASSUME NEW t, NEW f, NEW g, Handless(f), Handless(g), Handless(Cur(t))
    PROVE  HandsRestAll(t, f, g)
BY Empty DEF HandsRestAll, Unheld, Handless, HandFrames

LEMMA IdleHandless == Handless(Idle) /\ Idle.op = "idle"
BY DEF Handless, HandFrames, Idle

LEMMA TeamCompleteOrderly ==
    ASSUME IInv, IInv', Orderly, NEW t \in Threads, TeamComplete(t)
    PROVE  Orderly'
<1>1. agenda[t] # <<>> /\ Now(t) = Cur(t) /\ Cur(t).op = "team" /\ Return(t) /\ Cur(t).todo = {}
  BY Standing, AtFrame DEF TeamComplete
<1>2. PICK d \in Nat : Steps(t, d, Idle, Idle)
  BY <1>1, StepsReturn DEF Orderly
<1>3. HandsRestAll(t, Idle, Idle)
  BY <1>1, Empty DEF HandsRestAll, Unheld, Holds
<1>4. BooksRest /\ OutsideRests
  BY DEF TeamComplete, BooksRest, BooksStand, OutsideRests, books, ending
<1>5. Cur(t).op \notin {"release", "giveup"} \cup CarryOps /\ Idle.op \notin Late
  BY <1>1 DEF CarryOps, Idle, Late
<1> QED
  BY <1>2, <1>3, <1>4, <1>5, QuietOrderly

LEMMA SetReadyOrderly ==
    ASSUME IInv, IInv', Orderly, NEW t \in Threads, SetReady(t)
    PROVE  Orderly'
<1>1. agenda[t] # <<>> /\ Cur(t).op = "ready" /\ Return(t)
  BY Standing, AtFrame DEF SetReady
<1>2. PICK d \in Nat : Steps(t, d, Idle, Idle)
  BY <1>1, StepsReturn DEF Orderly
<1>3. HandsRestAll(t, Idle, Idle)
  BY <1>1, IdleHandless, NothingInHand DEF Handless, HandFrames
<1>4. BooksRest /\ OutsideRests
  BY DEF SetReady, BooksRest, BooksStand, OutsideRests, books
<1>5. Cur(t).op \notin {"release", "giveup"} \cup CarryOps /\ Idle.op \notin Late
  BY <1>1 DEF CarryOps, Idle, Late
<1> QED
  BY <1>2, <1>3, <1>4, <1>5, QuietOrderly

LEMMA AwaitNothingOrderly ==
    ASSUME IInv, IInv', Orderly, NEW t \in Threads, AwaitNothing(t)
    PROVE  Orderly'
<1>1. agenda[t] # <<>> /\ Cur(t).op = "await" /\ Return(t)
  BY Standing, AtFrame DEF AwaitNothing
<1>2. PICK d \in Nat : Steps(t, d, Idle, Idle)
  BY <1>1, StepsReturn DEF Orderly
<1>3. HandsRestAll(t, Idle, Idle)
  BY <1>1, IdleHandless, NothingInHand DEF Handless, HandFrames
<1>4. BooksRest /\ OutsideRests
  BY DEF AwaitNothing, BooksRest, BooksStand, OutsideRests, books, ending
<1>5. Cur(t).op \notin {"release", "giveup"} \cup CarryOps /\ Idle.op \notin Late
  BY <1>1 DEF CarryOps, Idle, Late
<1> QED
  BY <1>2, <1>3, <1>4, <1>5, QuietOrderly

LEMMA ReceiveFrame ==
    ASSUME NEW s \in Subs, NEW n \in Nat, NEW a \in Terminal
    PROVE  \E g \in Frames : /\ g = [op |-> "receive", sub |-> s, number |-> n, status |-> a]
                             /\ g.op = "receive"
<1>1. Local \in Places
  BY DEF Places
<1>2. [op |-> "receive", sub |-> s, number |-> n, status |-> a] \in Frames
  BY <1>1, WorkFrames
<1> QED
  BY <1>2

LEMMA AwaitReceiptOrderly ==
    ASSUME IInv, IInv', Orderly, NEW t \in Threads, AwaitReceipt(t)
    PROVE  Orderly'
<1>1. agenda[t] # <<>> /\ Now(t) = Cur(t) /\ Cur(t).op = "await" /\ Cur(t) \in Frames
  BY Standing, AtFrame DEF AwaitReceipt
<1>2. PICK a \in Terminal :
         Then(t, <<[op |-> "receive", sub |-> Cur(t).sub, number |-> Cur(t).number, status |-> a]>>)
  BY <1>1 DEF AwaitReceipt, Answers
<1>3. PICK g \in Frames : /\ g = [op |-> "receive", sub |-> Cur(t).sub, number |-> Cur(t).number, status |-> a]
                          /\ g.op = "receive"
  <2>1. Cur(t).sub \in Subs /\ Cur(t).number \in Nat
    BY <1>1, FrameFields
  <2> QED
    BY <2>1, ReceiveFrame
<1>4. PICK d \in Nat : Steps(t, d, Idle, g)
  <2>1. Then(t, <<g>>) /\ Suits(t, g) /\ g.op # "team"
    BY <1>2, <1>3, PlainFits DEF Suits, LoopOps
  <2> QED
    BY <1>1, <2>1, StepsOne DEF Orderly
<1>5. HandsRestAll(t, Idle, g)
  BY <1>1, <1>3, IdleHandless, NothingInHand DEF Handless, HandFrames
<1>6. BooksRest /\ OutsideRests
  BY DEF AwaitReceipt, BooksRest, BooksStand, OutsideRests, books, ending
<1>7. Cur(t).op \notin {"release", "giveup"} \cup CarryOps /\ g.op \notin Late
  BY <1>1, <1>3 DEF CarryOps, Late
<1> QED
  BY <1>4, <1>5, <1>6, <1>7, QuietOrderly

LEMMA GlobalTimeoutOrderly ==
    ASSUME IInv, IInv', Orderly, NEW t \in Threads, GlobalTimeout(t)
    PROVE  Orderly'
<1>1. agenda[t] # <<>> /\ Cur(t).op = "loop" /\ Cur(t) \in Frames
  BY Standing, AtFrame DEF GlobalTimeout
<1>2. PICK g \in Frames : /\ g = [op |-> "giveup", sub |-> "global", cause |-> "timeout"]
                          /\ g.op = "giveup" /\ g.cause = "timeout"
  <2>1. [op |-> "giveup", sub |-> "global", cause |-> "timeout"] \in Frames
    BY GiveUpFrames
  <2> QED
    BY <2>1
<1>3. PICK d \in Nat : Steps(t, d, Idle, g)
  <2>1. Then(t, <<g>>) /\ Suits(t, g) /\ g.op # "team"
    BY <1>1, <1>2 DEF GlobalTimeout, Suits, Fitting, LoopOps
  <2> QED
    BY <1>1, <2>1, StepsOne DEF Orderly
<1>4. HandsRestAll(t, Idle, g)
  BY <1>1, <1>2, IdleHandless, NothingInHand DEF Handless, HandFrames
<1>5. BooksRest /\ OutsideRests
  BY DEF GlobalTimeout, BooksRest, BooksStand, OutsideRests, books, ending
<1>6. Cur(t).op \notin {"release", "giveup"} \cup CarryOps /\ g.op \notin Late
  BY <1>1, <1>2 DEF CarryOps, Late
<1> QED
  BY <1>3, <1>4, <1>5, <1>6, QuietOrderly

LEMMA CountOrderly ==
    ASSUME IInv, IInv', Orderly, NEW t \in Threads, Count(t)
    PROVE  Orderly'
<1>1. agenda[t] # <<>> /\ Cur(t).op = "count" /\ Cur(t) \in Frames
  BY Standing, AtFrame DEF Count
<1>2. PICK g \in Frames : g.op \in {"aggregate", "loop"} /\ Then(t, <<g>>)
  <2>1. [op |-> IF Complete THEN "aggregate" ELSE "loop"] \in Frames
    BY PlainFrames
  <2> QED
    BY <2>1 DEF Count
<1>3. PICK d \in Nat : Steps(t, d, Idle, g)
  <2>1. Suits(t, g) /\ g.op # "team"
    BY <1>1, <1>2 DEF Suits, Fitting, LoopOps
  <2> QED
    BY <1>1, <1>2, <2>1, StepsOne DEF Orderly
<1>4. HandsRestAll(t, Idle, g)
  BY <1>1, <1>2, IdleHandless, NothingInHand DEF Handless, HandFrames
<1>5. BooksRest /\ OutsideRests
  BY DEF Count, BooksRest, BooksStand, OutsideRests, books, ending
<1>6. Cur(t).op \notin {"release", "giveup"} \cup CarryOps /\ g.op \notin Late
  BY <1>1, <1>2 DEF CarryOps, Late
<1> QED
  BY <1>3, <1>4, <1>5, <1>6, QuietOrderly

LEMMA PollOrderly ==
    ASSUME IInv, IInv', Orderly, NEW t \in Threads, Poll(t)
    PROVE  Orderly'
<1>1. agenda[t] # <<>> /\ Now(t) = Cur(t) /\ Cur(t).op = "poll" /\ Cur(t) \in Frames /\ Cur(t).todo \in SUBSET Requests
  <2>1. agenda[t] # <<>> /\ Now(t) = Cur(t) /\ Cur(t).op = "poll" /\ Cur(t) \in Frames
    BY Standing, AtFrame DEF Poll
  <2> QED
    BY <2>1, FrameFields
<1>2. BooksRest /\ OutsideRests
  BY DEF Poll, BooksRest, BooksStand, OutsideRests, books, ending
<1>3. Cur(t).op \notin {"release", "giveup"} \cup CarryOps
  BY <1>1 DEF CarryOps
<1>4. CASE Return(t)
  <2>1. PICK d \in Nat : Steps(t, d, Idle, Idle)
    BY <1>1, <1>4, StepsReturn DEF Orderly
  <2>2. HandsRestAll(t, Idle, Idle) /\ Idle.op \notin Late
    BY <1>1, IdleHandless, NothingInHand DEF Handless, HandFrames, Late
  <2> QED
    BY <1>2, <1>3, <2>1, <2>2, QuietOrderly
<1>5. ASSUME NEW q \in Cur(t).todo
      PROVE  \E g \in Frames : g.op = "poll" /\ g = [Cur(t) EXCEPT !.todo = @ \ {q}]
  <2>1. Cur(t).todo \ {q} \in SUBSET Requests
    BY <1>1
  <2>2. [Cur(t) EXCEPT !.todo = @ \ {q}] = [op |-> "poll", todo |-> Cur(t).todo \ {q}]
    <3>1. Cur(t) \in Frames /\ Cur(t).op = "poll"
      BY <1>1
    <3>2. Cur(t).op \in {"team", "items", "reports", "poll"}
      BY <3>1
    <3> QED
      BY <3>1, <3>2, Remaining
  <2>3. [op |-> "poll", todo |-> Cur(t).todo \ {q}] \in Frames
    BY <2>1, TodoFrames
  <2> QED
    BY <2>2, <2>3
<1>6. ASSUME NEW q \in Cur(t).todo, Then(t, <<[Cur(t) EXCEPT !.todo = @ \ {q}]>>)
      PROVE  Orderly'
  <2>1. PICK g \in Frames : g.op = "poll" /\ g = [Cur(t) EXCEPT !.todo = @ \ {q}]
    BY <1>5, <1>6
  <2>2. PICK d \in Nat : Steps(t, d, Idle, g)
    <3>1. Then(t, <<g>>) /\ Suits(t, g) /\ g.op # "team"
      BY <1>1, <1>6, <2>1 DEF Suits, Fitting, LoopOps
    <3> QED
      BY <1>1, <3>1, StepsOne DEF Orderly
  <2>3. HandsRestAll(t, Idle, g) /\ g.op \notin Late
    BY <1>1, <2>1, IdleHandless, NothingInHand DEF Handless, HandFrames, Late
  <2> QED
    BY <1>2, <1>3, <2>2, <2>3, QuietOrderly
<1>7. ASSUME NEW q \in Cur(t).todo, NEW a \in Terminal,
             Then(t, <<[op |-> "receive", sub |-> q.sub, number |-> q.number, status |-> a],
                       [Cur(t) EXCEPT !.todo = @ \ {q}]>>)
      PROVE  Orderly'
  <2>1. PICK g \in Frames : g.op = "poll" /\ g = [Cur(t) EXCEPT !.todo = @ \ {q}]
    BY <1>5, <1>7
  <2>2. PICK f \in Frames : /\ f = [op |-> "receive", sub |-> q.sub, number |-> q.number, status |-> a]
                            /\ f.op = "receive"
    <3>1. q.sub \in Subs /\ q.number \in Nat
      BY <1>1 DEF Requests
    <3> QED
      BY <3>1, ReceiveFrame
  <2>3. PICK d \in Nat : Steps(t, d, f, g)
    <3>1. Then(t, <<f, g>>) /\ Suits(t, g) /\ g.op # "team" /\ f.op # "team"
      BY <1>1, <1>7, <2>1, <2>2 DEF Suits, Fitting, LoopOps
    <3>2. \A d \in Nat : Fitting(t, d, f)
      BY <2>2, PlainFits DEF LoopOps
    <3> QED
      BY <1>1, <3>1, <3>2, StepsTwo DEF Orderly
  <2>4. HandsRestAll(t, f, g) /\ g.op \notin Late
    BY <1>1, <2>1, <2>2, NothingInHand DEF Handless, HandFrames, Late
  <2> QED
    BY <1>2, <1>3, <2>3, <2>4, QuietOrderly
<1> QED
  BY <1>1, <1>4, <1>6, <1>7 DEF Poll, Answers

\* A step that concerns one subtask.
Mine(f, s) == Handless(f) \/ (f.op \in {"begin", "elsewhere", "verify", "accept", "failed", "giveup"} /\ f.sub = s)
BooksApart(s) == \A x \in Subs \ {s} : PlanSame(x) /\ TriesSame(x) /\ WorkSame(x)

LEMMA NotMine ==
    ASSUME NEW f, NEW s, NEW x, Mine(f, s), x # s
    PROVE  Unheld(f, x)
BY Empty, OthersUnheld DEF Mine, Handless, HandFrames

LEMMA OneLives ==
    ASSUME NEW t \in Threads, NEW d \in Nat, NEW f, NEW g, Steps(t, d, f, g), NEW s \in Subs,
           Mine(f, s), Mine(g, s), Mine(Cur(t), s), BooksApart(s), Life(s)
    PROVE  Lives
<1> SUFFICES ASSUME NEW x \in Subs, x # s PROVE Rests(x)
  BY DEF Lives, Life
<1>1. Unheld(f, x) /\ Unheld(g, x) /\ Unheld(Cur(t), x)
  BY NotMine
<1>2. Hands(x)' = Hands(x)
  BY <1>1, HandsRest DEF Unheld, Steps
<1> QED
  BY <1>2 DEF Rests, BooksApart

LEMMA MineIdle == \A s : Mine(Idle, s)
BY IdleHandless DEF Mine

\* The frames that have one subtask in hand.
LEMMA SoleFrames ==
    ASSUME NEW f \in Frames, NEW s, s \in Subs
    PROVE  /\ f.op \in {"begin", "elsewhere"} /\ f.sub = s => Sole(f, s, f.op, f.station)
           /\ f.op \in {"verify", "accept", "failed"} /\ f.sub = s => Sole(f, s, f.op, None)
           /\ f.op = "giveup" /\ f.cause \in {"unknown", "exhausted"} /\ f.sub = s => Sole(f, s, f.cause, None)
<1>1. ASSUME f.op \in {"begin", "elsewhere"}, f.sub = s
      PROVE  Sole(f, s, f.op, f.station)
  <2>1. f.station \in Places
    BY <1>1, FrameFields
  <2> QED
    BY <1>1, <2>1 DEF Sole, Holds, HandOps
<1>2. ASSUME f.op \in {"verify", "accept", "failed"}, f.sub = s
      PROVE  Sole(f, s, f.op, None)
  BY <1>2 DEF Sole, Holds, HandOps
<1>3. ASSUME f.op = "giveup", f.cause \in {"unknown", "exhausted"}, f.sub = s
      PROVE  Sole(f, s, f.cause, None)
  BY <1>3 DEF Sole, Holds, HandOps
<1> QED
  BY <1>1, <1>2, <1>3

LEMMA SoleHolds == ASSUME NEW f, NEW s, NEW o, NEW w, Sole(f, s, o, w) PROVE Holds(f, s, o, w)
BY DEF Sole

\* What a held subtask is like.
LEMMA HeldBooks ==
    ASSUME NEW s \in Subs, Known(s), NEW o, NEW w, Held(s, o, w)
    PROVE  /\ s \notin outputs /\ pending[s] = None /\ attempt[s].phase \in PhasesOf(o)
           /\ attempt[s].phase = "none" => attempt[s] = NoAttempt
BY DEF Held, Known, Carried

LEMMA PlainUnheld == \A f : Handless(f) => \A s : Unheld(f, s)
BY Empty DEF Handless, HandFrames

\* What a thread has in hand, seen before its step.
LEMMA CurHolds ==
    ASSUME IInv, Orderly, NEW t \in Threads, agenda[t] # <<>>, NEW s \in Subs, NEW o, NEW w,
           Sole(Cur(t), s, o, w)
    PROVE  /\ Held(s, o, w) /\ Known(s)
           /\ s \notin outputs /\ pending[s] = None /\ attempt[s].phase \in PhasesOf(o)
           /\ \A d \in Nat : \A f, g : Put(t, d, f, g) => Only(s, t, d)
<1>1. OneHand(s) /\ Known(s)
  BY DEF Orderly, Known, Carried
<1>2. Len(agenda[t]) - 1 \in Nat /\ FrameAt(t, Len(agenda[t]) - 1) = Cur(t)
  BY Standing, Spots
<1>3. PICK h \in HandSet : h.thread = t /\ h.place = Len(agenda[t]) - 1 /\ h.op = o /\ h.station = w
  BY <1>2, HandMade DEF Sole
<1>4. Holds(Cur(t), s, o, w)
  BY SoleHolds
<1>5. Hands(s) = {h}
  BY <1>1, <1>2, <1>3, <1>4 DEF OneHand, Hands
<1>6. Held(s, o, w)
  BY <1>3, <1>5 DEF Held
<1>7. s \notin outputs /\ pending[s] = None /\ attempt[s].phase \in PhasesOf(o)
  BY <1>1, <1>6, HeldBooks
<1>8. ASSUME NEW d \in Nat, NEW f, NEW g, Put(t, d, f, g)
      PROVE  Only(s, t, d)
  BY <1>3, <1>5, <1>8 DEF Only, Put, Above
<1> QED
  BY <1>1, <1>6, <1>7, <1>8

LEMMA BeginOrderly ==
    ASSUME IInv, IInv', Orderly, NEW t \in Threads, Begin(t)
    PROVE  Orderly'
<1>1. agenda[t] # <<>> /\ Now(t) = Cur(t) /\ Cur(t).op = "begin" /\ Cur(t) \in Frames
  BY Standing, AtFrame DEF Begin
<1>2. PICK s \in Subs, w \in Places : s = Cur(t).sub /\ w = Cur(t).station
  BY <1>1, FrameFields
<1>3. Sole(Cur(t), s, "begin", w)
  BY <1>1, <1>2, SoleFrames
<1>4. /\ Held(s, "begin", w) /\ s \notin outputs /\ attempt[s].phase \in PhasesOf("begin")
      /\ \A d \in Nat : \A f, g : Put(t, d, f, g) => Only(s, t, d)
  BY <1>1, <1>3, CurHolds
<1>5. ~Underway(s)
  BY <1>4 DEF Underway, PhasesOf
<1>6. PICK n \in Nat : n = attempt[s].number + 1
  <2>1. attempt[s].number \in Nat
    BY BookHas DEF BookOf
  <2> QED
    BY <2>1
<1>7. /\ attempt' = [attempt EXCEPT ![s] = [number |-> n, station |-> w, phase |-> "active", received |-> None]]
      /\ timed' = timed \cup {s}
      /\ localTried' = IF w = Local THEN localTried \cup {s} ELSE localTried
      /\ Then(t, <<[op |-> "send", sub |-> s, number |-> n, station |-> w]>>)
      /\ UNCHANGED <<outputs, pending, home, retries, crossed, takeover, failure, delivery, verdict>>
  BY <1>1, <1>2, <1>4, <1>5, <1>6 DEF Begin, ending
<1>8. /\ attempt'[s] = [number |-> n, station |-> w, phase |-> "active", received |-> None]
      /\ \A x \in Subs \ {s} : attempt'[x] = attempt[x]
  BY <1>7, Standing DEF BookTypes
<1>9. PICK g \in Frames : /\ g = [op |-> "send", sub |-> s, number |-> n, station |-> w]
                          /\ g.op = "send" /\ g.sub = s /\ g.number = n
  <2>1. [op |-> "send", sub |-> s, number |-> n, station |-> w] \in Frames
    BY WorkFrames DEF Terminal
  <2> QED
    BY <2>1
<1>10. PICK d \in Nat : Steps(t, d, Idle, g)
  <2>1. Then(t, <<g>>) /\ Suits(t, g) /\ g.op # "team"
    BY <1>7, <1>9, PlainFits DEF Suits, LoopOps
  <2> QED
    BY <1>1, <2>1, StepsOne DEF Orderly
<1>11. Handless(g) /\ Handless(Idle)
  BY <1>9, IdleHandless DEF Handless, HandFrames
<1>12. Free(s)'
  BY <1>4, <1>10, <1>11, PlainUnheld, HandGone DEF Steps
<1>13. Lives
  <2>1. Life(s)
    BY <1>4, <1>6, <1>7, <1>8, <1>12 DEF Life, Begun, PlanSame, TriesSame
  <2>2. BooksApart(s)
    BY <1>7, <1>8 DEF BooksApart, PlanSame, TriesSame, WorkSame
  <2>3. Mine(Idle, s) /\ Mine(g, s) /\ Mine(Cur(t), s)
    BY <1>1, <1>2, <1>11 DEF Mine
  <2> QED
    BY <1>10, <2>1, <2>2, <2>3, OneLives
<1>14. Delivering'
  BY <1>7, <1>9, <1>10, DeliveringKept DEF Orderly, Late
<1>15. Cur(t).op \notin {"release", "giveup"} \cup CarryOps
  BY <1>1 DEF CarryOps
<1>16. ASSUME NEW x \in Subs PROVE (Freed(x) /\ Asked(x) /\ Timed(x))'
  <2>1. Freed(x)'
    BY <1>7, <1>10, <1>15, FreedKept DEF Orderly
  <2>2. CASE x # s
    <3>1. Asked(x)'
      BY <1>8, <1>10, <1>15, <2>2, AskedKept DEF Orderly, Carries
    <3>2. Timed(x)'
      BY <1>7, <1>8, <1>10, <1>15, <2>2, TimedKept DEF Orderly
    <3> QED
      BY <2>1, <3>1, <3>2
  <2>3. CASE x = s
    <3>1. FrameAt(t, d)' = g
      BY <1>10 DEF Steps, Put
    <3>2. attempt'[s].number = n
      BY <1>8
    <3>3. Carries(FrameAt(t, d), s)'
      BY <1>9, <3>1, <3>2 DEF Carries, CarryOps
    <3>4. Asked(s)'
      BY <3>3 DEF Asked
    <3>5. Timed(s)'
      BY <1>7 DEF Timed
    <3> QED
      BY <2>1, <2>3, <3>4, <3>5
  <2> QED
    BY <2>2, <2>3
<1> QED
  BY <1>10, <1>13, <1>14, <1>16, OrderlyKept

\* An execution stays in hand, or is at its station.
LEMMA AskedOn ==
    ASSUME IInv, Orderly, NEW t \in Threads, NEW d \in Nat, NEW g, Steps(t, d, Idle, g), attempt' = attempt,
           NEW s \in Subs, Carries(Cur(t), s) => attempt[s].station \in Stations \/ Carries(g, s)
    PROVE  Asked(s)'
<1>1. CASE ~Carries(Cur(t), s)
  BY <1>1, AskedKept DEF Orderly
<1>2. CASE attempt[s].station \in Stations
  BY <1>2 DEF Asked
<1>3. CASE Carries(g, s)
  <2>1. FrameAt(t, d)' = g
    BY DEF Steps, Put
  <2>2. Carries(FrameAt(t, d), s)'
    BY <1>3, <2>1 DEF Carries
  <2> QED
    BY <2>2 DEF Asked
<1> QED
  BY <1>1, <1>2, <1>3

LEMMA SendOrderly ==
    ASSUME IInv, IInv', Orderly, NEW t \in Threads, Send(t)
    PROVE  Orderly'
<1>1. agenda[t] # <<>> /\ Now(t) = Cur(t) /\ Cur(t).op = "send" /\ Cur(t) \in Frames
  BY Standing, AtFrame DEF Send
<1>2. PICK s \in Subs, w \in Places, n \in Nat : s = Cur(t).sub /\ w = Cur(t).station /\ n = Cur(t).number
  BY <1>1, FrameFields
<1>3. PICK g \in Frames : /\ g.op = IF w = Local THEN "executing" ELSE "await"
                          /\ g.sub = s /\ g.number = n /\ Then(t, <<g>>)
  <2>1. [op |-> "executing", sub |-> s, number |-> n] \in Frames /\ [op |-> "await", sub |-> s, number |-> n] \in Frames
    BY WorkFrames DEF Terminal
  <2> QED
    BY <1>1, <1>2, <2>1 DEF Send
<1>4. PICK d \in Nat : Steps(t, d, Idle, g)
  <2>1. Suits(t, g) /\ g.op # "team"
    BY <1>3, PlainFits DEF Suits, LoopOps
  <2> QED
    BY <1>1, <1>3, <2>1, StepsOne DEF Orderly
<1>5. HandsRestAll(t, Idle, g)
  BY <1>1, <1>3, IdleHandless, NothingInHand DEF Handless, HandFrames
<1>6. BooksRest /\ OutsideRests /\ attempt' = attempt
  BY DEF Send, BooksRest, BooksStand, OutsideRests, books, ending
<1>7. Cur(t).op \notin {"release", "giveup"} /\ g.op \notin Late
  BY <1>1, <1>3 DEF Late
<1>8. attempt[s].station = w
  BY <1>1, <1>2, Standing DEF Parts, Evidence
<1>9. ASSUME NEW x \in Subs PROVE Asked(x)'
  <2>1. Carries(Cur(t), x) => x = s
    BY <1>2 DEF Carries
  <2>2. w \in Stations \/ (Carries(Cur(t), x) => Carries(g, x))
    BY <1>2, <1>3 DEF Carries, CarryOps, Places
  <2> QED
    BY <1>4, <1>6, <1>8, <2>1, <2>2, AskedOn
<1>10. Delivering'
  BY <1>4, <1>6, <1>7, DeliveringKept DEF Orderly, BooksRest, BooksStand, OutsideRests
<1> QED
  BY <1>4, <1>5, <1>6, <1>7, <1>9, <1>10, RestsOrderly

LEMMA ExecuteLocallyOrderly ==
    ASSUME IInv, IInv', Orderly, NEW t \in Threads, ExecuteLocally(t)
    PROVE  Orderly'
<1>1. agenda[t] # <<>> /\ Now(t) = Cur(t) /\ Cur(t).op = "executing" /\ Cur(t) \in Frames
  BY Standing, AtFrame DEF ExecuteLocally
<1>2. PICK s \in Subs, n \in Nat : s = Cur(t).sub /\ n = Cur(t).number
  BY <1>1, FrameFields
<1>3. PICK g \in Frames : g.op = "receive" /\ g.sub = s /\ g.number = n /\ Then(t, <<g>>)
  <2>1. PICK a \in Terminal : Then(t, <<[op |-> "receive", sub |-> s, number |-> n, status |-> a]>>)
    BY <1>1, <1>2 DEF ExecuteLocally, Terminal
  <2> QED
    BY <2>1, ReceiveFrame
<1>4. PICK d \in Nat : Steps(t, d, Idle, g)
  <2>1. Suits(t, g) /\ g.op # "team"
    BY <1>3, PlainFits DEF Suits, LoopOps
  <2> QED
    BY <1>1, <1>3, <2>1, StepsOne DEF Orderly
<1>5. HandsRestAll(t, Idle, g)
  BY <1>1, <1>3, IdleHandless, NothingInHand DEF Handless, HandFrames
<1>6. BooksRest /\ OutsideRests /\ attempt' = attempt
  BY DEF ExecuteLocally, BooksRest, BooksStand, OutsideRests, books, ending
<1>7. Cur(t).op \notin {"release", "giveup"} /\ g.op \notin Late
  BY <1>1, <1>3 DEF Late
<1>8. ASSUME NEW x \in Subs PROVE Asked(x)'
  <2>1. Carries(Cur(t), x) => Carries(g, x)
    BY <1>2, <1>3 DEF Carries, CarryOps
  <2> QED
    BY <1>4, <1>6, <2>1, AskedOn
<1>9. Delivering'
  BY <1>4, <1>6, <1>7, DeliveringKept DEF Orderly, BooksRest, BooksStand, OutsideRests
<1> QED
  BY <1>4, <1>5, <1>6, <1>7, <1>8, <1>9, RestsOrderly

\* Only the phase of one attempt changes.
PhaseOnly(s, phase) ==
    /\ attempt'[s].number = attempt[s].number /\ attempt'[s].phase = phase
    /\ \A x \in Subs \ {s} : attempt'[x] = attempt[x]

LEMMA ReceiveOrderly ==
    ASSUME IInv, IInv', Orderly, NEW t \in Threads, Receive(t)
    PROVE  Orderly'
<1>1. agenda[t] # <<>> /\ Now(t) = Cur(t) /\ Cur(t).op = "receive" /\ Cur(t) \in Frames
  BY Standing, AtFrame DEF Receive
<1>2. PICK s \in Subs : s = Cur(t).sub
  BY <1>1, FrameFields
<1>3. Cur(t).op \notin {"release", "giveup"} /\ Idle.op \notin Late /\ Handless(Cur(t)) /\ Handless(Idle)
  BY <1>1, IdleHandless DEF Handless, HandFrames, Late
<1>4. /\ UNCHANGED <<outputs, pending, home, retries, crossed, takeover, timed, localTried>>
      /\ UNCHANGED <<failure, delivery, verdict>>
  BY DEF Receive, ending
<1>5. CASE s \in outputs \/ ~Current(Cur(t)) \/ attempt[s].phase # "active"
  <2>1. Return(t) /\ attempt' = attempt
    BY <1>1, <1>2, <1>5 DEF Receive
  <2>2. PICK d \in Nat : Steps(t, d, Idle, Idle)
    BY <1>1, <2>1, StepsReturn DEF Orderly
  <2>3. HandsRestAll(t, Idle, Idle)
    BY <1>3, NothingInHand
  <2>4. BooksRest
    BY <1>4, <2>1 DEF BooksRest, BooksStand
  <2>5. Delivering'
    BY <1>3, <1>4, <2>2, DeliveringKept DEF Orderly
  <2>6. s \in outputs => attempt[s].phase # "active"
    BY Standing DEF Parts, OutputsGenuine
  <2>7. Carries(Cur(t), s) => Current(Cur(t))
    BY <1>2 DEF Carries, Current
  <2>8. ASSUME NEW x \in Subs PROVE Asked(x)'
    <3>1. CASE Carries(Cur(t), x)
      <4>1. x = s /\ attempt[s].phase # "active"
        BY <1>2, <1>5, <2>6, <2>7, <3>1 DEF Carries
      <4> QED
        BY <2>1, <4>1 DEF Asked
    <3>2. CASE ~Carries(Cur(t), x)
      BY <2>1, <2>2, <3>2, AskedKept DEF Orderly
    <3> QED
      BY <3>1, <3>2
  <2> QED
    BY <1>3, <2>2, <2>3, <2>4, <2>5, <2>8, RestsOrderly
<1>6. CASE ~(s \in outputs \/ ~Current(Cur(t)) \/ attempt[s].phase # "active")
  <2>1. /\ attempt' = [attempt EXCEPT ![s].phase = "processing", ![s].received = Cur(t).status]
        /\ Then(t, << CASE Cur(t).status = "completed" ->
                               [op |-> "verify", sub |-> s, number |-> Cur(t).number]
                        [] Cur(t).status = "failed" -> [op |-> "failed", sub |-> s]
                        [] OTHER -> [op |-> "giveup", sub |-> s, cause |-> "unknown"] >>)
    BY <1>1, <1>2, <1>6 DEF Receive
  <2>2. PhaseOnly(s, "processing")
    BY <2>1, Standing DEF BookTypes, PhaseOnly
  <2>3. PICK g \in Frames, o \in {"verify", "failed", "unknown"} :
            /\ \/ g.op \in {"verify", "failed"} /\ o = g.op
               \/ g.op = "giveup" /\ g.cause = "unknown" /\ o = "unknown"
            /\ g.sub = s /\ Then(t, <<g>>)
    <3>1. Cur(t).number \in Nat /\ Local \in Places
      BY <1>1, FrameFields DEF Places
    <3>2. /\ [op |-> "verify", sub |-> s, number |-> Cur(t).number] \in Frames
          /\ [op |-> "failed", sub |-> s] \in Frames
      BY <3>1, WorkFrames DEF Terminal
    <3>3. [op |-> "giveup", sub |-> s, cause |-> "unknown"] \in Frames
      BY GiveUpFrames
    <3>4. CASE Cur(t).status = "completed"
      <4>1. Then(t, <<[op |-> "verify", sub |-> s, number |-> Cur(t).number]>>)
        BY <2>1, <3>4
      <4>2. PICK g \in Frames : g.op = "verify" /\ g.sub = s /\ Then(t, <<g>>)
        BY <3>2, <4>1
      <4>3. "verify" \in {"verify", "failed", "unknown"}
        OBVIOUS
      <4> QED
        BY <4>2, <4>3
    <3>5. CASE Cur(t).status = "failed"
      <4>1. Then(t, <<[op |-> "failed", sub |-> s]>>)
        BY <2>1, <3>5
      <4>2. PICK g \in Frames : g.op = "failed" /\ g.sub = s /\ Then(t, <<g>>)
        BY <3>2, <4>1
      <4>3. "failed" \in {"verify", "failed", "unknown"}
        OBVIOUS
      <4> QED
        BY <4>2, <4>3
    <3>6. CASE Cur(t).status # "completed" /\ Cur(t).status # "failed"
      <4>1. Then(t, <<[op |-> "giveup", sub |-> s, cause |-> "unknown"]>>)
        BY <2>1, <3>6
      <4> QED
        BY <3>3, <4>1
    <3> QED
      BY <3>4, <3>5, <3>6
  <2>4. PICK d \in Nat : Steps(t, d, Idle, g)
    <3>1. Suits(t, g) /\ g.op # "team"
      BY <2>3 DEF Suits, Fitting, LoopOps
    <3> QED
      BY <1>1, <2>3, <3>1, StepsOne DEF Orderly
  <2>5. Known(s) /\ Free(s)
    BY <1>6 DEF Orderly, Known, Carried, Free, PhasesOf
  <2>6. Sole(g, s, o, None)
    BY <2>3, SoleFrames
  <2>7. HeldNext(s, o, None)
    <3>1. Only(s, t, d) /\ Unheld(Idle, s)
      BY <2>5, Empty DEF Free, Only
    <3> QED
      BY <2>4, <2>6, <3>1, HandBelow DEF Steps
  <2>8. Lives
    <3>1. Life(s)
      BY <1>4, <1>6, <2>2, <2>3, <2>7 DEF Life, Received, Phased, PhaseOnly, PlanSame, TriesSame
    <3>2. BooksApart(s)
      BY <1>4, <2>2 DEF BooksApart, PhaseOnly, PlanSame, TriesSame, WorkSame
    <3>3. Mine(Idle, s) /\ Mine(g, s) /\ Mine(Cur(t), s)
      BY <1>3, <2>3 DEF Mine
    <3> QED
      BY <2>4, <3>1, <3>2, <3>3, OneLives
  <2>9. Delivering'
    BY <1>4, <2>3, <2>4, DeliveringKept DEF Orderly, Late
  <2>10. ASSUME NEW x \in Subs PROVE (Freed(x) /\ Asked(x) /\ Timed(x))'
    <3>1. Freed(x)'
      BY <1>3, <1>4, <2>4, FreedKept DEF Orderly
    <3>2. attempt'[x] = attempt[x] \/ attempt'[x].phase # "active"
      BY <2>2 DEF PhaseOnly
    <3>3. Timed(x)'
      BY <1>3, <1>4, <2>4, <3>2, TimedKept DEF Orderly
    <3>4. CASE x # s
      <4>1. ~Carries(Cur(t), x)
        BY <1>2, <3>4 DEF Carries
      <4> QED
        BY <2>4, <3>1, <3>2, <3>3, <4>1, AskedKept DEF Orderly
    <3>5. CASE x = s
      <4>1. Asked(x)'
        BY <2>2, <3>5 DEF PhaseOnly, Asked
      <4> QED
        BY <3>1, <3>3, <4>1
    <3> QED
      BY <3>4, <3>5
  <2> QED
    BY <2>4, <2>8, <2>9, <2>10, OrderlyKept
<1> QED
  BY <1>5, <1>6

LEMMA VerifyOrderly ==
    ASSUME IInv, IInv', Orderly, NEW t \in Threads, Verify(t)
    PROVE  Orderly'
<1>1. agenda[t] # <<>> /\ Now(t) = Cur(t) /\ Cur(t).op = "verify" /\ Cur(t) \in Frames
  BY Standing, AtFrame DEF Verify
<1>2. PICK s \in Subs : s = Cur(t).sub
  BY <1>1, FrameFields
<1>3. Sole(Cur(t), s, "verify", None)
  BY <1>1, <1>2, SoleFrames
<1>4. Held(s, "verify", None) /\ \A d \in Nat : \A f, g : Put(t, d, f, g) => Only(s, t, d)
  BY <1>1, <1>3, CurHolds
<1>5. PICK g \in Frames : g.op \in {"accept", "failed"} /\ g.sub = s /\ Then(t, <<g>>)
  <2>1. [op |-> "accept", sub |-> s] \in Frames /\ [op |-> "failed", sub |-> s] \in Frames
    BY DEF Frames
  <2> QED
    BY <1>1, <1>2, <2>1 DEF Verify
<1>6. PICK d \in Nat : Steps(t, d, Idle, g)
  <2>1. Suits(t, g) /\ g.op # "team"
    BY <1>5, PlainFits DEF Suits, LoopOps
  <2> QED
    BY <1>1, <1>5, <2>1, StepsOne DEF Orderly
<1>7. HeldNext(s, g.op, None)
  <2>1. Sole(g, s, g.op, None) /\ Unheld(Idle, s)
    BY <1>5, SoleFrames, Empty
  <2> QED
    BY <1>4, <1>6, <2>1, HandBelow DEF Steps
<1>8. /\ UNCHANGED <<outputs, pending, attempt, home, retries, crossed, takeover, timed, localTried>>
      /\ UNCHANGED <<failure, delivery, verdict>>
  BY DEF Verify, books, ending
<1>9. Lives
  <2>1. Life(s)
    BY <1>4, <1>5, <1>7, <1>8 DEF Life, Judges, PlanSame, TriesSame, WorkSame
  <2>2. BooksApart(s)
    BY <1>8 DEF BooksApart, PlanSame, TriesSame, WorkSame
  <2>3. Mine(Idle, s) /\ Mine(g, s) /\ Mine(Cur(t), s)
    BY <1>1, <1>2, <1>5, MineIdle DEF Mine
  <2> QED
    BY <1>6, <2>1, <2>2, <2>3, OneLives
<1>10. Delivering'
  BY <1>5, <1>6, <1>8, DeliveringKept DEF Orderly, Late
<1>11. Cur(t).op \notin {"release", "giveup"} \cup CarryOps
  BY <1>1 DEF CarryOps
<1>12. ASSUME NEW x \in Subs PROVE (Freed(x) /\ Asked(x) /\ Timed(x))'
  BY <1>6, <1>8, <1>11, FreedKept, AskedKept, TimedKept DEF Orderly, Carries
<1> QED
  BY <1>6, <1>9, <1>10, <1>12, OrderlyKept

LEMMA AcceptOrderly ==
    ASSUME IInv, IInv', Orderly, ~Stopped, NEW t \in Threads, Accept(t)
    PROVE  Orderly'
<1>1. agenda[t] # <<>> /\ Now(t) = Cur(t) /\ Cur(t).op = "accept" /\ Cur(t) \in Frames
  BY Standing, AtFrame DEF Accept
<1>2. PICK s \in Subs : s = Cur(t).sub
  BY <1>1, FrameFields
<1>3. Sole(Cur(t), s, "accept", None)
  BY <1>1, <1>2, SoleFrames
<1>4. Held(s, "accept", None) /\ \A d \in Nat : \A f, g : Put(t, d, f, g) => Only(s, t, d)
  BY <1>1, <1>3, CurHolds
<1>5. /\ outputs' = outputs \cup {s} /\ attempt' = [attempt EXCEPT ![s].phase = "done"]
      /\ timed' = timed \ {s} /\ takeover' = takeover \ {s}
      /\ Then(t, <<[op |-> "release"]>>)
      /\ UNCHANGED <<pending, home, retries, crossed, localTried, failure, delivery, verdict>>
  BY <1>1, <1>2 DEF Accept, MaybeUnsaved, ending
<1>6. PhaseOnly(s, "done")
  BY <1>5, Standing DEF BookTypes, PhaseOnly
<1>7. PICK g \in Frames : g.op = "release" /\ Then(t, <<g>>)
  BY <1>5, PlainFrames
<1>8. PICK d \in Nat : Steps(t, d, Idle, g)
  <2>1. Suits(t, g) /\ g.op # "team"
    BY <1>7, PlainFits DEF Suits, LoopOps
  <2> QED
    BY <1>1, <1>7, <2>1, StepsOne DEF Orderly
<1>9. Handless(g)
  BY <1>7 DEF Handless, HandFrames
<1>10. Free(s)'
  BY <1>4, <1>8, <1>9, IdleHandless, PlainUnheld, HandGone DEF Steps
<1>11. Lives
  <2>1. Life(s)
    BY <1>4, <1>5, <1>6, <1>10 DEF Life, Accepted, Phased, PhaseOnly, PlanSame
  <2>2. BooksApart(s)
    BY <1>5, <1>6 DEF BooksApart, PhaseOnly, PlanSame, TriesSame, WorkSame
  <2>3. Mine(Idle, s) /\ Mine(g, s) /\ Mine(Cur(t), s)
    BY <1>1, <1>2, <1>9, MineIdle DEF Mine
  <2> QED
    BY <1>8, <2>1, <2>2, <2>3, OneLives
<1>12. Delivering'
  BY <1>5, <1>7, <1>8, DeliveringKept DEF Orderly, Late
<1>13. Cur(t).op \notin {"release", "giveup"} \cup CarryOps
  BY <1>1 DEF CarryOps
<1>14. HasRelease'
  <2>1. FrameAt(t, d)'.op = "release"
    BY <1>7, <1>8 DEF Steps, Put
  <2> QED
    BY <2>1 DEF HasRelease
<1>15. ASSUME NEW x \in Subs PROVE (Freed(x) /\ Asked(x) /\ Timed(x))'
  <2>1. Freed(x)'
    BY <1>14 DEF Freed
  <2>2. attempt'[x] = attempt[x] \/ attempt'[x].phase # "active"
    BY <1>6 DEF PhaseOnly
  <2>3. Asked(x)'
    BY <1>8, <1>13, <2>2, AskedKept DEF Orderly, Carries
  <2>4. CASE x # s
    <3>1. Timed(x)'
      BY <1>5, <1>8, <1>13, <2>2, <2>4, TimedKept DEF Orderly
    <3> QED
      BY <2>1, <2>3, <3>1
  <2>5. CASE x = s
    <3>1. Timed(x)'
      BY <1>6, <2>5 DEF Timed, PhaseOnly
    <3> QED
      BY <2>1, <2>3, <3>1
  <2> QED
    BY <2>4, <2>5
<1> QED
  BY <1>8, <1>11, <1>12, <1>15, OrderlyKept

\* A failed execution goes up one rung.
LEMMA HandleFailureOrderly ==
    ASSUME IInv, IInv', Orderly, NEW t \in Threads, HandleFailure(t)
    PROVE  Orderly'
<1>1. agenda[t] # <<>> /\ Now(t) = Cur(t) /\ Cur(t).op = "failed" /\ Cur(t) \in Frames
  BY Standing, AtFrame DEF HandleFailure
<1>2. PICK s \in Subs : s = Cur(t).sub
  BY <1>1, FrameFields
<1>3. Sole(Cur(t), s, "failed", None)
  BY <1>1, <1>2, SoleFrames
<1>4. /\ Held(s, "failed", None) /\ s \notin outputs
      /\ \A d \in Nat : \A f, g : Put(t, d, f, g) => Only(s, t, d)
  BY <1>1, <1>3, CurHolds
<1>5. BookOf(s) /\ home[s] \in Places /\ Local \in Places
  BY BookHas DEF BookOf, Places
<1>6. /\ UNCHANGED <<pending, home, localTried, failure, delivery, verdict>>
      /\ attempt' = [attempt EXCEPT ![s].phase = "done"]
  BY <1>1, <1>2 DEF HandleFailure, ending
<1>7. PhaseOnly(s, "done")
  BY <1>6, Standing DEF BookTypes, PhaseOnly
\* What becomes of the subtask, and of the others.
<1>8. PICK g \in Frames, o \in HandOps, w \in Places \cup {None} :
         /\ Then(t, <<g>>) /\ g.op \in {"giveup", "begin", "elsewhere"} /\ g.sub = s
         /\ g.op = "giveup" => g.cause = "exhausted"
         /\ Sole(g, s, o, w)
         /\ outputs' = outputs /\ timed \subseteq timed'
         /\ \A x \in Subs \ {s} : TriesSame(x)
         /\ \/ /\ s \notin takeover /\ retries[s] < MaxRetries /\ retries'[s] = retries[s] + 1
               /\ (s \in crossed' <=> s \in crossed) /\ s \notin takeover'
               /\ o = "begin" /\ w = home[s]
            \/ /\ s \notin takeover /\ home[s] # Local /\ s \notin crossed
               /\ retries'[s] = retries[s] + 1
               /\ s \in crossed' /\ s \notin takeover'
               /\ o = "elsewhere" /\ w \in Places
            \/ /\ s \notin takeover /\ s \in crossed /\ retries'[s] = retries[s] + 1
               /\ s \in crossed' /\ s \in takeover'
               /\ o = "begin" /\ w = Local
            \/ /\ s \in takeover \/ home[s] = Local
               /\ retries'[s] = retries[s] /\ (s \in crossed' <=> s \in crossed) /\ s \notin takeover'
               /\ o = "exhausted" /\ w = None
  <2>0. retries \in [Subs -> Nat]
    BY Standing DEF BookTypes
  <2>1. ASSUME retries' = [retries EXCEPT ![s] = @ + 1]
        PROVE  retries'[s] = retries[s] + 1 /\ \A x \in Subs \ {s} : retries'[x] = retries[x]
    BY <2>0, <2>1
  <2>2. Recovery(s) # "fail" =>
           /\ retries' = [retries EXCEPT ![s] = @ + 1] /\ outputs' = outputs \ {s} /\ timed' = timed \cup {s}
    BY <1>1, <1>2 DEF HandleFailure
  <2>3. outputs \ {s} = outputs
    BY <1>4
  <2>4. takeover' = CASE s \in takeover -> takeover \ {s}
                      [] Recovery(s) = "local" -> takeover \cup {s}
                      [] OTHER -> takeover
    BY <1>1, <1>2 DEF HandleFailure
  <2>5. crossed' = IF Recovery(s) = "cross" THEN crossed \cup {s} ELSE crossed
    BY <1>1, <1>2 DEF HandleFailure
  <2>6. Then(t, << CASE Recovery(s) = "fail" -> [op |-> "giveup", sub |-> s, cause |-> "exhausted"]
                     [] Recovery(s) = "retry" -> [op |-> "begin", sub |-> s, station |-> home[s]]
                     [] Recovery(s) = "cross" -> [op |-> "elsewhere", sub |-> s, station |-> home[s]]
                     [] OTHER -> [op |-> "begin", sub |-> s, station |-> Local] >>)
    BY <1>1, <1>2 DEF HandleFailure
  <2>7. /\ [op |-> "begin", sub |-> s, station |-> home[s]] \in Frames
        /\ [op |-> "begin", sub |-> s, station |-> Local] \in Frames
        /\ [op |-> "elsewhere", sub |-> s, station |-> home[s]] \in Frames
    BY <1>5, WorkFrames DEF Terminal
  <2>8. [op |-> "giveup", sub |-> s, cause |-> "exhausted"] \in Frames
    BY GiveUpFrames
  <2>9. "begin" \in HandOps /\ "elsewhere" \in HandOps /\ "exhausted" \in HandOps
    BY DEF HandOps
  <2>10. CASE s \notin takeover /\ retries[s] < MaxRetries
    <3>1. Recovery(s) = "retry"
      BY <2>10 DEF Recovery
    <3>2. PICK g \in Frames : g.op = "begin" /\ g.sub = s /\ g.station = home[s] /\ Then(t, <<g>>)
      <4>1. Then(t, <<[op |-> "begin", sub |-> s, station |-> home[s]]>>)
        BY <2>6, <3>1
      <4> QED
        BY <2>7, <4>1
    <3>3. Sole(g, s, "begin", home[s])
      BY <3>2, SoleFrames
    <3>4. takeover' = takeover /\ crossed' = crossed
      BY <2>4, <2>5, <2>10, <3>1
    <3>5. retries' = [retries EXCEPT ![s] = @ + 1] /\ outputs' = outputs /\ timed \subseteq timed'
      BY <2>2, <2>3, <3>1
    <3>6. \A x \in Subs \ {s} : TriesSame(x)
      BY <2>1, <3>4, <3>5 DEF TriesSame
    <3> QED
      BY <1>5, <2>1, <2>9, <2>10, <3>2, <3>3, <3>4, <3>5, <3>6
  <2>11. CASE s \in takeover \/ (~(retries[s] < MaxRetries) /\ home[s] = Local)
    <3>1. Recovery(s) = "fail"
      BY <2>11 DEF Recovery
    <3>2. PICK g \in Frames : g.op = "giveup" /\ g.sub = s /\ g.cause = "exhausted" /\ Then(t, <<g>>)
      <4>1. Then(t, <<[op |-> "giveup", sub |-> s, cause |-> "exhausted"]>>)
        BY <2>6, <3>1
      <4> QED
        BY <2>8, <4>1
    <3>3. Sole(g, s, "exhausted", None)
      BY <3>2, SoleFrames
    <3>4. takeover' = takeover \ {s} /\ crossed' = crossed
      BY <2>4, <2>5, <3>1
    <3>5. UNCHANGED <<retries, outputs, timed>>
      BY <1>1, <1>2, <3>1 DEF HandleFailure
    <3>6. \A x \in Subs \ {s} : TriesSame(x)
      BY <3>4, <3>5 DEF TriesSame
    <3> QED
      BY <2>9, <2>11, <3>2, <3>3, <3>4, <3>5, <3>6
  <2>12. CASE s \notin takeover /\ ~(retries[s] < MaxRetries) /\ home[s] # Local /\ s \notin crossed
    <3>1. Recovery(s) = "cross"
      BY <2>12 DEF Recovery
    <3>2. PICK g \in Frames : g.op = "elsewhere" /\ g.sub = s /\ g.station = home[s] /\ Then(t, <<g>>)
      <4>1. Then(t, <<[op |-> "elsewhere", sub |-> s, station |-> home[s]]>>)
        BY <2>6, <3>1
      <4> QED
        BY <2>7, <4>1
    <3>3. Sole(g, s, "elsewhere", home[s])
      BY <3>2, SoleFrames
    <3>4. takeover' = takeover /\ crossed' = crossed \cup {s}
      BY <2>4, <2>5, <2>12, <3>1
    <3>5. retries' = [retries EXCEPT ![s] = @ + 1] /\ outputs' = outputs /\ timed \subseteq timed'
      BY <2>2, <2>3, <3>1
    <3>6. \A x \in Subs \ {s} : TriesSame(x)
      BY <2>1, <3>4, <3>5 DEF TriesSame
    <3> QED
      BY <1>5, <2>1, <2>9, <2>12, <3>2, <3>3, <3>4, <3>5, <3>6
  <2>13. CASE s \notin takeover /\ ~(retries[s] < MaxRetries) /\ home[s] # Local /\ s \in crossed
    <3>1. Recovery(s) = "local"
      BY <2>13 DEF Recovery
    <3>2. PICK g \in Frames : g.op = "begin" /\ g.sub = s /\ g.station = Local /\ Then(t, <<g>>)
      <4>1. Then(t, <<[op |-> "begin", sub |-> s, station |-> Local]>>)
        BY <2>6, <3>1
      <4> QED
        BY <2>7, <4>1
    <3>3. Sole(g, s, "begin", Local)
      BY <3>2, SoleFrames
    <3>4. takeover' = takeover \cup {s} /\ crossed' = crossed
      BY <2>4, <2>5, <2>13, <3>1
    <3>5. retries' = [retries EXCEPT ![s] = @ + 1] /\ outputs' = outputs /\ timed \subseteq timed'
      BY <2>2, <2>3, <3>1
    <3>6. \A x \in Subs \ {s} : TriesSame(x)
      BY <2>1, <3>4, <3>5 DEF TriesSame
    <3> QED
      BY <1>5, <2>1, <2>9, <2>13, <3>2, <3>3, <3>4, <3>5, <3>6
  <2> QED
    BY <2>10, <2>11, <2>12, <2>13
<1>9. PICK d \in Nat : Steps(t, d, Idle, g)
  <2>1. Suits(t, g) /\ g.op # "team"
    BY <1>8 DEF Suits, Fitting, LoopOps
  <2> QED
    BY <1>1, <1>8, <2>1, StepsOne DEF Orderly
<1>10. HeldNext(s, o, w)
  <2>1. Unheld(Idle, s)
    BY Empty
  <2> QED
    BY <1>4, <1>8, <1>9, <2>1, HandBelow DEF Steps
<1>11. Lives
  <2>1. Failed(s)
    BY <1>4, <1>6, <1>7, <1>8, <1>10 DEF Failed, Phased, PhaseOnly, PlanSame
  <2>2. BooksApart(s)
    BY <1>6, <1>7, <1>8 DEF BooksApart, PhaseOnly, PlanSame, WorkSame
  <2>3. Mine(Idle, s) /\ Mine(g, s) /\ Mine(Cur(t), s)
    BY <1>1, <1>2, <1>8, MineIdle DEF Mine
  <2> QED
    BY <1>9, <2>1, <2>2, <2>3, OneLives DEF Life
<1>12. Delivering'
  BY <1>6, <1>8, <1>9, DeliveringKept DEF Orderly, Late
<1>13. Cur(t).op \notin {"release", "giveup"} \cup CarryOps
  BY <1>1 DEF CarryOps
<1>14. ASSUME NEW x \in Subs PROVE (Freed(x) /\ Asked(x) /\ Timed(x))'
  <2>1. attempt'[x] = attempt[x] \/ attempt'[x].phase # "active"
    BY <1>7 DEF PhaseOnly
  <2>2. ~Carries(Cur(t), x)
    BY <1>13 DEF Carries
  <2> QED
    BY <1>6, <1>8, <1>9, <1>13, <2>1, <2>2, FreedKept, AskedKept, TimedKept DEF Orderly
<1> QED
  BY <1>9, <1>11, <1>12, <1>14, OrderlyKept

\* The subtask moves on to another station, or home.
LEMMA ElsewhereOrderly ==
    ASSUME IInv, IInv', Orderly, NEW t \in Threads, agenda[t] # <<>>, Cur(t) \in Frames, Cur(t).op = "elsewhere",
           NEW s \in Subs, s = Cur(t).sub, NEW g \in Frames, g.op = "begin", g.sub = s, Then(t, <<g>>),
           UNCHANGED <<outputs, pending, attempt, crossed, localTried, failure, delivery, verdict>>,
           timed \subseteq timed', \A x \in Subs \ {s} : PlanSame(x) /\ TriesSame(x),
           \/ /\ home'[s] \in Stations /\ g.station = home'[s]
              /\ retries'[s] = retries[s] /\ (s \in takeover' <=> s \in takeover)
           \/ /\ home'[s] = home[s] /\ g.station = Local
              /\ retries'[s] = retries[s] + 1 /\ s \in takeover'
    PROVE  Orderly'
<1>1. PICK v \in Places : Sole(Cur(t), s, "elsewhere", v)
  BY SoleFrames, FrameFields
<1>2. Held(s, "elsewhere", v) /\ \A d \in Nat : \A f, k : Put(t, d, f, k) => Only(s, t, d)
  BY <1>1, CurHolds
<1>3. PICK d \in Nat : Steps(t, d, Idle, g)
  <2>1. Suits(t, g) /\ g.op # "team"
    BY PlainFits DEF Suits, LoopOps
  <2> QED
    BY <2>1, StepsOne DEF Orderly
<1>4. HeldNext(s, "begin", g.station)
  <2>1. Sole(g, s, "begin", g.station) /\ Unheld(Idle, s)
    BY SoleFrames, Empty
  <2> QED
    BY <1>2, <1>3, <2>1, HandBelow DEF Steps
<1>5. Lives
  <2>1. Elsewhere(s)
    BY <1>2, <1>4 DEF Elsewhere, WorkSame
  <2>2. BooksApart(s)
    BY DEF BooksApart, WorkSame
  <2>3. Mine(Idle, s) /\ Mine(g, s) /\ Mine(Cur(t), s)
    BY MineIdle DEF Mine
  <2> QED
    BY <1>3, <2>1, <2>2, <2>3, OneLives DEF Life
<1>6. Delivering'
  BY <1>3, DeliveringKept DEF Orderly, Late
<1>7. Cur(t).op \notin {"release", "giveup"} \cup CarryOps
  BY DEF CarryOps
<1>8. ASSUME NEW x \in Subs PROVE (Freed(x) /\ Asked(x) /\ Timed(x))'
  <2>1. ~Carries(Cur(t), x)
    BY <1>7 DEF Carries
  <2> QED
    BY <1>3, <1>7, <2>1, FreedKept, AskedKept, TimedKept DEF Orderly
<1> QED
  BY <1>3, <1>5, <1>6, <1>8, OrderlyKept

LEMMA RetryElsewhereOrderly ==
    ASSUME IInv, IInv', Orderly, NEW t \in Threads, NEW w \in Stations, RetryElsewhere(t, w)
    PROVE  Orderly'
<1>1. agenda[t] # <<>> /\ Now(t) = Cur(t) /\ Cur(t).op = "elsewhere" /\ Cur(t) \in Frames
  BY Standing, AtFrame DEF RetryElsewhere
<1>2. PICK s \in Subs : s = Cur(t).sub
  BY <1>1, FrameFields
<1>3. /\ UNCHANGED <<outputs, pending, attempt, crossed, localTried, failure, delivery, verdict>>
      /\ UNCHANGED <<retries, takeover, timed>>
      /\ home' = [home EXCEPT ![s] = w]
      /\ Then(t, <<[op |-> "begin", sub |-> s, station |-> w]>>)
  BY <1>1, <1>2 DEF RetryElsewhere, ending
<1>4. home'[s] = w /\ \A x \in Subs \ {s} : home'[x] = home[x]
  BY <1>3, Standing DEF BookTypes
<1>5. PICK g \in Frames : g.op = "begin" /\ g.sub = s /\ g.station = w /\ Then(t, <<g>>)
  <2>1. [op |-> "begin", sub |-> s, station |-> w] \in Frames
    BY DEF Frames, Places
  <2> QED
    BY <1>3, <2>1
<1>6. \A x \in Subs \ {s} : PlanSame(x) /\ TriesSame(x)
  BY <1>3, <1>4 DEF PlanSame, TriesSame
<1> QED
  BY <1>1, <1>2, <1>3, <1>4, <1>5, <1>6, ElsewhereOrderly

LEMMA TakeOverOrderly ==
    ASSUME IInv, IInv', Orderly, NEW t \in Threads, TakeOver(t)
    PROVE  Orderly'
<1>1. agenda[t] # <<>> /\ Now(t) = Cur(t) /\ Cur(t).op = "elsewhere" /\ Cur(t) \in Frames
  BY Standing, AtFrame DEF TakeOver
<1>2. PICK s \in Subs : s = Cur(t).sub
  BY <1>1, FrameFields
<1>3. Sole(Cur(t), s, "elsewhere", Cur(t).station)
  BY <1>1, <1>2, SoleFrames
<1>4. Held(s, "elsewhere", Cur(t).station) /\ s \notin outputs /\ Known(s)
  BY <1>1, <1>3, CurHolds
<1>5. s \notin takeover
  BY <1>4 DEF Held, Known, AtHome
<1>6. /\ UNCHANGED <<pending, attempt, home, crossed, localTried, failure, delivery, verdict>>
      /\ takeover' = takeover \cup {s} /\ retries' = [retries EXCEPT ![s] = @ + 1]
      /\ outputs' = outputs \ {s} /\ timed' = timed \cup {s}
      /\ Then(t, <<[op |-> "begin", sub |-> s, station |-> Local]>>)
  BY <1>1, <1>2, <1>5 DEF TakeOver, ending
<1>7. outputs' = outputs /\ timed \subseteq timed'
  BY <1>4, <1>6
<1>8. retries'[s] = retries[s] + 1 /\ \A x \in Subs \ {s} : retries'[x] = retries[x]
  BY <1>6, Standing DEF BookTypes
<1>9. PICK g \in Frames : g.op = "begin" /\ g.sub = s /\ g.station = Local /\ Then(t, <<g>>)
  <2>1. [op |-> "begin", sub |-> s, station |-> Local] \in Frames
    BY DEF Frames, Places
  <2> QED
    BY <1>6, <2>1
<1>10. \A x \in Subs \ {s} : PlanSame(x) /\ TriesSame(x)
  BY <1>6, <1>8 DEF PlanSame, TriesSame
<1>11. home'[s] = home[s] /\ s \in takeover'
  BY <1>6
<1> QED
  BY <1>1, <1>2, <1>6, <1>7, <1>8, <1>9, <1>10, <1>11, ElsewhereOrderly

\* One item less to do.
LEMMA LessTodo ==
    ASSUME NEW f \in Frames, f.op \in {"team", "items", "reports", "poll"}, NEW q
    PROVE  \E g \in Frames : /\ g.op = f.op /\ g.todo = f.todo \ {q}
                             /\ g = [f EXCEPT !.todo = @ \ {q}]
<1>1. [f EXCEPT !.todo = @ \ {q}] = [op |-> f.op, todo |-> f.todo \ {q}]
  BY Remaining
<1>2. [op |-> f.op, todo |-> f.todo \ {q}] \in Frames
  <2>1. CASE f.op = "team"
    BY <2>1, FrameFields DEF Frames
  <2>2. CASE f.op = "items"
    BY <2>2, FrameFields DEF Frames
  <2>3. CASE f.op \in {"reports", "poll"}
    BY <2>3, FrameFields DEF Frames
  <2> QED
    BY <2>1, <2>2, <2>3
<1> QED
  BY <1>1, <1>2

\* The team: a subtask goes to the queue.
LEMMA QueueOrderly ==
    ASSUME IInv, IInv', Orderly, NEW t \in Threads, agenda[t] # <<>>, Cur(t) \in Frames, Cur(t).op = "team",
           NEW s \in Subs, s \in Cur(t).todo, Then(t, <<[Cur(t) EXCEPT !.todo = @ \ {s}]>>),
           UNCHANGED <<outputs, attempt, retries, crossed, takeover, localTried, timed,
                       failure, delivery, verdict>>,
           pending'[s] \in Places,
           (home'[s] = home[s] /\ pending'[s] = Local) \/ (home'[s] \in Stations /\ Deps[s] # {}),
           \A x \in Subs \ {s} : PlanSame(x)
    PROVE  Orderly'
<1>1. PICK g \in Frames : g.op = "team" /\ g.todo = Cur(t).todo \ {s} /\ Then(t, <<g>>)
  <2>1. Cur(t).op \in {"team", "items", "reports", "poll"}
    OBVIOUS
  <2>2. PICK g \in Frames : /\ g.op = Cur(t).op /\ g.todo = Cur(t).todo \ {s}
                            /\ g = [Cur(t) EXCEPT !.todo = @ \ {s}]
    BY <2>1, LessTodo
  <2> QED
    BY <2>2
<1>2. PICK d \in Nat : Steps(t, d, Idle, g)
  <2>1. Suits(t, g)
    BY <1>1 DEF Suits, Fitting, LoopOps
  <2> QED
    BY <1>1, <2>1, StepsOne DEF Orderly
<1>3. FrameAt(t, d) = Cur(t) /\ FrameAt(t, d)' = g
  BY <1>2 DEF Steps, Put, Above
<1>4. t = "main" /\ d = 2 /\ FrameAt("main", 1).op = "release"
  BY <1>3 DEF Orderly, Roles, Fitting, TeamFirst
<1>5. Sole(Cur(t), s, "team", None)
  BY DEF Sole, Holds, HandOps
<1>6. Held(s, "team", None) /\ Only(s, t, d)
  BY <1>2, <1>5, CurHolds DEF Steps
<1>7. Free(s)'
  <2>1. Unheld(g, s) /\ Unheld(Idle, s)
    BY <1>1, Empty DEF Unheld, Holds
  <2> QED
    BY <1>2, <1>6, <2>1, HandGone DEF Steps
<1>8. Lives
  <2> SUFFICES ASSUME NEW x \in Subs PROVE Life(x)
    BY DEF Lives
  <2>1. CASE x = s
    BY <1>6, <1>7, <2>1 DEF Life, Queued, TriesSame, WorkSame
  <2>2. CASE x # s
    <3>1. Unheld(Idle, x)
      BY Empty
    <3>2. \A o \in HandOps, w \in Places \cup {None} : Holds(g, x, o, w) <=> Holds(Cur(t), x, o, w)
      BY <1>1, <2>2 DEF Holds
    <3>3. Hands(x)' = Hands(x)
      BY <1>2, <3>1, <3>2, HandsRest DEF Steps
    <3> QED
      BY <2>2, <3>3 DEF Life, Rests, TriesSame, WorkSame
  <2> QED
    BY <2>1, <2>2
<1>9. Delivering'
  BY <1>1, <1>2, DeliveringKept DEF Orderly, Late
<1>10. Cur(t).op \notin {"release", "giveup"} \cup CarryOps
  BY DEF CarryOps
<1>11. HasRelease'
  <2>1. HasRelease
    BY <1>4 DEF HasRelease, Threads
  <2> QED
    BY <1>2, <1>10, <2>1, ReleaseStays
<1>12. ASSUME NEW x \in Subs PROVE (Freed(x) /\ Asked(x) /\ Timed(x))'
  <2>1. Freed(x)'
    BY <1>11 DEF Freed
  <2>2. ~Carries(Cur(t), x)
    BY <1>10 DEF Carries
  <2> QED
    BY <1>2, <1>10, <2>1, <2>2, AskedKept, TimedKept DEF Orderly
<1> QED
  BY <1>2, <1>8, <1>9, <1>12, OrderlyKept

LEMMA PlaceLocallyOrderly ==
    ASSUME IInv, IInv', Orderly, NEW t \in Threads, NEW s \in Subs, PlaceLocally(t, s)
    PROVE  Orderly'
<1>1. agenda[t] # <<>> /\ Now(t) = Cur(t) /\ Cur(t).op = "team" /\ Cur(t) \in Frames
  BY Standing, AtFrame DEF PlaceLocally
<1>2. /\ s \in Cur(t).todo /\ Then(t, <<[Cur(t) EXCEPT !.todo = @ \ {s}]>>)
      /\ UNCHANGED <<outputs, attempt, home, retries, crossed, takeover, localTried, timed, failure, delivery, verdict>>
      /\ pending' = [pending EXCEPT ![s] = Local]
  BY <1>1 DEF PlaceLocally, ending
<1>3. pending'[s] = Local /\ \A x \in Subs \ {s} : pending'[x] = pending[x]
  BY <1>2, Standing DEF BookTypes
<1>4. pending'[s] \in Places /\ home'[s] = home[s] /\ \A x \in Subs \ {s} : PlanSame(x)
  BY <1>2, <1>3 DEF PlanSame, Places
<1> QED
  BY <1>1, <1>2, <1>3, <1>4, QueueOrderly

\* A thread of its own starts: the only step that gives another thread something to do.
Launch(t, s, g, b) ==
    /\ FrameAt(t, 2) = Cur(t) /\ FrameAt(t, 2)' = g
    /\ FrameAt(s, 0)' = b /\ \A e \in Nat : FrameAt(s, e) = Idle
    /\ \A u \in Threads, e \in Nat :
          ~(u = t /\ e = 2) /\ ~(u = s /\ e = 0) => FrameAt(u, e)' = FrameAt(u, e)

\* The same, by positions.
LaunchAt(t, s, g, b) ==
    /\ Len(agenda[t]) = 3 /\ Len(agenda'[t]) = 3 /\ agenda'[t][1] = g
    /\ \A i \in 2..3 : agenda'[t][i] = agenda[t][i]
    /\ Len(agenda'[s]) = 1 /\ agenda'[s][1] = b
    /\ \A u \in Threads \ {s, t} : agenda'[u] = agenda[u]

LEMMA LaunchPlaces ==
    ASSUME Agendas, NEW t \in Threads, NEW s \in Threads, s # t, NEW g \in Frames, NEW b \in Frames,
           agenda[t] # <<>>, Len(agenda[t]) = 3,
           agenda' = [agenda EXCEPT ![t] = <<g>> \o Tail(agenda[t]), ![s] = <<b>>]
    PROVE  LaunchAt(t, s, g, b)
<1>1. /\ agenda'[t] = <<g>> \o Tail(agenda[t]) /\ agenda'[s] = <<b>>
      /\ \A u \in Threads \ {s, t} : agenda'[u] = agenda[u]
  BY DEF Agendas
<1>2. PICK q \in Seq(Frames) : q = agenda[t]
  BY DEF Agendas
<1>3. /\ Len(<<g>> \o Tail(q)) = 3 /\ (<<g>> \o Tail(q))[1] = g
      /\ \A i \in 2..3 : (<<g>> \o Tail(q))[i] = q[i]
  <2>1. <<g>> \in Seq(Frames) /\ Len(<<g>>) = 1 /\ <<g>>[1] = g /\ q # <<>> /\ Len(q) = 3
    BY <1>2
  <2>2. /\ Len(<<g>> \o Tail(q)) = Len(<<g>>) + Len(q) - 1
        /\ \A i \in 1..Len(<<g>>) : (<<g>> \o Tail(q))[i] = <<g>>[i]
        /\ \A i \in 2..Len(q) : (<<g>> \o Tail(q))[i + Len(<<g>>) - 1] = q[i]
    BY <2>1, FrameReplaced
  <2>3. Len(<<g>> \o Tail(q)) = 3
    BY <2>1, <2>2
  <2>4. (<<g>> \o Tail(q))[1] = g
    BY <2>1, <2>2
  <2>5. ASSUME NEW i \in 2..3 PROVE (<<g>> \o Tail(q))[i] = q[i]
    <3>1. i + Len(<<g>>) - 1 = i /\ i \in 2..Len(q)
      BY <2>1
    <3> QED
      BY <2>2, <3>1
  <2> QED
    BY <2>3, <2>4, <2>5
<1>4. Len(<<b>>) = 1 /\ <<b>>[1] = b
  OBVIOUS
<1> QED
  BY <1>1, <1>2, <1>3, <1>4 DEF LaunchAt

LEMMA LaunchFrames ==
    ASSUME Agendas, NEW t \in Threads, NEW s \in Threads, s # t, NEW g, NEW b, LaunchAt(t, s, g, b),
           agenda[t] # <<>>, \A e \in Nat : FrameAt(s, e) = Idle
    PROVE  Launch(t, s, g, b)
<1>1. /\ Len(agenda[t]) = 3 /\ Len(agenda'[t]) = 3 /\ agenda'[t][1] = g
      /\ \A i \in 2..3 : agenda'[t][i] = agenda[t][i]
      /\ Len(agenda'[s]) = 1 /\ agenda'[s][1] = b
      /\ \A u \in Threads \ {s, t} : agenda'[u] = agenda[u]
  BY DEF LaunchAt
<1>2. \A e \in Nat : FrameAt(t, e) = IF e \in 0..3 - 1 THEN agenda[t][3 - e] ELSE Idle
  BY <1>1 DEF FrameAt
<1>3. \A e \in Nat : FrameAt(t, e)' = IF e \in 0..3 - 1 THEN agenda'[t][3 - e] ELSE Idle
  BY <1>1 DEF FrameAt, Idle
<1>4. \A e \in Nat : FrameAt(s, e)' = IF e \in 0..1 - 1 THEN agenda'[s][1 - e] ELSE Idle
  BY <1>1 DEF FrameAt, Idle
<1>5. FrameAt(t, 2)' = g
  <2>1. 2 \in Nat /\ 2 \in 0..3 - 1 /\ 3 - 2 = 1
    OBVIOUS
  <2> QED
    BY <1>1, <1>3, <2>1
<1>6. ASSUME NEW e \in Nat, e # 2 PROVE FrameAt(t, e)' = FrameAt(t, e)
  <2>1. CASE e \in 0..3 - 1
    <3>1. 3 - e \in 2..3
      BY <1>6, <2>1
    <3> QED
      BY <1>1, <1>2, <1>3, <2>1, <3>1
  <2>2. CASE e \notin 0..3 - 1
    BY <1>2, <1>3, <2>2
  <2> QED
    BY <2>1, <2>2
<1>7. FrameAt(t, 2) = Cur(t)
  <2>1. FrameAt(t, Len(agenda[t]) - 1) = Cur(t)
    BY Spots
  <2>2. Len(agenda[t]) - 1 = 2
    BY <1>1
  <2> QED
    BY <2>1, <2>2
<1>8. /\ FrameAt(s, 0)' = b
      /\ \A e \in Nat : e # 0 => FrameAt(s, e)' = Idle
  <2>1. 0 \in Nat /\ 0 \in 0..1 - 1 /\ 1 - 0 = 1 /\ \A e \in Nat : e # 0 => e \notin 0..1 - 1
    OBVIOUS
  <2> QED
    BY <1>1, <1>4, <2>1
<1>9. ASSUME NEW u \in Threads, u # s, u # t, NEW e \in Nat PROVE FrameAt(u, e)' = FrameAt(u, e)
  <2>1. agenda'[u] = agenda[u]
    BY <1>1, <1>9
  <2> QED
    BY <2>1 DEF FrameAt, Idle
<1>10. ASSUME NEW u \in Threads, NEW e \in Nat, ~(u = t /\ e = 2), ~(u = s /\ e = 0)
       PROVE  FrameAt(u, e)' = FrameAt(u, e)
  <2>1. CASE u = s
    BY <1>8, <1>10, <2>1
  <2>2. CASE u = t
    BY <1>6, <1>10, <2>2
  <2>3. CASE u # s /\ u # t
    BY <1>9, <2>3
  <2> QED
    BY <2>1, <2>2, <2>3
<1> QED
  BY <1>5, <1>7, <1>8, <1>10 DEF Launch

LEMMA LaunchHands ==
    ASSUME Orderly, NEW t \in Threads, Cur(t).op = "team", NEW s \in Subs, NEW w \in Places,
           NEW g \in Frames, NEW b \in Frames, Launch(t, s, g, b),
           s \in Cur(t).todo, g.op = "team", g.todo = Cur(t).todo \ {s},
           b.op = "begin", b.sub = s, b.station = w
    PROVE  /\ Held(s, "team", None) /\ HeldNext(s, "begin", w)
           /\ \A x \in Subs \ {s} : Hands(x)' = Hands(x)
<1>0. 2 \in Nat /\ s \in Threads /\ 0 \in Nat /\ None \in Places \cup {None} /\ w \in Places \cup {None}
  BY DEF Threads
<1>1. \A h \in HandSet : h.thread \in Threads /\ h.place \in Nat /\ h.op \in HandOps /\ h.station \in Places \cup {None}
  BY DEF HandSet
<1>2. \A x : \A h \in HandSet :
          /\ h \in Hands(x) <=> Holds(FrameAt(h.thread, h.place), x, h.op, h.station)
          /\ h \in Hands(x)' <=> Holds(FrameAt(h.thread, h.place)', x, h.op, h.station)
  BY DEF Hands, Holds
<1>3. \A x : Hands(x) \subseteq HandSet /\ Hands(x)' \subseteq HandSet
  BY DEF Hands, HandSet
<1>4. \A o, v : ~Holds(Idle, s, o, v)
  BY DEF Holds, Idle
<1>5. PICK l \in HandSet : l.thread = t /\ l.place = 2 /\ l.op = "team" /\ l.station = None
  <2>1. "team" \in HandOps
    BY DEF HandOps
  <2> QED
    BY <1>0, <2>1, HandMade
<1>6. PICK k \in HandSet : k.thread = s /\ k.place = 0 /\ k.op = "begin" /\ k.station = w
  BY <1>0, HandMade DEF HandOps
<1>7. Hands(s) = {l}
  <2>1. FrameAt(t, 2) = Cur(t)
    BY DEF Launch
  <2>2. Holds(FrameAt(l.thread, l.place), s, l.op, l.station)
    BY <1>5, <2>1 DEF Holds
  <2>3. l \in Hands(s)
    BY <1>2, <2>2
  <2>4. OneHand(s)
    BY DEF Orderly, Known, Carried
  <2> QED
    BY <2>3, <2>4 DEF OneHand
<1>8. ASSUME NEW h \in HandSet PROVE h \in Hands(s)' <=> h = k
  <2>1. CASE h.thread = t /\ h.place = 2
    <3>1. ~Holds(g, s, h.op, h.station)
      BY DEF Holds
    <3>2. h # k
      BY <1>6, <2>1
    <3> QED
      BY <1>2, <2>1, <3>1, <3>2 DEF Launch
  <2>2. CASE h.thread = s /\ h.place = 0
    <3>1. Holds(b, s, h.op, h.station) <=> h.op = "begin" /\ h.station = w
      BY DEF Holds
    <3>2. h \in Hands(s)' <=> h.op = "begin" /\ h.station = w
      BY <1>2, <2>2, <3>1 DEF Launch
    <3> QED
      BY <1>6, <2>2, <3>2, HandIs
  <2>3. CASE ~(h.thread = t /\ h.place = 2) /\ ~(h.thread = s /\ h.place = 0)
    <3>1. h \in Hands(s)' <=> h \in Hands(s)
      BY <1>1, <1>2, <2>3 DEF Launch
    <3>2. h \notin Hands(s) /\ h # k
      BY <1>5, <1>6, <1>7, <2>3
    <3> QED
      BY <3>1, <3>2
  <2> QED
    BY <2>1, <2>2, <2>3
<1>9. Hands(s)' = {k}
  BY <1>3, <1>8
<1>10. ASSUME NEW x \in Subs, x # s, NEW h \in HandSet PROVE h \in Hands(x)' <=> h \in Hands(x)
  <2>1. CASE h.thread = t /\ h.place = 2
    <3>1. Holds(g, x, h.op, h.station) <=> Holds(Cur(t), x, h.op, h.station)
      BY <1>10 DEF Holds
    <3> QED
      BY <1>2, <2>1, <3>1 DEF Launch
  <2>2. CASE h.thread = s /\ h.place = 0
    <3>1. ~Holds(b, x, h.op, h.station) /\ ~Holds(Idle, x, h.op, h.station)
      BY <1>10 DEF Holds, Idle
    <3>2. FrameAt(s, 0) = Idle /\ FrameAt(s, 0)' = b
      BY <1>0 DEF Launch
    <3> QED
      BY <1>2, <2>2, <3>1, <3>2
  <2>3. CASE ~(h.thread = t /\ h.place = 2) /\ ~(h.thread = s /\ h.place = 0)
    BY <1>1, <1>2, <2>3 DEF Launch
  <2> QED
    BY <2>1, <2>2, <2>3
<1>11. \A x \in Subs \ {s} : Hands(x)' = Hands(x)
  BY <1>3, <1>10
<1> QED
  BY <1>5, <1>6, <1>7, <1>9, <1>11 DEF Held, HeldNext

LEMMA LaunchOrderly ==
    ASSUME IInv, IInv', Orderly, NEW t \in Threads, agenda[t] # <<>>, Cur(t) \in Frames, Cur(t).op = "team",
           NEW s \in Subs, NEW w \in Stations, NEW g \in Frames, NEW b \in Frames, Launch(t, s, g, b), t = "main",
           s \in Cur(t).todo, g.op = "team", g.todo = Cur(t).todo \ {s},
           b.op = "begin", b.sub = s, b.station = w, Deps[s] = {},
           UNCHANGED <<outputs, pending, attempt, retries, crossed, takeover, localTried,
                       failure, delivery, verdict>>,
           timed \subseteq timed', home'[s] = w, \A x \in Subs \ {s} : home'[x] = home[x]
    PROVE  Orderly'
<1>0. /\ "main" \in Threads /\ "loop" \in Threads /\ s \in Threads /\ "main" # "loop"
      /\ \A x \in Subs : x # "loop" /\ x # "main"
  BY DispatchAssumption DEF Threads
<1>1. w \in Places
  BY DEF Places
<1>2. /\ Held(s, "team", None) /\ HeldNext(s, "begin", w)
      /\ \A x \in Subs \ {s} : Hands(x)' = Hands(x)
  BY <1>1, LaunchHands
<1>3. Lives
  <2> SUFFICES ASSUME NEW x \in Subs PROVE Life(x)
    BY DEF Lives
  <2>1. CASE x = s
    BY <1>2, <2>1 DEF Life, Launched, TriesSame, WorkSame
  <2>2. CASE x # s
    BY <1>2, <2>2 DEF Life, Rests, PlanSame, TriesSame, WorkSame
  <2> QED
    BY <2>1, <2>2
<1>4. ASSUME NEW x \in Subs PROVE Known(x)'
  BY <1>3, LifeGoesOn, OutputsGrow DEF Orderly, Lives
<1>5. ASSUME NEW u \in Threads, NEW e \in Nat
      PROVE  \/ FrameAt(u, e)' = FrameAt(u, e)
             \/ u = "main" /\ e = 2 /\ FrameAt(u, e)' = g /\ FrameAt(u, e) = Cur(t)
             \/ u = s /\ e = 0 /\ FrameAt(u, e)' = b /\ FrameAt(u, e) = Idle
  BY DEF Launch
<1>6. Roles'
  <2> SUFFICES ASSUME NEW u \in Threads, NEW e \in Nat PROVE Fitting(u, e, FrameAt(u, e)')
    BY DEF Roles, Fitting
  <2>1. Fitting("main", 2, g) /\ Fitting(s, 0, b)
    BY DEF Fitting, LoopOps
  <2> QED
    BY <1>5, <2>1 DEF Orderly, Roles
<1>7. FrameAt("main", 1)' = FrameAt("main", 1) /\ FrameAt("main", 1).op = "release"
  <2>1. FrameAt("main", 2).op = "team" /\ s # "main"
    BY <1>0 DEF Launch
  <2>2. 1 \in Nat /\ 1 # 2
    OBVIOUS
  <2> QED
    BY <1>0, <2>1, <2>2 DEF Orderly, TeamFirst, Launch
<1>8. TeamFirst' /\ HasRelease'
  BY <1>0, <1>7 DEF TeamFirst, HasRelease
<1>9. \A e \in Nat : FrameAt("loop", e)' = FrameAt("loop", e)
  BY <1>0, <1>5
<1>10. Delivering'
  BY <1>9 DEF Orderly, Delivering, Idle
<1>11. ASSUME NEW x \in Subs PROVE (Spare(x) /\ Freed(x) /\ Asked(x) /\ Timed(x))'
  <2>1. Spare(x)'
    <3>1. CASE x = s
      BY <1>2, <3>1 DEF Spare, HeldNext
    <3>2. CASE x # s
      <4>1. \A e \in Nat : FrameAt(x, e)' = FrameAt(x, e)
        BY <1>0, <1>5, <3>2 DEF Threads
      <4> QED
        BY <1>2, <3>2, <4>1 DEF Orderly, Spare, Idle
    <3> QED
      BY <3>1, <3>2
  <2>2. Freed(x)'
    BY <1>8 DEF Freed
  <2>3. Asked(x)'
    <3> SUFFICES ASSUME attempt[x].phase = "active", attempt[x].station \notin Stations
                 PROVE  \E u \in Threads, e \in Nat : Carries(FrameAt(u, e), x)'
      BY DEF Asked
    <3>1. PICK u \in Threads, e \in Nat : Carries(FrameAt(u, e), x)
      BY DEF Orderly, Asked
    <3>2. FrameAt(u, e)' = FrameAt(u, e)
      BY <1>5, <3>1 DEF Carries, CarryOps, Idle
    <3> QED
      BY <3>1, <3>2 DEF Carries
  <2>4. Timed(x)'
    <3>1. GivingUp => GivingUp'
      BY <1>9 DEF GivingUp
    <3> QED
      BY <3>1 DEF Orderly, Timed
  <2> QED
    BY <2>1, <2>2, <2>3, <2>4
<1> QED
  BY <1>4, <1>6, <1>8, <1>10, <1>11 DEF Orderly

LEMMA PlaceAtOrderly ==
    ASSUME IInv, IInv', Orderly, NEW t \in Threads, NEW s \in Subs, NEW w \in Stations, PlaceAt(t, s, w)
    PROVE  Orderly'
<1>1. agenda[t] # <<>> /\ Now(t) = Cur(t) /\ Cur(t).op = "team" /\ Cur(t) \in Frames
  BY Standing, AtFrame DEF PlaceAt
<1>2. /\ s \in Cur(t).todo /\ home' = [home EXCEPT ![s] = w]
      /\ UNCHANGED <<outputs, attempt, retries, crossed, takeover, localTried, failure, delivery, verdict>>
  BY <1>1 DEF PlaceAt, ending
<1>3. home'[s] = w /\ \A x \in Subs \ {s} : home'[x] = home[x]
  BY <1>2, Standing DEF BookTypes
<1>4. PICK g \in Frames : g.op = "team" /\ g.todo = Cur(t).todo \ {s} /\ g = [Cur(t) EXCEPT !.todo = @ \ {s}]
  <2>1. Cur(t) \in Frames /\ Cur(t).op = "team" /\ Cur(t).op \in {"team", "items", "reports", "poll"}
    BY <1>1
  <2> QED
    BY <2>1, LessTodo
<1>5. CASE Deps[s] # {}
  <2>1. /\ pending' = [pending EXCEPT ![s] = w] /\ timed' = timed
        /\ agenda' = [agenda EXCEPT ![t] = <<[Cur(t) EXCEPT !.todo = @ \ {s}]>> \o Tail(agenda[t])]
    BY <1>1, <1>5 DEF PlaceAt
  <2>2. pending'[s] = w /\ \A x \in Subs \ {s} : pending'[x] = pending[x]
    BY <2>1, Standing DEF BookTypes
  <2>3. Then(t, <<[Cur(t) EXCEPT !.todo = @ \ {s}]>>)
    BY <2>1 DEF Then
  <2>4. pending'[s] \in Places /\ \A x \in Subs \ {s} : PlanSame(x)
    BY <1>3, <2>2 DEF PlanSame, Places
  <2> QED
    BY <1>1, <1>2, <1>3, <1>5, <2>1, <2>3, <2>4, QueueOrderly
<1>6. CASE Deps[s] = {}
  <2>1. PICK b \in Frames : /\ b.op = "begin" /\ b.sub = s /\ b.station = w
                            /\ b = [op |-> "begin", sub |-> s, station |-> w]
    <3>1. [op |-> "begin", sub |-> s, station |-> w] \in Frames
      BY DEF Frames, Places
    <3> QED
      BY <3>1
  <2>2. /\ pending' = pending /\ timed \subseteq timed'
        /\ agenda' = [agenda EXCEPT ![t] = <<g>> \o Tail(agenda[t]), ![s] = <<b>>]
    BY <1>1, <1>4, <1>6, <2>1 DEF PlaceAt
  <2>3. /\ Len(agenda[t]) \in Nat /\ Len(agenda[t]) - 1 \in Nat /\ FrameAt(t, Len(agenda[t]) - 1) = Cur(t)
    BY <1>1, Standing, Spots, FramePlaces
  <2>4. t = "main" /\ Len(agenda[t]) - 1 = 2
    BY <1>1, <2>3 DEF Orderly, Roles, Fitting
  <2>5. Len(agenda[t]) = 3
    BY <2>3, <2>4
  <2>6. \A e \in Nat : FrameAt(s, e) = Idle
    <3>1. Sole(Cur(t), s, "team", None)
      BY <1>1, <1>2 DEF Sole, Holds, HandOps
    <3>2. Held(s, "team", None)
      BY <1>1, <3>1, CurHolds
    <3> QED
      BY <3>2 DEF Orderly, Spare, Held
  <2>7. Agendas
    BY Standing
  <2>8. s \in Threads /\ s # t
    BY <2>4, DispatchAssumption DEF Threads
  <2>9. LaunchAt(t, s, g, b)
    BY <1>1, <2>2, <2>5, <2>7, <2>8, LaunchPlaces
  <2>10. Launch(t, s, g, b)
    BY <1>1, <2>6, <2>7, <2>8, <2>9, LaunchFrames
  <2> QED
    BY <1>1, <1>2, <1>3, <1>4, <1>6, <2>1, <2>2, <2>4, <2>10, LaunchOrderly
<1> QED
  BY <1>5, <1>6

\* What is released leaves the queue.
LEMMA ReleaseOrderly ==
    ASSUME IInv, IInv', Orderly, NEW t \in Threads, Release(t)
    PROVE  Orderly'
<1>1. agenda[t] # <<>> /\ Now(t) = Cur(t) /\ Cur(t).op = "release" /\ Cur(t) \in Frames
  BY Standing, AtFrame DEF Release
<1>2. PICK items \in SUBSET [sub : Subs, station : Places] :
         items = {[sub |-> s, station |-> pending[s]] : s \in Releasable}
  <2>1. \A s \in Releasable : s \in Subs /\ pending[s] \in Places
    BY Standing DEF Releasable, BookTypes
  <2>2. {[sub |-> s, station |-> pending[s]] : s \in Releasable} \in SUBSET [sub : Subs, station : Places]
    BY <2>1
  <2> QED
    BY <2>2
<1>3. /\ UNCHANGED <<outputs, attempt, home, retries, crossed, takeover, timed, localTried, failure, delivery, verdict>>
      /\ pending' = [s \in Subs |-> IF s \in Releasable THEN None ELSE pending[s]]
      /\ Then(t, IF items = {} THEN <<>> ELSE <<[op |-> "items", todo |-> items]>>)
  BY <1>2 DEF Release, ending
<1>4. PICK g : /\ IF items = {} THEN g = Idle ELSE g \in Frames /\ g.op = "items" /\ g.todo = items
               /\ \E d \in Nat : Steps(t, d, Idle, g)
  <2>1. CASE items = {}
    <3>1. Return(t)
      BY <1>3, <2>1 DEF Return
    <3> QED
      BY <1>1, <2>1, <3>1, StepsReturn DEF Orderly
  <2>2. CASE items # {}
    <3>1. PICK g \in Frames : g.op = "items" /\ g.todo = items /\ Then(t, <<g>>)
      <4>1. [op |-> "items", todo |-> items] \in Frames
        BY TodoFrames
      <4> QED
        BY <1>3, <2>2, <4>1
    <3>2. Suits(t, g) /\ g.op # "team"
      BY <3>1, PlainFits DEF Suits, LoopOps
    <3> QED
      BY <1>1, <2>2, <3>1, <3>2, StepsOne DEF Orderly
  <2> QED
    BY <2>1, <2>2
<1>5. PICK d \in Nat : Steps(t, d, Idle, g)
  BY <1>4
<1>6. \A x : Unheld(Cur(t), x) /\ Unheld(Idle, x)
  BY <1>1, Empty
<1>7. ASSUME NEW x \in Subs PROVE Life(x)
  <2>1. CASE x \in Releasable
    <3>1. pending[x] # None /\ Deps[x] \subseteq outputs /\ pending[x] \in Places
      BY <2>1, Standing DEF Releasable, BookTypes
    <3>2. [sub |-> x, station |-> pending[x]] \in items
      BY <1>2, <2>1
    <3>3. g.op = "items" /\ g.todo = items
      BY <1>4, <3>2
    <3>4. Sole(g, x, "items", pending[x])
      <4>1. \A v : [sub |-> x, station |-> v] \in items <=> v = pending[x]
        BY <1>2, <3>2
      <4> QED
        BY <3>1, <3>3, <4>1 DEF Sole, Holds, HandOps
    <3>5. Only(x, t, d)
      BY <3>1 DEF Orderly, Known, Carried, Only
    <3>6. HeldNext(x, "items", pending[x])
      BY <1>5, <1>6, <3>4, <3>5, HandBelow DEF Steps
    <3> QED
      BY <1>3, <2>1, <3>1, <3>6 DEF Life, Released, TriesSame, WorkSame
  <2>2. CASE x \notin Releasable
    <3>1. \A v : [sub |-> x, station |-> v] \notin items
      BY <1>2, <2>2
    <3>2. Unheld(g, x)
      BY <1>4, <1>6, <3>1 DEF Unheld, Holds
    <3>3. Hands(x)' = Hands(x)
      BY <1>5, <1>6, <3>2, HandsRest DEF Unheld, Steps
    <3> QED
      BY <1>3, <2>2, <3>3 DEF Life, Rests, PlanSame, TriesSame, WorkSame
  <2> QED
    BY <2>1, <2>2
<1>8. Delivering'
  <2>1. g.op \notin Late
    BY <1>4 DEF Idle, Late
  <2> QED
    BY <1>3, <1>5, <2>1, DeliveringKept DEF Orderly
<1>9. ASSUME NEW x \in Subs PROVE (Freed(x) /\ Asked(x) /\ Timed(x))'
  <2>1. Freed(x)'
    BY <1>3 DEF Freed, Releasable
  <2>2. ~Carries(Cur(t), x) /\ Cur(t).op # "giveup"
    BY <1>1 DEF Carries, CarryOps
  <2> QED
    BY <1>3, <1>5, <2>1, <2>2, AskedKept, TimedKept DEF Orderly
<1> QED
  BY <1>5, <1>7, <1>8, <1>9, OrderlyKept DEF Lives

\* One of the released subtasks is taken up.
LEMMA ReleaseItemOrderly ==
    ASSUME IInv, IInv', Orderly, NEW t \in Threads, ReleaseItem(t)
    PROVE  Orderly'
<1>1. /\ agenda[t] # <<>> /\ Now(t) = Cur(t) /\ Cur(t).op = "items" /\ Cur(t) \in Frames
      /\ Cur(t).todo \in SUBSET [sub : Subs, station : Places]
  <2>1. agenda[t] # <<>> /\ Now(t) = Cur(t) /\ Cur(t).op = "items" /\ Cur(t) \in Frames
    BY Standing, AtFrame DEF ReleaseItem
  <2> QED
    BY <2>1, FrameFields
<1>2. UNCHANGED <<outputs, pending, attempt, home, retries, crossed, takeover, localTried, failure, delivery, verdict>>
  BY DEF ReleaseItem, ending
<1>3. Cur(t).op \notin {"release", "giveup"} \cup CarryOps
  BY <1>1 DEF CarryOps
<1>4. CASE Cur(t).todo = {} /\ Return(t) /\ timed' = timed
  <2>1. PICK d \in Nat : Steps(t, d, Idle, Idle)
    BY <1>1, <1>4, StepsReturn DEF Orderly
  <2>2. HandsRestAll(t, Idle, Idle)
    BY <1>1, <1>4, Empty DEF HandsRestAll, Unheld, Holds
  <2>3. BooksRest /\ OutsideRests /\ Idle.op \notin Late
    BY <1>2, <1>4 DEF BooksRest, BooksStand, OutsideRests, Idle, Late
  <2> QED
    BY <1>3, <2>1, <2>2, <2>3, QuietOrderly
<1>5. ASSUME NEW i \in Cur(t).todo, MaybeUnsaved(timed', timed \cup {i.sub}, timed),
             Then(t, <<[op |-> "begin", sub |-> i.sub, station |-> i.station], [Cur(t) EXCEPT !.todo = @ \ {i}]>>)
      PROVE  Orderly'
  <2>1. PICK s \in Subs, w \in Places : s = i.sub /\ w = i.station /\ i = [sub |-> s, station |-> w]
    BY <1>1
  <2>2. PICK g \in Frames : g.op = "items" /\ g.todo = Cur(t).todo \ {i} /\ g = [Cur(t) EXCEPT !.todo = @ \ {i}]
    <3>1. Cur(t) \in Frames /\ Cur(t).op = "items" /\ Cur(t).op \in {"team", "items", "reports", "poll"}
      BY <1>1
    <3>2. PICK g \in Frames : /\ g.op = Cur(t).op /\ g.todo = Cur(t).todo \ {i}
                              /\ g = [Cur(t) EXCEPT !.todo = @ \ {i}]
      BY <3>1, LessTodo
    <3> QED
      BY <3>1, <3>2
  <2>3. PICK f \in Frames : /\ f.op = "begin" /\ f.sub = s /\ f.station = w
                            /\ f = [op |-> "begin", sub |-> s, station |-> w]
    <3>1. [op |-> "begin", sub |-> s, station |-> w] \in Frames
      BY DEF Frames
    <3> QED
      BY <3>1
  <2>4. PICK d \in Nat : Steps(t, d, f, g)
    <3>1. Then(t, <<f, g>>) /\ g.op # "team" /\ f.op # "team"
      BY <1>5, <2>1, <2>2, <2>3
    <3>2. Suits(t, g) /\ \A e \in Nat : Fitting(t, e, f)
      BY <2>2, <2>3, PlainFits DEF Suits, LoopOps
    <3> QED
      BY <1>1, <3>1, <3>2, StepsTwo DEF Orderly
  <2>5. Known(s) /\ OneHand(s)
    BY DEF Orderly, Known, Carried
  <2>6. Sole(Cur(t), s, "items", w)
    <3>1. FrameAt(t, d) = Cur(t)
      BY <2>4 DEF Steps, Put, Above
    <3>2. ASSUME NEW v \in Places \cup {None}, [sub |-> s, station |-> v] \in Cur(t).todo
          PROVE  v = w
      <4>1. PICK h \in HandSet : h.thread = t /\ h.place = d /\ h.op = "items" /\ h.station = v
        BY HandMade DEF HandOps
      <4>2. PICK k \in HandSet : k.thread = t /\ k.place = d /\ k.op = "items" /\ k.station = w
        BY HandMade DEF HandOps
      <4>3. h \in Hands(s) /\ k \in Hands(s)
        BY <1>1, <2>1, <3>1, <3>2, <4>1, <4>2 DEF Hands, Holds
      <4> QED
        BY <2>5, <4>1, <4>2, <4>3 DEF OneHand
    <3> QED
      BY <1>1, <2>1, <3>2 DEF Sole, Holds, HandOps
  <2>7. Held(s, "items", w) /\ Only(s, t, d)
    BY <1>1, <2>4, <2>6, CurHolds DEF Steps
  <2>8. HeldNext(s, "begin", w)
    <3>1. Unheld(g, s)
      <4>1. \A v \in Places \cup {None} : [sub |-> s, station |-> v] \in Cur(t).todo => v = w
        BY <1>1, <2>6 DEF Sole, Holds, HandOps
      <4> QED
        BY <2>1, <2>2, <4>1 DEF Unheld, Holds
    <3>2. Sole(f, s, "begin", w)
      BY <2>3, SoleFrames
    <3> QED
      BY <2>4, <2>7, <3>1, <3>2, HandOnTop DEF Steps
  <2>9. ASSUME NEW x \in Subs PROVE Life(x)
    <3>1. CASE x = s
      BY <1>2, <2>7, <2>8, <3>1 DEF Life, Picked, PlanSame, TriesSame, WorkSame
    <3>2. CASE x # s
      <4>1. Unheld(f, x)
        BY <2>3, <3>2, OthersUnheld
      <4>2. \A o \in HandOps, v \in Places \cup {None} : Holds(g, x, o, v) <=> Holds(Cur(t), x, o, v)
        <5>1. \A v : [sub |-> x, station |-> v] # i
          BY <2>1, <3>2
        <5> QED
          BY <1>1, <2>2, <5>1 DEF Holds
      <4>3. Hands(x)' = Hands(x)
        BY <2>4, <4>1, <4>2, HandsRest DEF Steps
      <4> QED
        BY <1>2, <4>3 DEF Life, Rests, PlanSame, TriesSame, WorkSame
    <3> QED
      BY <3>1, <3>2
  <2>10. timed \subseteq timed' /\ g.op \notin Late
    BY <1>5, <2>2 DEF MaybeUnsaved, Late
  <2>11. Delivering'
    BY <1>2, <2>4, <2>10, DeliveringKept DEF Orderly
  <2>12. ASSUME NEW x \in Subs PROVE (Freed(x) /\ Asked(x) /\ Timed(x))'
    <3>1. ~Carries(Cur(t), x)
      BY <1>3 DEF Carries
    <3> QED
      BY <1>2, <1>3, <2>4, <2>10, <3>1, FreedKept, AskedKept, TimedKept DEF Orderly
  <2> QED
    BY <2>4, <2>9, <2>11, <2>12, OrderlyKept DEF Lives
<1> QED
  BY <1>1, <1>4, <1>5 DEF ReleaseItem

\* Timers have run out: the loop gives up.
LEMMA CheckTimeoutsOrderly ==
    ASSUME IInv, IInv', Orderly, NEW t \in Threads, CheckTimeouts(t)
    PROVE  Orderly'
<1>1. agenda[t] # <<>> /\ Now(t) = Cur(t) /\ Cur(t).op = "timeouts" /\ Cur(t) \in Frames
  BY Standing, AtFrame DEF CheckTimeouts
<1>2. BooksStand /\ OutsideRests
  BY DEF CheckTimeouts, BooksStand, OutsideRests, ending
<1>3. Cur(t).op \notin {"release", "giveup"} \cup CarryOps /\ Handless(Cur(t))
  BY <1>1 DEF CarryOps, Handless, HandFrames
<1>4. CASE timed' = timed /\ Return(t)
  <2>1. PICK d \in Nat : Steps(t, d, Idle, Idle)
    BY <1>1, <1>4, StepsReturn DEF Orderly
  <2>2. HandsRestAll(t, Idle, Idle) /\ Idle.op \notin Late /\ BooksRest
    BY <1>2, <1>3, <1>4, IdleHandless, NothingInHand DEF Late, BooksRest
  <2> QED
    BY <1>2, <1>3, <2>1, <2>2, QuietOrderly
<1>5. ASSUME NEW s \in Subs, Then(t, <<[op |-> "giveup", sub |-> s, cause |-> "timeout"]>>)
      PROVE  Orderly'
  <2>1. PICK g \in Frames : g.op = "giveup" /\ g.cause = "timeout" /\ Then(t, <<g>>)
    <3>1. [op |-> "giveup", sub |-> s, cause |-> "timeout"] \in Frames
      BY GiveUpFrames
    <3> QED
      BY <1>5, <3>1
  <2>2. PICK d \in Nat : Steps(t, d, Idle, g)
    <3>1. Suits(t, g) /\ g.op # "team"
      BY <1>1, <2>1 DEF Suits, Fitting, LoopOps
    <3> QED
      BY <1>1, <2>1, <3>1, StepsOne DEF Orderly
  <2>3. FrameAt(t, d) = Cur(t) /\ FrameAt(t, d)' = g
    BY <2>2 DEF Steps, Put, Above
  <2>4. t = "loop"
    BY <1>1, <2>3 DEF Orderly, Roles, Fitting, LoopOps
  <2>5. GivingUp'
    BY <2>1, <2>3, <2>4 DEF GivingUp
  <2>6. Lives
    <3>1. HandsRestAll(t, Idle, g)
      BY <1>3, <2>1, IdleHandless, NothingInHand DEF Handless
    <3> QED
      BY <1>2, <2>2, <3>1, RestsAll
  <2>7. Delivering'
    BY <1>2, <2>1, <2>2, DeliveringKept DEF Orderly, OutsideRests, BooksStand, Late
  <2>8. ASSUME NEW x \in Subs PROVE (Freed(x) /\ Asked(x) /\ Timed(x))'
    <3>1. ~Carries(Cur(t), x)
      BY <1>3 DEF Carries
    <3>2. Timed(x)'
      BY <2>5 DEF Timed
    <3> QED
      BY <1>2, <1>3, <2>2, <3>1, <3>2, FreedKept, AskedKept DEF Orderly, BooksStand
  <2> QED
    BY <2>2, <2>6, <2>7, <2>8, OrderlyKept
<1>6. timed \subseteq Subs
  BY Standing DEF BookTypes
<1>7. PICK expired \in SUBSET timed :
         /\ timed' = timed \ expired
         /\ IF expired = {}
            THEN Return(t)
            ELSE \E s \in expired : Then(t, <<[op |-> "giveup", sub |-> s, cause |-> "timeout"]>>)
  BY DEF CheckTimeouts
<1>8. CASE expired = {}
  BY <1>4, <1>7, <1>8
<1>9. CASE expired # {}
  BY <1>5, <1>6, <1>7, <1>9
<1> QED
  BY <1>8, <1>9

\* A round of the loop begins.
LEMMA LoopRoundOrderly ==
    ASSUME IInv, IInv', Orderly, NEW t \in Threads, LoopRound(t)
    PROVE  Orderly'
<1>1. agenda[t] # <<>> /\ Cur(t).op = "loop" /\ Cur(t) \in Frames
  BY Standing, AtFrame DEF LoopRound
<1>2. UNCHANGED <<outputs, pending, attempt, home, retries, crossed, takeover, localTried, timed,
                  failure, delivery, verdict>>
  BY DEF LoopRound, books, ending
<1>3. PICK f \in Frames, g \in Frames, k \in Frames :
         f.op = "poll" /\ g.op = "timeouts" /\ k.op = "count" /\ Then(t, <<f, g, k>>)
  <2>1. Outstanding \in SUBSET Requests
    BY Standing DEF Outstanding, BookTypes, Requests
  <2>2. [op |-> "poll", todo |-> Outstanding] \in Frames
    BY <2>1, TodoFrames
  <2>3. [op |-> "timeouts"] \in Frames /\ [op |-> "count"] \in Frames
    BY PlainFrames
  <2>4. Then(t, <<[op |-> "poll", todo |-> Outstanding], [op |-> "timeouts"], [op |-> "count"]>>)
    BY DEF LoopRound
  <2> QED
    BY <2>2, <2>3, <2>4
<1>4. PICK d \in Nat : /\ Above(t, d)
                       /\ FrameAt(t, d)' = k /\ FrameAt(t, d + 1)' = g /\ FrameAt(t, d + 2)' = f
                       /\ \A e \in Nat : e > d + 2 => FrameAt(t, e)' = Idle
  <2>1. Agendas
    BY Standing
  <2>2. PICK d \in Nat : PutThree(t, d, f, g, k)
    BY <1>1, <1>3, <2>1, Put3
  <2> QED
    BY <2>2 DEF PutThree
<1>5. t = "loop" /\ d = 0
  BY <1>1, <1>4 DEF Above, Orderly, Roles, Fitting, LoopOps
\* Where the frames of before and after differ, they have nothing in hand and carry nothing.
<1>6. ASSUME NEW u \in Threads, NEW e \in Nat
      PROVE  \/ FrameAt(u, e)' = FrameAt(u, e)
             \/ /\ u = t /\ FrameAt(u, e).op \in {"idle", "loop"}
                /\ \/ FrameAt(u, e)'.op = "count" /\ e = 0
                   \/ FrameAt(u, e)'.op \in {"timeouts", "poll"}
  <2>1. CASE u # t
    BY <1>4, <2>1 DEF Above
  <2>2. CASE u = t /\ e < d
    BY <1>4, <2>2 DEF Above
  <2>3. CASE u = t /\ e = d
    BY <1>1, <1>3, <1>4, <1>5, <2>3 DEF Above
  <2>4. CASE u = t /\ e > d
    <3>1. FrameAt(u, e) = Idle
      BY <1>4, <2>4 DEF Above
    <3>2. e = d + 1 \/ e = d + 2 \/ e > d + 2
      BY <2>4
    <3>3. FrameAt(u, e)' \in {g, f, Idle}
      BY <1>4, <2>4, <3>2
    <3> QED
      BY <1>3, <2>4, <3>1, <3>3 DEF Idle
  <2>5. e < d \/ e = d \/ e > d
    OBVIOUS
  <2> QED
    BY <2>1, <2>2, <2>3, <2>4, <2>5
<1>7. ASSUME NEW x \in Subs PROVE Hands(x)' = Hands(x)
  <2>1. ASSUME NEW h \in HandSet PROVE h \in Hands(x)' <=> h \in Hands(x)
    <3>1. h.thread \in Threads /\ h.place \in Nat
      BY DEF HandSet
    <3>2. /\ h \in Hands(x) <=> Holds(FrameAt(h.thread, h.place), x, h.op, h.station)
          /\ h \in Hands(x)' <=> Holds(FrameAt(h.thread, h.place)', x, h.op, h.station)
      BY DEF Hands, Holds
    <3>3. \A c : c.op \in {"idle", "loop", "count", "timeouts", "poll"} => ~Holds(c, x, h.op, h.station)
      BY DEF Holds
    <3> QED
      BY <1>6, <3>1, <3>2, <3>3
  <2>2. Hands(x) \subseteq HandSet /\ Hands(x)' \subseteq HandSet
    BY DEF Hands, HandSet
  <2> QED
    BY <2>1, <2>2
<1>8. Lives
  BY <1>2, <1>7 DEF Lives, Life, Rests, PlanSame, TriesSame, WorkSame
<1>9. ASSUME NEW x \in Subs PROVE Known(x)'
  BY <1>8, LifeGoesOn, OutputsGrow DEF Orderly, Lives
<1>10. Roles'
  <2> SUFFICES ASSUME NEW u \in Threads, NEW e \in Nat PROVE Fitting(u, e, FrameAt(u, e)')
    BY DEF Roles, Fitting
  <2>1. \A c : c.op = "count" => Fitting("loop", 0, c)
    BY DEF Fitting, LoopOps
  <2>2. \A c : c.op \in {"timeouts", "poll"} => Fitting("loop", e, c)
    BY DEF Fitting, LoopOps
  <2> QED
    BY <1>5, <1>6, <2>1, <2>2 DEF Orderly, Roles
<1>11. ASSUME NEW u \in Threads, u # "loop", NEW e \in Nat PROVE FrameAt(u, e)' = FrameAt(u, e)
  BY <1>5, <1>6, <1>11
<1>12. TeamFirst'
  <2>1. "main" \in Threads /\ "main" # "loop" /\ 1 \in Nat /\ 2 \in Nat
    BY DEF Threads
  <2> QED
    BY <1>11, <2>1 DEF Orderly, TeamFirst
<1>13. Delivering'
  <2>1. FrameAt("loop", 0)'.op \notin Late
    BY <1>3, <1>4, <1>5 DEF Late
  <2>2. verdict = None
    <3>1. FrameAt(t, d) = Cur(t) /\ Cur(t) # Idle
      BY <1>1, <1>4 DEF Above, Idle
    <3>2. FrameAt("loop", 0) # Idle
      BY <1>5, <3>1
    <3> QED
      BY <3>2 DEF Orderly, Delivering
  <2> QED
    BY <1>2, <2>1, <2>2 DEF Orderly, Delivering
<1>14. ASSUME NEW u \in Threads, NEW e \in Nat, FrameAt(u, e).op \in {"release", "giveup"} \cup CarryOps
       PROVE  FrameAt(u, e)' = FrameAt(u, e)
  BY <1>6, <1>14 DEF CarryOps
<1>15. ASSUME NEW x \in Subs PROVE (Spare(x) /\ Freed(x) /\ Asked(x) /\ Timed(x))'
  <2>1. Spare(x)'
    <3>1. x \in Threads /\ x # "loop"
      BY DispatchAssumption DEF Threads
    <3>2. \A e \in Nat : FrameAt(x, e)' = FrameAt(x, e)
      BY <1>11, <3>1
    <3> QED
      BY <1>7, <3>2 DEF Orderly, Spare, Idle
  <2>2. Freed(x)'
    <3>1. HasRelease => HasRelease'
      BY <1>14 DEF HasRelease
    <3> QED
      BY <1>2, <3>1 DEF Orderly, Freed
  <2>3. Asked(x)'
    <3> SUFFICES ASSUME attempt[x].phase = "active", attempt[x].station \notin Stations
                 PROVE  \E u \in Threads, e \in Nat : Carries(FrameAt(u, e), x)'
      BY <1>2 DEF Asked
    <3>1. PICK u \in Threads, e \in Nat : Carries(FrameAt(u, e), x)
      BY DEF Orderly, Asked
    <3>2. FrameAt(u, e)' = FrameAt(u, e)
      BY <1>14, <3>1 DEF Carries
    <3> QED
      BY <1>2, <3>1, <3>2 DEF Carries
  <2>4. Timed(x)'
    <3>1. GivingUp => GivingUp'
      BY <1>5, <1>14 DEF GivingUp
    <3> QED
      BY <1>2, <3>1 DEF Orderly, Timed
  <2> QED
    BY <2>1, <2>2, <2>3, <2>4
<1> QED
  BY <1>9, <1>10, <1>12, <1>13, <1>15 DEF Orderly

\* The last steps of the loop.
LastOps == {"aggregate", "summarise", "prepare", "deliver", "posting"}

LEMMA LateOrderly ==
    ASSUME IInv, IInv', Orderly, NEW t \in Threads, NEW d \in Nat, NEW g, Steps(t, d, Idle, g),
           Cur(t).op \in LastOps, Handless(g), BooksRest, failure' = failure, Subs \subseteq outputs,
           verdict' = "completed" => delivery' = "acknowledged",
           verdict' # verdict => g = Idle
    PROVE  Orderly'
<1>1. FrameAt(t, d) = Cur(t) /\ FrameAt(t, d)' = g
  BY DEF Steps, Put, Above
<1>2. t = "loop" /\ d = 0
  BY <1>1 DEF Orderly, Roles, Fitting, LoopOps, LastOps
<1>3. Handless(Cur(t)) /\ Cur(t).op \notin {"release", "giveup"} \cup CarryOps
  BY DEF Handless, HandFrames, LastOps, CarryOps
<1>4. HandsRestAll(t, Idle, g)
  BY <1>3, IdleHandless, NothingInHand
<1>5. verdict = None
  <2>1. FrameAt("loop", 0) # Idle
    BY <1>1, <1>2 DEF LastOps, Idle
  <2> QED
    BY <2>1 DEF Orderly, Delivering
<1>6. verdict' # None => \A e \in Nat : FrameAt("loop", e)' = Idle
  <2> SUFFICES ASSUME g = Idle, NEW e \in Nat PROVE FrameAt("loop", e)' = Idle
    BY <1>5
  <2>1. e = d \/ e = d + 1 \/ e > d + 1
    BY <1>2
  <2> QED
    BY <1>2, <2>1 DEF Steps, Put
<1>7. Delivering'
  BY <1>6 DEF Orderly, Delivering, BooksRest, BooksStand, Idle
<1>8. ASSUME NEW x \in Subs PROVE Asked(x)'
  <2>1. ~Carries(Cur(t), x)
    BY <1>3 DEF Carries
  <2> QED
    BY <2>1, AskedKept DEF Orderly, BooksRest, BooksStand
<1> QED
  BY <1>3, <1>4, <1>7, <1>8, RestsOrderly

LEMMA SuitsLast ==
    ASSUME NEW t \in Threads, Cur(t).op \in LastOps, NEW g, g.op \in LastOps
    PROVE  Suits(t, g) /\ g.op # "team" /\ Handless(g)
BY DEF Suits, Fitting, LoopOps, LastOps, Handless, HandFrames

LEMMA AggregateOrderly ==
    ASSUME IInv, IInv', Orderly, NEW t \in Threads, Aggregate(t)
    PROVE  Orderly'
<1>1. agenda[t] # <<>> /\ Cur(t).op = "aggregate" /\ Cur(t) \in Frames /\ Cur(t).op \in LastOps
  BY Standing, AtFrame DEF Aggregate, LastOps
<1>2. BooksRest /\ OutsideRests
  BY DEF Aggregate, BooksRest, BooksStand, OutsideRests, books, ending
<1>3. CASE Subs \subseteq outputs
  <2>1. PICK g \in Frames : g.op \in LastOps /\ Then(t, <<g>>)
    <3>1. Then(t, <<[op |-> IF aggregate = "stored" THEN "prepare" ELSE "summarise"]>>)
      BY <1>3 DEF Aggregate
    <3> QED
      BY <3>1, PlainFrames DEF LastOps
  <2>2. PICK d \in Nat : Steps(t, d, Idle, g)
    BY <1>1, <2>1, SuitsLast, StepsOne DEF Orderly
  <2>3. Handless(g)
    BY <1>1, <2>1, SuitsLast
  <2>4. /\ failure' = failure /\ verdict' = verdict
        /\ verdict' = "completed" => delivery' = "acknowledged"
    BY <1>2 DEF OutsideRests, Orderly, Delivering
  <2> QED
    BY <1>1, <1>2, <1>3, <2>2, <2>3, <2>4, LateOrderly
<1>4. CASE ~(Subs \subseteq outputs)
  <2>1. PICK s \in Subs : Then(t, <<[op |-> "giveup", sub |-> s, cause |-> "missing"]>>)
    BY <1>4 DEF Aggregate
  <2>2. PICK g \in Frames : g.op = "giveup" /\ g.cause = "missing" /\ Then(t, <<g>>)
    <3>1. [op |-> "giveup", sub |-> s, cause |-> "missing"] \in Frames
      BY GiveUpFrames
    <3> QED
      BY <2>1, <3>1
  <2>3. PICK d \in Nat : Steps(t, d, Idle, g)
    <3>1. Suits(t, g) /\ g.op # "team"
      BY <1>1, <2>2 DEF Suits, Fitting, LoopOps
    <3> QED
      BY <1>1, <2>2, <3>1, StepsOne DEF Orderly
  <2>4. HandsRestAll(t, Idle, g)
    BY <1>1, <2>2, IdleHandless, NothingInHand DEF Handless, HandFrames
  <2>5. Cur(t).op \notin {"release", "giveup"} \cup CarryOps /\ g.op \notin Late
    BY <1>1, <2>2 DEF CarryOps, Late
  <2> QED
    BY <1>2, <2>3, <2>4, <2>5, QuietOrderly
<1> QED
  BY <1>3, <1>4

LEMMA LateHasAll ==
    ASSUME IInv, Orderly, NEW t \in Threads, agenda[t] # <<>>, Cur(t).op \in Late
    PROVE  Subs \subseteq outputs
<1>1. PICK d \in Nat : FrameAt(t, d) = Cur(t)
  BY Standing, Spots
<1>2. t = "loop" /\ d = 0
  BY <1>1 DEF Orderly, Roles, Fitting, LoopOps, Late
<1> QED
  BY <1>1, <1>2 DEF Orderly, Delivering

LEMMA SummariseOrderly ==
    ASSUME IInv, IInv', Orderly, ~Stopped, NEW t \in Threads, Summarise(t)
    PROVE  Orderly'
<1>1. agenda[t] # <<>> /\ Cur(t).op = "summarise" /\ Cur(t) \in Frames /\ Cur(t).op \in LastOps
  BY Standing, AtFrame DEF Summarise, LastOps
<1>2. Subs \subseteq outputs
  BY <1>1, LateHasAll DEF Late
<1>3. BooksRest /\ failure' = failure /\ delivery' = delivery
  BY DEF Summarise, BooksRest, BooksStand, books
<1>4. CASE Then(t, <<[op |-> "prepare"]>>) /\ verdict' = verdict
  <2>1. PICK g \in Frames : g.op \in LastOps /\ Then(t, <<g>>)
    BY <1>4, PlainFrames DEF LastOps
  <2>2. PICK d \in Nat : Steps(t, d, Idle, g)
    BY <1>1, <2>1, SuitsLast, StepsOne DEF Orderly
  <2>3. Handless(g)
    BY <1>1, <2>1, SuitsLast
  <2>4. verdict' = "completed" => delivery' = "acknowledged"
    BY <1>3, <1>4 DEF Orderly, Delivering
  <2> QED
    BY <1>1, <1>2, <1>3, <1>4, <2>2, <2>3, <2>4, LateOrderly
<1>5. CASE Return(t) /\ verdict' = "failed"
  <2>1. PICK d \in Nat : Steps(t, d, Idle, Idle)
    BY <1>1, <1>5, StepsReturn DEF Orderly
  <2> QED
    BY <1>1, <1>2, <1>3, <1>5, <2>1, IdleHandless, LateOrderly
<1> QED
  BY <1>4, <1>5 DEF Summarise

LEMMA PrepareOrderly ==
    ASSUME IInv, IInv', Orderly, NEW t \in Threads, Prepare(t)
    PROVE  Orderly'
<1>1. agenda[t] # <<>> /\ Cur(t).op = "prepare" /\ Cur(t) \in Frames /\ Cur(t).op \in LastOps
  BY Standing, AtFrame DEF Prepare, LastOps
<1>2. Subs \subseteq outputs
  BY <1>1, LateHasAll DEF Late
<1>3. BooksRest /\ failure' = failure /\ verdict' = verdict /\ Then(t, <<[op |-> "deliver"]>>)
  BY DEF Prepare, BooksRest, BooksStand, books
<1>4. PICK g \in Frames : g.op \in LastOps /\ Then(t, <<g>>)
  BY <1>3, PlainFrames DEF LastOps
<1>5. PICK d \in Nat : Steps(t, d, Idle, g)
  BY <1>1, <1>4, SuitsLast, StepsOne DEF Orderly
<1>6. Handless(g)
  BY <1>1, <1>4, SuitsLast
<1>7. verdict # "completed"
  <2>1. PICK e \in Nat : FrameAt(t, e) = Cur(t)
    BY <1>1, Standing, Spots
  <2>2. t = "loop" /\ e = 0 /\ FrameAt(t, e) # Idle
    BY <1>1, <2>1 DEF Orderly, Roles, Fitting, LoopOps, Idle
  <2>3. verdict = None
    BY <2>2 DEF Orderly, Delivering
  <2> QED
    BY <2>3, DispatchAssumption
<1> QED
  BY <1>1, <1>2, <1>3, <1>5, <1>6, <1>7, LateOrderly

LEMMA DeliverOrderly ==
    ASSUME IInv, IInv', Orderly, NEW t \in Threads, Deliver(t)
    PROVE  Orderly'
<1>1. agenda[t] # <<>> /\ Cur(t).op = "deliver" /\ Cur(t) \in Frames /\ Cur(t).op \in LastOps
  BY Standing, AtFrame DEF Deliver, LastOps
<1>2. Subs \subseteq outputs
  BY <1>1, LateHasAll DEF Late
<1>3. BooksRest /\ failure' = failure /\ verdict' = verdict /\ Then(t, <<[op |-> "posting"]>>)
  BY DEF Deliver, BooksRest, BooksStand, books
<1>4. PICK g \in Frames : g.op \in LastOps /\ Then(t, <<g>>)
  BY <1>3, PlainFrames DEF LastOps
<1>5. PICK d \in Nat : Steps(t, d, Idle, g)
  BY <1>1, <1>4, SuitsLast, StepsOne DEF Orderly
<1>6. Handless(g)
  BY <1>1, <1>4, SuitsLast
<1>7. verdict # "completed"
  <2>1. PICK e \in Nat : FrameAt(t, e) = Cur(t)
    BY <1>1, Standing, Spots
  <2>2. t = "loop" /\ e = 0 /\ FrameAt(t, e) # Idle
    BY <1>1, <2>1 DEF Orderly, Roles, Fitting, LoopOps, Idle
  <2>3. verdict = None
    BY <2>2 DEF Orderly, Delivering
  <2> QED
    BY <2>3, DispatchAssumption
<1> QED
  BY <1>1, <1>2, <1>3, <1>5, <1>6, <1>7, LateOrderly

LEMMA PostedOrderly ==
    ASSUME IInv, IInv', Orderly, ~Stopped, NEW t \in Threads, Posted(t)
    PROVE  Orderly'
<1>1. agenda[t] # <<>> /\ Cur(t).op = "posting" /\ Cur(t) \in Frames /\ Cur(t).op \in LastOps
  BY Standing, AtFrame DEF Posted, LastOps
<1>2. Subs \subseteq outputs
  BY <1>1, LateHasAll DEF Late
<1>3. BooksRest /\ failure' = failure /\ Return(t)
  BY DEF Posted, BooksRest, BooksStand, books
<1>4. verdict' = "completed" => delivery' = "acknowledged"
  BY DEF Posted
<1>5. PICK d \in Nat : Steps(t, d, Idle, Idle)
  BY <1>1, <1>3, StepsReturn DEF Orderly
<1> QED
  BY <1>1, <1>2, <1>3, <1>4, <1>5, IdleHandless, LateOrderly

\* What the network does.
LEMMA OutsideOrderly ==
    ASSUME Orderly, UNCHANGED <<agenda, books, localTried, failure, delivery, verdict>>
    PROVE  Orderly'
<1>1. \A t, d : FrameAt(t, d)' = FrameAt(t, d)
  BY DEF FrameAt, Idle
<1>2. \A x : Hands(x)' = Hands(x)
  BY <1>1 DEF Hands, Holds
<1>3. UNCHANGED <<outputs, pending, attempt, home, retries, crossed, takeover, localTried, timed,
                  failure, delivery, verdict>>
  BY DEF books
<1>4. Roles' /\ TeamFirst' /\ Delivering'
  BY <1>1, <1>3 DEF Orderly, Roles, Fitting, TeamFirst, Delivering, Idle
<1>5. ASSUME NEW x \in Subs PROVE Known(x)'
  <2>1. Known(x)
    BY DEF Orderly
  <2>2. Carried(x)' /\ Ordered(x)'
    BY <1>2, <1>3, <2>1 DEF Known, Carried, OneHand, Ordered, NoAttempt
  <2>3. Bounded(x)' /\ LastRung(x)'
    BY <1>2, <1>3, <2>1 DEF Known, Bounded, LastRung, NoAttempt
  <2>4. AtHome(x)' /\ Somewhere(x)'
    BY <1>2, <1>3, <2>1 DEF Known, AtHome, Somewhere, Underway, Free, NoAttempt
  <2> QED
    BY <2>2, <2>3, <2>4 DEF Known
<1>6. ASSUME NEW x \in Subs PROVE (Spare(x) /\ Freed(x) /\ Asked(x) /\ Timed(x))'
  <2>1. Spare(x)'
    BY <1>1, <1>2 DEF Orderly, Spare, Idle
  <2>2. Freed(x)'
    BY <1>1, <1>3 DEF Orderly, Freed, HasRelease
  <2>3. Asked(x)'
    BY <1>1, <1>3 DEF Orderly, Asked, Carries
  <2>4. Timed(x)'
    BY <1>1, <1>3 DEF Orderly, Timed, GivingUp
  <2> QED
    BY <2>1, <2>2, <2>3, <2>4
<1> QED
  BY <1>4, <1>5, <1>6 DEF Orderly

-----------------------------------------------------------------------------
(* The first round goes on until a stop.                                   *)

LEMMA NoPreparing ==
    ASSUME IInv, Orderly, NEW t \in Threads, NEW o, At(t, o)
    PROVE  o \notin {"create", "resume", "reports"}
<1>1. agenda[t] # <<>> /\ Cur(t).op = o
  BY Standing, AtFrame
<1>2. PICK d \in Nat : FrameAt(t, d) = Cur(t)
  BY <1>1, Standing, Spots
<1> QED
  BY <1>1, <1>2 DEF Orderly, Roles, Fitting

LEMMA StepOrderly ==
    ASSUME IInv, IInv', Orderly, ~Stopped, ~Stopped', NEW t \in Threads, Step(t) \/ GlobalTimeout(t)
    PROVE  Orderly'
<1>1. ~ \E op \in StopOps : ReturnIfStopped(t, op)
  BY DEF ReturnIfStopped
<1>2. ~CreateTeam(t) /\ ~Resume(t) /\ ~Reinject(t)
  BY NoPreparing DEF CreateTeam, Resume, Reinject
<1>3. ~Retain(t)
  BY DEF Retain
<1>4. ~GiveUp(t)
  BY DEF GiveUp, Stopped
<1>5. CASE TeamComplete(t) \/ Release(t) \/ ReleaseItem(t) \/ SetReady(t)
  BY <1>5, TeamCompleteOrderly, ReleaseOrderly, ReleaseItemOrderly, SetReadyOrderly
<1>6. CASE \E s \in Subs : PlaceLocally(t, s) \/ \E w \in Stations : PlaceAt(t, s, w)
  BY <1>6, PlaceLocallyOrderly, PlaceAtOrderly
<1>7. CASE Begin(t) \/ Send(t) \/ AwaitNothing(t) \/ AwaitReceipt(t) \/ ExecuteLocally(t)
  BY <1>7, BeginOrderly, SendOrderly, AwaitNothingOrderly, AwaitReceiptOrderly, ExecuteLocallyOrderly
<1>8. CASE Receive(t) \/ Verify(t) \/ Accept(t)
  BY <1>8, ReceiveOrderly, VerifyOrderly, AcceptOrderly
<1>9. CASE HandleFailure(t) \/ (\E w \in Stations : RetryElsewhere(t, w)) \/ TakeOver(t)
  BY <1>9, HandleFailureOrderly, RetryElsewhereOrderly, TakeOverOrderly
<1>10. CASE Poll(t) \/ CheckTimeouts(t) \/ Count(t) \/ LoopRound(t) \/ GlobalTimeout(t)
  BY <1>10, PollOrderly, CheckTimeoutsOrderly, CountOrderly, LoopRoundOrderly, GlobalTimeoutOrderly
<1>11. CASE Aggregate(t) \/ Summarise(t) \/ Prepare(t) \/ Deliver(t) \/ Posted(t)
  BY <1>11, AggregateOrderly, SummariseOrderly, PrepareOrderly, DeliverOrderly, PostedOrderly
<1> QED
  BY <1>1, <1>2, <1>3, <1>4, <1>5, <1>6, <1>7, <1>8, <1>9, <1>10, <1>11 DEF Step

-----------------------------------------------------------------------------
(* Before the team is created, and right after it.                         *)

\* What a plan starts from.
Untouched ==
    /\ outputs = {} /\ dispatched = {} /\ crossed = {} /\ takeover = {}
    /\ \A s \in Subs : attempt[s] = NoAttempt /\ retries[s] = 0 /\ home[s] = Local
    /\ failure = None /\ delivery = "absent" /\ verdict = None

\* The loop waits for the main thread, or for nothing any more.
Waits(f) == f.op = "loop" \/ (f.op = "giveup" /\ f.cause = "timeout")
OnlyMain ==
    /\ FrameAt("main", 0).op = "ready" /\ Waits(FrameAt("loop", 0))
    /\ \A d \in Nat : d > 2 => FrameAt("main", d) = Idle
    /\ \A d \in Nat : d > 0 => FrameAt("loop", d) = Idle
    /\ \A t \in Threads \ {"main", "loop"}, d \in Nat : FrameAt(t, d) = Idle

Fresh ==
    /\ Untouched /\ OnlyMain /\ ~ready
    /\ FrameAt("main", 1).op = "create" /\ FrameAt("main", 2) = Idle
    /\ \A s \in Subs : pending[s] = None

TeamOfAll(f) == f.op = "team" /\ f.todo = Subs
Starting ==
    /\ Untouched /\ OnlyMain
    /\ FrameAt("main", 1).op = "release" \/ (FrameAt("main", 1) = Idle /\ Subs = {})
    /\ \/ FrameAt("main", 2) = Idle /\ \A s \in Subs : pending[s] = Local
       \/ /\ FrameAt("main", 1).op = "release" /\ TeamOfAll(FrameAt("main", 2))
          /\ \A s \in Subs : pending[s] = None

LEMMA OnlyMainFrames ==
    OnlyMain => \A t \in Threads, d \in Nat :
        \/ t = "main" /\ d \in {0, 1, 2}
        \/ t = "loop" /\ d = 0
        \/ FrameAt(t, d) = Idle
<1> SUFFICES ASSUME OnlyMain, NEW t \in Threads, NEW d \in Nat, ~(t = "main" /\ d \in {0, 1, 2}), ~(t = "loop" /\ d = 0)
             PROVE  FrameAt(t, d) = Idle
  OBVIOUS
<1>1. CASE t = "main"
  <2>1. d \notin {0, 1, 2}
    BY <1>1
  <2>2. d > 2
    BY <2>1
  <2> QED
    BY <1>1, <2>2 DEF OnlyMain
<1>2. CASE t = "loop"
  <2>1. d # 0
    BY <1>2
  <2>2. d > 0
    BY <2>1
  <2> QED
    BY <1>2, <2>2 DEF OnlyMain
<1> QED
  BY <1>1, <1>2 DEF OnlyMain

\* The hands after the start are those of the team.
LEMMA StartHands ==
    Starting => \A s \in Subs :
        /\ \A h \in Hands(s) : /\ h.thread = "main" /\ h.place = 2 /\ h.op = "team" /\ h.station = None
                               /\ TeamOfAll(FrameAt("main", 2))
        /\ TeamOfAll(FrameAt("main", 2)) => ~Free(s)
<1> SUFFICES ASSUME Starting, NEW s \in Subs
             PROVE  /\ \A h \in Hands(s) : /\ h.thread = "main" /\ h.place = 2 /\ h.op = "team" /\ h.station = None
                                           /\ TeamOfAll(FrameAt("main", 2))
                    /\ TeamOfAll(FrameAt("main", 2)) => ~Free(s)
  OBVIOUS
<1>1. ASSUME NEW h \in Hands(s)
      PROVE  /\ h.thread = "main" /\ h.place = 2 /\ h.op = "team" /\ h.station = None
             /\ TeamOfAll(FrameAt("main", 2))
  <2>1. h.thread \in Threads /\ h.place \in Nat /\ Holds(FrameAt(h.thread, h.place), s, h.op, h.station)
    BY DEF Hands, HandSet
  <2>2. ~Handless(FrameAt(h.thread, h.place))
    <3>1. h.op \in HandOps /\ h.station \in Places \cup {None}
      BY DEF Hands, HandSet
    <3> QED
      BY <2>1, <3>1, PlainUnheld DEF Unheld
  <2>3. FrameAt(h.thread, h.place) # Idle
    BY <2>2, IdleHandless
  <2>4. (h.thread = "main" /\ h.place \in {0, 1, 2}) \/ (h.thread = "loop" /\ h.place = 0)
    BY <2>1, <2>3, OnlyMainFrames DEF Starting
  <2>5. ~(h.thread = "loop" /\ h.place = 0)
    BY <2>2 DEF Starting, OnlyMain, Waits, Handless, HandFrames
  <2>6. ~(h.thread = "main" /\ h.place = 0)
    BY <2>2 DEF Starting, OnlyMain, Handless, HandFrames
  <2>7. ~(h.thread = "main" /\ h.place = 1)
    BY <2>2, <2>3 DEF Starting, Handless, HandFrames
  <2>8. h.thread = "main" /\ h.place = 2
    BY <2>4, <2>5, <2>6, <2>7
  <2>9. TeamOfAll(FrameAt("main", 2))
    BY <2>3, <2>8 DEF Starting
  <2> QED
    BY <2>1, <2>8, <2>9 DEF TeamOfAll, Holds
<1>2. ASSUME TeamOfAll(FrameAt("main", 2))
      PROVE  ~Free(s)
  <2>1. "main" \in Threads /\ 2 \in Nat /\ "team" \in HandOps /\ None \in Places \cup {None}
    BY DEF Threads, HandOps
  <2>2. PICK h \in HandSet : h.thread = "main" /\ h.place = 2 /\ h.op = "team" /\ h.station = None
    BY <2>1, HandMade
  <2>3. h \in Hands(s)
    BY <1>2, <2>2 DEF Hands, Holds, TeamOfAll
  <2> QED
    BY <2>3 DEF Free
<1> QED
  BY <1>1, <1>2

LEMMA NoMore == \A m \in Nat : 0 <= m + 2 /\ ~(0 > m) /\ ~(0 > m + 1) /\ 0 <= 0 + 1
OBVIOUS

LEMMA StartOrderly == Starting => Orderly
<1> SUFFICES ASSUME Starting PROVE Orderly
  OBVIOUS
<1>0. "main" \in Threads /\ "loop" \in Threads /\ 0 \in Nat /\ 1 \in Nat /\ 2 \in Nat
  BY DEF Threads
<1>1. Roles
  <2> SUFFICES ASSUME NEW t \in Threads, NEW d \in Nat PROVE Fitting(t, d, FrameAt(t, d))
    BY DEF Roles
  <2>1. CASE t = "main" /\ d = 0
    BY <2>1 DEF Starting, OnlyMain, Fitting, LoopOps
  <2>2. CASE t = "main" /\ d = 1
    BY <2>2, PlainFits DEF Starting, LoopOps
  <2>3. CASE t = "main" /\ d = 2
    BY <2>3, PlainFits DEF Starting, TeamOfAll, Fitting, LoopOps
  <2>4. CASE t = "loop" /\ d = 0
    BY <2>4 DEF Starting, OnlyMain, Waits, Fitting, LoopOps
  <2>5. CASE FrameAt(t, d) = Idle
    BY <2>5, PlainFits
  <2> QED
    BY <2>1, <2>2, <2>3, <2>4, <2>5, OnlyMainFrames DEF Starting
<1>2. TeamFirst
  BY DEF Starting, TeamFirst, Idle
<1>3. Delivering
  <2>1. FrameAt("loop", 0).op \notin Late
    BY DEF Starting, OnlyMain, Waits, Late
  <2>2. None # "completed"
    BY DispatchAssumption DEF DispatchAssumption
  <2> QED
    BY <2>1, <2>2 DEF Starting, Untouched, Delivering
<1>4. ASSUME NEW s \in Subs
      PROVE  Known(s) /\ Spare(s) /\ Freed(s) /\ Asked(s) /\ Timed(s)
  <2>1. /\ attempt[s] = NoAttempt /\ retries[s] = 0 /\ home[s] = Local
        /\ s \notin outputs /\ s \notin crossed /\ s \notin takeover
        /\ NoAttempt.phase = "none" /\ NoAttempt.number = 0
    BY DEF Starting, Untouched, NoAttempt
  <2>2. /\ \A h \in Hands(s) : /\ h.thread = "main" /\ h.place = 2 /\ h.op = "team" /\ h.station = None
                               /\ TeamOfAll(FrameAt("main", 2))
        /\ TeamOfAll(FrameAt("main", 2)) => ~Free(s)
    BY StartHands
  <2>3. /\ pending[s] \in {None, Local}
        /\ TeamOfAll(FrameAt("main", 2)) => pending[s] = None
        /\ pending[s] = None => TeamOfAll(FrameAt("main", 2))
    <3>1. ~TeamOfAll(Idle)
      BY DEF TeamOfAll, Idle
    <3>2. Local # None
      BY DispatchAssumption DEF DispatchAssumption
    <3> QED
      BY <3>1, <3>2 DEF Starting
  <2>4. Carried(s)
    <3>1. OneHand(s)
      <4> SUFFICES ASSUME NEW h \in Hands(s), NEW k \in Hands(s) PROVE h = k
        BY DEF OneHand
      <4>1. h \in HandSet /\ k \in HandSet
        BY DEF Hands
      <4> QED
        BY <2>2, <4>1, HandIs
    <3> QED
      BY <2>1, <2>2, <2>3, <3>1 DEF Carried, PhasesOf
  <2>5. Ordered(s)
    BY <2>1, <2>2 DEF Ordered
  <2>6. Bounded(s) /\ LastRung(s)
    <3>1. MaxRetries \in Nat
      BY DispatchAssumption DEF DispatchAssumption
    <3>2. /\ attempt[s].number <= retries[s] + 1 /\ retries[s] <= MaxRetries + 2
          /\ ~(retries[s] > MaxRetries) /\ ~(retries[s] > MaxRetries + 1)
      BY <2>1, <3>1, NoMore
    <3> QED
      BY <2>1, <2>2, <3>2 DEF Bounded, LastRung
  <2>7. AtHome(s)
    BY <2>1, <2>2, <2>3 DEF AtHome, Underway
  <2>8. Somewhere(s)
    BY <2>2, <2>3 DEF Somewhere
  <2>9. Spare(s)
    <3>1. s \in Threads \ {"main", "loop"}
      BY DispatchAssumption DEF DispatchAssumption, Threads
    <3> QED
      BY <3>1 DEF Starting, OnlyMain, Spare
  <2>10. Freed(s)
    BY <1>0 DEF Starting, Freed, HasRelease
  <2>11. Asked(s) /\ Timed(s)
    BY <2>1 DEF Asked, Timed
  <2> QED
    BY <2>4, <2>5, <2>6, <2>7, <2>8, <2>9, <2>10, <2>11 DEF Known
<1> QED
  BY <1>1, <1>2, <1>3, <1>4 DEF Orderly

\* Only the main thread and the loop have anything to do yet.
LEMMA FreshAt ==
    ASSUME IInv, Fresh, NEW t \in Threads, NEW o, At(t, o)
    PROVE  \/ t = "main" /\ o = "create"
           \/ t = "loop" /\ o \in {"loop", "giveup"}
<1>1. agenda[t] # <<>> /\ Cur(t).op = o /\ Cur(t) \in Frames
  BY Standing, AtFrame
<1>2. PICK n \in Nat : n = Len(agenda[t]) - 1 /\ FrameAt(t, n) = Cur(t)
  BY <1>1, Standing, Spots
<1>3. FrameAt(t, n) # Idle
  BY <1>1, <1>2, NotIdle
<1>4. t = "main" => n >= 1
  <2> SUFFICES ASSUME t = "main" PROVE n >= 1
    OBVIOUS
  <2>1. FrameAt(t, 1) # Idle
    BY DEF Fresh, Idle
  <2>2. 1 \in 0..n
    BY <1>2, <2>1 DEF FrameAt
  <2> QED
    BY <2>2
<1>5. CASE t = "main" /\ n \in {0, 1, 2}
  <2>1. n = 1
    <3>1. n # 2
      BY <1>3, <1>5 DEF Fresh
    <3> QED
      BY <1>4, <1>5, <3>1
  <2> QED
    BY <1>1, <1>2, <1>5, <2>1 DEF Fresh
<1>6. CASE t = "loop" /\ n = 0
  BY <1>1, <1>2, <1>6 DEF Fresh, OnlyMain, Waits
<1> QED
  BY <1>3, <1>5, <1>6, OnlyMainFrames DEF Fresh

LEMMA CreateTeamStarts ==
    ASSUME IInv, Fresh, NEW t \in Threads, CreateTeam(t)
    PROVE  Starting'
<1>1. t = "main" /\ agenda[t] # <<>> /\ Cur(t).op = "create" /\ Cur(t) \in Frames
  <2>1. At(t, "create")
    BY DEF CreateTeam
  <2>2. t = "main"
    BY <2>1, FreshAt
  <2> QED
    BY <2>1, <2>2, Standing, AtFrame
<1>2. Unplaced = Subs
  BY DEF Fresh, Untouched, Unplaced
<1>3. ASSUME NEW d \in Nat, FrameAt(t, d) = Cur(t)
      PROVE  d = 1
  <2>1. FrameAt("main", d).op = "create"
    BY <1>1, <1>3
  <2>2. d \in {0, 1, 2}
    BY <1>1, <2>1, OnlyMainFrames DEF Fresh, Idle
  <2>3. d # 0 /\ d # 2
    BY <2>1 DEF Fresh, OnlyMain, Idle
  <2> QED
    BY <2>2, <2>3
<1>4. ASSUME NEW f, NEW g, Put(t, 1, f, g)
      PROVE  OnlyMain' /\ FrameAt("main", 1)' = g /\ FrameAt("main", 2)' = f
  <2>0. "main" \in Threads /\ "loop" \in Threads /\ 0 \in Nat /\ 0 < 1 /\ 1 + 1 = 2
    BY DEF Threads
  <2>1. /\ FrameAt("main", 1)' = g /\ FrameAt("main", 2)' = f
        /\ \A e \in Nat : e > 2 => FrameAt("main", e)' = Idle
        /\ \A u \in Threads, e \in Nat : u # "main" \/ e < 1 => FrameAt(u, e)' = FrameAt(u, e)
    BY <1>1, <1>4, <2>0 DEF Put, Above
  <2>2. /\ FrameAt("main", 0)' = FrameAt("main", 0)
        /\ \A u \in Threads \ {"main"}, e \in Nat : FrameAt(u, e)' = FrameAt(u, e)
    BY <2>0, <2>1
  <2> QED
    BY <2>0, <2>1, <2>2 DEF Fresh, OnlyMain, Waits, Idle
<1>5. Untouched'
  BY DEF CreateTeam, Fresh, Untouched, ending, NoAttempt
<1>6. CASE Unplaced = {} /\ Return(t) /\ pending' = pending
  <2>1. PICK d \in Nat : Put(t, d, Idle, Idle)
    BY <1>1, Standing, Put0, <1>6
  <2>2. d = 1
    BY <1>3, <2>1 DEF Put, Above
  <2>3. OnlyMain' /\ FrameAt("main", 1)' = Idle /\ FrameAt("main", 2)' = Idle
    BY <1>4, <2>1, <2>2
  <2>4. Subs = {}
    BY <1>2, <1>6
  <2> QED
    BY <1>5, <2>3, <2>4 DEF Starting, Idle
<1>7. CASE pending' = [s \in Subs |-> Local] /\ Then(t, <<[op |-> "release"]>>)
  <2>1. PICK g \in Frames : g.op = "release" /\ Then(t, <<g>>)
    BY <1>7, PlainFrames
  <2>2. PICK d \in Nat : Put(t, d, Idle, g)
    BY <1>1, <2>1, Standing, Put1
  <2>3. d = 1
    BY <1>3, <2>2 DEF Put, Above
  <2>4. OnlyMain' /\ FrameAt("main", 1)' = g /\ FrameAt("main", 2)' = Idle
    BY <1>4, <2>2, <2>3
  <2> QED
    BY <1>5, <1>7, <2>1, <2>4 DEF Starting, Idle
<1>8. CASE pending' = pending /\ Then(t, <<[op |-> "team", todo |-> Unplaced], [op |-> "release"]>>)
  <2>1. PICK f \in Frames, g \in Frames : TeamOfAll(f) /\ g.op = "release" /\ Then(t, <<f, g>>)
    <3>1. [op |-> "team", todo |-> Subs] \in Frames /\ [op |-> "release"] \in Frames
      BY PlainFrames, TodoFrames
    <3>2. TeamOfAll([op |-> "team", todo |-> Subs])
      BY DEF TeamOfAll
    <3> QED
      BY <1>2, <1>8, <3>1, <3>2
  <2>2. PICK d \in Nat : Put(t, d, f, g)
    BY <1>1, <2>1, Standing, Put2
  <2>3. d = 1
    BY <1>3, <2>2 DEF Put, Above
  <2>4. OnlyMain' /\ FrameAt("main", 1)' = g /\ FrameAt("main", 2)' = f
    BY <1>4, <2>2, <2>3
  <2>5. \A s \in Subs : pending'[s] = None
    BY <1>8 DEF Fresh
  <2> QED
    BY <1>5, <2>1, <2>4, <2>5 DEF Starting, TeamOfAll
<1> QED
  BY <1>2, <1>6, <1>7, <1>8 DEF CreateTeam

LEMMA GlobalTimeoutFresh ==
    ASSUME IInv, Fresh, NEW t \in Threads, GlobalTimeout(t)
    PROVE  Fresh'
<1>1. t = "loop" /\ agenda[t] # <<>> /\ Cur(t).op = "loop" /\ Cur(t) \in Frames
  <2>1. At(t, "loop")
    BY DEF GlobalTimeout
  <2>2. t = "loop"
    BY <2>1, FreshAt
  <2> QED
    BY <2>1, <2>2, Standing, AtFrame
<1>2. PICK g \in Frames : Waits(g) /\ Then(t, <<g>>)
  <2>1. [op |-> "giveup", sub |-> "global", cause |-> "timeout"] \in Frames
    BY GiveUpFrames
  <2>2. Waits([op |-> "giveup", sub |-> "global", cause |-> "timeout"])
    BY DEF Waits
  <2> QED
    BY <2>1, <2>2 DEF GlobalTimeout
<1>3. PICK d \in Nat : Put(t, d, Idle, g)
  BY <1>1, <1>2, Standing, Put1
<1>4. d = 0
  <2>1. FrameAt("loop", d) # Idle
    BY <1>1, <1>3 DEF Put, Above, Idle
  <2> QED
    BY <1>1, <2>1, OnlyMainFrames DEF Fresh
<1>5. /\ FrameAt("loop", 0)' = g
      /\ \A e \in Nat : e > 0 => FrameAt("loop", e)' = Idle
      /\ \A u \in Threads \ {"loop"}, e \in Nat : FrameAt(u, e)' = FrameAt(u, e)
  <2>1. /\ FrameAt("loop", 0)' = g /\ FrameAt("loop", 0 + 1)' = Idle
        /\ \A e \in Nat : e > 0 + 1 => FrameAt("loop", e)' = Idle
        /\ \A u \in Threads \ {"loop"}, e \in Nat : FrameAt(u, e)' = FrameAt(u, e)
    BY <1>1, <1>3, <1>4 DEF Put, Above
  <2>2. \A e \in Nat : e > 0 => e = 0 + 1 \/ e > 0 + 1
    OBVIOUS
  <2> QED
    BY <2>1, <2>2
<1>6. "main" \in Threads \ {"loop"} /\ 0 \in Nat /\ 1 \in Nat /\ 2 \in Nat
  BY DEF Threads
<1>7. OnlyMain'
  BY <1>2, <1>5, <1>6 DEF Fresh, OnlyMain, Waits, Idle
<1>8. Untouched' /\ ~ready' /\ \A s \in Subs : pending'[s] = None
  BY DEF GlobalTimeout, books, ending, Fresh, Untouched, NoAttempt
<1>9. FrameAt("main", 1)'.op = "create" /\ FrameAt("main", 2)' = Idle
  BY <1>5, <1>6 DEF Fresh
<1> QED
  BY <1>7, <1>8, <1>9 DEF Fresh, Idle

LEMMA StepFresh ==
    ASSUME IInv, Fresh, ~Stopped, ~Stopped', NEW t \in Threads, Step(t) \/ GlobalTimeout(t)
    PROVE  Fresh' \/ Starting'
<1>0. \A o : At(t, o) => o \in {"create", "loop", "giveup"}
  BY FreshAt
<1>1. /\ ~At(t, "team") /\ ~At(t, "release") /\ ~At(t, "items") /\ ~At(t, "ready") /\ ~At(t, "begin")
      /\ ~At(t, "send") /\ ~At(t, "await") /\ ~At(t, "executing") /\ ~At(t, "receive") /\ ~At(t, "verify")
      /\ ~At(t, "accept") /\ ~At(t, "failed") /\ ~At(t, "elsewhere") /\ ~At(t, "poll") /\ ~At(t, "timeouts")
      /\ ~At(t, "count") /\ ~At(t, "aggregate") /\ ~At(t, "summarise") /\ ~At(t, "prepare")
      /\ ~At(t, "deliver") /\ ~At(t, "posting") /\ ~At(t, "resume") /\ ~At(t, "reports")
  BY <1>0
<1>2. ~ \E op \in StopOps : ReturnIfStopped(t, op)
  BY DEF ReturnIfStopped
<1>3. ~GiveUp(t) /\ ~LoopRound(t)
  BY DEF GiveUp, LoopRound, Stopped, Fresh
<1>4. /\ ~TeamComplete(t) /\ ~Release(t) /\ ~ReleaseItem(t) /\ ~SetReady(t)
      /\ ~ \E s \in Subs : PlaceLocally(t, s) \/ \E w \in Stations : PlaceAt(t, s, w)
  BY <1>1 DEF TeamComplete, Release, ReleaseItem, SetReady, PlaceLocally, PlaceAt
<1>5. ~Begin(t) /\ ~Send(t) /\ ~AwaitNothing(t) /\ ~AwaitReceipt(t) /\ ~ExecuteLocally(t)
  BY <1>1 DEF Begin, Send, AwaitNothing, AwaitReceipt, ExecuteLocally
<1>6. /\ ~Receive(t) /\ ~Retain(t) /\ ~Verify(t) /\ ~Accept(t)
      /\ ~HandleFailure(t) /\ ~TakeOver(t) /\ ~ \E w \in Stations : RetryElsewhere(t, w)
  BY <1>1 DEF Receive, Retain, Verify, Accept, HandleFailure, TakeOver, RetryElsewhere
<1>7. /\ ~Poll(t) /\ ~CheckTimeouts(t) /\ ~Count(t)
      /\ ~Aggregate(t) /\ ~Summarise(t) /\ ~Prepare(t) /\ ~Deliver(t) /\ ~Posted(t)
      /\ ~Resume(t) /\ ~Reinject(t)
  BY <1>1 DEF Poll, CheckTimeouts, Count, Aggregate, Summarise, Prepare, Deliver, Posted, Resume, Reinject
<1> QED
  BY <1>2, <1>3, <1>4, <1>5, <1>6, <1>7, CreateTeamStarts, GlobalTimeoutFresh DEF Step

LEMMA OutsideFresh ==
    ASSUME Fresh, UNCHANGED <<agenda, books, failure, ready, delivery, verdict>>
    PROVE  Fresh'
<1>1. \A t, d : FrameAt(t, d)' = FrameAt(t, d)
  BY DEF FrameAt, Idle
<1>2. OnlyMain'
  BY <1>1 DEF Fresh, OnlyMain, Waits, Idle
<1>3. Untouched' /\ ~ready' /\ \A s \in Subs : pending'[s] = None
  BY DEF books, Fresh, Untouched, NoAttempt
<1> QED
  BY <1>1, <1>2, <1>3 DEF Fresh, Idle

-----------------------------------------------------------------------------
(* What the first round leaves behind when it ends.                        *)

Inputs   == stop # "failed" => \A s \in Subs : attempt[s] # NoAttempt => Deps[s] \subseteq outputs
Whole    == Subs \subseteq outputs
Delivers ==
    /\ delivery # "absent" /\ failure = None => Whole
    /\ verdict = "completed" => delivery = "acknowledged" /\ failure = None /\ Whole
    /\ \A t \in Threads : Cur(t).op = "posting" /\ failure = None => Whole
Lasting ==
    /\ failure # None => stop = "failed"
    /\ Inputs /\ Delivers /\ BoundedAttempts /\ LadderComplete

LEMMA Ladder == \A n, r, m \in Nat : n <= r + 1 /\ r <= m + 2 => n <= m + 3
OBVIOUS
LEMMA NothingTried == \A m \in Nat : 0 <= m + 3
OBVIOUS

LEMMA FreshLasts == IInv /\ Fresh => Lasting
<1> SUFFICES ASSUME IInv, Fresh PROVE Lasting
  OBVIOUS
<1>1. /\ failure = None /\ delivery = "absent" /\ verdict = None /\ None # "completed"
      /\ MaxRetries \in Nat /\ \A s \in Subs : attempt[s] = NoAttempt
  BY DispatchAssumption DEF DispatchAssumption, Fresh, Untouched
<1>2. \A t \in Threads : Cur(t).op # "posting"
  <2> SUFFICES ASSUME NEW t \in Threads, Cur(t).op = "posting" PROVE FALSE
    OBVIOUS
  <2>1. At(t, "posting")
    BY DEF Cur, At
  <2> QED
    BY <2>1, FreshAt
<1>3. BoundedAttempts
  <2>1. NoAttempt.number = 0
    BY DEF NoAttempt
  <2> QED
    BY <1>1, <2>1, NothingTried DEF BoundedAttempts
<1>4. Inputs /\ LadderComplete
  BY <1>1 DEF Inputs, LadderComplete
<1>5. Delivers
  BY <1>1, <1>2 DEF Delivers
<1> QED
  BY <1>1, <1>3, <1>4, <1>5 DEF Lasting

LEMMA OrderlyLasts == IInv /\ Orderly => Lasting
<1> SUFFICES ASSUME IInv, Orderly PROVE Lasting
  OBVIOUS
<1>1. failure = None
  BY DEF Orderly, Delivering
<1>2. BoundedAttempts
  <2> SUFFICES ASSUME NEW s \in Subs PROVE attempt[s].number <= MaxRetries + 3
    BY DEF BoundedAttempts
  <2>1. attempt[s].number <= retries[s] + 1 /\ retries[s] <= MaxRetries + 2
    BY DEF Orderly, Known, Bounded
  <2>2. attempt[s].number \in Nat /\ retries[s] \in Nat /\ MaxRetries \in Nat
    BY BookHas, DispatchAssumption DEF BookOf, DispatchAssumption
  <2> QED
    BY <2>1, <2>2, Ladder
<1>3. Inputs /\ LadderComplete
  BY <1>1 DEF Orderly, Known, Ordered, Inputs, LadderComplete
<1>4. ASSUME NEW t \in Threads, Cur(t).op = "posting"
      PROVE  Whole
  <2>1. agenda[t] # <<>>
    BY <1>4 DEF Cur
  <2> QED
    BY <1>4, <2>1, LateHasAll DEF Late, Whole
<1>5. Delivers
  BY <1>1, <1>4 DEF Orderly, Delivering, Delivers, Whole
<1> QED
  BY <1>1, <1>2, <1>3, <1>5 DEF Lasting

\* A stop from outside.
LEMMA StopLasts ==
    ASSUME Lasting, NEW reason \in {"paused", "cancelled", "stopped"}, Stop(reason)
    PROVE  Lasting'
<1>1. /\ UNCHANGED <<outputs, attempt, failure, delivery, verdict, localTried, agenda>>
      /\ stop \in {"", "paused"} /\ stop' = reason
  BY DEF Stop, books
<1>2. \A t : Cur(t)' = Cur(t)
  BY <1>1 DEF Cur
<1>3. failure = None
  BY <1>1 DEF Lasting
<1>4. Inputs' /\ BoundedAttempts' /\ LadderComplete'
  BY <1>1, <1>3 DEF Lasting, Inputs, BoundedAttempts, LadderComplete, NoAttempt
<1>5. Delivers'
  BY <1>1, <1>2 DEF Lasting, Delivers, Whole
<1> QED
  BY <1>1, <1>3, <1>4, <1>5 DEF Lasting

\* A plan that is given up.
LEMMA GiveUpLasts ==
    ASSUME IInv, Fresh \/ Orderly, Lasting, NEW t \in Threads, GiveUp(t)
    PROVE  Lasting'
<1>1. agenda[t] # <<>> /\ Now(t) = Cur(t) /\ Cur(t).op = "giveup" /\ Cur(t) \in Frames
  BY Standing, AtFrame DEF GiveUp
<1>2. /\ Cur(t).sub \in Subs \cup {"global"}
      /\ Cur(t).cause \in {"unknown", "exhausted", "timeout", "missing"}
  BY <1>1, FrameFields
<1>3. /\ failure' = [sub |-> Cur(t).sub, cause |-> Cur(t).cause] /\ stop' = "failed"
      /\ UNCHANGED <<attempt, delivery, verdict, localTried>>
  BY <1>1 DEF GiveUp
<1>4. failure' # None
  BY <1>2, <1>3, DispatchAssumption DEF DispatchAssumption
<1>5. ASSUME Cur(t).cause \in {"unknown", "exhausted"}
      PROVE  Orderly /\ Cur(t).sub \in Subs /\ Cur(t).sub \notin outputs
             /\ (Cur(t).cause = "exhausted" => Cur(t).sub \in localTried)
  <2>1. PICK n \in Nat : FrameAt(t, n) = Cur(t)
    BY <1>1, Standing, Spots
  <2>2. Orderly
    <3>1. SUFFICES ASSUME Fresh PROVE FALSE
      OBVIOUS
    <3>2. t = "loop" /\ n = 0
      <4>1. t = "loop"
        BY <3>1, FreshAt DEF GiveUp
      <4>2. FrameAt(t, n) # Idle
        BY <1>1, <2>1, NotIdle
      <4> QED
        BY <3>1, <4>1, <4>2, OnlyMainFrames DEF Fresh
    <3> QED
      BY <1>1, <1>5, <2>1, <3>1, <3>2 DEF Fresh, OnlyMain, Waits
  <2>3. Cur(t).sub \in Subs
    BY <1>1, <1>5, <2>1, <2>2 DEF Orderly, Roles, Fitting
  <2>4. Sole(Cur(t), Cur(t).sub, Cur(t).cause, None)
    BY <1>1, <1>5, <2>3, SoleFrames
  <2>5. Held(Cur(t).sub, Cur(t).cause, None) /\ Known(Cur(t).sub) /\ Cur(t).sub \notin outputs
    BY <1>1, <2>2, <2>3, <2>4, CurHolds
  <2>6. Cur(t).cause = "exhausted" => Cur(t).sub \in localTried
    BY <2>5 DEF Held, Known, AtHome
  <2> QED
    BY <2>2, <2>3, <2>5, <2>6
<1>6. ASSUME verdict = "completed"
      PROVE  FALSE
  <2>1. Orderly /\ Whole /\ verdict # None
    <3>1. None # "completed"
      BY DispatchAssumption DEF DispatchAssumption
    <3> QED
      BY <1>6, <3>1 DEF Lasting, Delivers, Fresh, Untouched
  <2>2. Cur(t).cause \notin {"unknown", "exhausted"}
    BY <1>5, <2>1 DEF Whole
  <2>3. PICK n \in Nat : FrameAt(t, n) = Cur(t)
    BY <1>1, Standing, Spots
  <2>4. t = "loop"
    BY <1>1, <1>2, <2>1, <2>2, <2>3 DEF Orderly, Roles, Fitting
  <2>5. FrameAt("loop", n) = Idle
    BY <2>1 DEF Orderly, Delivering
  <2> QED
    BY <1>1, <2>3, <2>4, <2>5 DEF Idle
<1>7. LadderComplete'
  BY <1>3, <1>5 DEF LadderComplete
<1>8. Inputs' /\ BoundedAttempts'
  BY <1>3 DEF Lasting, Inputs, BoundedAttempts
<1>9. Delivers'
  BY <1>3, <1>4, <1>6 DEF Delivers
<1> QED
  BY <1>3, <1>7, <1>8, <1>9 DEF Lasting

-----------------------------------------------------------------------------
(* What it leaves behind stays: a stopped PM only lets its threads return. *)

NoNewPosting == \A u \in Threads : Cur(u)'.op = "posting" => Cur(u).op = "posting"

LEMMA PostsReturn ==
    ASSUME IInv, NEW t \in Threads, agenda[t] # <<>>, Return(t)
    PROVE  NoNewPosting
<1>1. (\A u \in Threads \ {t} : Cur(u)' = Cur(u)) /\ Resting(t)'
  BY Standing, Turned0
<1> QED
  BY <1>1 DEF NoNewPosting, Resting, RestOps

LEMMA PostsOne ==
    ASSUME IInv, NEW t \in Threads, agenda[t] # <<>>, NEW f \in Frames, Then(t, <<f>>), f.op # "posting"
    PROVE  NoNewPosting
<1>1. (\A u \in Threads \ {t} : Cur(u)' = Cur(u)) /\ Cur(t)' = f
  BY Standing, Turned1
<1> QED
  BY <1>1 DEF NoNewPosting

LEMMA PostsTwo ==
    ASSUME IInv, NEW t \in Threads, agenda[t] # <<>>, NEW f \in Frames, NEW g \in Frames, Then(t, <<f, g>>),
           f.op # "posting", g.op \in RestOps
    PROVE  NoNewPosting
<1>1. (\A u \in Threads \ {t} : Cur(u)' = Cur(u)) /\ Cur(t)' = f
  BY Standing, Turned2
<1> QED
  BY <1>1 DEF NoNewPosting

LEMMA PostsPlaceAt ==
    ASSUME IInv, NEW t \in Threads, NEW s \in Subs, NEW w \in Stations, PlaceAt(t, s, w)
    PROVE  NoNewPosting
<1>1. agenda[t] # <<>> /\ Now(t) = Cur(t) /\ Cur(t).op = "team" /\ Cur(t) \in Frames
  BY Standing, AtFrame DEF PlaceAt
<1>2. PICK g \in Frames : g.op = "team" /\ g = [Cur(t) EXCEPT !.todo = @ \ {s}]
  BY <1>1, LessTodo
<1>3. PICK b \in Frames : b.op = "begin" /\ b = [op |-> "begin", sub |-> s, station |-> w]
  <2>1. [op |-> "begin", sub |-> s, station |-> w] \in Frames
    BY DEF Frames, Places
  <2> QED
    BY <2>1
<1>4. \/ agenda' = [agenda EXCEPT ![t] = <<g>> \o Tail(agenda[t]), ![s] = <<b>>]
      \/ agenda' = [agenda EXCEPT ![t] = <<g>> \o Tail(agenda[t])]
  BY <1>1, <1>2, <1>3 DEF PlaceAt
<1>5. \A u \in Threads : \/ agenda'[u] = agenda[u]
                         \/ agenda'[u] = <<b>>
                         \/ agenda'[u] = <<g>> \o Tail(agenda[t])
  BY <1>4, Standing DEF Agendas
<1>6. Head(<<g>> \o Tail(agenda[t])) = g /\ Head(<<b>>) = b
  <2>1. PICK q \in Seq(Frames) : q = agenda[t] /\ q # <<>>
    BY <1>1, Standing DEF Agendas
  <2>2. <<g>> \in Seq(Frames) /\ Len(<<g>>) = 1 /\ <<g>>[1] = g
    OBVIOUS
  <2>3. <<g>> \o Tail(q) \in Seq(Frames) /\ \A i \in 1..Len(<<g>>) : (<<g>> \o Tail(q))[i] = <<g>>[i]
    BY <2>1, <2>2, FrameReplaced
  <2>4. (<<g>> \o Tail(q))[1] = g
    BY <2>2, <2>3
  <2> QED
    BY <2>1, <2>3, <2>4
<1> QED
  BY <1>2, <1>3, <1>5, <1>6 DEF NoNewPosting, Cur

\* A step after the stop.
Afterwards(t) ==
    /\ UNCHANGED <<outputs, failure, stop, verdict, continues, localTried>>
    /\ \A s \in Subs : attempt'[s].number = attempt[s].number /\ (attempt'[s] # NoAttempt => attempt[s] # NoAttempt)
    /\ delivery' = delivery \/ (Cur(t).op = "posting" /\ delivery' = "acknowledged")
    /\ NoNewPosting

LEMMA RetainAfter ==
    ASSUME IInv, NEW t \in Threads, Retain(t), NEW s \in Subs
    PROVE  attempt'[s].number = attempt[s].number /\ (attempt'[s] # NoAttempt => attempt[s] # NoAttempt)
<1> DEFINE x   == Now(t).sub
           new == [attempt[x] EXCEPT !.phase = "processing", !.received = Now(t).status]
<1>1. attempt' = attempt \/ (Underway(x) /\ attempt' = [attempt EXCEPT ![x] = new])
  BY DEF Retain
<1>2. attempt \in [Subs -> AttemptRecords]
  BY Standing DEF BookTypes, AttemptRecords
<1>3. x \in Subs => new.number = attempt[x].number
  BY <1>2 DEF AttemptRecords
<1>4. Underway(x) => attempt[x] # NoAttempt
  BY DEF Underway, NoAttempt
<1> HIDE DEF x, new
<1> QED
  BY <1>1, <1>2, <1>3, <1>4

LEMMA StepAfter ==
    ASSUME IInv, Stopped, NEW t \in Threads, Step(t) \/ GlobalTimeout(t)
    PROVE  Afterwards(t)
<1>1. CASE \E op \in StopOps : ReturnIfStopped(t, op)
  <2>1. agenda[t] # <<>> /\ Return(t)
    BY <1>1, Standing, AtFrame DEF ReturnIfStopped
  <2>2. NoNewPosting
    BY <2>1, PostsReturn
  <2> QED
    BY <1>1, <2>2 DEF ReturnIfStopped, Afterwards, books, ending
<1>2. CASE TeamComplete(t) \/ AwaitNothing(t)
  <2>1. agenda[t] # <<>> /\ Return(t)
    BY <1>2, Standing, AtFrame DEF TeamComplete, AwaitNothing
  <2>2. NoNewPosting
    BY <2>1, PostsReturn
  <2> QED
    BY <1>2, <2>2 DEF TeamComplete, AwaitNothing, Afterwards, books, ending
<1>3. ASSUME NEW s \in Subs, NEW w \in Stations, PlaceAt(t, s, w)
      PROVE  Afterwards(t)
  <2>1. NoNewPosting
    BY <1>3, PostsPlaceAt
  <2> QED
    BY <1>3, <2>1 DEF PlaceAt, Afterwards, ending
<1>4. CASE ReleaseItem(t)
  <2>1. agenda[t] # <<>> /\ Now(t) = Cur(t) /\ Cur(t).op = "items" /\ Cur(t) \in Frames
    BY <1>4, Standing, AtFrame DEF ReleaseItem
  <2>2. NoNewPosting
    <3>1. CASE Return(t)
      BY <2>1, <3>1, PostsReturn
    <3>2. ASSUME NEW i \in Cur(t).todo,
                 Then(t, <<[op |-> "begin", sub |-> i.sub, station |-> i.station], [Cur(t) EXCEPT !.todo = @ \ {i}]>>)
          PROVE  NoNewPosting
      <4>1. PICK g \in Frames : g.op = "items" /\ g = [Cur(t) EXCEPT !.todo = @ \ {i}]
        <5>1. Cur(t).op \in {"team", "items", "reports", "poll"}
          BY <2>1
        <5> QED
          BY <2>1, <5>1, LessTodo
      <4>2. PICK f \in Frames : f.op = "begin" /\ f = [op |-> "begin", sub |-> i.sub, station |-> i.station]
        <5>1. i.sub \in Subs /\ i.station \in Places
          BY <2>1, <3>2, FrameFields
        <5>2. [op |-> "begin", sub |-> i.sub, station |-> i.station] \in Frames
          BY <5>1 DEF Frames
        <5> QED
          BY <5>2
      <4>3. Then(t, <<f, g>>)
        BY <3>2, <4>1, <4>2
      <4> QED
        BY <2>1, <4>1, <4>2, <4>3, PostsTwo DEF RestOps
    <3> QED
      BY <1>4, <2>1, <3>1, <3>2 DEF ReleaseItem
  <2> QED
    BY <1>4, <2>2 DEF ReleaseItem, Afterwards, ending
<1>5. CASE AwaitReceipt(t) \/ ExecuteLocally(t)
  <2>1. agenda[t] # <<>> /\ Now(t) = Cur(t) /\ Cur(t).op \in {"await", "executing"} /\ Cur(t) \in Frames
    BY <1>5, Standing, AtFrame DEF AwaitReceipt, ExecuteLocally
  <2>2. PICK a \in Terminal :
           Then(t, <<[op |-> "receive", sub |-> Cur(t).sub, number |-> Cur(t).number, status |-> a]>>)
    BY <1>5, <2>1 DEF AwaitReceipt, ExecuteLocally, Answers, Terminal
  <2>3. Cur(t).sub \in Subs /\ Cur(t).number \in Nat
    BY <2>1, FrameFields
  <2>4. PICK g \in Frames : /\ g = [op |-> "receive", sub |-> Cur(t).sub, number |-> Cur(t).number, status |-> a]
                            /\ g.op = "receive"
    BY <2>3, ReceiveFrame
  <2>5. NoNewPosting
    BY <2>1, <2>2, <2>4, PostsOne
  <2> QED
    BY <1>5, <2>5 DEF AwaitReceipt, ExecuteLocally, Afterwards, books, ending
<1>6. CASE Retain(t)
  <2>1. agenda[t] # <<>> /\ Return(t)
    BY <1>6, Standing, AtFrame DEF Retain
  <2>2. NoNewPosting
    BY <2>1, PostsReturn
  <2>3. UNCHANGED <<outputs, failure, stop, verdict, continues, localTried, delivery>>
    BY <1>6 DEF Retain, ending
  <2> QED
    BY <1>6, <2>2, <2>3, RetainAfter DEF Afterwards
<1>7. CASE Accept(t)
  <2>1. agenda[t] # <<>> /\ Return(t)
    BY <1>7, Standing, AtFrame DEF Accept
  <2>2. NoNewPosting
    BY <2>1, PostsReturn
  <2> QED
    BY <1>7, <2>2 DEF Accept, Afterwards, ending
<1>8. CASE Summarise(t)
  <2>1. agenda[t] # <<>> /\ Return(t)
    BY <1>8, Standing, AtFrame DEF Summarise
  <2>2. NoNewPosting
    BY <2>1, PostsReturn
  <2> QED
    BY <1>8, <2>2 DEF Summarise, Afterwards, books
<1>9. CASE Posted(t)
  <2>1. agenda[t] # <<>> /\ Return(t) /\ Cur(t).op = "posting"
    BY <1>9, Standing, AtFrame DEF Posted
  <2>2. NoNewPosting
    BY <2>1, PostsReturn
  <2> QED
    BY <1>9, <2>1, <2>2 DEF Posted, Afterwards, books
<1>10. /\ ~CreateTeam(t) /\ ~Release(t) /\ ~SetReady(t) /\ ~ \E s \in Subs : PlaceLocally(t, s)
       /\ ~Begin(t) /\ ~Send(t) /\ ~Receive(t) /\ ~Verify(t)
  BY DEF CreateTeam, Release, SetReady, PlaceLocally, Begin, Send, Receive, Verify
<1>11. /\ ~HandleFailure(t) /\ ~TakeOver(t) /\ ~GiveUp(t) /\ ~ \E w \in Stations : RetryElsewhere(t, w)
       /\ ~Poll(t) /\ ~CheckTimeouts(t) /\ ~Count(t) /\ ~LoopRound(t) /\ ~GlobalTimeout(t)
  BY DEF HandleFailure, TakeOver, GiveUp, RetryElsewhere, Poll, CheckTimeouts, Count, LoopRound, GlobalTimeout
<1>12. ~Aggregate(t) /\ ~Prepare(t) /\ ~Deliver(t) /\ ~Resume(t) /\ ~Reinject(t)
  BY DEF Aggregate, Prepare, Deliver, Resume, Reinject
<1> QED
  BY <1>1, <1>2, <1>3, <1>4, <1>5, <1>6, <1>7, <1>8, <1>9, <1>10, <1>11, <1>12 DEF Step

LEMMA LastsAfter ==
    ASSUME Lasting, NEW t \in Threads, Afterwards(t)
    PROVE  Lasting'
<1>1. /\ UNCHANGED <<outputs, failure, stop, verdict, localTried>>
      /\ \A s \in Subs : attempt'[s].number = attempt[s].number /\ (attempt'[s] # NoAttempt => attempt[s] # NoAttempt)
      /\ delivery' = delivery \/ (Cur(t).op = "posting" /\ delivery' = "acknowledged")
      /\ NoNewPosting
  BY DEF Afterwards
<1>2. Inputs'
  BY <1>1 DEF Lasting, Inputs, NoAttempt
<1>3. BoundedAttempts' /\ LadderComplete'
  BY <1>1 DEF Lasting, BoundedAttempts, LadderComplete
<1>4. Delivers'
  BY <1>1 DEF Lasting, Delivers, Whole, NoNewPosting
<1> QED
  BY <1>1, <1>2, <1>3, <1>4 DEF Lasting

-----------------------------------------------------------------------------
(* The invariant of the first round.                                       *)

FirstRound == continues = 0 => Lasting /\ (Stopped \/ Fresh \/ Orderly)

LEMMA InitFresh == Init => Fresh
<1> SUFFICES ASSUME Init PROVE Fresh
  OBVIOUS
<1> DEFINE c == [op |-> "create"]
           r == [op |-> "ready"]
           l == [op |-> "loop"]
<1>1. c \in Frames /\ r \in Frames /\ l \in Frames /\ c.op = "create" /\ r.op = "ready" /\ l.op = "loop"
  BY PlainFrames
<1>2. agenda = [t \in Threads |-> CASE t = "main" -> <<c, r>> [] t = "loop" -> <<l>> [] OTHER -> <<>>]
  BY DEF Init
<1> HIDE DEF c, r, l
<1>3. /\ agenda["main"] = <<c, r>> /\ agenda["loop"] = <<l>>
      /\ \A t \in Threads \ {"main", "loop"} : agenda[t] = <<>>
  BY <1>2 DEF Threads
<1>4. /\ Len(<<c, r>>) = 2 /\ <<c, r>>[1] = c /\ <<c, r>>[2] = r
      /\ Len(<<l>>) = 1 /\ <<l>>[1] = l /\ Len(<<>>) = 0
  BY EmptySeq
<1>5. /\ FrameAt("main", 0) = r /\ FrameAt("main", 1) = c
      /\ \A d \in Nat : d > 1 => FrameAt("main", d) = Idle
  <2>1. Len(agenda["main"]) = 2
    BY <1>3, <1>4
  <2>2. \A d \in Nat : FrameAt("main", d) = IF d \in 0..1 THEN agenda["main"][2 - d] ELSE Idle
    BY <2>1 DEF FrameAt
  <2>3. 0 \in 0..1 /\ 1 \in 0..1 /\ 2 - 0 = 2 /\ 2 - 1 = 1 /\ \A d \in Nat : d > 1 => d \notin 0..1
    OBVIOUS
  <2> QED
    BY <1>3, <1>4, <2>2, <2>3
<1>6. FrameAt("loop", 0) = l /\ \A d \in Nat : d > 0 => FrameAt("loop", d) = Idle
  <2>1. Len(agenda["loop"]) = 1
    BY <1>3, <1>4
  <2>2. \A d \in Nat : FrameAt("loop", d) = IF d \in 0..0 THEN agenda["loop"][1 - d] ELSE Idle
    BY <2>1 DEF FrameAt
  <2>3. 0 \in 0..0 /\ 1 - 0 = 1 /\ \A d \in Nat : d > 0 => d \notin 0..0
    OBVIOUS
  <2> QED
    BY <1>3, <1>4, <2>2, <2>3
<1>7. \A t \in Threads \ {"main", "loop"}, d \in Nat : FrameAt(t, d) = Idle
  <2> TAKE t \in Threads \ {"main", "loop"}, d \in Nat
  <2>1. Len(agenda[t]) = 0
    BY <1>3, <1>4
  <2>2. d \notin 0..Len(agenda[t]) - 1
    BY <2>1
  <2> QED
    BY <2>2 DEF FrameAt
<1>8. 2 > 1 /\ \A d \in Nat : d > 2 => d > 1
  OBVIOUS
<1>9. OnlyMain
  BY <1>1, <1>5, <1>6, <1>7, <1>8 DEF OnlyMain, Waits
<1>10. Untouched /\ ~ready /\ \A s \in Subs : pending[s] = None
  BY DEF Init, Untouched
<1> QED
  BY <1>1, <1>5, <1>8, <1>9, <1>10 DEF Fresh

LEMMA WorkGoesOn ==
    ASSUME IInv, IInv', ~Stopped, ~Stopped', Fresh \/ Orderly,
           NEW t \in Threads, Step(t) \/ GlobalTimeout(t)
    PROVE  Fresh' \/ Orderly'
<1>1. Starting' => Orderly'
  BY StartOrderly, PTL
<1> QED
  BY <1>1, StepFresh, StepOrderly

LEMMA OneContinuation == \A n \in Nat : n + 1 # 0
OBVIOUS

LEMMA StepFirstRound == IInv /\ IInv' /\ FirstRound /\ [Next]_vars => FirstRound'
<1> SUFFICES ASSUME IInv, IInv', FirstRound, [Next]_vars, continues' = 0
             PROVE  Lasting' /\ (Stopped' \/ Fresh' \/ Orderly')
  BY DEF FirstRound
<1>1. ~Continue
  <2>1. continues \in Nat
    <3>1. continues \in 0..MaxContinues /\ MaxContinues \in Nat
      BY Standing, DispatchAssumption DEF EndTypes, DispatchAssumption
    <3> QED
      BY <3>1
  <2> QED
    BY <2>1, OneContinuation DEF Continue
<1>2. continues = 0
  <2>1. ASSUME NEW t \in Threads, Step(t) \/ GlobalTimeout(t)
        PROVE  continues' = continues
    BY <2>1 DEF Step, ReturnIfStopped, CreateTeam, TeamComplete, PlaceLocally, PlaceAt, Release, ReleaseItem,
                SetReady, Begin, Send, AwaitNothing, AwaitReceipt, ExecuteLocally, Receive, Retain, Verify,
                Accept, HandleFailure, RetryElsewhere, TakeOver, GiveUp, Poll, CheckTimeouts, Count, LoopRound,
                GlobalTimeout, Aggregate, Summarise, Prepare, Deliver, Posted, Resume, Reinject, ending
  <2> QED
    BY <1>1, <2>1 DEF Next, Stop, Arrive, RunEnds, vars, ending
<1>3. Lasting /\ (Stopped \/ Fresh \/ Orderly)
  BY <1>2 DEF FirstRound
<1>4. Fresh' \/ Orderly' => Lasting'
  BY FreshLasts, OrderlyLasts, PTL
<1>5. ASSUME NEW t \in Threads, Step(t) \/ GlobalTimeout(t)
      PROVE  Lasting' /\ (Stopped' \/ Fresh' \/ Orderly')
  <2>1. CASE Stopped
    <3>1. Afterwards(t)
      BY <1>5, <2>1, StepAfter
    <3> QED
      BY <1>3, <2>1, <3>1, LastsAfter DEF Afterwards, Stopped
  <2>2. CASE ~Stopped /\ ~Stopped'
    BY <1>3, <1>4, <1>5, <2>2, WorkGoesOn
  <2>3. CASE ~Stopped /\ Stopped'
    <3>1. GiveUp(t)
      BY <1>5, <2>3
         DEF Stopped, Step, ReturnIfStopped, CreateTeam, TeamComplete, PlaceLocally, PlaceAt, Release, ReleaseItem,
             SetReady, Begin, Send, AwaitNothing, AwaitReceipt, ExecuteLocally, Receive, Retain, Verify,
             Accept, HandleFailure, RetryElsewhere, TakeOver, Poll, CheckTimeouts, Count, LoopRound,
             GlobalTimeout, Aggregate, Summarise, Prepare, Deliver, Posted, Resume, Reinject, ending
    <3> QED
      BY <1>3, <2>3, <3>1, GiveUpLasts
  <2> QED
    BY <2>1, <2>2, <2>3
<1>6. ASSUME NEW reason \in {"paused", "cancelled", "stopped"}, Stop(reason)
      PROVE  Lasting' /\ Stopped'
  BY <1>3, <1>6, StopLasts DEF Stop, Stopped
<1>7. ASSUME UNCHANGED <<agenda, books, ending, localTried>>
      PROVE  Lasting' /\ (Stopped' \/ Fresh' \/ Orderly')
  <2>1. UNCHANGED <<failure, ready, delivery, verdict, stop>>
    BY <1>7 DEF ending
  <2>2. CASE Fresh \/ Orderly
    BY <1>4, <1>7, <2>1, <2>2, OutsideFresh, OutsideOrderly
  <2>3. CASE Stopped
    <3>1. Stopped'
      BY <2>1, <2>3 DEF Stopped
    <3>2. UNCHANGED <<outputs, attempt, failure, delivery, verdict, localTried, agenda, stop>>
      BY <1>7, <2>1 DEF books
    <3>3. \A u : Cur(u)' = Cur(u)
      BY <3>2 DEF Cur
    <3>4. Inputs' /\ BoundedAttempts' /\ LadderComplete'
      BY <1>3, <3>2 DEF Lasting, Inputs, BoundedAttempts, LadderComplete, NoAttempt
    <3>5. Delivers'
      BY <1>3, <3>2, <3>3 DEF Lasting, Delivers, Whole
    <3> QED
      BY <1>3, <3>1, <3>2, <3>4, <3>5 DEF Lasting
  <2> QED
    BY <1>3, <2>2, <2>3
<1>8. ASSUME (\E m \in wire : Arrive(m)) \/ (\E r \in runs : RunEnds(r)) \/ UNCHANGED vars
      PROVE  UNCHANGED <<agenda, books, ending, localTried>>
  BY <1>8 DEF Arrive, RunEnds, vars
<1> QED
  BY <1>1, <1>5, <1>6, <1>7, <1>8 DEF Next

LEMMA AlwaysFirstRound == Spec => []FirstRound
<1>1. Init => FirstRound
  BY InitIInv, InitFresh, FreshLasts DEF FirstRound
<1>2. IInv /\ IInv' /\ FirstRound /\ [Next]_vars => FirstRound'
  BY StepFirstRound
<1> QED
  BY <1>1, <1>2, Inductive, PTL DEF Spec

-----------------------------------------------------------------------------
(* What holds until the PM is continued.                                   *)

\* A subtask is attempted only on top of accepted outputs of everything it depends on, and what
\* counts as an output is the completed result of the last attempt.
THEOREM InputsAreGenuine == Spec => []InputsGenuine
<1>1. IInv /\ FirstRound => InputsGenuine
  BY DEF IInv, Parts, FirstRound, Lasting, Inputs, InputsGenuine, DependenciesFirst
<1> QED
  BY <1>1, Inductive, AlwaysFirstRound, PTL

\* What is delivered has an output for every subtask, and success is claimed only with the
\* Secretary's acknowledgement.
THEOREM DeliversWhole == Spec => []DeliveryComplete
<1>1. FirstRound => DeliveryComplete
  BY DEF FirstRound, Lasting, Delivers, Whole, DeliveryComplete
<1> QED
  BY <1>1, AlwaysFirstRound, PTL

\* The retries of a subtask are bounded, and it is not given up as exhausted before the PM has
\* tried it itself.
THEOREM LadderHolds == Spec => []LadderKept
<1>1. FirstRound => LadderKept
  BY DEF FirstRound, Lasting, LadderKept
<1> QED
  BY <1>1, AlwaysFirstRound, PTL

LEMMA QuietFrames ==
    ASSUME IInv, Quiet, NEW t \in Threads, NEW d \in Nat
    PROVE  FrameAt(t, d) = Idle \/ FrameAt(t, d).op = "loop"
<1>1. agenda[t] = IF t = "loop" THEN <<[op |-> "loop"]>> ELSE <<>>
  BY DEF Quiet
<1>2. CASE t = "loop"
  <2>1. Len(agenda[t]) = 1 /\ agenda[t][1] = [op |-> "loop"]
    BY <1>1, <1>2
  <2>2. d \in 0..Len(agenda[t]) - 1 => Len(agenda[t]) - d = 1
    BY <2>1
  <2> QED
    BY <2>1, <2>2 DEF FrameAt
<1>3. CASE t # "loop"
  BY <1>1, <1>3, Standing, Spots
<1> QED
  BY <1>2, <1>3

LEMMA QuietComplete == IInv /\ FirstRound => NothingForgotten
<1> SUFFICES ASSUME IInv, FirstRound, continues = 0, Quiet, NEW s \in Subs
             PROVE  \/ s \in outputs
                    \/ pending[s] # None /\ ~(Deps[s] \subseteq outputs)
                    \/ attempt[s].phase = "active" /\ attempt[s].station \in Stations /\ s \in timed
  BY DEF NothingForgotten
<1>1. \A t \in Threads, d \in Nat : FrameAt(t, d) = Idle \/ FrameAt(t, d).op = "loop"
  BY QuietFrames
<1>2. Orderly
  <2>1. ~Stopped /\ ready
    BY DEF Quiet
  <2> QED
    BY <2>1 DEF FirstRound, Fresh
<1>3. \A t \in Threads, d \in Nat : Handless(FrameAt(t, d))
  BY <1>1, IdleHandless DEF Handless, HandFrames
<1>4. Free(s)
  <2> SUFFICES ASSUME NEW h \in Hands(s) PROVE FALSE
    BY DEF Free
  <2>1. /\ h.thread \in Threads /\ h.place \in Nat /\ h.op \in HandOps /\ h.station \in Places \cup {None}
        /\ Holds(FrameAt(h.thread, h.place), s, h.op, h.station)
    BY DEF Hands, HandSet
  <2> QED
    BY <1>3, <2>1, PlainUnheld DEF Unheld
<1>5. ~HasRelease
  BY <1>1 DEF HasRelease, Idle
<1>6. ~GivingUp
  <2>1. "loop" \in Threads
    BY DEF Threads
  <2> QED
    BY <1>1, <2>1 DEF GivingUp, Idle
<1>7. ~ \E t \in Threads, d \in Nat : Carries(FrameAt(t, d), s)
  BY <1>1 DEF Carries, CarryOps, Idle
<1>8. CASE attempt[s].phase = "active"
  BY <1>2, <1>6, <1>7, <1>8 DEF Orderly, Asked, Timed
<1>9. CASE attempt[s].phase # "active"
  BY <1>2, <1>4, <1>5, <1>9 DEF Orderly, Known, Somewhere, Freed
<1> QED
  BY <1>8, <1>9

\* No subtask is forgotten: when nothing is in progress in the PM, what has no output waits for a
\* dependency, or for a station under a running timer.
THEOREM ForgetsNothing == Spec => []NothingForgotten
BY QuietComplete, Inductive, AlwaysFirstRound, PTL
=============================================================================
