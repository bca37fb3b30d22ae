-------------------------- MODULE UsageReportProofs --------------------------
(***************************************************************************)
(* No call is counted twice at the Secretary, for any number of calls,     *)
(* reloads and faults; and over HTTP alone none is marked as reported      *)
(* before an active Secretary has processed it, because without the        *)
(* library the other thread is never started.                              *)
(***************************************************************************)
EXTENDS UsageReport, SequenceTheorems, TLAPS

Counts == table \in [Usages -> {0, 1}]

\* Without the library there is no WebSocket thread.
NoPusher == ~wsOn => pusher = "off"

IInv == TypeOK /\ Counts /\ NoPusher /\ MarkedIsSeen

LEMMA BoundsBegin == 0 \in 0..MaxReloads /\ 0 \in 0..MaxFaults
BY UsageAssumption

LEMMA InitIInv == Init => IInv
<1> SUFFICES ASSUME Init PROVE IInv
  OBVIOUS
<1> USE DEF Init
<1>1. up \in Seq(SUBSET Usages) /\ down \in Seq({"ok", "no", "ping"})
  <2>1. up = <<>> /\ down = <<>>
    OBVIOUS
  <2> QED
    BY <2>1, EmptySeq
<1>2. reloads \in 0..MaxReloads /\ faults \in 0..MaxFaults
  <2>1. reloads = 0 /\ faults = 0
    OBVIOUS
  <2> QED
    BY <2>1, BoundsBegin
<1>3. TypeOK
  <2>1. rows \in [Usages -> {"", "new", "reported"}] /\ table \in [Usages -> 0..2]
    <3> HIDE DEF Init
    <3>1. rows = [u \in Usages |-> ""]
      BY DEF Init
    <3>2. table = [u \in Usages |-> 0]
      BY DEF Init
    <3>3. rows \in [Usages -> {"", "new", "reported"}]
      BY <3>1
    <3>4. table \in [Usages -> 0..2]
      BY <3>2
    <3> QED
      BY <3>3, <3>4
  <2>2. /\ wsOn \in BOOLEAN /\ inYaml \in BOOLEAN /\ target \in BOOLEAN
        /\ loading \in BOOLEAN /\ stop \in BOOLEAN /\ fresh \in BOOLEAN /\ active \in BOOLEAN
    OBVIOUS
  <2>3. /\ reporter \in {"off", "wait", "ending", "post"}
        /\ pusher \in {"off", "down", "idle", "await", "closing", "ending"}
        /\ post \subseteq Usages /\ push \subseteq Usages /\ seen \subseteq Usages
    OBVIOUS
  <2> QED
    BY <1>1, <1>2, <2>1, <2>2, <2>3 DEF TypeOK
<1> QED
  BY <1>3 DEF IInv, Counts, NoPusher, MarkedIsSeen

\* The queues of the connection.
LEMMA Queued == \A q, b : q \in Seq(SUBSET Usages) /\ b \in SUBSET Usages => Append(q, b) \in Seq(SUBSET Usages)
BY AppendProperties

LEMMA Unqueued ==
    ASSUME NEW S, NEW q \in Seq(S), q # <<>>
    PROVE  Head(q) \in S /\ Tail(q) \in Seq(S)
BY HeadTailProperties

LEMMA Told == \A q, m : q \in Seq({"ok", "no", "ping"}) /\ m \in {"ok", "no", "ping"}
                  => Append(q, m) \in Seq({"ok", "no", "ping"})
BY AppendProperties

\* The bound on faults is kept.
LEMMA FaultsBounded ==
    ASSUME TypeOK, Fault \/ UNCHANGED faults
    PROVE  faults' \in 0..MaxFaults
<1>1. faults \in 0..MaxFaults
  BY DEF TypeOK
<1>2. CASE Fault
  <2>1. faults < MaxFaults /\ faults' = faults + 1
    BY <1>2 DEF Fault
  <2> QED
    BY <1>1, <2>1, UsageAssumption
<1>3. CASE UNCHANGED faults
  BY <1>1, <1>3
<1> QED
  BY <1>2, <1>3

\* What the Secretary stores is counted once and has been processed.
LEMMA StoreKeeps ==
    ASSUME IInv, NEW batch \in SUBSET Usages, Store(batch)
    PROVE  Counts' /\ table' \in [Usages -> 0..2] /\ seen' = seen \cup batch
BY DEF IInv, Counts, Store, Insert

LEMMA ApplyKeeps ==
    ASSUME IInv, NEW batch \in SUBSET Usages, Apply(batch)
    PROVE  /\ Counts' /\ table' \in [Usages -> 0..2]
           /\ seen' = seen \cup batch /\ faults' \in 0..MaxFaults
<1>1. CASE Store(batch) /\ UNCHANGED faults
  BY <1>1, StoreKeeps, FaultsBounded DEF IInv
<1>2. CASE Fault /\ seen' = seen \cup batch /\ UNCHANGED table
  BY <1>2, FaultsBounded DEF IInv, Counts, TypeOK
<1> QED
  BY <1>1, <1>2 DEF Apply

\* Marking rows marks no others.
LEMMA Marks ==
    ASSUME IInv, NEW batch \in SUBSET Usages, MarkReported(batch)
    PROVE  /\ rows' \in [Usages -> {"", "new", "reported"}]
           /\ \A u \in Usages : rows'[u] = "reported" => rows[u] = "reported" \/ u \in batch
BY DEF IInv, TypeOK, MarkReported

\* The threads come and go; only with the library is there one for the WebSocket.
LEMMA ThreadsKeep ==
    ASSUME IInv, Load \/ Loaded \/ StartPM \/ ThreadEnds
    PROVE  IInv'
<1> USE DEF IInv
<1>1. UNCHANGED <<wsOn, inYaml, rows, post, push, up, down, fresh, active, table, seen, faults>>
  BY DEF Load, Loaded, StartPM, ThreadEnds, settings, secretary
<1>2. /\ target' \in BOOLEAN /\ loading' \in BOOLEAN /\ stop' \in BOOLEAN
      /\ reloads' \in 0..MaxReloads
      /\ reporter' \in {"off", "wait", "ending", "post"}
      /\ pusher' \in {"off", "down", "idle", "await", "closing", "ending"}
      /\ NoPusher'
  <2>1. CASE Load
    <3>1. reloads' \in 0..MaxReloads
      <4>1. reloads \in 0..MaxReloads
        BY DEF TypeOK
      <4>2. reloads < MaxReloads /\ reloads' = reloads + 1
        BY <2>1 DEF Load
      <4> QED
        BY <4>1, <4>2, UsageAssumption
    <3>2. reporter' \in {"off", "wait", "ending", "post"}
      BY <2>1 DEF Load, TypeOK
    <3>3. /\ pusher' = pusher \/ pusher' \in {"closing", "ending", "down"}
          /\ pusher = "off" => pusher' = "off"
      BY <2>1 DEF Load, TypeOK
    <3>4. target' \in BOOLEAN /\ loading' = TRUE /\ stop' = TRUE
      BY <2>1 DEF Load, TypeOK
    <3> QED
      BY <1>1, <3>1, <3>2, <3>3, <3>4 DEF TypeOK, NoPusher
  <2>2. CASE Loaded
    BY <1>1, <2>2 DEF Loaded, SetTarget, TypeOK, NoPusher
  <2>3. CASE StartPM
    BY <1>1, <2>3 DEF StartPM, SetTarget, TypeOK, NoPusher
  <2>4. CASE ThreadEnds
    BY <1>1, <2>4 DEF ThreadEnds, life, TypeOK, NoPusher
  <2> QED
    BY <2>1, <2>2, <2>3, <2>4
<1>3. TypeOK'
  BY <1>1, <1>2 DEF TypeOK
<1> QED
  BY <1>1, <1>2, <1>3 DEF Counts, MarkedIsSeen

\* A call is logged, or the Secretary is replaced.
LEMMA OutsideKeeps ==
    ASSUME IInv, Election \/ \E u \in Usages : Record(u)
    PROVE  IInv'
<1> USE DEF IInv
<1>1. CASE Election
  <2>1. TypeOK'
    BY ZenonT(40), <1>1, FaultsBounded DEF Election, TypeOK, settings, life, http, ws
  <2> QED
    BY <1>1, <2>1 DEF Election, Counts, NoPusher, MarkedIsSeen, settings, life, http, ws
<1>2. CASE \E u \in Usages : Record(u)
  <2>1. TypeOK'
    BY ZenonT(40), <1>2 DEF Record, TypeOK, settings, life, http, ws, secretary
  <2>2. PICK u \in Usages : rows' = [rows EXCEPT ![u] = "new"] /\ UNCHANGED <<wsOn, pusher, table, seen>>
    BY <1>2 DEF Record, settings, ws, secretary
  <2>3. \A v \in Usages : rows'[v] = "reported" => rows[v] = "reported"
    BY <2>2 DEF TypeOK
  <2> QED
    BY <2>1, <2>2, <2>3 DEF Counts, NoPusher, MarkedIsSeen
<1> QED
  BY <1>1, <1>2

\* The rows of a post are marked when the Secretary has processed them.
LEMMA PostKeeps ==
    ASSUME IInv, PostBegins \/ PostAnswered \/ PostFails
    PROVE  IInv'
<1> USE DEF IInv
<1>1. CASE PostBegins
  <2>1. Unreported \in SUBSET Usages
    BY DEF Unreported
  <2>2. TypeOK'
    BY <1>1, <2>1 DEF PostBegins, TypeOK, settings, life, ws, secretary
  <2> QED
    BY <1>1, <2>2 DEF PostBegins, Counts, NoPusher, MarkedIsSeen, settings, life, ws, secretary
<1>2. post \in SUBSET Usages
  BY DEF TypeOK
<1>3. CASE PostAnswered
  <2>1. active /\ Apply(post) /\ MarkReported(post)
    BY <1>3 DEF PostAnswered, Accepts
  <2>2. /\ UNCHANGED <<wsOn, inYaml, target, loading, stop, reloads, pusher, push, up, down, fresh, active>>
        /\ post' = {} /\ reporter' \in {"ending", "wait"}
    BY <1>3 DEF PostAnswered, PostDone, settings, life, ws
  <2>3. TypeOK'
    BY ZenonT(40), <1>2, <2>1, <2>2, ApplyKeeps, Marks DEF TypeOK
  <2>4. MarkedIsSeen'
    BY <1>2, <2>1, <2>2, ApplyKeeps, Marks DEF MarkedIsSeen
  <2> QED
    BY <1>2, <2>1, <2>2, <2>3, <2>4, ApplyKeeps DEF NoPusher
<1>4. CASE PostFails
  <2>1. /\ UNCHANGED <<wsOn, inYaml, rows, target, loading, stop, reloads, pusher, push, up, down, fresh, active>>
        /\ post' = {} /\ reporter' \in {"ending", "wait"}
    BY <1>4 DEF PostFails, PostDone, settings, life, ws
  <2>2. /\ Counts' /\ table' \in [Usages -> 0..2]
        /\ seen \subseteq seen' /\ seen' \subseteq Usages /\ faults' \in 0..MaxFaults
    <3>1. CASE UNCHANGED <<table, seen>>
      BY <1>4, <3>1, FaultsBounded DEF PostFails, Counts, TypeOK
    <3>2. CASE Fault /\ Store(post)
      BY <1>2, <3>2, FaultsBounded, StoreKeeps DEF TypeOK
    <3> QED
      BY <1>4, <3>1, <3>2 DEF PostFails
  <2>3. TypeOK'
    BY <2>1, <2>2 DEF TypeOK
  <2> QED
    BY <2>1, <2>2, <2>3 DEF NoPusher, MarkedIsSeen
<1> QED
  BY <1>1, <1>3, <1>4

\* The WebSocket thread runs only with the library, and then MarkedIsSeen asks nothing.
LEMMA PusherKeeps ==
    ASSUME IInv, \/ Connect \/ Push \/ NothingToPush \/ Receive \/ PushTimesOut \/ Break \/ Close
                 \/ Serve \/ Ping
    PROVE  IInv'
<1> USE DEF IInv
<1>1. /\ UNCHANGED <<wsOn, inYaml, target, loading, stop, reloads, reporter, post, active>>
      /\ wsOn
  BY DEF Connect, Push, NothingToPush, Receive, PushTimesOut, Break, Close, Serve, Ping,
         NoPusher, TypeOK, settings, life, http, secretary
<1>2. /\ pusher' \in {"off", "down", "idle", "await", "closing", "ending"}
      /\ push' \subseteq Usages /\ fresh' \in BOOLEAN
  <2>1. Unreported \subseteq Usages
    BY DEF Unreported
  <2> QED
    BY <2>1
    DEF Connect, Push, NothingToPush, Receive, PushTimesOut, Break, Close, Serve, Ping, PushDone,
        TypeOK, ws
<1>3. up' \in Seq(SUBSET Usages) /\ down' \in Seq({"ok", "no", "ping"})
  <2>1. up \in Seq(SUBSET Usages) /\ down \in Seq({"ok", "no", "ping"}) /\ Unreported \in SUBSET Usages
    BY DEF TypeOK, Unreported
  <2>2. <<>> \in Seq(SUBSET Usages) /\ <<>> \in Seq({"ok", "no", "ping"})
    OBVIOUS
  <2>3. CASE Connect \/ NothingToPush \/ PushTimesOut \/ Break \/ Close
    BY <2>1, <2>2, <2>3 DEF Connect, NothingToPush, PushTimesOut, Break, Close
  <2>4. CASE Push
    BY <2>1, <2>4, Queued DEF Push
  <2>5. CASE Receive
    BY <2>1, <2>5, Unqueued DEF Receive
  <2>6. CASE Serve
    <3>1. Tail(up) \in Seq(SUBSET Usages)
      BY <2>1, <2>6, Unqueued DEF Serve
    <3>2. Append(down, IF active THEN "ok" ELSE "no") \in Seq({"ok", "no", "ping"})
      BY <2>1, Told
    <3> QED
      BY <2>6, <3>1, <3>2 DEF Serve
  <2>7. CASE Ping
    BY <2>1, <2>7, Told DEF Ping
  <2> QED
    BY <2>3, <2>4, <2>5, <2>6, <2>7
<1>4. /\ rows' \in [Usages -> {"", "new", "reported"}]
      /\ Counts' /\ table' \in [Usages -> 0..2]
      /\ seen' \subseteq Usages /\ faults' \in 0..MaxFaults
  <2>1. CASE Connect \/ Push \/ NothingToPush \/ PushTimesOut \/ Break \/ Close \/ Ping
    <3>1. UNCHANGED <<rows, table, seen>> /\ (Fault \/ UNCHANGED faults)
      BY <2>1 DEF Connect, Push, NothingToPush, PushTimesOut, Break, Close, Ping, secretary
    <3> QED
      BY <3>1, FaultsBounded DEF Counts, TypeOK
  <2>2. CASE Receive
    <3>1. UNCHANGED <<table, seen, faults>> /\ (MarkReported(push) \/ UNCHANGED rows)
      BY <2>2 DEF Receive, secretary
    <3>2. push \in SUBSET Usages
      BY DEF TypeOK
    <3> QED
      BY <3>1, <3>2, Marks DEF Counts, TypeOK
  <2>3. CASE Serve
    <3>1. UNCHANGED rows /\ (Apply(Head(up)) \/ UNCHANGED <<table, seen, faults>>)
      BY <2>3 DEF Serve
    <3>2. Head(up) \in SUBSET Usages
      BY <2>3, Unqueued DEF Serve, TypeOK
    <3>3. CASE Apply(Head(up))
      BY <3>1, <3>2, <3>3, ApplyKeeps DEF TypeOK
    <3>4. CASE UNCHANGED <<table, seen, faults>>
      BY <3>1, <3>4 DEF Counts, TypeOK
    <3> QED
      BY <3>1, <3>3, <3>4
  <2> QED
    BY <2>1, <2>2, <2>3
<1>5. TypeOK'
  BY <1>1, <1>2, <1>3, <1>4 DEF TypeOK
<1> QED
  BY <1>1, <1>4, <1>5 DEF NoPusher, MarkedIsSeen

LEMMA StepIInv == IInv /\ [Next]_vars => IInv'
<1> SUFFICES ASSUME IInv, [Next]_vars PROVE IInv'
  OBVIOUS
<1>1. CASE UNCHANGED vars
  BY ZenonT(40), <1>1 DEF vars, IInv, TypeOK, Counts, NoPusher, MarkedIsSeen
<1>2. CASE Stale
  <2>1. TypeOK'
    BY <1>2 DEF Stale, IInv, TypeOK, settings, life, http, secretary
  <2> QED
    BY <1>2, <2>1 DEF Stale, IInv, Counts, NoPusher, MarkedIsSeen, settings, life, http, secretary
<1>3. CASE Next /\ ~Stale
  BY <1>3, ThreadsKeep, OutsideKeeps, PostKeeps, PusherKeeps DEF Next
<1> QED
  BY <1>1, <1>2, <1>3

\* However often its row is sent, over both channels, a call is counted once; and where the
\* HTTP thread works alone it marks only what an active Secretary has processed.
THEOREM UsageCounted == Spec => []CountedAsMarked
<1>1. IInv => CountedAsMarked
  BY DEF IInv, Counts, CountedOnce, CountedAsMarked
<1>2. Spec => []IInv
  BY InitIInv, StepIInv, PTL DEF Spec
<1> QED
  BY <1>1, <1>2, PTL
=============================================================================
