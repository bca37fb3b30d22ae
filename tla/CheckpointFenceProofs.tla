------------------------ MODULE CheckpointFenceProofs ------------------------
(***************************************************************************)
(* The fence of the checkpoint holds for any processes, work and requests, *)
(* whether or not the process lock excludes anybody.  The argument is an   *)
(* inductive invariant: whoever is able to write the row, as an instance   *)
(* or with a continuation in hand, knows everything that the row records,  *)
(* because each write makes the copies of all others too old; and a piece  *)
(* of work that somebody means to begin is recorded in the row.            *)
(*                                                                         *)
(* A second one, which rests on it, says the same of stops and launches:   *)
(* whoever is able to write the row knows its stop; a launched request     *)
(* names a revision that is gone; and a prepared continuation has not been *)
(* launched.                                                               *)
(***************************************************************************)
EXTENDS CheckpointFence, TLAPS

\* No instance is ahead of the row, and one that could write it knows what it records.
InstanceKnows ==
    \A i \in Origins : inst[i] # None =>
        /\ row # None
        /\ inst[i].revision <= row.revision
        /\ inst[i].owner = row.owner /\ inst[i].revision = row.revision
              => row.known \subseteq inst[i].known

\* The same for a request handler and the snapshot that it has read.
HandlerKnows ==
    \A p \in Processes : handler[p] # None =>
        /\ row # None
        /\ handler[p].revision <= row.revision
        /\ row.revision = handler[p].revision => row.known \subseteq handler[p].known

\* A handler works on a request of its kind; the instance that a takeover has made
\* belongs to its process, and the request cannot be taken up once more.
HandlerOwns ==
    \A p \in Processes : handler[p] # None =>
        LET i == handler[p].id
        IN  /\ requests[i] # None
            /\ requests[i].kind =
                  IF handler[p].stage \in {"resume", "resumed"} THEN "resume" ELSE "continue"
            /\ handler[p].stage = "resumed" =>
                  /\ inst[i] # None /\ inst[i].owner.process = p
                  /\ row.revision > requests[i].revision

\* At most one instance means to begin a piece of work, and then nobody has.
OneDoer ==
    \A w \in Work :
        /\ begun[w] \in {0, 1}
        /\ \A i \in Origins : inst[i] # None /\ w \in inst[i].todo =>
              /\ begun[w] = 0
              /\ \A j \in Origins : inst[j] # None /\ w \in inst[j].todo => i = j

IInv == TypeOK /\ InstanceKnows /\ HandlerKnows /\ HandlerOwns /\ Recorded /\ OneDoer
-----------------------------------------------------------------------------
LEMMA InitIInv == Init => IInv
BY FenceAssumption, SMT
DEF Init, IInv, TypeOK, InstanceKnows, HandlerKnows, HandlerOwns, Recorded, OneDoer, Origins, Ids

\* A step that leaves the handlers alone, or ends one of them.
HandlersEnd == \A p \in Processes : handler'[p] \in {None, handler[p]}

\* An instance m may write in place of inst[i]: it may have learned more, and means to
\* begin only what it did before or has just learned.
Grown(i, m) ==
    /\ inst[i] # None
    /\ m \in Instances
    /\ m.owner = inst[i].owner /\ m.revision = inst[i].revision
    /\ m.stop \in Stops
    /\ inst[i].known \subseteq m.known
    /\ m.todo \subseteq inst[i].todo \cup (m.known \ inst[i].known)

\* What a write does to the row and to the instances.
LEMMA SavedDoes ==
    ASSUME IInv, NEW i \in Origins, NEW m, Grown(i, m), Saved(i, m)
    PROVE  /\ row \in Checkpoints /\ row # None
           /\ row.owner = m.owner /\ row.revision = m.revision /\ row.known \subseteq inst[i].known
           /\ row' \in Checkpoints /\ row' # None
           /\ row'.revision = row.revision + 1 /\ row'.known = m.known /\ row'.owner = row.owner
           /\ inst' \in [Origins -> Instances \cup {None}]
           /\ inst'[i] # None /\ inst'[i].revision = row.revision + 1
           /\ inst'[i].known = m.known /\ inst'[i].todo = m.todo /\ inst'[i].owner = m.owner
           /\ \A j \in Origins : j # i => inst'[j] = inst[j]
<1> USE DEF Grown
<1>1. /\ row # None /\ row \in Checkpoints
      /\ row.owner = m.owner /\ row.revision = m.revision
      /\ row.known \subseteq inst[i].known
  BY DEF IInv, Saved, Fits, InstanceKnows, TypeOK
<1>2. m.owner \in Owners /\ m.revision \in Nat /\ m.known \in SUBSET Work /\ m.stop \in Stops
  BY DEF Instances
<1>3. row' \in Checkpoints
  <2>1. row' = [row EXCEPT !.owner = m.owner, !.revision = m.revision + 1,
                           !.stop = m.stop, !.known = m.known]
    BY DEF Saved
  <2>2. m.revision + 1 \in Nat
    BY <1>2
  <2> QED
    BY <1>1, <1>2, <2>1, <2>2 DEF Checkpoints
<1>4. /\ row' # None
      /\ row'.revision = row.revision + 1 /\ row'.known = m.known /\ row'.owner = row.owner
  BY <1>1, <1>3, FenceAssumption DEF Saved, Checkpoints
<1>5. [m EXCEPT !.revision = @ + 1] \in Instances
  BY DEF Instances
<1>6. /\ inst' \in [Origins -> Instances \cup {None}]
      /\ inst'[i].revision = row.revision + 1 /\ inst'[i].known = m.known
      /\ inst'[i].todo = m.todo /\ inst'[i].owner = m.owner
      /\ inst'[i] # None
      /\ \A j \in Origins : j # i => inst'[j] = inst[j]
  BY <1>1, <1>5, FenceAssumption DEF IInv, Saved, TypeOK, Instances
<1> QED
  BY <1>1, <1>3, <1>4, <1>6

\* A write keeps the invariant.
LEMMA SavedKeeps ==
    ASSUME IInv, NEW i \in Origins, NEW m, Grown(i, m), Saved(i, m),
           TypeOK', HandlersEnd, UNCHANGED <<requests, begun>>
    PROVE  IInv'
<1> USE DEF IInv
<1>1. /\ row # None /\ row \in Checkpoints /\ row.revision \in Nat
      /\ row.owner = m.owner /\ row.revision = m.revision
      /\ row.known \subseteq inst[i].known
      /\ inst[i] # None /\ inst[i].owner = m.owner
      /\ inst[i].known \subseteq m.known
      /\ m.todo \subseteq inst[i].todo \cup (m.known \ inst[i].known)
  BY SavedDoes DEF Checkpoints, Grown
<1>2. /\ row' # None /\ row'.revision = row.revision + 1 /\ row'.known = m.known
      /\ row'.owner = row.owner
  BY SavedDoes
<1>3. /\ inst'[i].revision = row.revision + 1 /\ inst'[i].known = m.known /\ inst'[i].todo = m.todo
      /\ inst'[i].owner = m.owner
      /\ inst'[i] # None
      /\ \A j \in Origins : j # i => inst'[j] = inst[j]
  BY SavedDoes
<1>4. InstanceKnows'
  BY <1>1, <1>2, <1>3 DEF InstanceKnows, TypeOK, Instances
<1>5. HandlerKnows'
  BY <1>1, <1>2, <1>3 DEF HandlerKnows, HandlersEnd, TypeOK, Handlings
<1>6. HandlerOwns'
  <2> SUFFICES ASSUME NEW p \in Processes, handler'[p] # None
               PROVE  LET k == handler'[p].id
                      IN  /\ requests'[k] # None
                          /\ requests'[k].kind =
                                IF handler'[p].stage \in {"resume", "resumed"}
                                THEN "resume" ELSE "continue"
                          /\ handler'[p].stage = "resumed" =>
                                /\ inst'[k] # None /\ inst'[k].owner.process = p
                                /\ row'.revision > requests'[k].revision
    BY DEF HandlerOwns
  <2>1. handler'[p] = handler[p] /\ requests' = requests
    BY DEF HandlersEnd
  <2>2. handler[p].id \in Ids /\ handler[p].id \in Origins
    BY <2>1, FenceAssumption DEF TypeOK, Handlings, Ids, Origins
  <2>3. inst[handler[p].id] # None
        => inst'[handler[p].id] # None /\ inst'[handler[p].id].owner = inst[handler[p].id].owner
    BY <1>1, <1>3, <2>2
  <2>4. requests[handler[p].id] # None => requests[handler[p].id].revision \in Nat
    BY <2>2 DEF TypeOK
  <2> QED
    BY <1>1, <1>2, <2>1, <2>2, <2>3, <2>4 DEF HandlerOwns
<1>7. Recorded'
  BY <1>1, <1>2, <1>3 DEF Recorded, TypeOK
<1>8. OneDoer'
  BY <1>1, <1>2, <1>3 DEF OneDoer, Recorded, TypeOK
<1> QED
  BY <1>4, <1>5, <1>6, <1>7, <1>8

\* A step that writes nothing, and in which every instance stays, leaves out what it
\* meant to begin, or goes.
Lessened ==
    \A j \in Origins : inst'[j] # None =>
        /\ inst[j] # None
        /\ inst'[j].owner = inst[j].owner /\ inst'[j].revision = inst[j].revision
        /\ inst'[j].known = inst[j].known
        /\ inst'[j].todo \subseteq inst[j].todo

LEMMA LessenedKeeps ==
    ASSUME IInv, TypeOK', Lessened, UNCHANGED <<row, begun>>
    PROVE  InstanceKnows' /\ Recorded' /\ OneDoer'
<1> USE DEF IInv
<1>1. InstanceKnows'
  BY DEF InstanceKnows, Lessened
<1>2. Recorded'
  BY DEF Recorded, Lessened
<1>3. OneDoer'
  BY DEF OneDoer, Lessened
<1> QED
  BY <1>1, <1>2, <1>3

\* The handlers keep what they know and own, if the instances they have made stay.
LEMMA HandlersKeep ==
    ASSUME IInv, TypeOK', HandlersEnd, UNCHANGED row,
           \A i \in Ids : requests[i] # None => requests'[i] = requests[i],
           \A p \in Processes : handler'[p] # None /\ handler[p].stage = "resumed" =>
               LET i == handler[p].id
               IN  inst[i] # None /\ inst[i].owner.process = p
                       => inst'[i] # None /\ inst'[i].owner = inst[i].owner
    PROVE  HandlerKnows' /\ HandlerOwns'
<1> USE DEF IInv
<1>1. HandlerKnows'
  BY DEF HandlerKnows, HandlersEnd
<1>2. HandlerOwns'
  <2> SUFFICES ASSUME NEW p \in Processes, handler'[p] # None
               PROVE  LET k == handler'[p].id
                      IN  /\ requests'[k] # None
                          /\ requests'[k].kind =
                                IF handler'[p].stage \in {"resume", "resumed"}
                                THEN "resume" ELSE "continue"
                          /\ handler'[p].stage = "resumed" =>
                                /\ inst'[k] # None /\ inst'[k].owner.process = p
                                /\ row'.revision > requests'[k].revision
    BY DEF HandlerOwns
  <2>1. handler'[p] = handler[p]
    BY DEF HandlersEnd
  <2>2. handler[p].id \in Ids
    BY <2>1 DEF TypeOK, Handlings
  <2> QED
    BY <2>1, <2>2 DEF HandlerOwns
<1> QED
  BY <1>1, <1>2

\* An instance whose write fails stops.
LEMMA FailedKeeps ==
    ASSUME IInv, NEW i \in Origins, inst[i] # None, Failed(i)
    PROVE  /\ inst' \in [Origins -> Instances \cup {None}]
           /\ UNCHANGED row
           /\ Lessened
           /\ \A j \in Origins : inst[j] # None => inst'[j] # None /\ inst'[j].owner = inst[j].owner
<1>1. inst[i] \in Instances /\ [inst[i] EXCEPT !.stop = "checkpoint_failed"] \in Instances
  BY DEF IInv, TypeOK, Instances
<1>2. inst' = [inst EXCEPT ![i] = [inst[i] EXCEPT !.stop = "checkpoint_failed"]]
  BY <1>1 DEF IInv, TypeOK, Failed, Instances
<1>3. /\ inst'[i] = [inst[i] EXCEPT !.stop = "checkpoint_failed"]
      /\ \A j \in Origins : j # i => inst'[j] = inst[j]
  BY <1>2 DEF IInv, TypeOK
<1>4. inst'[i] # None
  BY <1>1, <1>3, FenceAssumption
<1>5. Lessened
  BY <1>1, <1>3 DEF Lessened, Instances
<1> QED
  BY <1>1, <1>2, <1>3, <1>4, <1>5 DEF IInv, TypeOK, Failed, Instances

\* Whether the write succeeds or fails, the invariant is kept.
LEMMA CheckpointKeeps ==
    ASSUME IInv, NEW i \in Origins, NEW m, Grown(i, m), Checkpoint(i, m),
           handler' \in [Processes -> Handlings \cup {None}],
           HandlersEnd, UNCHANGED <<processes, requests, begun>>,
           launches' \in [Origins -> Nat]
    PROVE  IInv'
<1>1. /\ row' \in Checkpoints \cup {None}
      /\ inst' \in [Origins -> Instances \cup {None}]
  BY SavedDoes, FailedKeeps DEF Checkpoint, Grown, IInv, TypeOK
<1>2. TypeOK'
  BY <1>1 DEF IInv, TypeOK, processes
<1>3. CASE Saved(i, m)
  BY <1>2, <1>3, SavedKeeps
<1>4. CASE Failed(i)
  <2>1. UNCHANGED row /\ Lessened
        /\ \A j \in Origins : inst[j] # None => inst'[j] # None /\ inst'[j].owner = inst[j].owner
    BY <1>4, FailedKeeps DEF Grown
  <2>2. Ids \subseteq Origins
    BY FenceAssumption DEF Ids, Origins
  <2>3. HandlerKnows' /\ HandlerOwns'
    <3>1. \A p \in Processes : handler'[p] # None => handler[p].id \in Origins
      BY <2>2 DEF IInv, TypeOK, Handlings, HandlersEnd
    <3> QED
      BY <1>2, <2>1, <3>1, HandlersKeep
  <2> QED
    BY <1>2, <2>1, <2>3, LessenedKeeps DEF IInv
<1> QED
  BY <1>3, <1>4 DEF Checkpoint

-----------------------------------------------------------------------------
(* Each action keeps the invariant.                                        *)

LEMMA WritersKeep ==
    ASSUME IInv, NEW i \in Origins,
           \/ \E w \in Work : Record(i, w)
           \/ End(i) \/ Block(i) \/ Retain(i)
           \/ \E action \in {"paused", "cancelled"} : Control(i, action)
    PROVE  IInv'
<1>1. inst[i] # None /\ inst[i] \in Instances
  BY DEF Record, End, Block, Retain, Control, IInv, TypeOK
<1>2. /\ UNCHANGED <<processes, handler, requests, begun, launches>>
      /\ HandlersEnd
      /\ launches' \in [Origins -> Nat]
      /\ handler' \in [Processes -> Handlings \cup {None}]
  BY DEF Record, End, Block, Retain, Control, IInv, TypeOK, HandlersEnd, history
<1>3. CASE \E w \in Work : Record(i, w)
  <2>1. PICK w \in Work : Record(i, w)
    BY <1>3
  <2>2. Grown(i, [inst[i] EXCEPT !.known = @ \cup {w}, !.todo = @ \cup {w}])
    BY <1>1, <2>1 DEF Grown, Record, Instances, Stops
  <2> QED
    BY <1>2, <2>1, <2>2, CheckpointKeeps DEF Record
<1>4. ASSUME NEW stop \in {"paused", "cancelled", "ended", "blocked"}
      PROVE  Grown(i, [inst[i] EXCEPT !.stop = stop])
  BY <1>1 DEF Grown, Instances, Stops
<1>5. CASE End(i)
  BY <1>2, <1>4, <1>5, CheckpointKeeps DEF End
<1>6. CASE Block(i)
  BY <1>2, <1>4, <1>6, CheckpointKeeps DEF Block
<1>7. CASE Retain(i)
  <2>1. Grown(i, inst[i])
    BY <1>1, <1>7 DEF Grown, Retain, Instances, Stops
  <2> QED
    BY <1>2, <1>7, <2>1, CheckpointKeeps DEF Retain
<1>8. CASE \E action \in {"paused", "cancelled"} : Control(i, action)
  BY <1>2, <1>4, <1>8, CheckpointKeeps DEF Control
<1> QED
  BY <1>3, <1>5, <1>6, <1>7, <1>8

\* A piece of work that is begun was recorded, and nobody else means to begin it.
LEMMA DoKeeps ==
    ASSUME IInv, NEW i \in Origins, NEW w \in Work, Do(i, w)
    PROVE  IInv'
<1> USE DEF IInv
<1>1. inst[i] # None /\ inst[i] \in Instances /\ w \in inst[i].todo
  BY DEF Do, TypeOK
<1>2. /\ [inst[i] EXCEPT !.todo = @ \ {w}] \in Instances
      /\ inst' = [inst EXCEPT ![i] = [inst[i] EXCEPT !.todo = @ \ {w}]]
      /\ begun' = [begun EXCEPT ![w] = @ + 1]
      /\ UNCHANGED <<processes, row, handler, requests, launches>>
  BY <1>1 DEF Do, TypeOK, Instances
<1>3. TypeOK'
  BY <1>2 DEF TypeOK, processes
<1>4. /\ \A j \in Origins : j # i => inst'[j] = inst[j]
      /\ inst'[i] # None /\ inst'[i].owner = inst[i].owner
      /\ inst'[i].revision = inst[i].revision /\ inst'[i].known = inst[i].known
      /\ inst'[i].todo = inst[i].todo \ {w}
  BY <1>1, <1>2, FenceAssumption DEF TypeOK, Instances
<1>5. InstanceKnows'
  BY <1>1, <1>2, <1>4 DEF InstanceKnows
<1>6. HandlerKnows' /\ HandlerOwns'
  <2>1. \A p \in Processes : handler'[p] # None => handler[p].id \in Origins
    BY <1>2, FenceAssumption DEF TypeOK, Handlings, Ids, Origins
  <2> QED
    BY <1>1, <1>2, <1>3, <1>4, <2>1, HandlersKeep DEF HandlersEnd
<1>7. Recorded'
  <2>1. \A v \in Work : begun'[v] > 0 => begun[v] > 0 \/ v = w
    BY <1>2 DEF TypeOK
  <2>2. \A v \in Work, j \in Origins : inst'[j] # None /\ v \in inst'[j].todo
            => inst[j] # None /\ v \in inst[j].todo
    BY <1>1, <1>4
  <2> QED
    BY <1>1, <1>2, <2>1, <2>2 DEF Recorded
<1>8. OneDoer'
  <2>1. begun[w] = 0 /\ \A j \in Origins : inst[j] # None /\ w \in inst[j].todo => i = j
    BY <1>1 DEF OneDoer
  <2>2. begun'[w] = 1 /\ \A v \in Work : v # w => begun'[v] = begun[v]
    BY <1>2, <2>1 DEF TypeOK
  <2>3. \A j \in Origins : inst'[j] # None => w \notin inst'[j].todo
    BY <1>4, <2>1
  <2>4. \A v \in Work, j \in Origins : inst'[j] # None /\ v \in inst'[j].todo
            => inst[j] # None /\ v \in inst[j].todo
    BY <1>1, <1>4
  <2> QED
    BY <2>2, <2>3, <2>4 DEF OneDoer
<1> QED
  BY <1>3, <1>5, <1>6, <1>7, <1>8

LEMMA QuiesceKeeps ==
    ASSUME IInv, NEW i \in Origins, Quiesce(i)
    PROVE  IInv'
<1> USE DEF IInv
<1>1. inst[i] # None /\ inst[i] \in Instances
  BY DEF Quiesce, TypeOK
<1>2. /\ [inst[i] EXCEPT !.busy = FALSE, !.todo = {}] \in Instances
      /\ inst' = [inst EXCEPT ![i] = [inst[i] EXCEPT !.busy = FALSE, !.todo = {}]]
      /\ handler' = handler
  BY <1>1 DEF Quiesce, TypeOK, Instances
<1>3. TypeOK'
  BY ZenonT(40), <1>2 DEF Quiesce, TypeOK, processes, history
<1>4. /\ \A j \in Origins : j # i => inst'[j] = inst[j]
      /\ inst'[i] # None /\ inst'[i].owner = inst[i].owner
      /\ inst'[i].revision = inst[i].revision /\ inst'[i].known = inst[i].known
      /\ inst'[i].todo = {}
  BY <1>1, <1>2, FenceAssumption DEF TypeOK, Instances
<1>5. Lessened
  BY <1>1, <1>4 DEF Lessened
<1>6. HandlerKnows' /\ HandlerOwns'
  <2>1. \A p \in Processes : handler'[p] # None => handler[p].id \in Origins
    BY <1>2, FenceAssumption DEF TypeOK, Handlings, Ids, Origins
  <2> QED
    BY <1>1, <1>3, <1>4, <2>1, HandlersKeep DEF HandlersEnd, Quiesce
<1> QED
  BY <1>3, <1>5, <1>6, LessenedKeeps DEF Quiesce, history

LEMMA BootKeeps ==
    ASSUME IInv, NEW p \in Processes, Boot(p)
    PROVE  IInv'
<1> USE DEF IInv
<1>1. TypeOK'
  BY DEF Boot, TypeOK, history
<1>2. UNCHANGED <<row, inst, handler, requests, begun>>
  BY DEF Boot, history
<1> QED
  BY <1>1, <1>2 DEF InstanceKnows, HandlerKnows, HandlerOwns, Recorded, OneDoer

\* What a process takes with it belonged to nobody else.
LEMMA DieKeeps ==
    ASSUME IInv, NEW p \in Processes, Die(p)
    PROVE  IInv'
<1> USE DEF IInv
<1>1. TypeOK'
  BY DEF Die, TypeOK, history
<1>2. Lessened
  BY DEF Die, Lessened, TypeOK
<1>3. HandlersEnd
  BY DEF HandlersEnd, Die, TypeOK
<1>4. HandlerKnows' /\ HandlerOwns'
  <2>1. ASSUME NEW q \in Processes, handler'[q] # None, handler[q].stage = "resumed",
               inst[handler[q].id] # None, inst[handler[q].id].owner.process = q
        PROVE  inst'[handler[q].id] = inst[handler[q].id]
    <3>1. handler[q].id \in Origins /\ q # p
      BY <2>1, <1>3, FenceAssumption DEF Die, TypeOK, Handlings, Ids, Origins, HandlersEnd
    <3> QED
      BY <2>1, <3>1 DEF Die, Of, TypeOK
  <2> QED
    BY <1>1, <1>3, <2>1, HandlersKeep DEF Die
<1> QED
  BY <1>1, <1>2, <1>4, LessenedKeeps DEF Die, history

LEMMA GiveUpKeeps ==
    ASSUME IInv, NEW p \in Processes, GiveUp(p)
    PROVE  IInv'
<1> USE DEF IInv
<1>1. TypeOK'
  BY DEF GiveUp, TypeOK, processes, history
<1>2. HandlersEnd
  BY DEF HandlersEnd, GiveUp, TypeOK
<1>3. UNCHANGED <<row, inst, requests, begun>>
  BY DEF GiveUp, history
<1>4. HandlerKnows' /\ HandlerOwns'
  BY <1>1, <1>2, <1>3, HandlersKeep
<1> QED
  BY <1>1, <1>3, <1>4 DEF InstanceKnows, Recorded, OneDoer

LEMMA AskKeeps ==
    ASSUME IInv, NEW i \in Ids, Ask(i)
    PROVE  IInv'
<1> USE DEF IInv
<1>1. row \in Checkpoints /\ row.revision \in Nat
  BY DEF Ask, TypeOK, Checkpoints
<1>2. Request \in [kind : {"resume", "continue"}, revision : Nat]
  BY <1>1 DEF Request
<1>3. TypeOK'
  BY <1>2 DEF Ask, TypeOK, processes, history
<1>4. UNCHANGED <<row, inst, handler, begun>>
  BY DEF Ask, history
<1>5. \A k \in Ids : requests[k] # None => requests'[k] = requests[k]
  BY DEF Ask, TypeOK
<1>6. HandlerKnows' /\ HandlerOwns'
  BY <1>3, <1>4, <1>5, HandlersKeep DEF HandlersEnd
<1> QED
  BY <1>3, <1>4, <1>6 DEF InstanceKnows, Recorded, OneDoer

LEMMA StartKeeps ==
    ASSUME IInv, NEW p \in Processes, Start(p)
    PROVE  IInv'
<1> USE DEF IInv
<1>1. UNCHANGED <<alive, ended, exclusive, handler, requests, begun>> /\ startup' = p
  BY DEF Start
<1>2. holders' \subseteq Processes
  BY DEF Start, TypeOK
<1>3. CASE UNCHANGED <<inst, row, launches>>
  <2>1. TypeOK'
    BY <1>1, <1>2, <1>3 DEF TypeOK
  <2> QED
    BY <1>1, <1>3, <2>1 DEF InstanceKnows, HandlerKnows, HandlerOwns, Recorded, OneDoer
<1>4. CASE /\ row = None
           /\ inst' = [inst EXCEPT ![0] = [Fresh(Self(p), 1, "", {}) EXCEPT !.busy = TRUE]]
           /\ row' = [owner |-> Self(p), revision |-> 1, stop |-> "", known |-> {},
                      recovery |-> None, continuation |-> None]
           /\ launches' = [launches EXCEPT ![0] = @ + 1]
  <2>1. 0 \in Origins
    BY FenceAssumption DEF Origins
  <2>2. Self(p) \in Owners
    BY DEF Self, Owners
  <2>3. row' \in Checkpoints /\ row' # None
    <3>1. row' \in Checkpoints
      BY <1>4, <2>2 DEF Checkpoints, Stops
    <3> QED
      BY <3>1, FenceAssumption
  <2>4. /\ [Fresh(Self(p), 1, "", {}) EXCEPT !.busy = TRUE] \in Instances
        /\ [Fresh(Self(p), 1, "", {}) EXCEPT !.busy = TRUE].revision = 1
        /\ [Fresh(Self(p), 1, "", {}) EXCEPT !.busy = TRUE].todo = {}
    BY <2>2 DEF Fresh, Instances, Stops
  <2>5. TypeOK'
    <3>1. inst' \in [Origins -> Instances \cup {None}]
      BY <1>4, <2>1, <2>4 DEF TypeOK
    <3>2. launches' \in [Origins -> Nat]
      <4>1. launches \in [Origins -> Nat] /\ launches' = [launches EXCEPT ![0] = @ + 1]
        BY <1>4 DEF TypeOK
      <4>2. launches[0] + 1 \in Nat
        BY <4>1, <2>1
      <4> QED
        BY <4>1, <4>2
    <3>3. startup' \in Processes \cup {None} /\ row' \in Checkpoints \cup {None}
      BY <1>1, <2>3
    <3> QED
      BY <1>1, <1>2, <3>1, <3>2, <3>3 DEF TypeOK
  <2>6. (\A i \in Origins : inst[i] = None) /\ (\A q \in Processes : handler[q] = None)
    BY <1>4 DEF InstanceKnows, HandlerKnows
  <2>7. (\A i \in Origins : inst'[i] # None => inst'[i].revision = 1 /\ inst'[i].todo = {})
        /\ row'.revision = 1 /\ row'.known = {}
    BY <1>4, <2>1, <2>4, <2>6 DEF TypeOK
  <2>8. InstanceKnows'
    BY <2>3, <2>7 DEF InstanceKnows
  <2>9. HandlerKnows' /\ HandlerOwns'
    BY <1>1, <2>6 DEF HandlerKnows, HandlerOwns
  <2>10. Recorded'
    BY <1>1, <1>4, <2>7 DEF Recorded
  <2>11. OneDoer'
    BY <1>1, <2>7 DEF Recorded, OneDoer
  <2> QED
    BY <2>5, <2>8, <2>9, <2>10, <2>11
<1> QED
  BY <1>3, <1>4 DEF Start

\* The handler that has read the row knows what the row records.
LEMMA ReadKeeps ==
    ASSUME IInv, NEW p \in Processes, NEW i \in Ids, ReadResume(p, i) \/ ReadContinue(p, i)
    PROVE  IInv'
<1> USE DEF IInv
<1> DEFINE Stage == IF requests[i].kind = "resume" THEN "resume" ELSE "continue"
           Read == [id |-> i, stage |-> Stage, revision |-> row.revision, known |-> row.known]
<1>1. /\ row # None /\ row \in Checkpoints /\ row.revision \in Nat /\ row.known \in SUBSET Work
      /\ requests[i] # None /\ requests[i].kind \in {"resume", "continue"}
      /\ handler[p] = None
  BY DEF ReadResume, ReadContinue, TypeOK, Checkpoints
<1>2. /\ UNCHANGED <<alive, ended, exclusive, startup, row, inst, requests, begun, launches>>
      /\ holders' = holders \cup {p}
  BY DEF ReadResume, ReadContinue, history
<1>3. handler' = handler \/ handler' = [handler EXCEPT ![p] = Read]
  BY DEF ReadResume, ReadContinue
<1>4. Read \in Handlings
  BY <1>1 DEF Handlings
<1>5. TypeOK'
  BY <1>2, <1>3, <1>4 DEF TypeOK
<1>6. \A q \in Processes : handler'[q] = handler[q] \/ (q = p /\ handler'[q] = Read)
  <2>1. CASE handler' = handler
    BY <2>1
  <2>2. CASE handler' = [handler EXCEPT ![p] = Read]
    <3> HIDE DEF Read
    <3> QED
      BY <2>2 DEF TypeOK
  <2> QED
    BY <1>3, <2>1, <2>2
<1>7. HandlerKnows'
  BY <1>1, <1>2, <1>6 DEF HandlerKnows
<1>8. HandlerOwns'
  BY <1>1, <1>2, <1>6 DEF HandlerOwns
<1> QED
  BY <1>2, <1>5, <1>7, <1>8 DEF InstanceKnows, Recorded, OneDoer

\* Instances that are left out lose only themselves.
LEMMA RetiredLess ==
    ASSUME IInv, NEW p \in Processes, NEW j \in Origins
    PROVE  /\ Retired(p)[j] \in {None, inst[j]}
           /\ inst[j] # None /\ inst[j].owner.process # p => Retired(p)[j] = inst[j]
BY DEF Retired, Of

LEMMA RetiredTyped ==
    ASSUME IInv, NEW p \in Processes
    PROVE  Retired(p) \in [Origins -> Instances \cup {None}]
BY DEF Retired, IInv, TypeOK

\* The handler ends and leaves the row alone.
LEMMA RetiredKeeps ==
    ASSUME IInv, NEW p \in Processes, inst' = Retired(p), handler' = [handler EXCEPT ![p] = None],
           UNCHANGED <<processes, row, requests, begun, launches>>
    PROVE  IInv'
<1> USE DEF IInv
<1>1. TypeOK'
  BY RetiredTyped DEF TypeOK, processes
<1>2. Lessened
  BY RetiredLess, FenceAssumption DEF Lessened
<1>3. HandlersEnd /\ handler'[p] = None
  BY DEF HandlersEnd, TypeOK
<1>4. HandlerKnows' /\ HandlerOwns'
  <2>1. ASSUME NEW q \in Processes, handler'[q] # None, handler[q].stage = "resumed",
               inst[handler[q].id] # None, inst[handler[q].id].owner.process = q
        PROVE  inst'[handler[q].id] = inst[handler[q].id]
    <3>1. handler[q].id \in Origins /\ q # p
      BY <2>1, <1>3, FenceAssumption DEF TypeOK, Handlings, Ids, Origins, HandlersEnd
    <3> QED
      BY <2>1, <3>1, RetiredLess
  <2> QED
    BY <1>1, <1>3, <2>1, HandlersKeep
<1> QED
  BY <1>1, <1>2, <1>4, LessenedKeeps

\* A takeover leaves every other writer behind, and its request cannot be taken up again.
LEMMA TakeoverKeeps ==
    ASSUME IInv, NEW p \in Processes, Takeover(p)
    PROVE  IInv'
<1> USE DEF IInv
<1> DEFINE i == handler[p].id
           new == Fresh(Self(p), row.revision + 1, row.stop, row.known)
<1>1. /\ handler[p] # None /\ handler[p].stage = "resume"
      /\ UNCHANGED <<processes, requests, begun, launches>>
  BY DEF Takeover, history
<1>2. /\ i \in Ids /\ i \in Origins
      /\ requests[i] # None /\ requests[i].kind = "resume" /\ requests[i].revision \in Nat
      /\ row # None /\ row \in Checkpoints /\ row.revision \in Nat
      /\ row.stop \in Stops /\ row.known \in SUBSET Work
  <2>1. i \in Ids /\ i \in Origins
    BY <1>1, FenceAssumption DEF TypeOK, Handlings, Ids, Origins
  <2>2. row # None /\ row \in Checkpoints
    BY <1>1 DEF HandlerKnows, TypeOK
  <2>3. requests[i] # None /\ requests[i].kind = "resume"
    BY <1>1 DEF HandlerOwns
  <2>4. requests[i].revision \in Nat
    BY <2>1, <2>3 DEF TypeOK
  <2> QED
    BY <2>1, <2>2, <2>3, <2>4 DEF Checkpoints
<1>3. CASE inst' = Retired(p) /\ handler' = [handler EXCEPT ![p] = None] /\ UNCHANGED row
  BY <1>1, <1>3, RetiredKeeps
<1>4. CASE /\ Takeable(p, i)
           /\ row' = [row EXCEPT !.owner = Self(p), !.revision = @ + 1, !.recovery = i]
           /\ inst' = [Retired(p) EXCEPT ![i] = new]
           /\ handler' = [handler EXCEPT ![p].stage = "resumed"]
  <2>1. Self(p) \in Owners /\ Self(p).process = p
    BY DEF Self, Owners
  <2>2. row' \in Checkpoints
    <3>1. row.revision + 1 \in Nat /\ i \in Ids \cup {None}
      BY <1>2
    <3> HIDE DEF i
    <3> QED
      BY <1>2, <1>4, <2>1, <3>1 DEF Checkpoints
  <2>3. /\ row' # None /\ row'.revision = row.revision + 1
        /\ row'.owner = Self(p) /\ row'.known = row.known
    BY <1>2, <1>4, <2>1, <2>2, FenceAssumption DEF Checkpoints
  <2>4. new \in Instances
    BY <1>2, <2>1 DEF Fresh, Instances
  <2>5. /\ new # None /\ new.owner = Self(p) /\ new.revision = row.revision + 1
        /\ new.known = row.known /\ new.todo = {}
    BY <2>4, FenceAssumption DEF Fresh
  <2> HIDE DEF new
  <2>6. inst' \in [Origins -> Instances \cup {None}]
    BY <1>2, <1>4, <2>4, RetiredTyped
  <2>7. inst'[i] = new /\ \A j \in Origins : j # i => inst'[j] = Retired(p)[j]
    BY <1>2, <1>4, RetiredTyped
  <2>8. \A j \in Origins : j # i => inst'[j] \in {None, inst[j]}
    BY <2>7, RetiredLess
  <2>9. /\ handler'[p] # None /\ handler'[p].id = i /\ handler'[p].stage = "resumed"
        /\ handler'[p].revision = handler[p].revision /\ handler'[p].known = handler[p].known
        /\ \A q \in Processes : q # p => handler'[q] = handler[q]
        /\ handler' \in [Processes -> Handlings \cup {None}]
    <3>1. handler[p] \in Handlings
      BY <1>1 DEF TypeOK
    <3>2. handler' = [handler EXCEPT ![p] = [handler[p] EXCEPT !.stage = "resumed"]]
      BY <1>4
    <3>3. [handler[p] EXCEPT !.stage = "resumed"] \in
              Handlings
      BY <3>1 DEF Handlings
    <3> QED
      BY <3>1, <3>2, <3>3, FenceAssumption DEF TypeOK
  <2>10. TypeOK'
    BY <1>1, <2>2, <2>6, <2>9 DEF TypeOK, processes
  <2>11. InstanceKnows'
    BY <2>3, <2>5, <2>7, <2>8, <1>2 DEF InstanceKnows, TypeOK, Instances
  <2>12. HandlerKnows'
    BY <1>1, <1>2, <2>3, <2>9 DEF HandlerKnows, TypeOK, Handlings
  <2>13. HandlerOwns'
    <3> SUFFICES ASSUME NEW q \in Processes, handler'[q] # None
                 PROVE  LET k == handler'[q].id
                        IN  /\ requests'[k] # None
                            /\ requests'[k].kind =
                                  IF handler'[q].stage \in {"resume", "resumed"}
                                  THEN "resume" ELSE "continue"
                            /\ handler'[q].stage = "resumed" =>
                                  /\ inst'[k] # None /\ inst'[k].owner.process = q
                                  /\ row'.revision > requests'[k].revision
      BY DEF HandlerOwns
    <3>1. CASE q = p
      <4>1. inst'[i] # None /\ inst'[i].owner.process = p
        BY <2>1, <2>5, <2>7
      <4>2. row'.revision > requests[i].revision
        BY <1>2, <1>4, <2>3 DEF Takeable
      <4> QED
        BY <1>1, <1>2, <2>9, <3>1, <4>1, <4>2
    <3>2. CASE q # p
      <4>1. handler'[q] = handler[q] /\ requests' = requests /\ handler[q].id \in Ids
            /\ handler[q].id \in Origins
        BY <1>1, <2>9, <3>2, FenceAssumption DEF TypeOK, Handlings, Ids, Origins
      <4>2. /\ requests[handler[q].id] # None
            /\ requests[handler[q].id].revision \in Nat
            /\ requests[handler[q].id].kind =
                  IF handler[q].stage \in {"resume", "resumed"} THEN "resume" ELSE "continue"
        BY <4>1 DEF HandlerOwns, TypeOK
      <4>3. CASE handler[q].stage = "resumed"
        <5>1. /\ inst[handler[q].id] # None /\ inst[handler[q].id].owner.process = q
              /\ row.revision > requests[handler[q].id].revision
          BY <4>1, <4>3 DEF HandlerOwns
        <5>2. handler[q].id # i
          BY <1>2, <1>4, <5>1 DEF Takeable
        <5>3. inst'[handler[q].id] = inst[handler[q].id]
          BY <2>7, <3>2, <4>1, <5>1, <5>2, RetiredLess
        <5>4. row'.revision > requests[handler[q].id].revision
          BY <1>2, <2>3, <4>2, <5>1
        <5> QED
          BY <4>1, <4>2, <5>1, <5>3, <5>4
      <4> QED
        BY <4>1, <4>2, <4>3
    <3> QED
      BY <3>1, <3>2
  <2>14. Recorded'
    BY <1>1, <1>2, <2>3, <2>5, <2>7, <2>8 DEF Recorded
  <2>15. OneDoer'
    BY <1>1, <2>5, <2>7, <2>8 DEF OneDoer
  <2> QED
    BY <2>10, <2>11, <2>12, <2>13, <2>14, <2>15
<1> QED
  BY <1>3, <1>4 DEF Takeover

\* What a handler holds.
LEMMA HandlerHolds ==
    ASSUME IInv, NEW p \in Processes, handler[p] # None
    PROVE  /\ handler[p] \in Handlings
           /\ handler[p].id \in Ids /\ handler[p].id \in Origins
           /\ handler[p].revision \in Nat /\ handler[p].known \in SUBSET Work
           /\ row # None /\ row \in Checkpoints /\ row.revision \in Nat
           /\ handler[p].stage = "resumed" =>
                  inst[handler[p].id] # None /\ inst[handler[p].id] \in Instances
<1>1. handler[p] \in Handlings /\ handler[p].id \in Ids
  BY DEF IInv, TypeOK, Handlings
<1>2. handler[p].id \in Origins
  BY <1>1, FenceAssumption DEF Ids, Origins
<1>3. row # None /\ row \in Checkpoints /\ row.revision \in Nat
  BY DEF IInv, HandlerKnows, TypeOK, Checkpoints
<1>4. handler[p].stage = "resumed" => inst[handler[p].id] # None
  BY DEF IInv, HandlerOwns
<1> QED
  BY <1>1, <1>2, <1>3, <1>4 DEF IInv, TypeOK, Handlings

\* The instance that a takeover has made writes for the first time, or stops.
LEMMA ResumedKeeps ==
    ASSUME IInv, NEW p \in Processes, LaunchResumed(p) \/ FailResumed(p)
    PROVE  IInv'
<1> DEFINE i == handler[p].id
<1>1. /\ handler[p] # None /\ handler[p].stage = "resumed"
      /\ handler' = [handler EXCEPT ![p] = None]
      /\ UNCHANGED <<processes, requests, begun>>
  BY DEF LaunchResumed, FailResumed, history
<1>2. i \in Origins /\ inst[i] # None /\ inst[i] \in Instances
  BY <1>1, HandlerHolds
<1>3. HandlersEnd /\ handler' \in [Processes -> Handlings \cup {None}]
  BY <1>1 DEF IInv, TypeOK, HandlersEnd
<1>4. CASE LaunchResumed(p)
  <2>1. inst[i].stop = "" /\ Saved(i, [inst[i] EXCEPT !.busy = TRUE])
        /\ launches' = [launches EXCEPT ![i] = @ + 1]
    BY <1>4 DEF LaunchResumed
  <2>2. launches' \in [Origins -> Nat]
    <3>1. launches \in [Origins -> Nat] /\ launches[i] + 1 \in Nat
      BY <1>2 DEF IInv, TypeOK
    <3> QED
      BY <2>1, <3>1
  <2>3. Grown(i, [inst[i] EXCEPT !.busy = TRUE])
    BY <1>2, <2>1 DEF Grown, Instances, Stops
  <2> QED
    BY <1>1, <1>2, <1>3, <2>1, <2>2, <2>3, CheckpointKeeps DEF Checkpoint
<1>5. CASE FailResumed(p)
  <2>1. Checkpoint(i, [inst[i] EXCEPT !.stop = "blocked"]) /\ launches' = launches
    BY <1>5 DEF FailResumed, history
  <2>2. Grown(i, [inst[i] EXCEPT !.stop = "blocked"])
    BY <1>2 DEF Grown, Instances, Stops
  <2>3. launches' \in [Origins -> Nat]
    BY <2>1 DEF IInv, TypeOK
  <2> QED
    BY <1>1, <1>2, <1>3, <2>1, <2>2, <2>3, CheckpointKeeps
<1> QED
  BY <1>4, <1>5

\* A claim leaves every other writer behind; the handler holds the row's new revision.
LEMMA ClaimKeeps ==
    ASSUME IInv, NEW p \in Processes, Claim(p)
    PROVE  IInv'
<1> USE DEF IInv
<1> DEFINE i == handler[p].id
           owner == [process |-> p, claim |-> handler[p].revision + 1]
           claimed == [handler[p] EXCEPT !.stage = "continued",
                                         !.revision = handler[p].revision + 1]
<1>1. /\ handler[p] # None /\ handler[p].stage = "continue"
      /\ inst' = Retired(p)
      /\ UNCHANGED <<processes, requests, begun, launches>>
  BY DEF Claim, history
<1>2. /\ i \in Ids /\ i \in Origins /\ handler[p] \in Handlings
      /\ handler[p].revision \in Nat /\ handler[p].known \in SUBSET Work
      /\ row # None /\ row \in Checkpoints /\ row.revision \in Nat
  BY <1>1, HandlerHolds
<1>3. CASE handler' = [handler EXCEPT ![p] = None] /\ UNCHANGED row
  BY <1>1, <1>3, RetiredKeeps
<1>4. CASE /\ Claimable(p)
           /\ row' = [row EXCEPT !.owner = owner, !.revision = handler[p].revision + 1,
                                 !.continuation = [id |-> i, launched |-> FALSE]]
           /\ handler' = [handler EXCEPT ![p] = claimed]
  <2>1. /\ owner \in Owners /\ handler[p].revision + 1 \in Nat
        /\ [id |-> i, launched |-> FALSE] \in Prepared
    BY <1>2 DEF Owners, Prepared
  <2>2. row' \in Checkpoints
    <3> HIDE DEF i, owner
    <3> QED
      BY <1>2, <1>4, <2>1 DEF Checkpoints
  <2>3. row' # None /\ row'.revision = row.revision + 1 /\ row'.known = row.known
    BY <1>2, <1>4, <2>2, FenceAssumption DEF Claimable, Checkpoints
  <2>4. /\ claimed \in Handlings /\ claimed.id = i /\ claimed.stage = "continued"
        /\ claimed.revision = row.revision + 1 /\ claimed.known = handler[p].known
    BY <1>2, <1>4, <2>1 DEF Claimable, Handlings
  <2> HIDE DEF claimed
  <2>5. handler'[p] = claimed /\ \A q \in Processes : q # p => handler'[q] = handler[q]
    BY <1>4 DEF TypeOK
  <2>6. TypeOK'
    BY <1>1, <1>4, <2>2, <2>4, RetiredTyped DEF TypeOK, processes
  <2>7. \A j \in Origins : inst'[j] \in {None, inst[j]}
    BY <1>1, RetiredLess
  <2>8. \A j \in Origins : inst[j] # None => inst[j].revision \in Nat
    BY DEF TypeOK, Instances
  <2>9. InstanceKnows'
    BY <1>2, <2>3, <2>7, <2>8 DEF InstanceKnows
  <2>10. HandlerKnows'
    <3>1. row.known \subseteq handler[p].known
      BY <1>1, <1>4 DEF HandlerKnows, Claimable
    <3>2. \A q \in Processes : handler[q] # None => handler[q].revision \in Nat
      BY HandlerHolds
    <3> QED
      BY <1>2, <2>3, <2>4, <2>5, <3>1, <3>2 DEF HandlerKnows
  <2>11. HandlerOwns'
    <3> SUFFICES ASSUME NEW q \in Processes, handler'[q] # None
                 PROVE  LET k == handler'[q].id
                        IN  /\ requests'[k] # None
                            /\ requests'[k].kind =
                                  IF handler'[q].stage \in {"resume", "resumed"}
                                  THEN "resume" ELSE "continue"
                            /\ handler'[q].stage = "resumed" =>
                                  /\ inst'[k] # None /\ inst'[k].owner.process = q
                                  /\ row'.revision > requests'[k].revision
      BY DEF HandlerOwns
    <3>1. CASE q = p
      BY <1>1, <2>4, <2>5, <3>1 DEF HandlerOwns
    <3>2. CASE q # p
      <4>1. handler'[q] = handler[q] /\ requests' = requests /\ handler[q].id \in Ids
            /\ handler[q].id \in Origins
        BY <1>1, <2>5, <3>2, HandlerHolds
      <4>2. /\ requests[handler[q].id] # None
            /\ requests[handler[q].id].revision \in Nat
            /\ requests[handler[q].id].kind =
                  IF handler[q].stage \in {"resume", "resumed"} THEN "resume" ELSE "continue"
        BY <4>1 DEF HandlerOwns, TypeOK
      <4>3. CASE handler[q].stage = "resumed"
        <5>1. /\ inst[handler[q].id] # None /\ inst[handler[q].id].owner.process = q
              /\ row.revision > requests[handler[q].id].revision
          BY <4>1, <4>3 DEF HandlerOwns
        <5>2. inst'[handler[q].id] = inst[handler[q].id]
          BY <1>1, <3>2, <4>1, <5>1, RetiredLess
        <5> QED
          BY <1>2, <2>3, <4>1, <4>2, <5>1, <5>2
      <4> QED
        BY <4>1, <4>2, <4>3
    <3> QED
      BY <3>1, <3>2
  <2>12. Recorded'
    BY <1>1, <1>2, <2>3, <2>7 DEF Recorded
  <2>13. OneDoer'
    BY <1>1, <2>7 DEF OneDoer
  <2> QED
    BY <2>6, <2>9, <2>10, <2>11, <2>12, <2>13
<1> QED
  <2>1. CASE Claimable(p)
    <3>1. [handler EXCEPT ![p].stage = "continued", ![p].revision = handler[p].revision + 1]
              = [handler EXCEPT ![p] = claimed]
      OBVIOUS
    <3> QED
      BY <1>4, <2>1, <3>1 DEF Claim
  <2>2. CASE ~Claimable(p)
    BY <1>3, <2>2 DEF Claim
  <2> QED
    BY <2>1, <2>2

\* A continuation starts from all that the row records, because nobody has written the
\* row since it was claimed.
LEMMA ContinuedKeeps ==
    ASSUME IInv, NEW p \in Processes, LaunchContinued(p)
    PROVE  IInv'
<1> USE DEF IInv
<1> DEFINE i == handler[p].id
           owner == [process |-> p, claim |-> handler[p].revision]
           new == [Fresh(owner, handler[p].revision + 1, "", handler[p].known) EXCEPT !.busy = TRUE]
<1>1. /\ handler[p] # None /\ handler[p].stage = "continued"
      /\ Fits(owner, handler[p].revision)
      /\ row' = [row EXCEPT !.revision = handler[p].revision + 1, !.stop = "",
                            !.known = handler[p].known,
                            !.recovery = i, !.continuation = [id |-> i, launched |-> TRUE]]
      /\ inst' = [inst EXCEPT ![i] = new]
      /\ launches' = [launches EXCEPT ![i] = @ + 1]
      /\ handler' = [handler EXCEPT ![p] = None]
      /\ UNCHANGED <<processes, requests, begun>>
  BY DEF LaunchContinued
<1>2. /\ i \in Ids /\ i \in Origins
      /\ handler[p].revision \in Nat /\ handler[p].known \in SUBSET Work
      /\ row # None /\ row \in Checkpoints /\ row.revision \in Nat
  BY <1>1, HandlerHolds
<1>3. row.owner = owner /\ row.revision = handler[p].revision
      /\ row.known \subseteq handler[p].known
  BY <1>1, <1>2 DEF Fits, HandlerKnows
<1>4. /\ owner \in Owners /\ handler[p].revision + 1 \in Nat
      /\ [id |-> i, launched |-> TRUE] \in Prepared
  BY <1>2 DEF Owners, Prepared
<1>5. row' \in Checkpoints
  <2> HIDE DEF i, new
  <2> QED
    BY <1>1, <1>2, <1>4 DEF Checkpoints, Stops
<1>6. /\ row' # None /\ row'.revision = row.revision + 1 /\ row'.known = handler[p].known
      /\ row'.owner = owner
  <2> HIDE DEF i, new, owner
  <2> QED
    BY <1>1, <1>2, <1>3, <1>5, FenceAssumption DEF Checkpoints
<1>7. /\ new \in Instances /\ new # None
      /\ new.revision = row.revision + 1 /\ new.owner = owner
      /\ new.known = handler[p].known /\ new.todo = {}
  <2>1. new \in Instances
    BY <1>2, <1>4 DEF Fresh, Instances, Stops
  <2> QED
    BY <1>3, <2>1, FenceAssumption DEF Fresh
<1> HIDE DEF new
<1>8. /\ inst' \in [Origins -> Instances \cup {None}]
      /\ inst'[i] = new /\ \A j \in Origins : j # i => inst'[j] = inst[j]
  BY <1>1, <1>2, <1>7 DEF TypeOK
<1>9. launches' \in [Origins -> Nat]
  <2>1. launches \in [Origins -> Nat] /\ launches[i] + 1 \in Nat
    BY <1>2 DEF TypeOK
  <2> QED
    BY <1>1, <2>1
<1>10. /\ handler' \in [Processes -> Handlings \cup {None}]
       /\ handler'[p] = None /\ \A q \in Processes : q # p => handler'[q] = handler[q]
  BY <1>1 DEF TypeOK
<1>11. TypeOK'
  BY <1>1, <1>5, <1>8, <1>9, <1>10 DEF TypeOK, processes
<1>12. \A j \in Origins : inst[j] # None => inst[j].revision \in Nat
  BY DEF TypeOK, Instances
<1>13. InstanceKnows'
  BY <1>2, <1>6, <1>7, <1>8, <1>12 DEF InstanceKnows
<1>14. HandlerKnows'
  <2>1. \A q \in Processes : handler[q] # None => handler[q].revision \in Nat
    BY HandlerHolds
  <2> QED
    BY <1>2, <1>6, <1>10, <2>1 DEF HandlerKnows
<1>15. HandlerOwns'
  <2> SUFFICES ASSUME NEW q \in Processes, handler'[q] # None
               PROVE  LET k == handler'[q].id
                      IN  /\ requests'[k] # None
                          /\ requests'[k].kind =
                                IF handler'[q].stage \in {"resume", "resumed"}
                                THEN "resume" ELSE "continue"
                          /\ handler'[q].stage = "resumed" =>
                                /\ inst'[k] # None /\ inst'[k].owner.process = q
                                /\ row'.revision > requests'[k].revision
    BY DEF HandlerOwns
  <2>1. handler'[q] = handler[q] /\ requests' = requests /\ handler[q].id \in Ids
        /\ handler[q].id \in Origins /\ handler[q] # None
    BY <1>1, <1>10, HandlerHolds
  <2>2. /\ requests[handler[q].id] # None
        /\ requests[handler[q].id].revision \in Nat
        /\ requests[handler[q].id].kind =
              IF handler[q].stage \in {"resume", "resumed"} THEN "resume" ELSE "continue"
    BY <2>1 DEF HandlerOwns, TypeOK
  <2>3. CASE handler[q].stage = "resumed"
    <3>1. /\ inst[handler[q].id] # None /\ inst[handler[q].id].owner.process = q
          /\ row.revision > requests[handler[q].id].revision
      BY <2>1, <2>3 DEF HandlerOwns
    <3>2. requests[i].kind = "continue" /\ handler[q].id # i
      BY <1>1, <2>2, <2>3 DEF HandlerOwns
    <3>3. inst'[handler[q].id] = inst[handler[q].id]
      BY <1>8, <2>1, <3>2
    <3> QED
      BY <1>2, <1>6, <2>1, <2>2, <3>1, <3>3
  <2> QED
    BY <2>1, <2>2, <2>3
<1>16. Recorded'
  BY <1>1, <1>2, <1>3, <1>6, <1>7, <1>8 DEF Recorded
<1>17. OneDoer'
  BY <1>1, <1>7, <1>8 DEF OneDoer
<1> QED
  BY <1>11, <1>13, <1>14, <1>15, <1>16, <1>17
-----------------------------------------------------------------------------
LEMMA StepIInv == IInv /\ [Next]_vars => IInv'
<1> SUFFICES ASSUME IInv, [Next]_vars PROVE IInv'
  OBVIOUS
<1>1. CASE UNCHANGED vars
  BY <1>1 DEF vars, processes, history, IInv, TypeOK, InstanceKnows, HandlerKnows, HandlerOwns,
              Recorded, OneDoer
<1>2. CASE Next
  <2>1. Ids \subseteq Origins
    BY FenceAssumption DEF Ids, Origins
  <2>2. ASSUME NEW p \in Processes,
               \/ Boot(p) \/ Die(p) \/ Start(p)
               \/ \E i \in Ids : ReadResume(p, i) \/ ReadContinue(p, i)
               \/ Takeover(p) \/ LaunchResumed(p) \/ FailResumed(p)
               \/ Claim(p) \/ LaunchContinued(p) \/ GiveUp(p)
        PROVE  IInv'
    BY <2>2, BootKeeps, DieKeeps, StartKeeps, ReadKeeps, TakeoverKeeps, ResumedKeeps,
       ClaimKeeps, ContinuedKeeps, GiveUpKeeps
  <2>3. ASSUME NEW i \in Origins,
               \/ \E w \in Work : Record(i, w) \/ Do(i, w)
               \/ \E action \in {"paused", "cancelled"} : Control(i, action)
               \/ End(i) \/ Block(i) \/ Retain(i) \/ Quiesce(i)
        PROVE  IInv'
    BY <2>3, WritersKeep, DoKeeps, QuiesceKeeps
  <2> QED
    BY <1>2, <2>2, <2>3, AskKeeps DEF Next
<1> QED
  BY <1>1, <1>2

LEMMA Inductive == Spec => []IInv
BY InitIInv, StepIInv, PTL DEF Spec

\* The variables keep their types: TypeOK of CheckpointFence.
THEOREM TypeCorrect == Spec => []TypeOK
<1>1. IInv => TypeOK
  BY DEF IInv
<1> QED
  BY <1>1, Inductive, PTL

\* No piece of work is begun twice, however many processes, instances and requests there
\* are, also where the process lock excludes nobody: only owner and revision count.
THEOREM WorkBegunOnce == Spec => []BegunOnce
<1>1. IInv => BegunOnce
  BY DEF IInv, OneDoer, BegunOnce
<1> QED
  BY <1>1, Inductive, PTL

\* What has been begun, or may still be, is in the checkpoint that a new owner reads.
THEOREM RecordedFirst == Spec => []Recorded
<1>1. IInv => Recorded
  BY DEF IInv
<1> QED
  BY <1>1, Inductive, PTL

-----------------------------------------------------------------------------
(* Who runs, which stops are known, and which requests are spent.  A       *)
(* second invariant, which rests on the first.                             *)

\* Whoever works or handles a request holds the process lock, which, where it works, has
\* one holder.
LockHeld ==
    /\ exclusive => \A p, q \in holders : p = q
    /\ \A i \in Origins : inst[i] # None => inst[i].owner.process \in holders
    /\ \A p \in Processes : handler[p] # None => p \in holders

\* A process has one instance at work, and none while a handler is about to launch one.
BusyOnce ==
    /\ \A i, j \in Origins :
          inst[i] # None /\ inst[j] # None =>
              (inst[i].busy /\ inst[j].busy /\ inst[i].owner.process = inst[j].owner.process => i = j)
    /\ \A p \in Processes : handler[p] # None /\ handler[p].stage \in {"resumed", "continued"} =>
          \A j \in Origins : inst[j] # None => (inst[j].owner.process = p => ~inst[j].busy)

\* An instance that could write the row knows its stop, and one made by a takeover has none.
StopKnown ==
    /\ \A i \in Origins : inst[i] # None =>
          (inst[i].owner = row.owner /\ inst[i].revision = row.revision
              => inst[i].stop \in {row.stop, "checkpoint_failed"})
    /\ \A p \in Processes : handler[p] # None =>
          (handler[p].stage = "resumed" => inst[handler[p].id].stop = "")

\* A request names a revision that the row had, and a request to resume one without a stop.
RequestSound ==
    \A i \in Ids : requests[i] # None =>
        /\ row # None
        /\ requests[i].revision <= row.revision
        /\ requests[i].revision = row.revision /\ requests[i].kind = "resume" => row.stop = ""

\* An instance that was launched was asked for, in a revision that is gone.
Spent ==
    /\ launches[0] > 0 => startup # None
    /\ \A i \in Ids : launches[i] > 0 =>
          requests[i] # None /\ row # None /\ row.revision > requests[i].revision

\* What a takeover has made, or a row has prepared for a request to continue, has not been
\* launched.
Unlaunched ==
    /\ \A p \in Processes : handler[p] # None =>
          (handler[p].stage = "resumed" => launches[handler[p].id] = 0)
    /\ row # None =>
          (row.continuation # None =>
              /\ requests[row.continuation.id] # None
              /\ requests[row.continuation.id].kind = "continue"
              /\ ~row.continuation.launched => launches[row.continuation.id] = 0)

\* A handler whose snapshot is current continues a paused plan, by the continuation that was
\* prepared or, before that, in the revision that was asked for.
Continuing ==
    \A p \in Processes : handler[p] # None =>
        LET i == handler[p].id
            ready == row.continuation # None /\ row.continuation.id = i /\ ~row.continuation.launched
        IN  row.revision = handler[p].revision =>
              /\ handler[p].stage = "continue" =>
                    row.stop = "paused" /\ (ready \/ row.revision = requests[i].revision)
              /\ handler[p].stage = "continued" =>
                    (row.owner = [process |-> p, claim |-> handler[p].revision]
                        => row.stop = "paused" /\ ready)

JInv == /\ LockHeld /\ BusyOnce /\ StopKnown /\ RequestSound
        /\ Spent /\ Unlaunched /\ Continuing /\ LaunchedOnce

LEMMA InitJInv == Init => JInv
<1> SUFFICES ASSUME Init PROVE JInv
  OBVIOUS
<1> USE DEF Init
<1>1. 0 \in Origins /\ Ids \subseteq Origins
  BY FenceAssumption DEF Ids, Origins
<1>2. LockHeld /\ BusyOnce /\ StopKnown /\ Continuing
  BY DEF LockHeld, BusyOnce, StopKnown, Continuing
<1>3. RequestSound /\ Spent /\ Unlaunched /\ LaunchedOnce
  BY <1>1 DEF RequestSound, Spent, Unlaunched, LaunchedOnce
<1> QED
  BY <1>2, <1>3 DEF JInv

\* What an instance is.
LEMMA InstanceHolds ==
    ASSUME IInv, NEW i \in Origins, inst[i] # None
    PROVE  /\ inst[i] \in Instances /\ inst[i].revision \in Nat
           /\ inst[i].owner \in Owners /\ inst[i].owner.process \in Processes
           /\ row # None /\ row \in Checkpoints /\ row.revision \in Nat
           /\ inst[i].revision <= row.revision
<1>1. inst[i] \in Instances
  BY DEF IInv, TypeOK
<1>2. row # None /\ inst[i].revision <= row.revision /\ row \in Checkpoints
  BY DEF IInv, TypeOK, InstanceKnows
<1> QED
  BY <1>1, <1>2 DEF Instances, Owners, Checkpoints

\* What a request is.
LEMMA RequestHolds ==
    ASSUME IInv, JInv, NEW i \in Ids, requests[i] # None
    PROVE  /\ requests[i].revision \in Nat /\ requests[i].kind \in {"resume", "continue"}
           /\ row # None /\ row \in Checkpoints /\ row.revision \in Nat
           /\ requests[i].revision <= row.revision
<1>1. requests[i].revision \in Nat /\ requests[i].kind \in {"resume", "continue"}
  BY DEF IInv, TypeOK
<1>2. row # None /\ requests[i].revision <= row.revision /\ row \in Checkpoints
  BY DEF IInv, TypeOK, JInv, RequestSound
<1> QED
  BY <1>1, <1>2 DEF Checkpoints

\* No instance learns, starts to work or moves to another process, and none is told to stop
\* but by its own failed write.
Quieter ==
    \A j \in Origins : inst'[j] # None =>
        /\ inst[j] # None
        /\ inst'[j].owner = inst[j].owner /\ inst'[j].revision = inst[j].revision
        /\ inst'[j].busy => inst[j].busy
        /\ inst'[j].stop \in {inst[j].stop, "checkpoint_failed"}

\* The instances that takeovers have made, and nobody has launched yet, are left alone.
HandledStay ==
    \A p \in Processes : handler'[p] # None =>
        (handler[p].stage = "resumed" => inst'[handler[p].id] = inst[handler[p].id])

\* A step that writes nothing and launches nobody.
LEMMA CalmKeeps ==
    ASSUME IInv, JInv, HandlersEnd, Quieter, HandledStay, LockHeld',
           UNCHANGED <<row, launches, startup, requests>>
    PROVE  JInv'
<1> USE DEF IInv, JInv
<1>1. \A p \in Processes : handler'[p] # None => handler'[p] = handler[p]
  BY DEF HandlersEnd
<1>2. BusyOnce'
  BY <1>1 DEF BusyOnce, Quieter
<1>3. StopKnown'
  <2>1. \A j \in Origins : inst'[j] # None =>
            (inst'[j].owner = row'.owner /\ inst'[j].revision = row'.revision
                => inst'[j].stop \in {row'.stop, "checkpoint_failed"})
    BY DEF StopKnown, Quieter
  <2>2. ASSUME NEW p \in Processes, handler'[p] # None, handler'[p].stage = "resumed"
        PROVE  inst'[handler'[p].id].stop = ""
    <3>1. handler'[p] = handler[p] /\ inst[handler[p].id].stop = ""
      BY <1>1, <2>2 DEF StopKnown
    <3>2. inst'[handler[p].id] = inst[handler[p].id]
      BY <2>2, <3>1 DEF HandledStay
    <3> QED
      BY <3>1, <3>2
  <2> QED
    BY <2>1, <2>2 DEF StopKnown
<1>4. RequestSound' /\ Spent' /\ LaunchedOnce'
  BY DEF RequestSound, Spent, LaunchedOnce
<1>5. Unlaunched'
  BY <1>1 DEF Unlaunched
<1>6. Continuing'
  BY <1>1 DEF Continuing
<1> QED
  BY <1>2, <1>3, <1>4, <1>5, <1>6

\* What a write does, besides what SavedDoes says.
LEMMA SavedElse ==
    ASSUME IInv, NEW i \in Origins, NEW m, Grown(i, m), Saved(i, m)
    PROVE  /\ row'.stop = m.stop /\ row'.continuation = row.continuation
           /\ inst'[i].busy = m.busy /\ inst'[i].stop = m.stop
<1>1. row \in Checkpoints /\ row # None /\ row' \in Checkpoints
  BY SavedDoes
<1>2. row' = [row EXCEPT !.owner = m.owner, !.revision = m.revision + 1,
                         !.stop = m.stop, !.known = m.known]
  BY DEF Saved
<1>3. row'.stop = m.stop /\ row'.continuation = row.continuation
  BY <1>1, <1>2 DEF Checkpoints
<1>4. m \in Instances
  BY DEF Grown
<1>5. inst'[i] = [m EXCEPT !.revision = @ + 1]
  BY DEF Saved, IInv, TypeOK
<1> QED
  BY <1>3, <1>4, <1>5 DEF Instances

\* A step that writes, and launches nobody or, as the first write of a resumed instance,
\* that one.
LEMMA WriteKeeps ==
    ASSUME IInv, JInv, NEW i \in Origins, NEW m, Grown(i, m), Saved(i, m),
           HandlersEnd, HandledStay, UNCHANGED <<exclusive, holders, startup, requests>>
    PROVE  LockHeld' /\ StopKnown' /\ RequestSound' /\ Continuing'
<1> USE DEF IInv, JInv
<1>1. /\ row # None /\ row \in Checkpoints /\ row.revision \in Nat
      /\ row' # None /\ row'.revision = row.revision + 1 /\ row'.owner = row.owner
      /\ inst'[i] # None /\ inst'[i].revision = row.revision + 1
      /\ inst'[i].owner = inst[i].owner /\ inst[i] # None
      /\ \A j \in Origins : j # i => inst'[j] = inst[j]
  BY SavedDoes DEF Checkpoints, Grown
<1>2. row'.stop = m.stop /\ row'.continuation = row.continuation /\ inst'[i].stop = m.stop
  BY SavedElse
<1>3. \A p \in Processes : handler'[p] # None => handler'[p] = handler[p]
  BY DEF HandlersEnd
<1>4. LockHeld'
  BY <1>1, <1>3 DEF LockHeld
<1>5. StopKnown'
  <2>1. \A j \in Origins : inst[j] # None => inst[j].revision <= row.revision /\ inst[j].revision \in Nat
    BY InstanceHolds
  <2>2. \A j \in Origins : inst'[j] # None =>
            (inst'[j].owner = row'.owner /\ inst'[j].revision = row'.revision
                => inst'[j].stop \in {row'.stop, "checkpoint_failed"})
    BY <1>1, <1>2, <2>1
  <2>3. ASSUME NEW p \in Processes, handler'[p] # None, handler'[p].stage = "resumed"
        PROVE  inst'[handler'[p].id].stop = ""
    <3>1. handler'[p] = handler[p] /\ inst[handler[p].id].stop = ""
      BY <1>3, <2>3 DEF StopKnown
    <3>2. inst'[handler[p].id] = inst[handler[p].id]
      BY <2>3, <3>1 DEF HandledStay
    <3> QED
      BY <3>1, <3>2
  <2> QED
    BY <2>2, <2>3 DEF StopKnown
<1>6. RequestSound'
  <2> SUFFICES ASSUME NEW k \in Ids, requests[k] # None
               PROVE  /\ requests[k].revision <= row'.revision
                      /\ requests[k].revision # row'.revision
    BY <1>1 DEF RequestSound
  <2>1. requests[k].revision \in Nat /\ requests[k].revision <= row.revision
    BY RequestHolds
  <2> QED
    BY <1>1, <2>1
<1>7. Continuing'
  <2>1. \A p \in Processes : handler[p] # None =>
            handler[p].revision \in Nat /\ handler[p].revision <= row.revision
    BY HandlerHolds DEF HandlerKnows
  <2> QED
    BY <1>1, <1>3, <2>1 DEF Continuing
<1> QED
  BY <1>4, <1>5, <1>6, <1>7

\* A write that launches nobody keeps the whole invariant.
LEMMA PlainWriteKeeps ==
    ASSUME IInv, JInv, NEW i \in Origins, NEW m, Grown(i, m), Saved(i, m),
           m.busy => inst[i].busy,
           HandlersEnd, HandledStay, UNCHANGED <<exclusive, holders, startup, requests, launches>>
    PROVE  JInv'
<1> USE DEF IInv, JInv
<1>1. LockHeld' /\ StopKnown' /\ RequestSound' /\ Continuing'
  BY WriteKeeps
<1>2. /\ row # None /\ row \in Checkpoints /\ row.revision \in Nat
      /\ row' # None /\ row'.revision = row.revision + 1
      /\ inst'[i] # None /\ inst'[i].owner = inst[i].owner /\ inst[i] # None
      /\ \A j \in Origins : j # i => inst'[j] = inst[j]
  BY SavedDoes DEF Checkpoints, Grown
<1>3. row'.continuation = row.continuation /\ inst'[i].busy = m.busy
  BY SavedElse
<1>4. \A p \in Processes : handler'[p] # None => handler'[p] = handler[p]
  BY DEF HandlersEnd
<1>5. BusyOnce'
  BY <1>2, <1>3, <1>4 DEF BusyOnce
<1>6. Spent'
  BY <1>2, RequestHolds DEF Spent
<1>7. Unlaunched' /\ LaunchedOnce'
  BY <1>2, <1>3, <1>4 DEF Unlaunched, LaunchedOnce
<1> QED
  BY <1>1, <1>5, <1>6, <1>7

-----------------------------------------------------------------------------
(* Each action keeps the second invariant.                                 *)

\* An instance that works, or whose process handles no request, is not one that a handler
\* is about to launch.
LEMMA NotHandled ==
    ASSUME IInv, JInv, NEW i \in Origins, inst[i] # None,
           inst[i].busy \/ handler[inst[i].owner.process] = None,
           \A j \in Origins : j # i => inst'[j] = inst[j],
           handler' = handler
    PROVE  HandledStay
<1> SUFFICES ASSUME NEW p \in Processes, handler[p] # None, handler[p].stage = "resumed"
             PROVE  inst'[handler[p].id] = inst[handler[p].id]
  BY DEF HandledStay
<1>1. handler[p].id \in Origins
  BY HandlerHolds
<1>2. inst[handler[p].id] # None /\ inst[handler[p].id].owner.process = p
  BY DEF IInv, HandlerOwns
<1>3. ~inst[handler[p].id].busy
  BY <1>1, <1>2 DEF JInv, BusyOnce
<1>4. handler[p].id # i
  BY <1>2, <1>3
<1> QED
  BY <1>1, <1>4

\* A failed write changes one stop.
LEMMA FailedDoes ==
    ASSUME IInv, NEW i \in Origins, inst[i] # None, Failed(i)
    PROVE  /\ Quieter
           /\ inst'[i] # None /\ inst'[i].owner = inst[i].owner
           /\ \A j \in Origins : j # i => inst'[j] = inst[j]
<1>1. inst[i] \in Instances /\ [inst[i] EXCEPT !.stop = "checkpoint_failed"] \in Instances
  BY DEF IInv, TypeOK, Instances
<1>2. /\ inst'[i] = [inst[i] EXCEPT !.stop = "checkpoint_failed"]
      /\ \A j \in Origins : j # i => inst'[j] = inst[j]
  BY <1>1 DEF IInv, TypeOK, Failed
<1>3. inst'[i] # None
  BY <1>1, <1>2, FenceAssumption
<1>4. Quieter
  BY <1>1, <1>2 DEF Quieter, Instances
<1> QED
  BY <1>1, <1>2, <1>3, <1>4 DEF Instances

\* Whether the write succeeds or fails.
LEMMA CheckpointKeepsJ ==
    ASSUME IInv, JInv, NEW i \in Origins, NEW m, Grown(i, m), Checkpoint(i, m),
           m.busy => inst[i].busy,
           HandlersEnd, HandledStay, UNCHANGED <<exclusive, holders, startup, requests, launches>>
    PROVE  JInv'
<1>1. CASE Saved(i, m)
  BY <1>1, PlainWriteKeeps
<1>2. CASE Failed(i)
  <2>1. inst[i] # None
    BY DEF Grown
  <2>2. /\ Quieter /\ row' = row
        /\ inst'[i] # None /\ inst'[i].owner = inst[i].owner
        /\ \A j \in Origins : j # i => inst'[j] = inst[j]
    BY <1>2, <2>1, FailedDoes, FailedKeeps
  <2>3. LockHeld'
    BY <2>1, <2>2 DEF JInv, LockHeld, HandlersEnd
  <2> QED
    BY <2>2, <2>3, CalmKeeps
<1> QED
  BY <1>1, <1>2 DEF Checkpoint

LEMMA WritersKeepJ ==
    ASSUME IInv, JInv, NEW i \in Origins,
           \/ \E w \in Work : Record(i, w)
           \/ End(i) \/ Block(i) \/ Retain(i)
           \/ \E action \in {"paused", "cancelled"} : Control(i, action)
    PROVE  JInv'
<1>1. inst[i] # None /\ inst[i] \in Instances
  BY DEF Record, End, Block, Retain, Control, IInv, TypeOK
<1>2. /\ UNCHANGED <<processes, handler, requests, begun, launches>>
      /\ UNCHANGED <<exclusive, holders, startup>>
      /\ HandlersEnd
  BY DEF Record, End, Block, Retain, Control, HandlersEnd, history, processes
<1>3. inst[i].busy \/ handler[inst[i].owner.process] = None
  BY DEF Record, End, Block, Retain, Control
<1>4. ASSUME NEW m, Grown(i, m), Checkpoint(i, m), m.busy = inst[i].busy
      PROVE  JInv'
  <2>1. \A j \in Origins : j # i => inst'[j] = inst[j]
    BY <1>1, <1>4, SavedDoes, FailedDoes DEF Checkpoint
  <2>2. HandledStay
    BY <1>1, <1>2, <1>3, <2>1, NotHandled
  <2> QED
    BY <1>2, <1>4, <2>2, CheckpointKeepsJ
<1>5. CASE \E w \in Work : Record(i, w)
  <2>1. PICK w \in Work : Record(i, w)
    BY <1>5
  <2> DEFINE m == [inst[i] EXCEPT !.known = @ \cup {w}, !.todo = @ \cup {w}]
  <2>2. Grown(i, m) /\ m.busy = inst[i].busy
    BY <1>1, <2>1 DEF Grown, Record, Instances, Stops
  <2>3. Checkpoint(i, m)
    BY <2>1 DEF Record
  <2> QED
    BY <1>4, <2>2, <2>3
<1>6. ASSUME NEW stop \in {"paused", "cancelled", "ended", "blocked"}
      PROVE  Grown(i, [inst[i] EXCEPT !.stop = stop])
             /\ [inst[i] EXCEPT !.stop = stop].busy = inst[i].busy
  BY <1>1 DEF Grown, Instances, Stops
<1>7. CASE End(i)
  BY <1>4, <1>6, <1>7 DEF End
<1>8. CASE Block(i)
  BY <1>4, <1>6, <1>8 DEF Block
<1>9. CASE Retain(i)
  <2>1. Grown(i, inst[i])
    BY <1>1, <1>9 DEF Grown, Retain, Instances, Stops
  <2> QED
    BY <1>4, <1>9, <2>1 DEF Retain
<1>10. CASE \E action \in {"paused", "cancelled"} : Control(i, action)
  BY <1>4, <1>6, <1>10 DEF Control
<1> QED
  BY <1>5, <1>7, <1>8, <1>9, <1>10

LEMMA WorkersKeepJ ==
    ASSUME IInv, JInv, NEW i \in Origins, Quiesce(i) \/ \E w \in Work : Do(i, w)
    PROVE  JInv'
<1>1. /\ inst[i] # None /\ inst[i] \in Instances /\ inst[i].busy
      /\ UNCHANGED <<processes, row, handler, requests, launches>>
      /\ UNCHANGED <<exclusive, holders, startup>>
  BY DEF Quiesce, Do, IInv, TypeOK, processes, history
<1>2. PICK m : /\ inst' = [inst EXCEPT ![i] = m]
               /\ m \in Instances /\ m.owner = inst[i].owner /\ m.revision = inst[i].revision
               /\ m.stop = inst[i].stop
  <2>1. CASE Quiesce(i)
    <3> WITNESS [inst[i] EXCEPT !.busy = FALSE, !.todo = {}]
    <3> QED
      BY <1>1, <2>1 DEF Quiesce, Instances
  <2>2. CASE \E w \in Work : Do(i, w)
    <3>1. PICK w \in Work : Do(i, w)
      BY <2>2
    <3> WITNESS [inst[i] EXCEPT !.todo = @ \ {w}]
    <3> QED
      BY <1>1, <3>1 DEF Do, Instances
  <2> QED
    BY <2>1, <2>2
<1>3. /\ inst'[i] = m /\ m # None
      /\ \A j \in Origins : j # i => inst'[j] = inst[j]
  BY <1>2, FenceAssumption DEF IInv, TypeOK
<1>4. Quieter
  BY <1>1, <1>2, <1>3 DEF Quieter
<1>5. HandledStay /\ HandlersEnd
  BY <1>1, <1>3, NotHandled DEF HandlersEnd
<1>6. LockHeld'
  BY <1>1, <1>2, <1>3 DEF JInv, LockHeld
<1> QED
  BY <1>1, <1>4, <1>5, <1>6, CalmKeeps

LEMMA BootKeepsJ ==
    ASSUME IInv, JInv, NEW p \in Processes, Boot(p)
    PROVE  JInv'
<1>1. UNCHANGED <<exclusive, holders, startup, row, inst, handler, requests, launches>>
  BY DEF Boot, history
<1>2. Quieter /\ HandlersEnd /\ HandledStay
  BY <1>1 DEF Quieter, HandlersEnd, HandledStay
<1>3. LockHeld'
  BY <1>1 DEF JInv, LockHeld
<1> QED
  BY <1>1, <1>2, <1>3, CalmKeeps

LEMMA DieKeepsJ ==
    ASSUME IInv, JInv, NEW p \in Processes, Die(p)
    PROVE  JInv'
<1>1. /\ holders' = holders \ {p} /\ handler' = [handler EXCEPT ![p] = None]
      /\ UNCHANGED <<exclusive, startup, row, requests, launches>>
  BY DEF Die, history
<1>2. \A j \in Origins : inst'[j] # None =>
          inst'[j] = inst[j] /\ inst[j].owner.process # p
  BY DEF Die, Of
<1>3. \A q \in Processes : handler'[q] # None => q # p /\ handler'[q] = handler[q]
  BY <1>1 DEF IInv, TypeOK
<1>4. Quieter /\ HandlersEnd
  BY <1>2, <1>1 DEF Quieter, HandlersEnd, IInv, TypeOK
<1>5. HandledStay
  <2> SUFFICES ASSUME NEW q \in Processes, handler'[q] # None, handler[q].stage = "resumed"
               PROVE  inst'[handler[q].id] = inst[handler[q].id]
    BY DEF HandledStay
  <2>1. q # p /\ handler[q] # None
    BY <1>3
  <2>2. handler[q].id \in Origins
    BY <2>1, HandlerHolds
  <2>3. inst[handler[q].id] # None /\ inst[handler[q].id].owner.process = q
    BY <2>1 DEF IInv, HandlerOwns
  <2> QED
    BY <2>1, <2>2, <2>3 DEF Die, Of
<1>6. LockHeld'
  BY <1>1, <1>2, <1>3 DEF JInv, LockHeld
<1> QED
  BY <1>1, <1>4, <1>5, <1>6, CalmKeeps

LEMMA GiveUpKeepsJ ==
    ASSUME IInv, JInv, NEW p \in Processes, GiveUp(p)
    PROVE  JInv'
<1>1. /\ handler' = [handler EXCEPT ![p] = None]
      /\ UNCHANGED <<exclusive, holders, startup, row, inst, requests, launches>>
  BY DEF GiveUp, processes, history
<1>2. Quieter /\ HandlersEnd /\ HandledStay
  BY <1>1 DEF Quieter, HandlersEnd, HandledStay, IInv, TypeOK
<1>3. LockHeld'
  BY <1>1, <1>2 DEF JInv, LockHeld, HandlersEnd
<1> QED
  BY <1>1, <1>2, <1>3, CalmKeeps

\* A request is made in the row's revision, and nothing has been launched for it.
LEMMA AskKeepsJ ==
    ASSUME IInv, JInv, NEW i \in Ids, Ask(i)
    PROVE  JInv'
<1> USE DEF IInv, JInv
<1>1. /\ requests[i] = None /\ row # None /\ row \in Checkpoints /\ row.revision \in Nat
      /\ requests' = [requests EXCEPT ![i] = Request]
      /\ UNCHANGED <<exclusive, holders, startup, row, inst, handler, launches>>
  BY DEF Ask, TypeOK, Checkpoints, processes, history
<1>2. /\ requests'[i] = Request /\ \A k \in Ids : k # i => requests'[k] = requests[k]
      /\ Request.kind = "resume" => row.stop = ""
      /\ Request.revision = row.revision
  BY <1>1 DEF TypeOK, Request
<1>3. LockHeld' /\ BusyOnce' /\ StopKnown' /\ LaunchedOnce'
  BY <1>1 DEF LockHeld, BusyOnce, StopKnown, LaunchedOnce
<1>4. RequestSound'
  <2> SUFFICES ASSUME NEW k \in Ids, requests'[k] # None
               PROVE  /\ row # None /\ requests'[k].revision <= row.revision
                      /\ requests'[k].revision = row.revision /\ requests'[k].kind = "resume"
                             => row.stop = ""
    BY <1>1 DEF RequestSound
  <2>1. CASE k = i
    <3>1. requests'[k].revision = row.revision /\ (requests'[k].kind = "resume" => row.stop = "")
      BY <1>2, <2>1
    <3>2. row.revision <= row.revision
      BY <1>1
    <3> QED
      BY <1>1, <3>1, <3>2
  <2>2. CASE k # i
    BY <1>1, <1>2, <2>2 DEF RequestSound
  <2> QED
    BY <2>1, <2>2
<1>5. Spent'
  <2>1. launches[i] = 0
    BY <1>1, FenceAssumption DEF Spent, TypeOK, Ids, Origins
  <2> QED
    BY <1>1, <1>2, <2>1 DEF Spent
<1>6. Unlaunched'
  <2>1. row.continuation # None => row.continuation.id \in Ids
    BY <1>1 DEF Checkpoints, Prepared
  <2>2. row.continuation # None => requests'[row.continuation.id] = requests[row.continuation.id]
    BY <1>1, <1>2, <2>1 DEF Unlaunched
  <2> QED
    BY <1>1, <2>2 DEF Unlaunched
<1>7. Continuing'
  <2>1. \A p \in Processes : handler[p] # None =>
            handler[p].id \in Ids /\ requests'[handler[p].id] = requests[handler[p].id]
    BY <1>1, <1>2, HandlerHolds DEF HandlerOwns
  <2> QED
    BY <1>1, <2>1 DEF Continuing
<1> QED
  BY <1>3, <1>4, <1>5, <1>6, <1>7

\* What acquiring the process lock keeps.
LEMMA Acquired ==
    ASSUME IInv, JInv, NEW p \in Processes, Acquirable(p), holders' = holders \cup {p},
           exclusive' = exclusive
    PROVE  exclusive' => \A q, r \in holders' : q = r
BY DEF JInv, LockHeld, Acquirable

\* A start finds no instance, no handler and no request.
LEMMA StartKeepsJ ==
    ASSUME IInv, JInv, NEW p \in Processes, Start(p)
    PROVE  JInv'
<1> USE DEF IInv, JInv
<1>1. /\ UNCHANGED <<exclusive, handler, requests>> /\ startup = None /\ startup' = p
      /\ holders' = holders \/ (Acquirable(p) /\ holders' = holders \cup {p})
  BY DEF Start
<1>2. p # None /\ 0 \in Origins /\ 0 \notin Ids
  BY FenceAssumption DEF Ids, Origins
<1>3. exclusive' => \A q, r \in holders' : q = r
  BY <1>1, Acquired DEF LockHeld
<1>4. CASE UNCHANGED <<inst, row, launches>>
  <2>1. LockHeld'
    BY <1>1, <1>3, <1>4 DEF LockHeld
  <2>2. BusyOnce' /\ StopKnown' /\ RequestSound' /\ Unlaunched' /\ Continuing' /\ LaunchedOnce'
    BY ZenonT(40), <1>1, <1>4 DEF BusyOnce, StopKnown, RequestSound, Unlaunched, Continuing, LaunchedOnce
  <2>3. Spent'
    BY <1>1, <1>2, <1>4 DEF Spent
  <2> QED
    BY <2>1, <2>2, <2>3
<1>5. CASE /\ row = None
           /\ holders' = holders \cup {p}
           /\ inst' = [inst EXCEPT ![0] = [Fresh(Self(p), 1, "", {}) EXCEPT !.busy = TRUE]]
           /\ row' = [owner |-> Self(p), revision |-> 1, stop |-> "", known |-> {},
                      recovery |-> None, continuation |-> None]
           /\ launches' = [launches EXCEPT ![0] = @ + 1]
  <2>1. /\ \A i \in Origins : inst[i] = None
        /\ \A q \in Processes : handler[q] = None
        /\ \A i \in Ids : requests[i] = None
    BY <1>5 DEF InstanceKnows, HandlerKnows, RequestSound
  <2>2. \A i \in Origins : inst'[i] # None =>
            i = 0 /\ inst'[i].owner.process = p /\ inst'[i].stop = ""
    BY <1>2, <1>5, <2>1 DEF TypeOK, Fresh, Self
  <2>3. LockHeld'
    BY <1>1, <1>3, <1>5, <2>1, <2>2 DEF LockHeld
  <2>4. BusyOnce'
    BY <1>1, <2>1, <2>2 DEF BusyOnce
  <2>5. StopKnown' /\ RequestSound' /\ Continuing'
    BY <1>1, <1>5, <2>1, <2>2 DEF StopKnown, RequestSound, Continuing
  <2>6. \A i \in Origins : launches[i] \in Nat
    BY DEF TypeOK
  <2>7. launches[0] = 0 /\ launches'[0] = 1 /\ \A i \in Origins : i # 0 => launches'[i] = launches[i]
    <3>1. launches[0] = 0
      BY <1>1, <1>2, <2>6 DEF Spent
    <3>2. launches \in [Origins -> Nat] /\ launches' = [launches EXCEPT ![0] = @ + 1]
      BY <1>5 DEF TypeOK
    <3>3. launches'[0] = launches[0] + 1 /\ \A i \in Origins : i # 0 => launches'[i] = launches[i]
      BY <1>2, <3>2
    <3> QED
      BY <3>1, <3>3
  <2>8. Spent' /\ LaunchedOnce'
    <3>1. \A i \in Ids : i \in Origins /\ i # 0
      BY FenceAssumption DEF Ids, Origins
    <3> QED
      BY <1>1, <1>2, <2>1, <2>7, <3>1 DEF Spent, LaunchedOnce
  <2>9. Unlaunched'
    BY <1>1, <1>5, <2>1 DEF Unlaunched
  <2> QED
    BY <2>3, <2>4, <2>5, <2>8, <2>9
<1> QED
  BY <1>4, <1>5 DEF Start

\* A handler that has read the row is about to launch nobody; one that continues has read a
\* pause.
LEMMA ReadKeepsJ ==
    ASSUME IInv, JInv, NEW p \in Processes, NEW k \in Ids, ReadResume(p, k) \/ ReadContinue(p, k)
    PROVE  JInv'
<1> USE DEF IInv, JInv
<1>1. /\ row # None /\ row \in Checkpoints /\ requests[k] # None
      /\ handler[p] = None
      /\ Acquirable(p) /\ holders' = holders \cup {p}
      /\ UNCHANGED <<exclusive, startup, row, inst, requests, launches>>
  BY DEF ReadResume, ReadContinue, TypeOK, history
<1> DEFINE New(q) == /\ q = p
                     /\ handler'[q].id = k /\ handler'[q].revision = row.revision
                     /\ handler'[q].stage \in {"resume", "continue"}
                     /\ handler'[q].stage = "continue" =>
                            /\ row.stop = "paused"
                            /\ \/ /\ row.continuation # None /\ row.continuation.id = k
                                  /\ ~row.continuation.launched
                               \/ row.revision = requests[k].revision
<1>2. \A q \in Processes : handler'[q] # None => handler'[q] = handler[q] \/ New(q)
  <2>1. CASE handler' = handler
    BY <2>1
  <2>2. CASE ReadResume(p, k) /\ handler' # handler
    <3>1. handler' = [handler EXCEPT ![p] = [id |-> k, stage |-> "resume",
                                             revision |-> row.revision, known |-> row.known]]
      BY <2>2 DEF ReadResume
    <3> QED
      BY <3>1 DEF TypeOK
  <2>3. CASE ReadContinue(p, k) /\ handler' # handler
    <3>1. /\ handler' = [handler EXCEPT ![p] = [id |-> k, stage |-> "continue",
                                                revision |-> row.revision, known |-> row.known]]
          /\ row.stop = "paused"
          /\ \/ /\ row.continuation # None /\ row.continuation.id = k
                /\ ~row.continuation.launched
             \/ row.revision = requests[k].revision
      BY <2>3 DEF ReadContinue
    <3> QED
      BY <3>1 DEF TypeOK
  <2> QED
    BY <2>1, <2>2, <2>3
<1>3. LockHeld'
  <2>1. exclusive' => \A q, r \in holders' : q = r
    BY <1>1, Acquired
  <2> QED
    BY <1>1, <1>2, <2>1 DEF LockHeld
<1>4. BusyOnce' /\ StopKnown'
  BY ZenonT(40), <1>1, <1>2 DEF BusyOnce, StopKnown
<1>5. RequestSound' /\ Spent' /\ LaunchedOnce'
  BY <1>1 DEF RequestSound, Spent, LaunchedOnce
<1>6. Unlaunched'
  BY <1>1, <1>2 DEF Unlaunched
<1>7. Continuing'
  <2> SUFFICES ASSUME NEW q \in Processes, handler'[q] # None, row.revision = handler'[q].revision
               PROVE  LET i == handler'[q].id
                          ready == /\ row.continuation # None /\ row.continuation.id = i
                                   /\ ~row.continuation.launched
                      IN  /\ handler'[q].stage = "continue" =>
                                row.stop = "paused" /\ (ready \/ row.revision = requests[i].revision)
                          /\ handler'[q].stage = "continued" =>
                                (row.owner = [process |-> q, claim |-> handler'[q].revision]
                                    => row.stop = "paused" /\ ready)
    BY <1>1 DEF Continuing
  <2>1. CASE handler'[q] = handler[q]
    BY <2>1 DEF Continuing
  <2>2. CASE New(q)
    BY <2>2
  <2> QED
    BY <1>2, <2>1, <2>2
<1> QED
  BY <1>3, <1>4, <1>5, <1>6, <1>7

\* Retiring instances is calm.
LEMMA RetiredCalm ==
    ASSUME IInv, JInv, NEW p \in Processes, inst' = Retired(p), handler' = [handler EXCEPT ![p] = None],
           UNCHANGED <<exclusive, holders, startup, row, requests, launches>>
    PROVE  JInv'
<1>1. \A j \in Origins : inst'[j] # None => inst'[j] = inst[j] /\ inst[j] # None
  BY RetiredLess
<1>2. \A q \in Processes : handler'[q] # None => q # p /\ handler'[q] = handler[q]
  BY DEF IInv, TypeOK
<1>3. Quieter /\ HandlersEnd
  BY <1>1 DEF Quieter, HandlersEnd, IInv, TypeOK
<1>4. HandledStay
  <2> SUFFICES ASSUME NEW q \in Processes, handler'[q] # None, handler[q].stage = "resumed"
               PROVE  inst'[handler[q].id] = inst[handler[q].id]
    BY DEF HandledStay
  <2>1. q # p /\ handler[q] # None
    BY <1>2
  <2>2. handler[q].id \in Origins
    BY <2>1, HandlerHolds
  <2>3. inst[handler[q].id] # None /\ inst[handler[q].id].owner.process = q
    BY <2>1 DEF IInv, HandlerOwns
  <2> QED
    BY <2>1, <2>2, <2>3, RetiredLess
<1>5. LockHeld'
  BY <1>1, <1>2 DEF JInv, LockHeld
<1> QED
  BY <1>3, <1>4, <1>5, CalmKeeps

\* A takeover makes an instance that does not work, without a stop, for a request that has
\* launched nothing; nothing else works in its process.
LEMMA TakeoverKeepsJ ==
    ASSUME IInv, JInv, NEW p \in Processes, Takeover(p)
    PROVE  JInv'
<1> USE DEF IInv, JInv
<1> DEFINE i == handler[p].id
           new == Fresh(Self(p), row.revision + 1, row.stop, row.known)
<1>1. /\ handler[p] # None /\ handler[p].stage = "resume" /\ Quiet(p)
      /\ UNCHANGED <<exclusive, holders, startup, requests, launches>>
  BY DEF Takeover, history, processes
<1>2. /\ i \in Ids /\ i \in Origins /\ handler[p] \in Handlings
      /\ row # None /\ row \in Checkpoints /\ row.revision \in Nat
      /\ requests[i] # None /\ requests[i].kind = "resume" /\ requests[i].revision \in Nat
  <2>1. i \in Ids /\ i \in Origins /\ row # None /\ row \in Checkpoints /\ row.revision \in Nat
        /\ handler[p] \in Handlings
    BY <1>1, HandlerHolds
  <2>2. requests[i] # None /\ requests[i].kind = "resume"
    BY <1>1 DEF HandlerOwns
  <2> QED
    BY <2>1, <2>2, RequestHolds
<1>3. CASE inst' = Retired(p) /\ handler' = [handler EXCEPT ![p] = None] /\ UNCHANGED row
  BY <1>1, <1>3, RetiredCalm
<1>4. CASE /\ Takeable(p, i)
           /\ row' = [row EXCEPT !.owner = Self(p), !.revision = @ + 1, !.recovery = i]
           /\ inst' = [Retired(p) EXCEPT ![i] = new]
           /\ handler' = [handler EXCEPT ![p].stage = "resumed"]
  <2>1. Self(p) \in Owners /\ Self(p).process = p
    BY DEF Self, Owners
  <2>2. row' \in Checkpoints
    <3>1. row.revision + 1 \in Nat /\ i \in Ids \cup {None}
      BY <1>2
    <3> HIDE DEF i
    <3> QED
      BY <1>2, <1>4, <2>1, <3>1 DEF Checkpoints
  <2>3. /\ row' # None /\ row'.revision = row.revision + 1 /\ row'.owner = Self(p)
        /\ row'.stop = row.stop /\ row'.continuation = row.continuation
    BY <1>2, <1>4, <2>2, FenceAssumption DEF Checkpoints
  <2>4. row.revision = requests[i].revision /\ row.stop = "" /\ launches[i] = 0
    <3>1. row.revision = requests[i].revision
      BY <1>4 DEF Takeable
    <3>2. row.stop = ""
      BY <1>2, <3>1 DEF RequestSound
    <3>3. launches[i] \in Nat
      BY <1>2 DEF TypeOK
    <3>4. ~(launches[i] > 0)
      BY <1>2, <3>1 DEF Spent
    <3> HIDE DEF i
    <3>5. launches[i] = 0
      BY <3>3, <3>4
    <3> QED
      BY <3>1, <3>2, <3>5
  <2>5. /\ new.owner = Self(p) /\ new.revision = row.revision + 1
        /\ new.stop = "" /\ new.busy = FALSE
    BY <2>4 DEF Fresh
  <2> HIDE DEF new, i
  <2>6. inst'[i] = new /\ \A j \in Origins : j # i => inst'[j] = Retired(p)[j]
    BY <1>2, <1>4, RetiredTyped
  <2>7. \A j \in Origins : j # i => inst'[j] \in {None, inst[j]}
    BY <2>6, RetiredLess
  <2>8. /\ handler'[p] # None /\ handler'[p].id = i /\ handler'[p].stage = "resumed"
        /\ \A q \in Processes : q # p => handler'[q] = handler[q]
    <3>1. handler' = [handler EXCEPT ![p] = [handler[p] EXCEPT !.stage = "resumed"]]
      BY <1>4
    <3>2. [handler[p] EXCEPT !.stage = "resumed"] \in Handlings
      BY <1>2 DEF Handlings
    <3> QED
      BY <1>2, <3>1, <3>2, FenceAssumption DEF TypeOK, Handlings, i
  <2>9. \A q \in Processes : q # p /\ handler[q] # None /\ handler[q].stage = "resumed" =>
            /\ handler[q].id \in Origins /\ handler[q].id # i
            /\ inst'[handler[q].id] = inst[handler[q].id]
    <3> SUFFICES ASSUME NEW q \in Processes, q # p, handler[q] # None, handler[q].stage = "resumed"
                 PROVE  /\ handler[q].id \in Origins /\ handler[q].id # i
                        /\ inst'[handler[q].id] = inst[handler[q].id]
      OBVIOUS
    <3>1. /\ inst[handler[q].id] # None /\ inst[handler[q].id].owner.process = q
          /\ row.revision > requests[handler[q].id].revision
      BY DEF HandlerOwns
    <3>2. handler[q].id \in Origins
      BY HandlerHolds
    <3>3. handler[q].id # i
      <4>1. requests[handler[q].id].revision # row.revision
        <5>1. requests[handler[q].id].revision \in Nat
          BY HandlerHolds, RequestHolds DEF HandlerOwns
        <5> QED
          BY <1>2, <3>1, <5>1
      <4> QED
        BY <2>4, <4>1
    <3> QED
      BY <2>6, <3>1, <3>2, <3>3, RetiredLess
  <2>10. LockHeld'
    <3>1. p \in holders
      BY <1>1 DEF LockHeld
    <3>2. \A j \in Origins : inst'[j] # None => inst'[j].owner.process \in holders
      BY <2>1, <2>5, <2>6, <2>7, <3>1 DEF LockHeld
    <3>3. \A q \in Processes : handler'[q] # None => q \in holders
      BY <2>8, <3>1 DEF LockHeld
    <3> QED
      BY <1>1, <3>2, <3>3 DEF LockHeld
  <2>11. BusyOnce'
    <3>1. \A j \in Origins : inst[j] # None => (inst[j].owner.process = p => ~inst[j].busy)
      BY <1>1 DEF Quiet, Of
    <3>2. \A j \in Origins : inst'[j] # None =>
              (inst'[j].busy => inst'[j] = inst[j] /\ inst[j].owner.process # p)
      BY <2>5, <2>6, <2>7, <3>1
    <3>3. \A q \in Processes : handler'[q] # None /\ handler'[q].stage \in {"resumed", "continued"} =>
              \A j \in Origins : inst'[j] # None => (inst'[j].owner.process = q => ~inst'[j].busy)
      BY <2>8, <3>2 DEF BusyOnce
    <3>4. \A j, k \in Origins : inst'[j] # None /\ inst'[k] # None =>
              (inst'[j].busy /\ inst'[k].busy /\ inst'[j].owner.process = inst'[k].owner.process
                  => j = k)
      BY <3>2 DEF BusyOnce
    <3> QED
      BY <3>3, <3>4 DEF BusyOnce
  <2>12. StopKnown'
    <3>1. \A j \in Origins : inst[j] # None => inst[j].revision <= row.revision /\ inst[j].revision \in Nat
      BY InstanceHolds
    <3>2. \A j \in Origins : inst'[j] # None =>
              (inst'[j].owner = row'.owner /\ inst'[j].revision = row'.revision
                  => inst'[j].stop \in {row'.stop, "checkpoint_failed"})
      <4> SUFFICES ASSUME NEW j \in Origins, inst'[j] # None, inst'[j].revision = row'.revision
                   PROVE  inst'[j].stop = row'.stop
        OBVIOUS
      <4>1. CASE j = i
        BY <2>3, <2>4, <2>5, <2>6, <4>1
      <4>2. CASE j # i
        BY <1>2, <2>3, <2>7, <3>1, <4>2
      <4> QED
        BY <4>1, <4>2
    <3>3. ASSUME NEW q \in Processes, handler'[q] # None, handler'[q].stage = "resumed"
          PROVE  inst'[handler'[q].id].stop = ""
      <4>1. CASE q = p
        BY <2>5, <2>6, <2>8, <4>1
      <4>2. CASE q # p
        <5>1. handler'[q] = handler[q] /\ handler[q] # None /\ handler[q].stage = "resumed"
          BY <2>8, <3>3, <4>2
        <5>2. inst'[handler[q].id] = inst[handler[q].id] /\ inst[handler[q].id].stop = ""
          BY <2>9, <4>2, <5>1 DEF StopKnown
        <5> QED
          BY <5>1, <5>2
      <4> QED
        BY <4>1, <4>2
    <3> QED
      BY <3>2, <3>3 DEF StopKnown
  <2>13. RequestSound'
    <3> SUFFICES ASSUME NEW k \in Ids, requests[k] # None
                 PROVE  /\ requests[k].revision <= row'.revision
                        /\ requests[k].revision # row'.revision
      BY <1>1, <2>3 DEF RequestSound
    <3>1. requests[k].revision \in Nat /\ requests[k].revision <= row.revision
      BY RequestHolds
    <3> QED
      BY <1>2, <2>3, <3>1
  <2>14. Spent'
    <3>1. \A k \in Ids : requests[k] # None => requests[k].revision \in Nat
      BY RequestHolds
    <3> QED
      BY <1>1, <1>2, <2>3, <3>1 DEF Spent
  <2>15. Unlaunched' /\ LaunchedOnce'
    BY <1>1, <1>2, <2>3, <2>4, <2>8 DEF Unlaunched, LaunchedOnce
  <2>16. Continuing'
    <3>1. \A q \in Processes : handler[q] # None =>
              handler[q].revision \in Nat /\ handler[q].revision <= row.revision
      BY HandlerHolds DEF HandlerKnows
    <3> QED
      BY <1>2, <2>3, <2>8, <3>1 DEF Continuing
  <2> QED
    BY <2>10, <2>11, <2>12, <2>13, <2>14, <2>15, <2>16
<1> QED
  BY <1>3, <1>4 DEF Takeover

\* The instance that a takeover has made is launched, once, or stops.
LEMMA ResumedKeepsJ ==
    ASSUME IInv, JInv, NEW p \in Processes, LaunchResumed(p) \/ FailResumed(p)
    PROVE  JInv'
<1> USE DEF IInv, JInv
<1> DEFINE i == handler[p].id
<1>1. /\ handler[p] # None /\ handler[p].stage = "resumed"
      /\ handler' = [handler EXCEPT ![p] = None]
      /\ UNCHANGED <<exclusive, holders, startup, requests>>
  BY DEF LaunchResumed, FailResumed, history, processes
<1>2. /\ i \in Ids /\ i \in Origins /\ inst[i] # None /\ inst[i] \in Instances
      /\ inst[i].owner.process = p
      /\ requests[i] # None /\ requests[i].kind = "resume" /\ requests[i].revision \in Nat
      /\ row.revision > requests[i].revision /\ row # None /\ row.revision \in Nat
      /\ launches[i] = 0
  <2>1. i \in Ids /\ i \in Origins /\ inst[i] # None /\ inst[i] \in Instances
        /\ row # None /\ row.revision \in Nat
    BY <1>1, HandlerHolds
  <2>2. /\ inst[i].owner.process = p /\ requests[i] # None /\ requests[i].kind = "resume"
        /\ row.revision > requests[i].revision
    BY <1>1 DEF HandlerOwns
  <2>3. launches[i] = 0
    BY <1>1 DEF Unlaunched
  <2> QED
    BY <2>1, <2>2, <2>3, RequestHolds
<1>3. HandlersEnd /\ \A q \in Processes : handler'[q] # None => q # p /\ handler'[q] = handler[q]
  BY <1>1 DEF TypeOK, HandlersEnd
<1>4. \A q \in Processes : handler'[q] # None /\ handler[q].stage = "resumed" =>
          handler[q].id \in Origins /\ handler[q].id # i
  BY <1>2, <1>3, HandlerHolds DEF HandlerOwns
<1>5. CASE LaunchResumed(p)
  <2> DEFINE m == [inst[i] EXCEPT !.busy = TRUE]
  <2>1. Saved(i, m) /\ launches' = [launches EXCEPT ![i] = @ + 1]
    BY <1>5 DEF LaunchResumed
  <2>2. Grown(i, m)
    <3>1. inst[i].stop \in Stops
      BY <1>5 DEF LaunchResumed, Stops
    <3> QED
      BY <1>2, <3>1 DEF Grown, Instances
  <2>3. m.busy = TRUE
    BY <1>2 DEF Instances
  <2> HIDE DEF m, i
  <2>4. /\ row' # None /\ row'.revision = row.revision + 1
        /\ inst'[i] # None /\ inst'[i].owner = inst[i].owner
        /\ \A j \in Origins : j # i => inst'[j] = inst[j]
    BY <1>2, <2>1, <2>2, SavedDoes DEF Grown
  <2>5. row'.continuation = row.continuation
    BY <1>2, <2>1, <2>2, SavedElse
  <2>6. HandledStay
    BY <1>4, <2>4 DEF HandledStay
  <2>7. LockHeld' /\ StopKnown' /\ RequestSound' /\ Continuing'
    BY <1>1, <1>2, <1>3, <2>1, <2>2, <2>6, WriteKeeps
  <2>8. BusyOnce'
    <3>1. \A j \in Origins : inst[j] # None => (inst[j].owner.process = p => ~inst[j].busy)
      BY <1>1 DEF BusyOnce
    <3>2. \A j \in Origins : j # i /\ inst'[j] # None /\ inst'[j].busy =>
              inst'[j].owner.process # p
      BY <2>4, <3>1
    <3>3. inst'[i].owner.process = p
      BY <1>2, <2>4
    <3>4. \A j, k \in Origins : inst'[j] # None /\ inst'[k] # None =>
              (inst'[j].busy /\ inst'[k].busy /\ inst'[j].owner.process = inst'[k].owner.process
                  => j = k)
      BY <2>4, <3>2, <3>3 DEF BusyOnce
    <3>5. \A q \in Processes : handler'[q] # None /\ handler'[q].stage \in {"resumed", "continued"} =>
              \A j \in Origins : inst'[j] # None => (inst'[j].owner.process = q => ~inst'[j].busy)
      BY <1>3, <2>4, <3>3 DEF BusyOnce
    <3> QED
      BY <3>4, <3>5 DEF BusyOnce
  <2>9. launches'[i] = 1 /\ \A j \in Origins : j # i => launches'[j] = launches[j]
    <3>1. launches \in [Origins -> Nat]
      BY DEF TypeOK
    <3> QED
      BY <1>2, <2>1, <3>1
  <2>10. Spent' /\ LaunchedOnce'
    <3>1. \A k \in Ids : k \in Origins /\ k # 0
      BY FenceAssumption DEF Ids, Origins
    <3>2. 0 \in Origins
      BY FenceAssumption DEF Origins
    <3>3. \A k \in Ids : requests[k] # None =>
              requests[k].revision \in Nat /\ requests[k].revision <= row.revision
      BY RequestHolds
    <3>4. LaunchedOnce'
      BY <2>9 DEF LaunchedOnce
    <3>5. launches'[0] = launches[0]
      BY <1>2, <2>9, <3>1, <3>2
    <3>6. ASSUME NEW k \in Ids, launches'[k] > 0
          PROVE  requests[k] # None /\ row'.revision > requests[k].revision
      <4>1. requests[k] # None
        BY <1>2, <2>9, <3>1, <3>6 DEF Spent
      <4> QED
        BY <1>2, <2>4, <3>3, <4>1
    <3> QED
      BY <1>1, <2>4, <3>4, <3>5, <3>6 DEF Spent
  <2>11. Unlaunched'
    <3>1. \A q \in Processes : handler'[q] # None =>
              (handler'[q].stage = "resumed" => launches'[handler'[q].id] = 0)
      BY <1>3, <1>4, <2>9 DEF Unlaunched
    <3>2. ASSUME row.continuation # None
          PROVE  /\ requests[row.continuation.id] # None
                 /\ requests[row.continuation.id].kind = "continue"
                 /\ ~row.continuation.launched => launches'[row.continuation.id] = 0
      <4>1. row.continuation.id \in Origins
        BY <1>2, <3>2, FenceAssumption DEF TypeOK, Checkpoints, Prepared, Ids, Origins
      <4> QED
        BY <1>2, <2>9, <3>2, <4>1 DEF Unlaunched
    <3> QED
      BY <1>1, <2>5, <3>1, <3>2 DEF Unlaunched
  <2> QED
    BY <2>7, <2>8, <2>10, <2>11
<1>6. CASE FailResumed(p)
  <2> DEFINE m == [inst[i] EXCEPT !.stop = "blocked"]
  <2>1. Checkpoint(i, m) /\ launches' = launches
    BY <1>6 DEF FailResumed, history
  <2>2. Grown(i, m) /\ m.busy = inst[i].busy
    BY <1>2 DEF Grown, Instances, Stops
  <2> HIDE DEF m, i
  <2>3. \A j \in Origins : j # i => inst'[j] = inst[j]
    BY <1>2, <2>1, <2>2, SavedDoes, FailedDoes DEF Checkpoint
  <2>4. HandledStay
    BY <1>4, <2>3 DEF HandledStay
  <2> QED
    BY <1>1, <1>2, <1>3, <2>1, <2>2, <2>4, CheckpointKeepsJ
<1> QED
  BY <1>5, <1>6

\* A claim is made from a pause that has not been continued, in a process where nothing works.
LEMMA ClaimKeepsJ ==
    ASSUME IInv, JInv, NEW p \in Processes, Claim(p)
    PROVE  JInv'
<1> USE DEF IInv, JInv
<1> DEFINE i == handler[p].id
           owner == [process |-> p, claim |-> handler[p].revision + 1]
           claimed == [handler[p] EXCEPT !.stage = "continued",
                                         !.revision = handler[p].revision + 1]
<1>1. /\ handler[p] # None /\ handler[p].stage = "continue" /\ Quiet(p)
      /\ inst' = Retired(p)
      /\ UNCHANGED <<exclusive, holders, startup, requests, launches>>
  BY DEF Claim, history, processes
<1>2. /\ i \in Ids /\ i \in Origins /\ handler[p] \in Handlings /\ handler[p].revision \in Nat
      /\ row # None /\ row \in Checkpoints /\ row.revision \in Nat
      /\ requests[i] # None /\ requests[i].kind = "continue"
  <2>1. /\ i \in Ids /\ i \in Origins /\ handler[p] \in Handlings /\ handler[p].revision \in Nat
        /\ row # None /\ row \in Checkpoints /\ row.revision \in Nat
    BY <1>1, HandlerHolds
  <2> QED
    BY <1>1, <2>1 DEF HandlerOwns
<1>3. CASE handler' = [handler EXCEPT ![p] = None] /\ UNCHANGED row
  BY <1>1, <1>3, RetiredCalm
<1>4. CASE /\ Claimable(p)
           /\ row' = [row EXCEPT !.owner = owner, !.revision = handler[p].revision + 1,
                                 !.continuation = [id |-> i, launched |-> FALSE]]
           /\ handler' = [handler EXCEPT ![p] = claimed]
  <2>1. /\ owner \in Owners /\ handler[p].revision + 1 \in Nat
        /\ [id |-> i, launched |-> FALSE] \in Prepared
    BY <1>2 DEF Owners, Prepared
  <2>2. row' \in Checkpoints
    <3> HIDE DEF i, owner
    <3> QED
      BY <1>2, <1>4, <2>1 DEF Checkpoints
  <2>3. row' # None /\ row'.revision = row.revision + 1 /\ row'.stop = row.stop
    BY <1>2, <1>4, <2>2, FenceAssumption DEF Claimable, Checkpoints
  <2>4. /\ row'.continuation # None
        /\ row'.continuation.id = i /\ ~row'.continuation.launched
    <3>1. row'.continuation = [id |-> i, launched |-> FALSE]
      BY <1>2, <1>4 DEF Checkpoints
    <3>2. [id |-> i, launched |-> FALSE] # None
      BY <2>1, FenceAssumption
    <3> QED
      BY <3>1, <3>2
  <2>5. row.stop = "paused" /\ launches[i] = 0
    <3>1. handler[p].revision = row.revision
      BY <1>4 DEF Claimable
    <3>2. /\ row.stop = "paused"
          /\ \/ /\ row.continuation # None /\ row.continuation.id = i
                /\ ~row.continuation.launched
             \/ row.revision = requests[i].revision
      BY <1>1, <3>1 DEF Continuing
    <3>3. CASE row.continuation # None /\ row.continuation.id = i /\ ~row.continuation.launched
      BY <1>2, <3>2, <3>3 DEF Unlaunched
    <3>4. CASE row.revision = requests[i].revision
      <4>1. launches[i] \in Nat
        BY <1>2 DEF TypeOK
      <4>2. ~(launches[i] > 0)
        BY <1>2, <3>4 DEF Spent
      <4> HIDE DEF i
      <4>3. launches[i] = 0
        BY <4>1, <4>2
      <4> QED
        BY <3>2, <4>3
    <3> QED
      BY <3>2, <3>3, <3>4
  <2>6. claimed \in Handlings /\ claimed.id = i /\ claimed.stage = "continued"
    BY <1>2, <2>1 DEF Handlings
  <2> HIDE DEF claimed, i
  <2>7. /\ handler'[p] = claimed
        /\ \A q \in Processes : q # p => handler'[q] = handler[q]
    BY <1>4 DEF TypeOK
  <2>8. \A j \in Origins : inst'[j] \in {None, inst[j]}
    BY <1>1, RetiredLess
  <2>9. LockHeld'
    <3>1. p \in holders
      BY <1>1 DEF LockHeld
    <3>2. \A j \in Origins : inst'[j] # None => inst'[j].owner.process \in holders
      BY <2>8 DEF LockHeld
    <3>3. \A q \in Processes : handler'[q] # None => q \in holders
      BY <2>7, <3>1 DEF LockHeld
    <3> QED
      BY <1>1, <3>2, <3>3 DEF LockHeld
  <2>10. BusyOnce'
    <3>1. \A j \in Origins : inst[j] # None => (inst[j].owner.process = p => ~inst[j].busy)
      BY <1>1 DEF Quiet, Of
    <3>2. \A j \in Origins : inst'[j] # None =>
              (inst'[j].busy => inst'[j] = inst[j] /\ inst[j].owner.process # p)
      BY <2>8, <3>1
    <3>3. \A q \in Processes : handler'[q] # None /\ handler'[q].stage \in {"resumed", "continued"} =>
              \A j \in Origins : inst'[j] # None => (inst'[j].owner.process = q => ~inst'[j].busy)
      BY <2>7, <3>2 DEF BusyOnce
    <3>4. \A j, k \in Origins : inst'[j] # None /\ inst'[k] # None =>
              (inst'[j].busy /\ inst'[k].busy /\ inst'[j].owner.process = inst'[k].owner.process
                  => j = k)
      BY <3>2 DEF BusyOnce
    <3> QED
      BY <3>3, <3>4 DEF BusyOnce
  <2>11. StopKnown'
    <3>1. \A j \in Origins : inst[j] # None => inst[j].revision <= row.revision /\ inst[j].revision \in Nat
      BY InstanceHolds
    <3>2. \A j \in Origins : inst'[j] # None => inst'[j].revision # row'.revision
      BY <1>2, <2>3, <2>8, <3>1
    <3>3. ASSUME NEW q \in Processes, handler'[q] # None, handler'[q].stage = "resumed"
          PROVE  inst'[handler'[q].id].stop = ""
      <4>1. q # p /\ handler'[q] = handler[q]
        BY <2>6, <2>7, <3>3
      <4>2. handler[q].id \in Origins /\ inst[handler[q].id] # None
            /\ inst[handler[q].id].owner.process = q /\ inst[handler[q].id].stop = ""
        BY <3>3, <4>1, HandlerHolds DEF HandlerOwns, StopKnown
      <4>3. inst'[handler[q].id] = inst[handler[q].id]
        BY <1>1, <4>1, <4>2, RetiredLess
      <4> QED
        BY <4>1, <4>2, <4>3
    <3> QED
      BY <3>2, <3>3 DEF StopKnown
  <2>12. RequestSound'
    <3> SUFFICES ASSUME NEW k \in Ids, requests[k] # None
                 PROVE  /\ requests[k].revision <= row'.revision
                        /\ requests[k].revision # row'.revision
      BY <1>1, <2>3 DEF RequestSound
    <3>1. requests[k].revision \in Nat /\ requests[k].revision <= row.revision
      BY RequestHolds
    <3> QED
      BY <1>2, <2>3, <3>1
  <2>13. Spent'
    <3>1. \A k \in Ids : requests[k] # None => requests[k].revision \in Nat
      BY RequestHolds
    <3> QED
      BY <1>1, <1>2, <2>3, <3>1 DEF Spent
  <2>14. LaunchedOnce' /\ Unlaunched'
    BY <1>1, <1>2, <2>4, <2>5, <2>6, <2>7 DEF Unlaunched, LaunchedOnce
  <2>15. Continuing'
    <3>1. \A q \in Processes : handler[q] # None =>
              handler[q].revision \in Nat /\ handler[q].revision <= row.revision
      BY HandlerHolds DEF HandlerKnows
    <3>2. \A q \in Processes : q # p /\ handler'[q] # None => handler'[q].revision # row'.revision
      BY <1>2, <2>3, <2>7, <3>1
    <3> QED
      BY <2>3, <2>4, <2>5, <2>6, <2>7, <3>2 DEF Continuing
  <2> QED
    BY <2>9, <2>10, <2>11, <2>12, <2>13, <2>14, <2>15
<1> QED
  <2>1. CASE Claimable(p)
    <3>1. [handler EXCEPT ![p].stage = "continued", ![p].revision = handler[p].revision + 1]
              = [handler EXCEPT ![p] = claimed]
      OBVIOUS
    <3> QED
      BY <1>4, <2>1, <3>1 DEF Claim
  <2>2. CASE ~Claimable(p)
    BY <1>3, <2>2 DEF Claim
  <2> QED
    BY <2>1, <2>2

\* A continuation launches the instance that the row has prepared, and spends it.
LEMMA ContinuedKeepsJ ==
    ASSUME IInv, JInv, NEW p \in Processes, LaunchContinued(p)
    PROVE  JInv'
<1> USE DEF IInv, JInv
<1> DEFINE i == handler[p].id
           owner == [process |-> p, claim |-> handler[p].revision]
           new == [Fresh(owner, handler[p].revision + 1, "", handler[p].known) EXCEPT !.busy = TRUE]
<1>1. /\ handler[p] # None /\ handler[p].stage = "continued"
      /\ Fits(owner, handler[p].revision)
      /\ row' = [row EXCEPT !.revision = handler[p].revision + 1, !.stop = "",
                            !.known = handler[p].known,
                            !.recovery = i, !.continuation = [id |-> i, launched |-> TRUE]]
      /\ inst' = [inst EXCEPT ![i] = new]
      /\ launches' = [launches EXCEPT ![i] = @ + 1]
      /\ handler' = [handler EXCEPT ![p] = None]
      /\ UNCHANGED <<exclusive, holders, startup, requests>>
  BY DEF LaunchContinued, processes
<1>2. /\ i \in Ids /\ i \in Origins /\ handler[p].revision \in Nat /\ handler[p].known \in SUBSET Work
      /\ row # None /\ row \in Checkpoints /\ row.revision \in Nat
      /\ requests[i] # None /\ requests[i].kind = "continue" /\ requests[i].revision \in Nat
      /\ requests[i].revision <= row.revision
  <2>1. /\ i \in Ids /\ i \in Origins /\ handler[p].revision \in Nat
        /\ handler[p].known \in SUBSET Work
        /\ row # None /\ row \in Checkpoints /\ row.revision \in Nat
    BY <1>1, HandlerHolds
  <2>2. requests[i] # None /\ requests[i].kind = "continue"
    BY <1>1 DEF HandlerOwns
  <2> QED
    BY <2>1, <2>2, RequestHolds
<1>3. row.owner = owner /\ row.revision = handler[p].revision
  BY <1>1, <1>2 DEF Fits
<1>4. launches[i] = 0
  <2>1. row.continuation # None /\ row.continuation.id = i /\ ~row.continuation.launched
    BY <1>1, <1>3 DEF Continuing
  <2> QED
    BY <1>2, <2>1 DEF Unlaunched
<1>5. /\ owner \in Owners /\ owner.process = p /\ handler[p].revision + 1 \in Nat
      /\ [id |-> i, launched |-> TRUE] \in Prepared
  BY <1>2 DEF Owners, Prepared
<1>6. row' \in Checkpoints
  <2> HIDE DEF i, new
  <2> QED
    BY <1>1, <1>2, <1>5 DEF Checkpoints, Stops
<1>7. row' # None /\ row'.revision = row.revision + 1
  <2> HIDE DEF i, new, owner
  <2> QED
    BY <1>1, <1>2, <1>3, <1>6, FenceAssumption DEF Checkpoints
<1>7a. row'.stop = ""
  <2> HIDE DEF i, new, owner
  <2> QED
    BY <1>1, <1>2, <1>6 DEF Checkpoints
<1>8. new.owner = owner /\ new.revision = row.revision + 1 /\ new.stop = ""
  BY <1>3 DEF Fresh
<1>9. row'.continuation.id = i /\ row'.continuation.launched
  <2> DEFINE spent == [id |-> i, launched |-> TRUE]
  <2>1. spent.id = i /\ spent.launched
    OBVIOUS
  <2>2. row'.continuation = spent
    <3> HIDE DEF i, new, owner, spent
    <3> QED
      BY <1>1, <1>2 DEF Checkpoints, spent
  <2> HIDE DEF spent
  <2> QED
    BY <2>1, <2>2
<1>10. \A q \in Processes : handler'[q] # None => q # p /\ handler'[q] = handler[q]
  BY <1>1 DEF TypeOK
<1>11. \A q \in Processes : handler'[q] # None /\ handler[q].stage = "resumed" =>
           handler[q].id \in Origins /\ handler[q].id # i
  BY <1>2, <1>10, HandlerHolds DEF HandlerOwns
<1>12. inst'[i] = new /\ \A j \in Origins : j # i => inst'[j] = inst[j]
  BY <1>1, <1>2 DEF TypeOK
<1>13. launches'[i] = 1 /\ \A j \in Origins : j # i => launches'[j] = launches[j]
  <2>1. launches \in [Origins -> Nat] /\ launches' = [launches EXCEPT ![i] = @ + 1]
    BY <1>1 DEF TypeOK
  <2> HIDE DEF i
  <2> QED
    BY <1>2, <1>4, <2>1
<1> HIDE DEF i, new, owner
<1>14. LockHeld'
  <2>1. p \in holders
    BY <1>1 DEF LockHeld
  <2>2. \A j \in Origins : inst'[j] # None => inst'[j].owner.process \in holders
    BY <1>5, <1>8, <1>12, <2>1 DEF LockHeld
  <2>3. \A q \in Processes : handler'[q] # None => q \in holders
    BY <1>10 DEF LockHeld
  <2> QED
    BY <1>1, <2>2, <2>3 DEF LockHeld
<1>15. BusyOnce'
  <2>1. \A j \in Origins : inst[j] # None => (inst[j].owner.process = p => ~inst[j].busy)
    BY <1>1 DEF BusyOnce
  <2>2. \A j \in Origins : j # i /\ inst'[j] # None /\ inst'[j].busy => inst'[j].owner.process # p
    BY <1>12, <2>1
  <2>3. inst'[i].owner.process = p
    BY <1>5, <1>8, <1>12
  <2>4. \A j, k \in Origins : inst'[j] # None /\ inst'[k] # None =>
            (inst'[j].busy /\ inst'[k].busy /\ inst'[j].owner.process = inst'[k].owner.process
                => j = k)
    BY <1>12, <2>2, <2>3 DEF BusyOnce
  <2>5. \A q \in Processes : handler'[q] # None /\ handler'[q].stage \in {"resumed", "continued"} =>
            \A j \in Origins : inst'[j] # None => (inst'[j].owner.process = q => ~inst'[j].busy)
    BY <1>10, <1>12, <2>3 DEF BusyOnce
  <2> QED
    BY <2>4, <2>5 DEF BusyOnce
<1>16. StopKnown'
  <2>1. \A j \in Origins : inst[j] # None => inst[j].revision <= row.revision /\ inst[j].revision \in Nat
    BY InstanceHolds
  <2>2. \A j \in Origins : inst'[j] # None =>
            (inst'[j].owner = row'.owner /\ inst'[j].revision = row'.revision
                => inst'[j].stop \in {row'.stop, "checkpoint_failed"})
    <3> SUFFICES ASSUME NEW j \in Origins, inst'[j] # None, inst'[j].revision = row'.revision
                 PROVE  inst'[j].stop = row'.stop
      OBVIOUS
    <3>1. CASE j = i
      BY <1>8, <1>12, <1>7a, <3>1
    <3>2. CASE j # i
      BY <1>2, <1>7, <1>12, <2>1, <3>2
    <3> QED
      BY <3>1, <3>2
  <2>3. ASSUME NEW q \in Processes, handler'[q] # None, handler'[q].stage = "resumed"
        PROVE  inst'[handler'[q].id].stop = ""
    <3>1. handler'[q] = handler[q] /\ handler[q] # None /\ handler[q].stage = "resumed"
      BY <1>10, <2>3
    <3>2. inst[handler[q].id].stop = "" /\ inst'[handler[q].id] = inst[handler[q].id]
      BY <1>11, <1>12, <2>3, <3>1 DEF StopKnown
    <3> QED
      BY <3>1, <3>2
  <2> QED
    BY <2>2, <2>3 DEF StopKnown
<1>17. RequestSound'
  <2> SUFFICES ASSUME NEW k \in Ids, requests[k] # None
               PROVE  /\ requests[k].revision <= row'.revision
                      /\ requests[k].revision # row'.revision
    BY <1>1, <1>7 DEF RequestSound
  <2>1. requests[k].revision \in Nat /\ requests[k].revision <= row.revision
    BY RequestHolds
  <2> QED
    BY <1>2, <1>7, <2>1
<1>18. LaunchedOnce'
  BY <1>13 DEF LaunchedOnce
<1>19. Spent'
  <2>1. \A k \in Ids : k \in Origins /\ k # 0
    BY FenceAssumption DEF Ids, Origins
  <2>2. 0 \in Origins
    BY FenceAssumption DEF Origins
  <2>3. \A k \in Ids : requests[k] # None =>
            requests[k].revision \in Nat /\ requests[k].revision <= row.revision
    BY RequestHolds
  <2>4. launches'[0] = launches[0]
    BY <1>2, <1>13, <2>1, <2>2
  <2>5. ASSUME NEW k \in Ids, launches'[k] > 0
        PROVE  requests[k] # None /\ row'.revision > requests[k].revision
    <3>1. requests[k] # None
      BY <1>2, <1>13, <2>1, <2>5 DEF Spent
    <3> QED
      BY <1>2, <1>7, <2>3, <3>1
  <2> QED
    BY <1>1, <1>7, <2>4, <2>5 DEF Spent
<1>20. Unlaunched'
  <2>1. \A q \in Processes : handler'[q] # None =>
            (handler'[q].stage = "resumed" => launches'[handler'[q].id] = 0)
    BY <1>10, <1>11, <1>13 DEF Unlaunched
  <2> QED
    BY <1>1, <1>2, <1>9, <2>1 DEF Unlaunched
<1>21. Continuing'
  <2>1. \A q \in Processes : handler[q] # None =>
            handler[q].revision \in Nat /\ handler[q].revision <= row.revision
    BY HandlerHolds DEF HandlerKnows
  <2>2. \A q \in Processes : handler'[q] # None => handler'[q].revision # row'.revision
    BY <1>2, <1>7, <1>10, <2>1
  <2> QED
    BY <2>2 DEF Continuing
<1> QED
  BY <1>14, <1>15, <1>16, <1>17, <1>18, <1>19, <1>20, <1>21

LEMMA StepJInv == IInv /\ JInv /\ [Next]_vars => JInv'
<1> SUFFICES ASSUME IInv, JInv, [Next]_vars PROVE JInv'
  OBVIOUS
<1>1. CASE UNCHANGED vars
  <2>1. UNCHANGED <<exclusive, holders, startup, row, inst, handler, requests, launches>>
    BY <1>1 DEF vars, processes, history
  <2> QED
    BY <2>1 DEF JInv, LockHeld, BusyOnce, StopKnown, RequestSound, Spent, Unlaunched, Continuing,
                LaunchedOnce
<1>2. CASE Next
  <2>1. ASSUME NEW p \in Processes,
               \/ Boot(p) \/ Die(p) \/ Start(p)
               \/ \E i \in Ids : ReadResume(p, i) \/ ReadContinue(p, i)
               \/ Takeover(p) \/ LaunchResumed(p) \/ FailResumed(p)
               \/ Claim(p) \/ LaunchContinued(p) \/ GiveUp(p)
        PROVE  JInv'
    BY <2>1, BootKeepsJ, DieKeepsJ, StartKeepsJ, ReadKeepsJ, TakeoverKeepsJ, ResumedKeepsJ,
       ClaimKeepsJ, ContinuedKeepsJ, GiveUpKeepsJ
  <2>2. ASSUME NEW i \in Origins,
               \/ \E w \in Work : Record(i, w) \/ Do(i, w)
               \/ \E action \in {"paused", "cancelled"} : Control(i, action)
               \/ End(i) \/ Block(i) \/ Retain(i) \/ Quiesce(i)
        PROVE  JInv'
    BY <2>2, WritersKeepJ, WorkersKeepJ
  <2> QED
    BY <1>2, <2>1, <2>2, AskKeepsJ DEF Next
<1> QED
  BY <1>1, <1>2

LEMMA InductiveJ == Spec => [](IInv /\ JInv)
<1>1. Init => IInv /\ JInv
  BY InitIInv, InitJInv
<1>2. IInv /\ JInv /\ [Next]_vars => (IInv /\ JInv)'
  BY StepIInv, StepJInv
<1> QED
  BY <1>1, <1>2, PTL DEF Spec

\* Where the process lock works, calls of at most one instance are under way: every instance
\* belongs to the lock's one holder, and a process launches only when nothing works in it.
THEOREM OneInstanceWorks == Spec => []OneActive
<1>1. JInv => OneActive
  BY DEF JInv, LockHeld, BusyOnce, OneActive
<1> QED
  BY <1>1, InductiveJ, PTL

\* A request launches at most one instance, however often and in however many processes it is
\* taken up, also where the lock excludes nobody: the revision it was made in is gone, and the
\* continuation that was prepared for it is spent.
THEOREM OneLaunchPerRequest == Spec => []LaunchedOnce
<1>1. JInv => LaunchedOnce
  BY DEF JInv
<1> QED
  BY <1>1, InductiveJ, PTL

\* A write changes the stop only of a row without one, or from a pause to a cancellation.
LEMMA WritersStop ==
    ASSUME IInv, JInv, NEW i \in Origins,
           \/ \E w \in Work : Record(i, w)
           \/ End(i) \/ Block(i) \/ Retain(i)
           \/ \E action \in {"paused", "cancelled"} : Control(i, action),
           row.stop \in {"paused", "cancelled", "ended"}, row'.stop # row.stop
    PROVE  row.stop = "paused" /\ row'.stop = "cancelled"
<1>1. inst[i] # None /\ inst[i] \in Instances
  BY DEF Record, End, Block, Retain, Control, IInv, TypeOK
<1>2. ASSUME NEW m, Grown(i, m), Checkpoint(i, m), inst[i].stop # "checkpoint_failed"
      PROVE  row'.stop = m.stop /\ inst[i].stop = row.stop
  <2>1. Saved(i, m)
    BY <1>2 DEF Checkpoint, Failed
  <2>2. row'.stop = m.stop
    BY <1>2, <2>1, SavedElse
  <2>3. row.owner = m.owner /\ row.revision = m.revision
    BY <1>2, <2>1, SavedDoes
  <2>4. inst[i].owner = row.owner /\ inst[i].revision = row.revision
    BY <1>2, <2>3 DEF Grown
  <2>5. inst[i].stop \in {row.stop, "checkpoint_failed"}
    BY <1>1, <2>4 DEF JInv, StopKnown
  <2> QED
    BY <1>2, <2>2, <2>5
<1>3. ASSUME NEW stop \in {"paused", "cancelled", "ended", "blocked"}
      PROVE  Grown(i, [inst[i] EXCEPT !.stop = stop]) /\ [inst[i] EXCEPT !.stop = stop].stop = stop
  BY <1>1 DEF Grown, Instances, Stops
<1>4. CASE \E w \in Work : Record(i, w)
  <2>1. PICK w \in Work : Record(i, w)
    BY <1>4
  <2> DEFINE m == [inst[i] EXCEPT !.known = @ \cup {w}, !.todo = @ \cup {w}]
  <2>2. Grown(i, m) /\ inst[i].stop = ""
    BY <1>1, <2>1 DEF Grown, Record, Instances, Stops
  <2>3. Checkpoint(i, m)
    BY <2>1 DEF Record
  <2> HIDE DEF m
  <2> QED
    BY <1>2, <2>2, <2>3
<1>5. CASE End(i) \/ Block(i)
  <2>1. inst[i].stop = "" /\ \E stop \in {"ended", "blocked"} :
            Checkpoint(i, [inst[i] EXCEPT !.stop = stop])
    BY <1>5 DEF End, Block
  <2> QED
    BY <1>2, <1>3, <2>1
<1>6. CASE Retain(i)
  <2>1. Grown(i, inst[i])
    BY <1>1, <1>6 DEF Grown, Retain, Instances, Stops
  <2> QED
    BY <1>2, <1>6, <2>1 DEF Retain
<1>7. CASE \E action \in {"paused", "cancelled"} : Control(i, action)
  <2>1. PICK action \in {"paused", "cancelled"} : Control(i, action)
    BY <1>7
  <2>2. /\ inst[i].stop \notin {"checkpoint_failed", "ended"}
        /\ inst[i].stop = "cancelled" => action = "cancelled"
        /\ Checkpoint(i, [inst[i] EXCEPT !.stop = action])
    BY <2>1 DEF Control
  <2>3. row'.stop = action /\ inst[i].stop = row.stop
    BY <1>2, <1>3, <2>2
  <2> QED
    BY <2>2, <2>3
<1> QED
  BY <1>4, <1>5, <1>6, <1>7

\* The first write of a resumed instance finds no stop.
LEMMA ResumedStop ==
    ASSUME IInv, JInv, NEW p \in Processes, LaunchResumed(p) \/ FailResumed(p)
    PROVE  row'.stop = row.stop \/ row.stop = ""
<1> DEFINE i == handler[p].id
<1>1. /\ handler[p] # None /\ handler[p].stage = "resumed"
      /\ i \in Origins /\ inst[i] # None /\ inst[i] \in Instances
  BY HandlerHolds DEF LaunchResumed, FailResumed
<1>2. inst[i].stop = ""
  BY <1>1 DEF JInv, StopKnown
<1>3. PICK m : Grown(i, m) /\ Checkpoint(i, m)
  <2>1. CASE LaunchResumed(p)
    <3>1. Saved(i, [inst[i] EXCEPT !.busy = TRUE])
      BY <2>1 DEF LaunchResumed
    <3>2. Grown(i, [inst[i] EXCEPT !.busy = TRUE])
      BY <1>1, <1>2 DEF Grown, Instances, Stops
    <3> QED
      BY <3>1, <3>2 DEF Checkpoint
  <2>2. CASE FailResumed(p)
    <3>1. Checkpoint(i, [inst[i] EXCEPT !.stop = "blocked"])
      BY <2>2 DEF FailResumed
    <3>2. Grown(i, [inst[i] EXCEPT !.stop = "blocked"])
      BY <1>1 DEF Grown, Instances, Stops
    <3> QED
      BY <3>1, <3>2
  <2> QED
    BY <2>1, <2>2
<1> HIDE DEF i
<1>4. CASE Saved(i, m)
  <2>1. inst[i].owner = row.owner /\ inst[i].revision = row.revision
    BY <1>1, <1>3, <1>4, SavedDoes DEF Grown
  <2>2. inst[i].stop \in {row.stop, "checkpoint_failed"}
    BY <1>1, <2>1 DEF JInv, StopKnown
  <2> QED
    BY <1>2, <2>2
<1>5. CASE Failed(i)
  BY <1>5 DEF Failed
<1> QED
  BY <1>3, <1>4, <1>5 DEF Checkpoint

\* A takeover, and a claim, keep the stop that they find.
LEMMA TakenStop ==
    ASSUME IInv, NEW p \in Processes, Takeover(p) \/ Claim(p)
    PROVE  row'.stop = row.stop
<1>1. row \in Checkpoints
  BY HandlerHolds DEF Takeover, Claim
<1>2. ASSUME NEW owner, NEW revision, NEW i,
             row' = [row EXCEPT !.owner = owner, !.revision = revision, !.recovery = i]
             \/ row' = [row EXCEPT !.owner = owner, !.revision = revision, !.continuation = i]
      PROVE  row'.stop = row.stop
  BY <1>1, <1>2 DEF Checkpoints
<1>3. CASE Takeover(p)
  <2>1. UNCHANGED row \/ row' = [row EXCEPT !.owner = Self(p), !.revision = @ + 1,
                                           !.recovery = handler[p].id]
    BY <1>3 DEF Takeover
  <2> QED
    BY <1>2, <2>1
<1>4. CASE Claim(p)
  <2>1. UNCHANGED row
        \/ row' = [row EXCEPT !.owner = [process |-> p, claim |-> handler[p].revision + 1],
                              !.revision = handler[p].revision + 1,
                              !.continuation = [id |-> handler[p].id, launched |-> FALSE]]
    BY <1>4 DEF Claim
  <2> QED
    BY <1>2, <2>1
<1> QED
  BY <1>3, <1>4

LEMMA LaunchedOf ==
    ASSUME NEW c \in Prepared, NEW b \in BOOLEAN
    PROVE  [c EXCEPT !.launched = b] = [id |-> c.id, launched |-> b]
BY DEF Prepared

\* A continuation goes on from a pause, by what was prepared for it.
LEMMA ContinuedStop ==
    ASSUME IInv, JInv, NEW p \in Processes, LaunchContinued(p)
    PROVE  /\ row.stop = "paused" /\ row'.stop = ""
           /\ row.continuation # None /\ ~row.continuation.launched
           /\ row'.continuation = [row.continuation EXCEPT !.launched = TRUE]
<1> DEFINE i == handler[p].id
<1>1. /\ handler[p] # None /\ handler[p].stage = "continued"
      /\ Fits([process |-> p, claim |-> handler[p].revision], handler[p].revision)
      /\ row' = [row EXCEPT !.revision = handler[p].revision + 1, !.stop = "",
                            !.known = handler[p].known,
                            !.recovery = i, !.continuation = [id |-> i, launched |-> TRUE]]
  BY DEF LaunchContinued
<1>2. row # None /\ row \in Checkpoints
  BY <1>1, HandlerHolds
<1>3. /\ row.owner = [process |-> p, claim |-> handler[p].revision]
      /\ row.revision = handler[p].revision
  BY <1>1, <1>2 DEF Fits
<1>4. /\ row.stop = "paused"
      /\ row.continuation # None /\ row.continuation.id = i /\ ~row.continuation.launched
  BY <1>1, <1>3 DEF JInv, Continuing
<1>5. row'.stop = ""
  <2> HIDE DEF i
  <2> QED
    BY <1>1, <1>2 DEF Checkpoints
<1>6. row'.continuation = [id |-> i, launched |-> TRUE]
  <2> DEFINE spent == [id |-> i, launched |-> TRUE]
  <2> HIDE DEF i, spent
  <2>1. row'.continuation = spent
    BY <1>1, <1>2 DEF Checkpoints, spent
  <2> QED
    BY <2>1 DEF spent
<1>7. row.continuation \in Prepared
  BY <1>2, <1>4 DEF Checkpoints
<1>8. [row.continuation EXCEPT !.launched = TRUE] = [id |-> i, launched |-> TRUE]
  BY <1>4, <1>7, LaunchedOf
<1> QED
  BY <1>4, <1>5, <1>6, <1>8

\* A saved stop stays: whoever could write over it knows it, and is held back by it.
THEOREM SavedStopStays == Spec => StopKept
<1> DEFINE Kept == row # None /\ row.stop \in {"paused", "cancelled", "ended"} /\ row'.stop # row.stop
        => /\ row.stop = "paused"
           /\ \/ row'.stop = "cancelled"
              \/ /\ row'.stop = ""
                 /\ row.continuation # None /\ ~row.continuation.launched
                 /\ row'.continuation = [row.continuation EXCEPT !.launched = TRUE]
<1>1. IInv /\ JInv /\ [Next]_vars => [Kept]_vars
  <2> SUFFICES ASSUME IInv, JInv, Next, row # None,
                      row.stop \in {"paused", "cancelled", "ended"}, row'.stop # row.stop
               PROVE  Kept
    OBVIOUS
  <2>1. row' # row
    OBVIOUS
  <2>2. ASSUME NEW p \in Processes, LaunchResumed(p) \/ FailResumed(p)
        PROVE  FALSE
    BY <2>2, ResumedStop
  <2>3. ASSUME NEW p \in Processes, Takeover(p) \/ Claim(p)
        PROVE  FALSE
    BY <2>3, TakenStop
  <2>4. ASSUME NEW p \in Processes, LaunchContinued(p)
        PROVE  Kept
    BY <2>4, ContinuedStop
  <2>5. ASSUME NEW p \in Processes,
               \/ Boot(p) \/ Die(p) \/ Start(p) \/ GiveUp(p)
               \/ \E k \in Ids : ReadResume(p, k) \/ ReadContinue(p, k)
        PROVE  FALSE
    BY <2>1, <2>5 DEF Boot, Die, Start, GiveUp, ReadResume, ReadContinue
  <2>6. ASSUME NEW i \in Origins, Quiesce(i) \/ \E w \in Work : Do(i, w)
        PROVE  FALSE
    BY <2>1, <2>6 DEF Quiesce, Do
  <2>7. ASSUME NEW i \in Origins,
               \/ \E w \in Work : Record(i, w)
               \/ End(i) \/ Block(i) \/ Retain(i)
               \/ \E action \in {"paused", "cancelled"} : Control(i, action)
        PROVE  Kept
    BY <2>7, WritersStop
  <2>8. ASSUME NEW i \in Ids, Ask(i)
        PROVE  FALSE
    BY <2>1, <2>8 DEF Ask
  <2> HIDE DEF Kept
  <2> QED
    BY <2>2, <2>3, <2>4, <2>5, <2>6, <2>7, <2>8 DEF Next
<1>2. Spec => [][Kept]_vars
  BY <1>1, InductiveJ, PTL DEF Spec
<1> QED
  BY <1>2 DEF StopKept

=============================================================================
