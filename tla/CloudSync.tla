------------------------------ MODULE CloudSync ------------------------------
(***************************************************************************)
(* The synchronisation of a host's shared directory with the host's own    *)
(* prefix of a cloud store (cloud_sync): by modification times, uploads    *)
(* first and downloads second, while people edit the files.                *)
(*                                                                         *)
(* Files do not influence each other: this is one file.  The store, its    *)
(* clock (which agrees with the host's) and people are external.           *)
(***************************************************************************)
EXTENDS Naturals

CONSTANTS MaxTime \* bound: writes of the file and of its object

VARIABLES clock,  \* every write has a time of its own
          local,  \* the file: [content, time]; content 0: there is none
          cloud,  \* its object, likewise
          sync,   \* the synchronisation: [pc, content]: what is being transferred
          last,   \* history: what people wrote last
          raced   \* history: they did so during a transfer of this file
vars == <<clock, local, cloud, sync, last, raced>>

None == [content |-> 0, time |-> 0]
There(x) == x.content # 0
Idle == [pc |-> "idle", content |-> 0]

\* A file of people's, and nothing or an older object in the store.
Init ==
    /\ clock = 2 /\ local = [content |-> 2, time |-> 2]
    /\ cloud \in {None, [content |-> 1, time |-> 1]}
    /\ sync = Idle /\ last = 2 /\ raced = FALSE

Tick == clock < MaxTime /\ clock' = clock + 1

\* People write the file, or remove it; the content is the time they did so.
Edit(remove) ==
    /\ Tick
    /\ local' = IF remove THEN None ELSE [content |-> clock', time |-> clock']
    /\ last' = local'.content
    /\ raced' = (raced \/ sync.pc \in {"up", "down"})
    /\ UNCHANGED <<cloud, sync>>

-----------------------------------------------------------------------------
(* sync, which one lock serialises.                                        *)

\* _upload_all: the object was listed before; nobody else writes it.
Upload ==
    /\ sync.pc = "idle"
    /\ sync' = IF There(local) /\ (~There(cloud) \/ local.time > cloud.time)
               THEN [pc |-> "up", content |-> local.content] ELSE [Idle EXCEPT !.pc = "between"]
    /\ UNCHANGED <<clock, local, cloud, last, raced>>

\* The object bears the time at which it was stored.  A failure is noted, and that is all.
Uploaded(ok) ==
    /\ sync.pc = "up" /\ sync' = [Idle EXCEPT !.pc = "between"]
    /\ IF ok THEN Tick /\ cloud' = [content |-> sync.content, time |-> clock']
       ELSE UNCHANGED <<clock, cloud>>
    /\ UNCHANGED <<local, last, raced>>

\* Faulty: an object of another time is downloaded.
IsOlder == local.time # cloud.time

\* A file that is there is downloaded if it is older than the object.
Older == local.time < cloud.time

\* _download_all
Download ==
    /\ sync.pc = "between"
    /\ sync' = IF There(cloud) /\ (~There(local) \/ Older)
               THEN [pc |-> "down", content |-> cloud.content] ELSE Idle
    /\ UNCHANGED <<clock, local, cloud, last, raced>>

\* The file bears the time of the download.
Downloaded(ok) ==
    /\ sync.pc = "down" /\ sync' = Idle
    /\ IF ok THEN Tick /\ local' = [content |-> sync.content, time |-> clock']
       ELSE UNCHANGED <<clock, local>>
    /\ UNCHANGED <<cloud, last, raced>>

\* The next synchronisation begins anew.
Crash == sync # Idle /\ sync' = Idle /\ UNCHANGED <<clock, local, cloud, last, raced>>

Next ==
    \/ Upload \/ Download \/ Crash
    \/ \E b \in BOOLEAN : Edit(b) \/ Uploaded(b) \/ Downloaded(b)

Spec == Init /\ [][Next]_vars

-----------------------------------------------------------------------------
(* Properties.                                                             *)

TypeOK ==
    /\ {local.content, local.time, cloud.content, cloud.time, last} \subseteq 0..clock
    /\ sync.pc \in {"idle", "up", "between", "down"}

\* The synchronisation never puts an earlier content in the place of what people wrote last, and
\* never takes it away, over any number of transfers, failures and crashes: unless they wrote
\* while the file itself was being transferred, or removed it.
NewestKept == (~raced /\ last # 0) => local.content = last
=============================================================================
