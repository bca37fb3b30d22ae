------------------------------- MODULE Backup -------------------------------
(***************************************************************************)
(* The offline backup and its restoration (backup): the sources are hashed *)
(* before and after they are copied, the archive is verified before it is  *)
(* published and again before it is restored, and a marker stays in the    *)
(* new directory until the restoration is complete.                        *)
(*                                                                         *)
(* The station and other programs write to the sources meanwhile, although *)
(* they should be stopped: only a station that runs is noticed.  They and  *)
(* the file system are external.  A change never brings back an earlier    *)
(* content; links, names, limits and formats are left out.                 *)
(***************************************************************************)
EXTENDS Naturals

CONSTANTS Files, Databases, \* Databases: the files copied as SQLite snapshots
          MaxWrites,        \* bound: writes to the sources
          MaxFaults         \* bound: crashes and damages of the archive or of a copy

VARIABLES source,  \* source[f]: its content, a number; 0 when there is no such file
          station, \* a station runs
          writes,
          seen,    \* history: the states the sources have had
          remade,  \* history: files that were made again after they had been missing
          make,    \* the backup: [pc, left, before, copy, after]; left: files still to visit
          archive, \* [content, whole]: at the path it was published at
          undo,    \* the restoration: [pc, left, pinned]
          target,  \* the restored directory: [there, marker, content]
          faults
vars == <<source, station, writes, seen, remade, make, archive, undo, target, faults>>

Nothing == [f \in Files |-> 0]
NoArchive == [content |-> Nothing, whole |-> FALSE, there |-> FALSE]
NotMaking == [pc |-> "idle", left |-> {}, before |-> Nothing, copy |-> Nothing, after |-> Nothing]
NotUndoing == [pc |-> "idle", left |-> {}, pinned |-> Nothing]

Init ==
    /\ source = [f \in Files |-> 1] /\ station = FALSE /\ writes = 0 /\ seen = {source} /\ remade = {}
    /\ make = NotMaking /\ archive = NoArchive /\ undo = NotUndoing
    /\ target = [there |-> FALSE, marker |-> FALSE, content |-> Nothing]
    /\ faults = 0

Fault == faults < MaxFaults /\ faults' = faults + 1

-----------------------------------------------------------------------------
(* What goes on meanwhile.                                                 *)

\* A file is changed, made or removed.
Write(f, removed) ==
    /\ writes < MaxWrites /\ writes' = writes + 1
    /\ source' = [source EXCEPT ![f] = IF removed THEN 0 ELSE writes + 2]
    /\ seen' = seen \cup {source'}
    /\ remade' = IF source[f] = 0 /\ ~removed THEN remade \cup {f} ELSE remade
    /\ UNCHANGED <<station, make, archive, undo, target, faults>>

StationComesAndGoes == station' = ~station /\ UNCHANGED <<source, writes, seen, remade, make, archive, undo, target, faults>>

\* The archive is damaged, which its digests show.
Damage ==
    /\ archive.there /\ archive.whole /\ Fault /\ archive' = [archive EXCEPT !.whole = FALSE]
    /\ UNCHANGED <<source, station, writes, seen, remade, make, undo, target>>

-----------------------------------------------------------------------------
(* create_backup.                                                          *)

\* Confirmed by the operator; ensure_stopped finds no station.
Begin ==
    /\ make.pc = "idle" /\ ~station
    /\ make' = [NotMaking EXCEPT !.pc = "before", !.left = Files]
    /\ UNCHANGED <<source, station, writes, seen, remade, archive, undo, target, faults>>

\* inventory, one file after another
Visit(f) ==
    /\ make.pc \in {"before", "after"} /\ f \in make.left
    /\ make' = IF make.pc = "before"
               THEN [make EXCEPT !.before[f] = source[f], !.left = @ \ {f},
                                 !.pc = IF make.left = {f} THEN "turn" ELSE @]
               ELSE [make EXCEPT !.after[f] = source[f], !.left = @ \ {f},
                                 !.pc = IF make.left = {f} THEN "compare" ELSE @]
    /\ UNCHANGED <<source, station, writes, seen, remade, archive, undo, target, faults>>

StartCopying ==
    /\ make.pc = "turn"
    /\ make' = [make EXCEPT !.pc = "copy", !.left = {f \in Files : make.before[f] # 0}]
    /\ UNCHANGED <<source, station, writes, seen, remade, archive, undo, target, faults>>

\* A file must be copied as it was hashed; a database is copied as it is now.
Copy(f) ==
    /\ make.pc = "copy" /\ f \in make.left
    /\ make' = IF source[f] = 0 \/ (f \notin Databases /\ source[f] # make.before[f]) THEN NotMaking
               ELSE [make EXCEPT !.copy[f] = source[f], !.left = @ \ {f}]
    /\ UNCHANGED <<source, station, writes, seen, remade, archive, undo, target, faults>>

\* ensure_stopped once more
Copied ==
    /\ make.pc = "copy" /\ make.left = {}
    /\ make' = IF station THEN NotMaking ELSE [make EXCEPT !.pc = "after", !.left = Files]
    /\ UNCHANGED <<source, station, writes, seen, remade, archive, undo, target, faults>>

\* Faulty: only the names are compared.
UnchangedNames == {f \in Files : make.before[f] # 0} = {f \in Files : make.after[f] # 0}

Unchanged == make.before = make.after

Compare ==
    /\ make.pc = "compare"
    /\ make' = IF Unchanged THEN [make EXCEPT !.pc = "publish"] ELSE NotMaking
    /\ UNCHANGED <<source, station, writes, seen, remade, archive, undo, target, faults>>

\* The verified bundle goes to a new file, step by step; an error removes it again.
Open ==
    /\ make.pc = "publish"
    /\ IF archive.there THEN make' = NotMaking /\ UNCHANGED archive
       ELSE /\ make' = [make EXCEPT !.pc = "write"]
            /\ archive' = [NoArchive EXCEPT !.there = TRUE]
    /\ UNCHANGED <<source, station, writes, seen, remade, undo, target, faults>>

Publish ==
    /\ make.pc = "write" /\ make' = NotMaking
    /\ archive' = [content |-> make.copy, whole |-> TRUE, there |-> TRUE]
    /\ UNCHANGED <<source, station, writes, seen, remade, undo, target, faults>>

RemoveArchive ==
    /\ archive.there /\ make.pc # "write" /\ archive' = NoArchive
    /\ UNCHANGED <<source, station, writes, seen, remade, make, undo, target, faults>>

-----------------------------------------------------------------------------
(* restore_backup.                                                         *)

\* The archive is copied, and the copy verified; the directory must be a new one.
Pin ==
    /\ undo.pc = "idle" /\ archive.there /\ archive.whole /\ ~target.there
    /\ undo' = [pc |-> "mark", left |-> {f \in Files : archive.content[f] # 0}, pinned |-> archive.content]
    /\ target' = [target EXCEPT !.there = TRUE]
    /\ UNCHANGED <<source, station, writes, seen, remade, make, archive, faults>>

\* Faulty: the marker goes when the extraction begins.
MarkerAtFirst(left) == FALSE

\* RESTORE_INCOMPLETE, while files are left
Marker(left) == left # {}

Mark ==
    /\ undo.pc = "mark"
    /\ undo' = [undo EXCEPT !.pc = "extract"] /\ target' = [target EXCEPT !.marker = TRUE]
    /\ UNCHANGED <<source, station, writes, seen, remade, make, archive, faults>>

\* A file whose digest is not as it should be ends the restoration; the marker stays.
Extract(f, ok) ==
    LET left == undo.left \ {f} IN
    /\ undo.pc = "extract" /\ f \in undo.left
    /\ IF ok THEN /\ undo' = IF left = {} THEN NotUndoing ELSE [undo EXCEPT !.left = left]
                  /\ target' = [target EXCEPT !.content[f] = undo.pinned[f], !.marker = Marker(left)]
                  /\ UNCHANGED faults
       ELSE Fault /\ undo' = NotUndoing /\ UNCHANGED target
    /\ UNCHANGED <<source, station, writes, seen, remade, make, archive>>

Crash ==
    /\ Fault /\ (make # NotMaking \/ undo # NotUndoing)
    /\ make' = NotMaking /\ undo' = NotUndoing
    /\ UNCHANGED <<source, station, writes, seen, remade, archive, target>>

Next ==
    \/ StationComesAndGoes \/ Damage \/ Begin \/ StartCopying \/ Copied \/ Compare
    \/ Open \/ Publish \/ RemoveArchive \/ Pin \/ Mark \/ Crash
    \/ \E f \in Files : Visit(f) \/ Copy(f) \/ \E b \in BOOLEAN : Write(f, b) \/ Extract(f, b)

Spec == Init /\ [][Next]_vars

-----------------------------------------------------------------------------
(* Properties.                                                             *)

TypeOK ==
    /\ make.pc \in {"idle", "before", "turn", "copy", "after", "compare", "publish", "write"}
    /\ undo.pc \in {"idle", "mark", "extract"} /\ archive.whole => archive.there
    /\ target.marker => target.there

\* What the sources held at one moment, but for a file that came and went meanwhile: one that was
\* missing each time it was looked for may have been there in between.
OfOneMoment(content) ==
    \E s \in seen : \A f \in Files : s[f] = content[f] \/ (content[f] = 0 /\ f \in remade)

\* What a whole archive holds, and a directory that is restored and bears no marker, the
\* sources held all together at one moment, whoever wrote to them during the backup, and
\* whatever crashed or was damaged since.
SnapshotOfOneMoment ==
    /\ archive.whole => OfOneMoment(archive.content)
    /\ (\E f \in Files : target.content[f] # 0) /\ ~target.marker => OfOneMoment(target.content)
=============================================================================
