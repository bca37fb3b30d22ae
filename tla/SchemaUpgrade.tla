----------------------------- MODULE SchemaUpgrade -----------------------------
(***************************************************************************)
(* Opening the main database: Database.__init__ with schema_upgrade.  The  *)
(* tables, every migration and the version number are written in one       *)
(* transaction that holds the write lock from its first statement; before  *)
(* it writes anything, a snapshot of the old file is staged and published; *)
(* after it, the daily copy is taken.  Several processes open one file     *)
(* (the station that is replaced, its successor, the command line), each   *)
(* with the code it was started with; each may fail or end at any step.    *)
(*                                                                         *)
(* SQLite is external: a transaction is written at its commit or not at    *)
(* all, a reader sees what is committed, and a process that finds the lock *)
(* taken for too long gives up without having done anything.               *)
(***************************************************************************)
EXTENDS Integers, Sequences

CONSTANTS Procs,      \* processes
          Code,       \* SCHEMA_VERSION of the code each of them runs
          Target,     \* the newest SCHEMA_VERSION
          Built,      \* migrations whose columns the base tables already have
          Keep,       \* daily copies that are kept
          MaxWrites,  \* bound: business writes
          MaxFaults   \* bound: failures and crashes

VARIABLES file,       \* the committed database
          lock,       \* who holds the write lock
          proc,       \* the processes
          published,  \* backups/upgrades/*.sqlite3
          daily,      \* backups/*.sqlite3, the newest last
          faults

vars == <<file, lock, proc, published, daily, faults>>

Versions == 1..Target
Files    == [tables : BOOLEAN, version : 0..Target, parts : SUBSET Versions, rows : 0..MaxWrites]
NoOne    == "nobody"
Half     == [tables |-> FALSE, version |-> 0, parts |-> {}, rows |-> -1]   \* a copy that was not finished
InTransaction == {"begun", "staging", "copied", "linked", "creating", "migrating"}
Stages   == {"down", "saving", "up"} \cup InTransaction
Down     == [stage |-> "down", tx |-> Half, copy |-> Half]

TypeOK ==
    /\ file \in Files
    /\ lock \in Procs \cup {NoOne}
    /\ proc \in [Procs -> [stage : Stages, tx : Files \cup {Half}, copy : Files \cup {Half}]]
    /\ published \subseteq Files \cup {Half}
    /\ daily \in Seq([by : Procs, whole : BOOLEAN])
    /\ faults \in 0..MaxFaults

\* A new file, one written before versions were recorded, or one of an earlier release.
Init ==
    /\ file \in {[tables |-> FALSE, version |-> 0, parts |-> {}, rows |-> 0]} \cup
                {[tables |-> TRUE, version |-> v, parts |-> 1..v, rows |-> 0] : v \in 0..Target - 1}
    /\ lock = NoOne
    /\ proc = [p \in Procs |-> Down]
    /\ published = {} /\ daily = <<>> /\ faults = 0

Now(p, stage) == proc' = [proc EXCEPT ![p].stage = stage]

-----------------------------------------------------------------------------
(* The transaction.                                                        *)

\* BEGIN IMMEDIATE.
Begin(p) ==
    /\ proc[p].stage = "down" /\ lock = NoOne
    /\ lock' = p
    /\ proc' = [proc EXCEPT ![p] = [Down EXCEPT !.stage = "begun", !.tx = file]]
    /\ UNCHANGED <<file, published, daily, faults>>

\* Faulty: a file without a recorded version is taken for a new one.
NeedsSnapshotVersioned(p) == proc[p].tx.version \in 1..Code[p] - 1

NeedsSnapshot(p) == proc[p].tx.tables /\ proc[p].tx.version < Code[p]

\* Faulty: the copy is written under its final name.
FoundNamed == published \cup {Half}

\* The files that could be taken for snapshots while one is being staged as a .pending file.
Found == published

\* A version newer than the code is refused.
Inspect(p) ==
    /\ proc[p].stage = "begun"
    /\ IF proc[p].tx.version > Code[p]
       THEN lock' = NoOne /\ proc' = [proc EXCEPT ![p] = Down] /\ UNCHANGED published
       ELSE /\ Now(p, IF NeedsSnapshot(p) THEN "staging" ELSE "creating")
            /\ published' = IF NeedsSnapshot(p) THEN Found ELSE published
            /\ UNCHANGED lock
    /\ UNCHANGED <<file, daily, faults>>

\* The copy is complete, checked and synced.
Stage(p) ==
    /\ proc[p].stage = "staging"
    /\ proc' = [proc EXCEPT ![p].stage = "copied", ![p].copy = file]
    /\ UNCHANGED <<file, lock, published, daily, faults>>

\* os.link.
Publish(p) ==
    /\ proc[p].stage = "copied"
    /\ published' = published \cup {proc[p].copy}
    /\ Now(p, "linked")
    /\ UNCHANGED <<file, lock, daily, faults>>

\* The directory is synced.
SyncFolder(p) ==
    /\ proc[p].stage = "linked"
    /\ Now(p, "creating")
    /\ UNCHANGED <<file, lock, published, daily, faults>>

\* Faulty: the statements are run by executescript, which commits first and then each of them.
WrittenAtOnce(tx) == tx

\* What other processes see of the tables as they are created.
Written(tx) == file

\* CREATE TABLE IF NOT EXISTS leaves a table of an old file without its new columns.
BaseParts(tx) == IF tx.tables THEN {} ELSE Built

Create(p) ==
    LET tx == [proc[p].tx EXCEPT !.tables = TRUE, !.parts = @ \cup BaseParts(proc[p].tx)]
    IN  /\ proc[p].stage = "creating"
        /\ proc' = [proc EXCEPT ![p].stage = "migrating", ![p].tx = tx]
        /\ file' = Written(tx)
        /\ UNCHANGED <<lock, published, daily, faults>>

Migrate(p) ==
    LET v == proc[p].tx.version + 1
    IN  /\ proc[p].stage = "migrating" /\ v <= Code[p]
        /\ proc' = [proc EXCEPT ![p].tx.version = v, ![p].tx.parts = @ \cup {v}]
        /\ UNCHANGED <<file, lock, published, daily, faults>>

\* Faulty: the oldest copies are removed before the new one is written.
EnteredPruned(p) == LET all == Append(daily, [by |-> p, whole |-> FALSE])
                    IN  SubSeq(all, IF Len(all) > Keep THEN Len(all) - Keep + 1 ELSE 1, Len(all))

\* backup: the daily copy is opened, and for now has nothing in it.
Entered(p) == Append(daily, [by |-> p, whole |-> FALSE])

Commit(p) ==
    /\ proc[p].stage = "migrating" /\ proc[p].tx.version >= Code[p]
    /\ file' = proc[p].tx
    /\ lock' = NoOne
    /\ daily' = Entered(p)
    /\ proc' = [proc EXCEPT ![p] = [Down EXCEPT !.stage = "saving"]]
    /\ UNCHANGED <<published, faults>>

\* Whatever is raised rolls the transaction back.  A snapshot whose publication fails is
\* removed (here with its equals, although each is a file of its own); one that was
\* published stays when a migration fails.
Fail(p) ==
    /\ proc[p].stage \in InTransaction /\ faults < MaxFaults
    /\ faults' = faults + 1
    /\ lock' = NoOne
    /\ published' = IF proc[p].stage = "linked" THEN published \ {proc[p].copy} ELSE published
    /\ proc' = [proc EXCEPT ![p] = Down]
    /\ UNCHANGED <<file, daily>>

-----------------------------------------------------------------------------
(* The daily copy, and business.                                           *)

\* The copy is complete; all but the newest are removed.
Save(p) ==
    LET mine == CHOOSE i \in 1..Len(daily) : /\ daily[i].by = p
                                             /\ \A j \in i + 1..Len(daily) : daily[j].by # p
        all  == [daily EXCEPT ![mine].whole = TRUE]
    IN  /\ proc[p].stage = "saving"
        /\ daily' = IF \E i \in 1..Len(daily) : daily[i].by = p
                    THEN SubSeq(all, IF Len(all) > Keep THEN Len(all) - Keep + 1 ELSE 1, Len(all))
                    ELSE daily     \* another process has removed it
        /\ Now(p, "up")
        /\ UNCHANGED <<file, lock, published, faults>>

\* A copy that fails is only logged.
SaveFails(p) ==
    /\ proc[p].stage = "saving" /\ faults < MaxFaults
    /\ faults' = faults + 1
    /\ Now(p, "up")
    /\ UNCHANGED <<file, lock, published, daily>>

Work(p) ==
    /\ proc[p].stage = "up" /\ lock = NoOne
    /\ file.rows < MaxWrites
    /\ file' = [file EXCEPT !.rows = @ + 1]
    /\ UNCHANGED <<lock, proc, published, daily, faults>>

Stop(p) ==
    /\ proc[p].stage = "up"
    /\ proc' = [proc EXCEPT ![p] = Down]
    /\ UNCHANGED <<file, lock, published, daily, faults>>

\* The process ends at any step.  What it had linked or entered stays; a .pending file too.
Crash(p) ==
    /\ proc[p].stage \in InTransaction \cup {"saving"} /\ faults < MaxFaults
    /\ faults' = faults + 1
    /\ lock' = IF lock = p THEN NoOne ELSE lock
    /\ proc' = [proc EXCEPT ![p] = Down]
    /\ UNCHANGED <<file, published, daily>>

-----------------------------------------------------------------------------
Next ==
    \E p \in Procs :
        \/ Begin(p) \/ Inspect(p) \/ Stage(p) \/ Publish(p) \/ SyncFolder(p)
        \/ Create(p) \/ Migrate(p) \/ Commit(p) \/ Fail(p)
        \/ Save(p) \/ SaveFails(p) \/ Work(p) \/ Stop(p) \/ Crash(p)

Spec == Init /\ [][Next]_vars

-----------------------------------------------------------------------------
(* A process that serves finds the whole schema its code was written for:  *)
(* no failure, crash or other process leaves a version number without its  *)
(* columns, or takes them away.  And no file that could be taken for a     *)
(* snapshot is only half of one.                                           *)
SchemaServed ==
    /\ \A p \in Procs : proc[p].stage \in {"saving", "up"} =>
           file.version >= Code[p] /\ 1..Code[p] \subseteq file.parts
    /\ Half \notin published

(* The schema of a file with data changes in one step to one of a release, *)
(* and the exact content it had before is on disk then, published: also    *)
(* rows that another process wrote while the upgrade was under way.        *)
Restorable ==
    [][ file'.tables # file.tables \/ file'.version # file.version \/ file'.parts # file.parts
        => /\ 1..file'.version \subseteq file'.parts
           /\ \E p \in Procs : file'.version = Code[p]
           /\ file.tables => file \in published /\ file'.rows = file.rows ]_vars

(* Once there is a complete daily copy there always is one, however many   *)
(* of the later copies fail or are cut short, as long as no process        *)
(* finishes a copy so late that Keep newer ones have been begun meanwhile. *)
Overtaken(p) == /\ \E i \in 1..Len(daily) : daily[i].by = p
                /\ \A i \in 1..Len(daily) : daily[i].by = p => i <= Len(daily) - Keep
HasCopy(d)   == \E i \in 1..Len(d) : d[i].whole
DailyKept ==
    [][ HasCopy(daily) /\ (\A p \in Procs : proc[p].stage = "saving" => ~Overtaken(p))
        => HasCopy(daily') ]_vars

================================================================================
