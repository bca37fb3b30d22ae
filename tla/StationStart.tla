---------------------------- MODULE StationStart ----------------------------
(***************************************************************************)
(* The processes of a station on one host: the lock file and the           *)
(* arbitration between an instance that starts and one that runs           *)
(* (singleton), the start and end of a station, and the restart that       *)
(* follows a change of its files (station_controller.start, _dev_restart). *)
(*                                                                         *)
(* The system calls, the HTTP server, git and the self-check before the    *)
(* start (which may fail) are external.  Process numbers are not reused.   *)
(***************************************************************************)
EXTENDS Naturals

CONSTANTS Pids, Versions,  \* 0: no commit known; a larger number is a later commit
          Dated,           \* the versions whose time is known: read from git
          MaxFaults        \* bound: ends from outside, failed kills, writes and self-checks

VARIABLES proc, \* proc[p]: [pc, ver, dev, port, target, watch]: port "main" or "other" (the
                \* next free one); target: the process to take over from; watch: the
                \* restart by the watcher of files, "idle", "asked" or "spawned"
          lock, \* the lock file: [pid, ver]
          head, \* the version of the files
          blame, \* what has happened that the properties make an exception for
          faults
vars == <<proc, lock, head, blame, faults>>

None == 0
NoLock == [pid |-> None, ver |-> 0]
Unborn == [pc |-> "unborn", ver |-> 0, dev |-> FALSE, port |-> "none", target |-> None,
           watch |-> "idle"]

First == CHOOSE p \in Pids : \A q \in Pids : p <= q

\* A station of a release that wrote no lock.
Legacy(v) == [Unborn EXCEPT !.pc = "run", !.ver = v, !.port = "main"]

\* No station, or such a one.
Init ==
    /\ head \in Versions
    /\ \/ proc = [p \in Pids |-> Unborn]
       \/ \E v \in Versions : proc = [p \in Pids |-> IF p = First THEN Legacy(v) ELSE Unborn]
    /\ lock = NoLock /\ blame = {} /\ faults = 0

Fault == faults < MaxFaults /\ faults' = faults + 1
Alive(p) == p # None /\ proc[p].pc \notin {"unborn", "gone"}
At(p, pc) == proc[p].pc = pc
To(p, pc) == proc' = [proc EXCEPT ![p].pc = pc]
Gone == [Unborn EXCEPT !.pc = "gone"]
Fresh(p) == At(p, "unborn") /\ \A q \in Pids : q < p => ~At(q, "unborn")
Arbitrates(p) == proc[p].pc \in {"kill", "write"}

Launched(dev) == [Unborn EXCEPT !.pc = "check", !.ver = head, !.dev = dev]

Launch(p, dev) ==
    /\ Fresh(p) /\ proc' = [proc EXCEPT ![p] = Launched(dev)]
    /\ UNCHANGED <<lock, head, blame, faults>>

-----------------------------------------------------------------------------
(* ensure_single_instance.                                                 *)

\* Faulty: a replacement is refused like any other instance of that version.
VerdictOnSame(p) ==
    LET ver == proc[p].ver IN
    IF ver # lock.ver /\ {ver, lock.ver} \subseteq Dated /\ ver > lock.ver THEN "proceed" ELSE "exit"

\* Against a live owner of the lock.  A replacement may take over from its own version; a
\* version without a time, or an earlier one, gives way.
Verdict(p) ==
    LET ver == proc[p].ver IN
    IF ver = lock.ver THEN IF proc[p].dev THEN "proceed" ELSE "exit"
    ELSE IF {ver, lock.ver} \subseteq Dated /\ ver > lock.ver THEN "proceed" ELSE "exit"

\* Faulty: without a live owner of the lock there is nobody to take over from.
HolderUnseen(port) == None

\* _port_holder, if it is a station
Holder(port) ==
    LET on == {p \in Pids : Alive(p) /\ proc[p].port = port}
    IN  IF on = {} THEN None ELSE CHOOSE p \in on : TRUE

\* The lock is read and judged; it is written two steps later, so that another instance may
\* be judged by the same lock.
ReadLock(p) ==
    /\ At(p, "check")
    /\ proc' = [proc EXCEPT ![p] =
                  IF ~Alive(lock.pid) THEN [@ EXCEPT !.pc = "kill", !.target = Holder("main")]
                  ELSE IF Verdict(p) = "proceed" THEN [@ EXCEPT !.pc = "kill", !.target = lock.pid]
                  ELSE Gone]
    /\ blame' = blame \cup (IF \E q \in Pids : Arbitrates(q) THEN {"overlap"} ELSE {})
                      \cup (IF Alive(lock.pid) /\ Verdict(p) = "exit" /\ proc[p].ver # lock.ver
                            THEN {"version"} ELSE {})
    /\ UNCHANGED <<lock, head, faults>>

\* _kill_process and _wait_port_free, neither of whose results is looked at
Kill(p, ok) ==
    LET target == proc[p].target IN
    /\ At(p, "kill")
    /\ proc' = [q \in Pids |-> IF q = p THEN [proc[p] EXCEPT !.pc = "write", !.target = None]
                               ELSE IF q = target /\ ok THEN Gone ELSE proc[q]]
    /\ IF ok THEN UNCHANGED <<faults, blame>>
       ELSE Alive(target) /\ Fault /\ blame' = blame \cup {"kill"}
    /\ UNCHANGED <<lock, head>>

\* _write_lock; an error is only logged
WriteLock(p, ok) ==
    /\ At(p, "write") /\ To(p, "start")
    /\ IF ok THEN lock' = [pid |-> p, ver |-> proc[p].ver] /\ UNCHANGED <<faults, blame>>
       ELSE Fault /\ blame' = blame \cup {"lock"} /\ UNCHANGED lock
    /\ UNCHANGED <<head>>

-----------------------------------------------------------------------------
(* The life of a station.                                                  *)

\* The self-check, then the first free port.
Start(p, ok) ==
    /\ At(p, "start")
    /\ IF ok THEN /\ proc' = [proc EXCEPT ![p].pc = "run",
                                          ![p].port = IF Holder("main") = None THEN "main" ELSE "other"]
                  /\ UNCHANGED <<faults, blame>>
       ELSE To(p, "clear") /\ Fault /\ blame' = blame \cup {"stopped"}
    /\ UNCHANGED <<lock, head>>

\* A signal, of an operator or of request_restart
Stop(p) ==
    /\ At(p, "run") /\ To(p, "closing") /\ blame' = blame \cup {"stopped"}
    /\ UNCHANGED <<lock, head, faults>>

\* The HTTP server has let go of its port, and the main thread goes on to its end.
ServerEnds(p) ==
    /\ At(p, "closing") /\ proc' = [proc EXCEPT ![p].pc = "clear", ![p].port = "none"]
    /\ UNCHANGED <<lock, head, blame, faults>>

Ends(p) ==
    /\ proc' = [proc EXCEPT ![p] = Gone]
    /\ blame' = blame \cup IF proc[p].watch = "asked" THEN {"outrun"} ELSE {}

\* _clear_lock at exit: the lock is removed if it is the process's own.
ReadOwnLock(p) ==
    /\ At(p, "clear")
    /\ IF lock.pid = p THEN To(p, "unlink") /\ UNCHANGED blame ELSE Ends(p)
    /\ UNCHANGED <<lock, head, faults>>

RemoveLock(p) ==
    /\ At(p, "unlink") /\ Ends(p) /\ lock' = NoLock
    /\ UNCHANGED <<head, faults>>

Crash(p) ==
    /\ Alive(p) /\ Fault
    /\ proc' = [proc EXCEPT ![p] = Gone] /\ blame' = blame \cup {"stopped"}
    /\ UNCHANGED <<lock, head>>

-----------------------------------------------------------------------------
(* The watcher of files, a thread of a station in development mode.        *)

\* git pull by _auto_upgrade or by hand, a checkout of something else, a new VERSION.json
Change(v) ==
    /\ head # v /\ head' = v
    /\ UNCHANGED <<proc, lock, blame, faults>>

\* _dev_restart asks the HTTP server to end, which ends the main thread as well.
Changed(p) ==
    /\ At(p, "run") /\ proc[p].dev /\ proc[p].watch = "idle"
    /\ proc' = [proc EXCEPT ![p].pc = "closing", ![p].watch = "asked"]
    /\ UNCHANGED <<lock, head, blame, faults>>

\* Once the port is free, or after eight seconds.
Spawn(p, q) ==
    /\ Alive(p) /\ proc[p].watch = "asked" /\ Fresh(q)
    /\ proc' = [proc EXCEPT ![q] = Launched(TRUE), ![p].watch = "spawned"]
    /\ UNCHANGED <<lock, head, blame, faults>>

\* os._exit, without the handlers of a normal exit
ExitNow(p) ==
    /\ Alive(p) /\ proc[p].watch = "spawned" /\ proc' = [proc EXCEPT ![p] = Gone]
    /\ UNCHANGED <<lock, head, blame, faults>>

Next ==
    \/ \E p \in Pids :
          \/ ReadLock(p) \/ Stop(p) \/ ServerEnds(p) \/ ReadOwnLock(p) \/ RemoveLock(p)
          \/ Crash(p) \/ Changed(p) \/ ExitNow(p) \/ \E q \in Pids : Spawn(p, q)
          \/ \E b \in BOOLEAN : Launch(p, b) \/ Kill(p, b) \/ WriteLock(p, b) \/ Start(p, b)
    \/ \E v \in Versions : Change(v)

Spec == Init /\ [][Next]_vars

-----------------------------------------------------------------------------
(* Properties.                                                             *)

Live == {p \in Pids : Alive(p)}

TypeOK ==
    /\ lock.pid \in Pids \cup {None} /\ lock.ver \in Versions \cup {0} /\ head \in Versions
    /\ blame \subseteq {"overlap", "kill", "lock", "version", "stopped", "outrun"}
    /\ \A p \in Pids : (proc[p].port # "none") => proc[p].pc \in {"run", "closing"}

\* At most one station serves on the host, on whatever port, through starts, restarts, upgrades
\* and crashes, unless two starts judged the same lock, or a process could not be killed or
\* the lock not be written.
OneStation ==
    blame \cap {"overlap", "kill", "lock"} = {} =>
        \A p, q \in Pids : At(p, "run") /\ At(q, "run") => p = q

\* The arbitration never leaves the host without a station where there was one to be: when all
\* processes have ended, one was stopped, crashed or failed its self-check, a version was
\* refused, or a restart was overtaken by the end of its own process.
NotLeft ==
    (Live = {} /\ \E p \in Pids : At(p, "gone")) => blame \cap {"stopped", "version", "outrun"} # {}

\* A station that restarts itself does not end before it has started its successor, unless
\* it is ended from outside: "close the HTTP server gracefully to release the port, wait
\* until the port is free, start the new process, exit" (_dev_restart).
RestartStarts == "outrun" \notin blame
=============================================================================
