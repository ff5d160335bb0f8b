-------------------------------- MODULE Daemon --------------------------------
(***************************************************************************)
(* The daemon and the commands that start and stop it (cmd/proxy/main.go): *)
(* startDaemon and stopDaemon find the daemon through a PID file in the    *)
(* working directory, and main serves until SIGTERM and then shuts down.   *)
(*                                                                         *)
(* Each system call of a command is a step.  The operating system gives a  *)
(* PID that is free to the next process, be it a daemon or not.            *)
(***************************************************************************)
EXTENDS Naturals, FiniteSets

CONSTANTS Commands, Pids, NoFile, Empty, NoPid

ASSUME DaemonAssumption == NoFile \notin Pids /\ Empty \notin Pids /\ NoPid \notin Pids

VARIABLES
    pidFile,    \* its content: NoFile, Empty (or not a number), or a PID
    proc,       \* what runs under each PID
    port,       \* the process that listens, or NoPid
    cmd,        \* the commands
    unrecorded  \* daemons whose PID could not be written; no code reads it

vars == <<pidFile, proc, port, cmd, unrecorded>>

-----------------------------------------------------------------------------
Idle == [at |-> "idle", pid |-> NoPid]

Init ==
    /\ pidFile = NoFile
    /\ proc = [p \in Pids |-> "free"]
    /\ port = NoPid
    /\ cmd = [c \in Commands |-> Idle]
    /\ unrecorded = {}

At(c, where) == cmd[c].at = where
Goes(c, where) == cmd' = [cmd EXCEPT ![c].at = where]
Returns(c) == cmd' = [cmd EXCEPT ![c] = Idle]

Alive(p) == p \in Pids /\ proc[p] # "free"

\* The process p ends, and the port that it held is free.
Ends(p) ==
    /\ proc' = [proc EXCEPT ![p] = "free"]
    /\ port' = IF port = p THEN NoPid ELSE port
    /\ unrecorded' = unrecorded \ {p}

-----------------------------------------------------------------------------
(* startDaemon.                                                            *)

\* The file is read, if it is there.
Start(c) ==
    /\ At(c, "idle")
    /\ cmd' = [cmd EXCEPT ![c] = [at |-> IF pidFile = NoFile THEN "spawn" ELSE "probe",
                                  pid |-> pidFile]]
    /\ UNCHANGED <<pidFile, proc, port, unrecorded>>

\* Mutated form: the process of the file is taken for dead.
RunningNever(c) == FALSE

\* The file names a process, and signal 0 reaches it.
Running(c) == Alive(cmd[c].pid)

\* "Daemon is already running": exit, or go on to remove the file.
Probe(c) ==
    /\ At(c, "probe")
    /\ IF Running(c) THEN Returns(c) ELSE Goes(c, "clean")
    /\ UNCHANGED <<pidFile, proc, port, unrecorded>>

\* os.Remove, whose error is ignored.
Clean(c) ==
    /\ At(c, "clean")
    /\ pidFile' \in {NoFile, pidFile}
    /\ Goes(c, "spawn")
    /\ UNCHANGED <<proc, port, unrecorded>>

\* The same program with --foreground, in a session of its own.
Spawn(c) ==
    /\ At(c, "spawn")
    /\ \E p \in Pids :
          /\ proc[p] = "free"
          /\ proc' = [proc EXCEPT ![p] = "booting"]
          /\ cmd' = [cmd EXCEPT ![c] = [at |-> "truncate", pid |-> p]]
    /\ UNCHANGED <<pidFile, port, unrecorded>>

SpawnFails(c) ==
    /\ At(c, "spawn")
    /\ Returns(c)
    /\ UNCHANGED <<pidFile, proc, port, unrecorded>>

\* os.WriteFile truncates the file and then writes it.
Truncate(c) ==
    /\ At(c, "truncate")
    /\ pidFile' = Empty
    /\ Goes(c, "write")
    /\ UNCHANGED <<proc, port, unrecorded>>

Write(c) ==
    /\ At(c, "write")
    /\ pidFile' = cmd[c].pid
    /\ Returns(c)
    /\ UNCHANGED <<proc, port, unrecorded>>

\* Neither step needs to succeed: "Warning: Failed to write PID file".
WriteFails(c) ==
    /\ At(c, "truncate") \/ At(c, "write")
    /\ unrecorded' = IF Alive(cmd[c].pid) THEN unrecorded \cup {cmd[c].pid} ELSE unrecorded
    /\ Returns(c)
    /\ UNCHANGED <<pidFile, proc, port>>

-----------------------------------------------------------------------------
(* stopDaemon.                                                             *)

\* No file, or no number in it: a message.
Stop(c) ==
    /\ At(c, "idle")
    /\ pidFile \in Pids
    /\ cmd' = [cmd EXCEPT ![c] = [at |-> "signal", pid |-> pidFile]]
    /\ UNCHANGED <<pidFile, proc, port, unrecorded>>

\* SIGTERM kills a process that has not asked for the signal, and begins the
\* shutdown of one that has, once.  No such process: a message.
Signal(c) ==
    /\ At(c, "signal")
    /\ LET p == cmd[c].pid
       IN  CASE proc[p] = "free" ->
                   /\ Returns(c)
                   /\ UNCHANGED <<proc, port, unrecorded>>
             [] proc[p] \in {"booting", "other"} ->
                   /\ Goes(c, "remove")
                   /\ Ends(p)
             [] proc[p] \in {"ready", "closing", "draining"} ->
                   /\ Goes(c, "remove")
                   /\ proc' = IF proc[p] = "ready" THEN [proc EXCEPT ![p] = "closing"] ELSE proc
                   /\ UNCHANGED <<port, unrecorded>>
    /\ UNCHANGED pidFile

\* "Stopped process": the file goes, whatever it holds by now.
Remove(c) ==
    /\ At(c, "remove")
    /\ pidFile' \in {NoFile, pidFile}
    /\ Returns(c)
    /\ UNCHANGED <<proc, port, unrecorded>>

-----------------------------------------------------------------------------
(* The daemon.                                                             *)

\* signal.Notify, after the server was built and its goroutine started.
Notify(p) ==
    /\ proc[p] = "booting"
    /\ proc' = [proc EXCEPT ![p] = "ready"]
    /\ UNCHANGED <<pidFile, port, cmd, unrecorded>>

\* ListenAndServe, in that goroutine, takes the port ...
Listen(p) ==
    /\ proc[p] \in {"booting", "ready", "closing"}
    /\ port = NoPid
    /\ port' = p
    /\ UNCHANGED <<pidFile, proc, cmd, unrecorded>>

\* ... or does not get it, and Crit ends the process.
ListenFails(p) ==
    /\ proc[p] \in {"booting", "ready", "closing"}
    /\ port # p
    /\ Ends(p)
    /\ UNCHANGED <<pidFile, cmd>>

\* The backend, the cache and telemetry are closed; httpServer.Shutdown closes
\* the listener and waits for the requests, for 10 seconds at most.
Shutdown(p) ==
    /\ proc[p] = "closing"
    /\ proc' = [proc EXCEPT ![p] = "draining"]
    /\ port' = IF port = p THEN NoPid ELSE port
    /\ UNCHANGED <<pidFile, cmd, unrecorded>>

\* main returns.
Exit(p) ==
    /\ proc[p] = "draining"
    /\ Ends(p)
    /\ UNCHANGED <<pidFile, cmd>>

\* A crash, SIGKILL, or an error before the server is up.
Crash(p) ==
    /\ Alive(p)
    /\ Ends(p)
    /\ UNCHANGED <<pidFile, cmd>>

\* Some other program is started.
Other(p) ==
    /\ proc[p] = "free"
    /\ proc' = [proc EXCEPT ![p] = "other"]
    /\ UNCHANGED <<pidFile, port, cmd, unrecorded>>

Next ==
    \/ \E c \in Commands :
          \/ Start(c) \/ Probe(c) \/ Clean(c) \/ Spawn(c) \/ SpawnFails(c)
          \/ Truncate(c) \/ Write(c) \/ WriteFails(c)
          \/ Stop(c) \/ Signal(c) \/ Remove(c)
    \/ \E p \in Pids :
          \/ Notify(p) \/ Listen(p) \/ ListenFails(p) \/ Shutdown(p) \/ Exit(p)
          \/ Crash(p) \/ Other(p)

Spec == Init /\ [][Next]_vars

-----------------------------------------------------------------------------
\* Every variable keeps its type, and the port belongs to a daemon that serves.
TypeOK ==
    /\ pidFile \in Pids \cup {NoFile, Empty}
    /\ proc \in [Pids -> {"free", "other", "booting", "ready", "closing", "draining"}]
    /\ port = NoPid \/ (port \in Pids /\ proc[port] \in {"booting", "ready", "closing"})
    /\ cmd \in [Commands -> [at : {"idle", "probe", "clean", "spawn", "truncate", "write",
                                   "signal", "remove"},
                             pid : Pids \cup {NoFile, Empty, NoPid}]]
    /\ \A c \in Commands : cmd[c].at \in {"truncate", "write", "signal"} => cmd[c].pid \in Pids
    /\ unrecorded \subseteq Pids

Quiet == \A c \in Commands : At(c, "idle")

\* A daemon that nobody has asked to stop.
Up(p) == proc[p] \in {"booting", "ready"}

\* Between commands, the file names the daemon that is up, so that the next
\* stop finds it and the next start refuses, through every sequence of
\* commands, crashes and reused PIDs; and no two are up.
UpIsRecorded ==
    Quiet => \A p \in Pids : Up(p) => pidFile = p \/ p \in unrecorded

=============================================================================
