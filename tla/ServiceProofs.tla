---------------------------- MODULE ServiceProofs ----------------------------
(***************************************************************************)
(* Proofs about the daemon's life and about the service that runs in it,   *)
(* for every set of commands, PIDs, requests, environments and flags.      *)
(*                                                                         *)
(* First Daemon alone.  UpIsRecorded is proved for commands that are given *)
(* one at a time, and speaks of the time between them; the invariant       *)
(* follows a command through its steps: which PID stands in the file, and  *)
(* which in the command.                                                   *)
(*                                                                         *)
(* Then Service implements Daemon, so that what is proved of the PID file  *)
(* holds with configurations, requests and the steps of the shutdown       *)
(* added.  ServiceInv says what a process that is a daemon has behind it:  *)
(* its configuration was accepted, and requests are in daemons only.       *)
(***************************************************************************)
EXTENDS Service, TLAPS

-----------------------------------------------------------------------------
(* The daemon.                                                             *)

OneCommand == \A c, d \in Commands : c = d

\* Where a daemon that is up is recorded while command c runs.
RecordedDuring(c, p) ==
    \/ p \in unrecorded
    \/ cmd[c].at \in {"idle", "probe", "signal"} /\ pidFile = p
    \/ cmd[c].at \in {"truncate", "write"} /\ cmd[c].pid = p

DaemonInv ==
    \A c \in Commands :
        /\ cmd[c].at \in {"probe", "signal"} => cmd[c].pid = pidFile
        /\ \A p \in Pids : Up(p) => RecordedDuring(c, p)

\* Type correctness is inductive.
LEMMA DaemonTypeStep == TypeOK /\ [Next]_vars => TypeOK'
<1> SUFFICES ASSUME TypeOK, [Next]_vars PROVE TypeOK'
  OBVIOUS
<1> USE DaemonAssumption DEF TypeOK
<1>1. ASSUME NEW c \in Commands, Start(c) PROVE TypeOK'
  BY <1>1 DEF Start
<1>2. ASSUME NEW c \in Commands, Probe(c) PROVE TypeOK'
  BY <1>2 DEF Probe, Returns, Goes, Idle
<1>3. ASSUME NEW c \in Commands, Clean(c) PROVE TypeOK'
  BY <1>3 DEF Clean, Goes
<1>4. ASSUME NEW c \in Commands, Spawn(c) PROVE TypeOK'
  BY <1>4 DEF Spawn
<1>5. ASSUME NEW c \in Commands, SpawnFails(c) PROVE TypeOK'
  BY <1>5 DEF SpawnFails, Returns, Idle
<1>6. ASSUME NEW c \in Commands, Truncate(c) PROVE TypeOK'
  BY <1>6 DEF Truncate, At, Goes
<1>7. ASSUME NEW c \in Commands, Write(c) PROVE TypeOK'
  BY <1>7 DEF Write, At, Returns, Idle
<1>8. ASSUME NEW c \in Commands, WriteFails(c) PROVE TypeOK'
  BY <1>8 DEF WriteFails, Returns, Idle, Alive
<1>9. ASSUME NEW c \in Commands, Stop(c) PROVE TypeOK'
  BY <1>9 DEF Stop
<1>10. ASSUME NEW c \in Commands, Signal(c) PROVE TypeOK'
  <2> DEFINE p == cmd[c].pid
  <2>1. p \in Pids /\ UNCHANGED pidFile
    BY <1>10 DEF Signal, At
  <2>2. CASE proc[p] = "free"
    BY <1>10, <2>1, <2>2 DEF Signal, Returns, Idle
  <2>3. CASE proc[p] \in {"booting", "other"}
    <3>1. Goes(c, "remove") /\ Ends(p)
      BY <1>10, <2>3 DEF Signal
    <3> QED BY <2>1, <2>3, <3>1 DEF Goes, Ends
  <2>4. CASE proc[p] \in {"ready", "closing", "draining"}
    <3>1. /\ Goes(c, "remove") /\ UNCHANGED <<port, unrecorded>>
          /\ proc' = IF proc[p] = "ready" THEN [proc EXCEPT ![p] = "closing"] ELSE proc
      BY <1>10, <2>4 DEF Signal
    <3> QED BY <2>1, <2>4, <3>1 DEF Goes
  <2> QED BY <2>1, <2>2, <2>3, <2>4
<1>11. ASSUME NEW c \in Commands, Remove(c) PROVE TypeOK'
  BY <1>11 DEF Remove, Returns, Idle
<1>12. ASSUME NEW p \in Pids, Notify(p) PROVE TypeOK'
  BY <1>12 DEF Notify
<1>13. ASSUME NEW p \in Pids, Listen(p) PROVE TypeOK'
  BY <1>13 DEF Listen
<1>14. ASSUME NEW p \in Pids, ListenFails(p) PROVE TypeOK'
  BY <1>14 DEF ListenFails, Ends
<1>15. ASSUME NEW p \in Pids, Shutdown(p) PROVE TypeOK'
  BY <1>15 DEF Shutdown
<1>16. ASSUME NEW p \in Pids, Exit(p) PROVE TypeOK'
  BY <1>16 DEF Exit, Ends
<1>17. ASSUME NEW p \in Pids, Crash(p) PROVE TypeOK'
  BY <1>17 DEF Crash, Ends
<1>18. ASSUME NEW p \in Pids, Other(p) PROVE TypeOK'
  BY <1>18 DEF Other
<1>19. CASE UNCHANGED vars
  BY <1>19 DEF vars
<1> QED BY <1>1, <1>2, <1>3, <1>4, <1>5, <1>6, <1>7, <1>8, <1>9, <1>10, <1>11, <1>12, <1>13, <1>14, <1>15, <1>16, <1>17, <1>18, <1>19 DEF Next

\* Type correctness, for any number of commands at once.
THEOREM DaemonTypeCorrect == Spec => []TypeOK
<1>1. Init => TypeOK
  BY DaemonAssumption DEF Init, TypeOK, Idle
<1> QED BY <1>1, DaemonTypeStep, PTL DEF Spec

-----------------------------------------------------------------------------
\* The invariant is inductive when commands do not overlap.
LEMMA DaemonStep ==
    ASSUME OneCommand, TypeOK, DaemonInv, [Next]_vars
    PROVE  DaemonInv'
<1> SUFFICES ASSUME NEW d \in Commands
             PROVE  /\ cmd'[d].at \in {"probe", "signal"} => cmd'[d].pid = pidFile'
                    /\ \A q \in Pids : Up(q)' => RecordedDuring(d, q)'
  BY DEF DaemonInv
<1> USE DaemonAssumption DEF TypeOK, Up, RecordedDuring
<1>a. /\ cmd[d].at \in {"probe", "signal"} => cmd[d].pid = pidFile
      /\ \A q \in Pids : Up(q) => RecordedDuring(d, q)
  BY DEF DaemonInv
<1>b. \A c \in Commands : c = d
  BY DEF OneCommand
<1> DEFINE Kept == /\ cmd'[d].at \in {"probe", "signal"} => cmd'[d].pid = pidFile'
                   /\ \A q \in Pids : Up(q)' => RecordedDuring(d, q)'
<1>1. CASE Start(d)
  BY <1>1, <1>a DEF Start, At
<1>2. CASE Probe(d)
  BY <1>2, <1>a DEF Probe, At, Running, Alive, Returns, Goes, Idle
<1>3. CASE Clean(d)
  BY <1>3, <1>a DEF Clean, At, Goes
<1>4. CASE Spawn(d)
  BY <1>4, <1>a DEF Spawn, At
<1>5. CASE SpawnFails(d)
  BY <1>5, <1>a DEF SpawnFails, At, Returns, Idle
<1>6. CASE Truncate(d)
  BY <1>6, <1>a DEF Truncate, At, Goes
<1>7. CASE Write(d)
  BY <1>7, <1>a DEF Write, At, Returns, Idle
<1>8. CASE WriteFails(d)
  BY <1>8, <1>a DEF WriteFails, At, Returns, Idle, Alive
<1>9. CASE Stop(d)
  BY <1>9, <1>a DEF Stop, At
<1>10. CASE Signal(d)
  <2> DEFINE p == cmd[d].pid
  <2>1. p \in Pids /\ cmd[d].at = "signal" /\ UNCHANGED pidFile
    BY <1>10 DEF Signal, At
  <2>2. CASE proc[p] = "free"
    BY <1>10, <1>a, <2>1, <2>2 DEF Signal, Returns, Idle
  <2>3. CASE proc[p] \in {"booting", "other"}
    <3>1. Goes(d, "remove") /\ Ends(p)
      BY <1>10, <2>3 DEF Signal
    <3> QED BY <1>a, <2>1, <2>3, <3>1 DEF Goes, Ends
  <2>4. CASE proc[p] \in {"ready", "closing", "draining"}
    <3>1. /\ Goes(d, "remove") /\ UNCHANGED <<port, unrecorded>>
          /\ proc' = IF proc[p] = "ready" THEN [proc EXCEPT ![p] = "closing"] ELSE proc
      BY <1>10, <2>4 DEF Signal
    <3> QED BY <1>a, <2>1, <2>4, <3>1 DEF Goes
  <2> QED BY <2>1, <2>2, <2>3, <2>4
<1>11. CASE Remove(d)
  BY <1>11, <1>a DEF Remove, At, Returns, Idle
<1>12. ASSUME NEW p \in Pids, Notify(p) PROVE Kept
  BY <1>12, <1>a DEF Notify
<1>13. ASSUME NEW p \in Pids, Listen(p) PROVE Kept
  BY <1>13, <1>a DEF Listen
<1>14. ASSUME NEW p \in Pids, ListenFails(p) PROVE Kept
  BY <1>14, <1>a DEF ListenFails, Ends
<1>15. ASSUME NEW p \in Pids, Shutdown(p) PROVE Kept
  BY <1>15, <1>a DEF Shutdown
<1>16. ASSUME NEW p \in Pids, Exit(p) PROVE Kept
  BY <1>16, <1>a DEF Exit, Ends
<1>17. ASSUME NEW p \in Pids, Crash(p) PROVE Kept
  BY <1>17, <1>a DEF Crash, Ends
<1>18. ASSUME NEW p \in Pids, Other(p) PROVE Kept
  BY <1>18, <1>a DEF Other
<1>19. CASE UNCHANGED vars
  BY <1>19, <1>a DEF vars
<1> QED BY <1>b, <1>1, <1>2, <1>3, <1>4, <1>5, <1>6, <1>7, <1>8, <1>9, <1>10, <1>11, <1>12, <1>13, <1>14, <1>15, <1>16, <1>17, <1>18, <1>19 DEF Next

\* Between commands the file names the daemon that is up, whatever crashes,
\* failed writes and reused PIDs went before, if commands do not overlap.
THEOREM DaemonUpIsRecorded == OneCommand /\ Commands # {} /\ Spec => []UpIsRecorded
<1>1. Init => DaemonInv
  BY DEF Init, DaemonInv, Idle, Up
<1>2. Commands # {} /\ DaemonInv => UpIsRecorded
  BY DEF DaemonInv, UpIsRecorded, RecordedDuring, Quiet, At
<1>3. OneCommand /\ TypeOK /\ DaemonInv /\ [Next]_vars => DaemonInv'
  BY DaemonStep
<1> SUFFICES ASSUME OneCommand, Commands # {} PROVE Spec => []UpIsRecorded
  OBVIOUS
<1> QED BY <1>1, <1>2, <1>3, DaemonTypeCorrect, PTL DEF Spec

-----------------------------------------------------------------------------
(* The service.                                                            *)

Serving == {"booting", "ready", "closing", "draining"}

OwnTypeOK ==
    /\ DOMAIN conf = Pids
    /\ main \in [Pids -> [at : {"serving", "closed", "flushed", "late"}, returned : BOOLEAN]]
    /\ req \in [Requests -> [at : {"none", "running", "cut", "lost"}, by : Pids \cup {NoPid}]]

\* A request is in a process that is a daemon.
RequestsInDaemons ==
    \A r \in Requests : req[r].at = "running" => req[r].by \in Pids /\ proc[req[r].by] \in Serving

\* What was asked of a configuration before the daemon was started.
Sound(cfg) == Validate(cfg) /\ Needs(cfg.mode) \subseteq cfg.given

ConfigurationsSound ==
    /\ \A p \in Pids : proc[p] \in Serving => Sound(conf[p])
    /\ port # NoPid => CanBuild(conf[port])

ServiceInv == TypeOK /\ OwnTypeOK /\ RequestsInDaemons /\ ConfigurationsSound

-----------------------------------------------------------------------------
\* Every step of the service is a step of Daemon, or leaves it alone.
LEMMA DaemonSimulated == [ServiceNext]_serviceVars => [Next]_vars
<1> SUFFICES ASSUME [ServiceNext]_serviceVars PROVE [Next]_vars
  OBVIOUS
<1>1. ASSUME NEW c \in Commands, Command(c) PROVE Next
  BY <1>1 DEF Command, SpawnAccepted, SignalProcess, Next
<1>2. ASSUME NEW p \in Pids, BuildFails(p) PROVE Next
  <2>1. Crash(p)
    BY <1>2 DEF BuildFails, Crash, Alive
  <2> QED BY <2>1 DEF Next
<1>3. ASSUME NEW p \in Pids, ComesUp(p) PROVE Next
  BY <1>3 DEF ComesUp, Next
<1>4. ASSUME NEW p \in Pids, ServeReturns(p) PROVE UNCHANGED vars
  BY <1>4 DEF ServeReturns, Fatal
<1>5. ASSUME NEW p \in Pids, Stops(p) PROVE [Next]_vars
  BY <1>5 DEF Stops, CloseServer, FlushTelemetry, BeginShutdown, DeadlinePasses, MainReturns, Next
<1>6. ASSUME NEW p \in Pids, (Crash(p) /\ Gone(p, "lost")) \/ (Other(p) /\ UNCHANGED ownVars)
      PROVE  Next
  BY <1>6 DEF Next
<1>7. ASSUME NEW r \in Requests, Arrive(r) \/ Leave(r) PROVE UNCHANGED vars
  BY <1>7 DEF Arrive, Leave
<1>8. CASE UNCHANGED serviceVars
  BY <1>8 DEF serviceVars
<1> QED BY <1>1, <1>2, <1>3, <1>4, <1>5, <1>6, <1>7, <1>8 DEF ServiceNext

\* The service implements Daemon.
THEOREM ServiceImplementsDaemon == ServiceSpec => Spec
<1>1. ServiceInit => Init
  BY DEF ServiceInit
<1> QED BY <1>1, DaemonSimulated, PTL DEF ServiceSpec, Spec

\* With requests and configurations, too, the PID file names the daemon that is up.
THEOREM ServiceUpIsRecorded == OneCommand /\ Commands # {} /\ ServiceSpec => []UpIsRecorded
  BY ServiceImplementsDaemon, DaemonUpIsRecorded, PTL

-----------------------------------------------------------------------------
\* A configuration that is accepted is sound, with the flags applied.
LEMMA AcceptedIsSound ==
    ASSUME NEW env \in Environments, NEW flags, Accepted(env, flags)
    PROVE  Sound(applyCLIOverrides(Loaded(env), flags))
<1> DEFINE cfg == applyCLIOverrides(Loaded(env), flags)
<1>1. env \in Configs
  BY EnvironmentsAssumption
<1>2. cfg.mode = Loaded(env).mode /\ cfg.given = env.given
  BY <1>1 DEF applyCLIOverrides, Loaded, Configs
<1> QED BY <1>2 DEF Accepted, LoadConfig, Sound

\* The process p ends: its requests go with it, and the rest is as before.
LEMMA EndsKeeps ==
    ASSUME ServiceInv, NEW p \in Pids, Ends(p), NEW how \in {"cut", "lost"}, Gone(p, how)
    PROVE  OwnTypeOK' /\ RequestsInDaemons' /\ ConfigurationsSound'
<1> USE DEF ServiceInv
<1>1. /\ proc' = [proc EXCEPT ![p] = "free"]
      /\ port' = IF port = p THEN NoPid ELSE port
      /\ conf' = [conf EXCEPT ![p] = NotStarted]
      /\ main' = [main EXCEPT ![p] = Begun]
  BY DEF Ends, Gone
<1>2. req' = [r \in Requests |-> IF r \in In(p) THEN [at |-> how, by |-> p] ELSE req[r]]
  BY DEF Gone
<1>3. OwnTypeOK'
  BY <1>1, <1>2 DEF OwnTypeOK, Begun
<1>4. RequestsInDaemons'
  <2> SUFFICES ASSUME NEW r \in Requests, req'[r].at = "running"
               PROVE  req'[r].by \in Pids /\ proc'[req'[r].by] \in Serving
    BY DEF RequestsInDaemons
  <2>1. r \notin In(p) /\ req'[r] = req[r]
    BY <1>2
  <2>2. req[r].by \in Pids \ {p} /\ proc[req[r].by] \in Serving
    BY <2>1 DEF In, OwnTypeOK, RequestsInDaemons
  <2> QED BY <1>1, <2>1, <2>2 DEF TypeOK
<1>5. ConfigurationsSound'
  BY <1>1, DaemonAssumption DEF ConfigurationsSound, OwnTypeOK, TypeOK, Serving
<1> QED BY <1>3, <1>4, <1>5

\* A step that changes no process and no port.
LEMMA OwnKept ==
    ASSUME ServiceInv, UNCHANGED <<proc, port, ownVars>>
    PROVE  OwnTypeOK' /\ RequestsInDaemons' /\ ConfigurationsSound'
  BY DEF ServiceInv, ownVars, OwnTypeOK, RequestsInDaemons, ConfigurationsSound

\* A daemon that goes from one of its phases to another.
LEMMA PhaseKept ==
    ASSUME ServiceInv, NEW p \in Pids, NEW to \in Serving, proc[p] \in Serving,
           proc' = [proc EXCEPT ![p] = to], port' \in {port, NoPid}, UNCHANGED ownVars
    PROVE  OwnTypeOK' /\ RequestsInDaemons' /\ ConfigurationsSound'
<1>1. \A q \in Pids : proc'[q] \in Serving <=> proc[q] \in Serving
  BY DEF ServiceInv, TypeOK
<1>2. OwnTypeOK'
  BY DEF ServiceInv, ownVars, OwnTypeOK
<1>3. RequestsInDaemons'
  BY <1>1 DEF ServiceInv, RequestsInDaemons, ownVars
<1>4. ConfigurationsSound'
  BY <1>1 DEF ServiceInv, ConfigurationsSound, ownVars
<1> QED BY <1>2, <1>3, <1>4

\* A step of main only.
LEMMA MainKept ==
    ASSUME ServiceInv, NEW p \in Pids, NEW to \in {"closed", "flushed", "late"},
           MainGoes(p, to) \/ main' = [main EXCEPT ![p].returned = TRUE],
           UNCHANGED <<vars, conf, req>>
    PROVE  OwnTypeOK' /\ RequestsInDaemons' /\ ConfigurationsSound'
<1>1. main' \in [Pids -> [at : {"serving", "closed", "flushed", "late"}, returned : BOOLEAN]]
  <2>1. main[p] \in [at : {"serving", "closed", "flushed", "late"}, returned : BOOLEAN]
    BY DEF ServiceInv, OwnTypeOK
  <2>2. CASE main' = [main EXCEPT ![p].at = to]
    BY <2>1, <2>2 DEF ServiceInv, OwnTypeOK
  <2>3. CASE main' = [main EXCEPT ![p].returned = TRUE]
    BY <2>1, <2>3 DEF ServiceInv, OwnTypeOK
  <2> QED BY <2>2, <2>3 DEF MainGoes
<1>2. UNCHANGED <<proc, port, conf, req>>
  BY DEF vars
<1> QED BY <1>1, <1>2 DEF ServiceInv, OwnTypeOK, RequestsInDaemons, ConfigurationsSound

-----------------------------------------------------------------------------
\* A daemon is started: no request is in it, and its configuration was accepted.
LEMMA SpawnKeeps ==
    ASSUME ServiceInv, NEW c \in Commands, SpawnAccepted(c)
    PROVE  OwnTypeOK' /\ RequestsInDaemons' /\ ConfigurationsSound'
<1> USE DEF ServiceInv
<1>1. PICK p \in Pids : /\ proc[p] = "free"
                        /\ proc' = [proc EXCEPT ![p] = "booting"]
                        /\ cmd' = [cmd EXCEPT ![c] = [at |-> "truncate", pid |-> p]]
  BY DEF SpawnAccepted, Spawn
<1>2. cmd'[c].pid = p
  BY <1>1 DEF TypeOK
<1>3. PICK env \in Environments : \E flags \in FlagSets :
         /\ Accepted(env, flags)
         /\ conf' = [conf EXCEPT ![cmd'[c].pid] = applyCLIOverrides(Loaded(env), flags)]
  BY DEF SpawnAccepted
<1>4. PICK flags \in FlagSets :
         /\ Accepted(env, flags)
         /\ conf' = [conf EXCEPT ![cmd'[c].pid] = applyCLIOverrides(Loaded(env), flags)]
  BY <1>3
<1>5. Sound(applyCLIOverrides(Loaded(env), flags))
  BY <1>4, AcceptedIsSound
<1>6. UNCHANGED <<port, main, req>>
  BY DEF SpawnAccepted, Spawn
<1>7. OwnTypeOK'
  BY <1>4, <1>6 DEF OwnTypeOK
<1>8. RequestsInDaemons'
  BY <1>1, <1>6 DEF RequestsInDaemons, TypeOK, Serving
<1>9. ConfigurationsSound'
  <2>1. ASSUME NEW q \in Pids, proc'[q] \in Serving PROVE Sound(conf'[q])
    <3>1. CASE q = p
      BY <1>2, <1>4, <1>5, <3>1 DEF OwnTypeOK
    <3>2. CASE q # p
      BY <1>1, <1>2, <1>4, <2>1, <3>2 DEF OwnTypeOK, TypeOK, ConfigurationsSound
    <3> QED BY <3>1, <3>2
  <2>2. port' # NoPid => conf'[port'] = conf[port]
    BY <1>1, <1>2, <1>4, <1>6 DEF OwnTypeOK, TypeOK
  <2>3. port' # NoPid => CanBuild(conf'[port'])
    BY <1>6, <2>2 DEF ConfigurationsSound
  <2> QED BY <2>1, <2>3 DEF ConfigurationsSound
<1> QED BY <1>7, <1>8, <1>9

\* A signal that ends the process takes its requests with it.
LEMMA SignalKeeps ==
    ASSUME ServiceInv, NEW c \in Commands, SignalProcess(c)
    PROVE  OwnTypeOK' /\ RequestsInDaemons' /\ ConfigurationsSound'
<1> DEFINE p == cmd[c].pid
<1>1. p \in Pids /\ proc[p] \in {"free", "other", "booting", "ready", "closing", "draining"}
  BY DEF ServiceInv, TypeOK, SignalProcess, Signal, At
<1>2. CASE proc[p] \in {"booting", "other"}
  <2>1. Ends(p)
    BY <1>2 DEF SignalProcess, Signal
  <2>2. proc'[p] = "free" /\ proc[p] # "free"
    BY <1>1, <1>2, <2>1 DEF Ends, ServiceInv, TypeOK
  <2>3. Gone(p, "cut")
    BY <2>2 DEF SignalProcess
  <2> QED BY <1>1, <2>1, <2>3, EndsKeeps
<1>3. CASE proc[p] = "ready"
  <2>1. proc' = [proc EXCEPT ![p] = "closing"] /\ UNCHANGED port
    BY <1>3 DEF SignalProcess, Signal
  <2>2. proc'[p] # "free"
    BY <1>1, <2>1 DEF ServiceInv, TypeOK
  <2>3. UNCHANGED ownVars
    BY <2>2 DEF SignalProcess
  <2> QED BY <1>1, <1>3, <2>1, <2>3, PhaseKept DEF Serving
<1>4. CASE proc[p] \in {"free", "closing", "draining"}
  <2>1. UNCHANGED <<proc, port>>
    BY <1>4 DEF SignalProcess, Signal
  <2>2. UNCHANGED ownVars
    BY <2>1 DEF SignalProcess
  <2> QED BY <2>1, <2>2, OwnKept
<1> QED BY <1>1, <1>2, <1>3, <1>4

\* Who takes the port can be built.
LEMMA ListenKeeps ==
    ASSUME ServiceInv, NEW p \in Pids, CanBuild(conf[p]), Listen(p), UNCHANGED ownVars
    PROVE  OwnTypeOK' /\ RequestsInDaemons' /\ ConfigurationsSound'
  BY DEF ServiceInv, Listen, ownVars, OwnTypeOK, RequestsInDaemons, ConfigurationsSound

\* A program that is no daemon.
LEMMA OtherKeeps ==
    ASSUME ServiceInv, NEW p \in Pids, Other(p), UNCHANGED ownVars
    PROVE  OwnTypeOK' /\ RequestsInDaemons' /\ ConfigurationsSound'
<1>1. \A q \in Pids : proc'[q] \in Serving <=> proc[q] \in Serving
  BY DEF ServiceInv, TypeOK, Other, Serving
<1>2. UNCHANGED port
  BY DEF Other
<1> QED BY <1>1, <1>2 DEF ServiceInv, ownVars, OwnTypeOK, RequestsInDaemons, ConfigurationsSound

\* A request comes to who has the port, or leaves.
LEMMA RequestKeeps ==
    ASSUME ServiceInv, NEW r \in Requests, Arrive(r) \/ Leave(r)
    PROVE  OwnTypeOK' /\ RequestsInDaemons' /\ ConfigurationsSound'
<1> USE DEF ServiceInv
<1>1. UNCHANGED <<vars, conf, main>>
  BY DEF Arrive, Leave
<1>2. CASE Arrive(r)
  <2>1. /\ port \in Pids /\ proc[port] \in Serving
        /\ req' = [req EXCEPT ![r] = [at |-> "running", by |-> port]]
    BY <1>2 DEF Arrive, TypeOK, Serving
  <2>2. OwnTypeOK' /\ RequestsInDaemons'
    BY <1>1, <2>1 DEF OwnTypeOK, RequestsInDaemons, vars
  <2> QED BY <1>1, <2>2 DEF ConfigurationsSound, vars
<1>3. CASE Leave(r)
  <2>1. req' = [req EXCEPT ![r] = NoRequest]
    BY <1>3 DEF Leave
  <2>2. OwnTypeOK' /\ RequestsInDaemons'
    BY <1>1, <2>1 DEF OwnTypeOK, RequestsInDaemons, NoRequest, vars
  <2> QED BY <1>1, <2>2 DEF ConfigurationsSound, vars
<1> QED BY <1>2, <1>3

-----------------------------------------------------------------------------
LEMMA ServiceStep == ServiceInv /\ [ServiceNext]_serviceVars => ServiceInv'
<1> SUFFICES ASSUME ServiceInv, [ServiceNext]_serviceVars PROVE ServiceInv'
  OBVIOUS
<1> DEFINE Kept == OwnTypeOK' /\ RequestsInDaemons' /\ ConfigurationsSound'
<1>1. ASSUME NEW c \in Commands, Command(c) PROVE Kept
  <2>1. CASE SpawnAccepted(c)
    BY <2>1, SpawnKeeps
  <2>2. CASE SignalProcess(c)
    BY <2>2, SignalKeeps
  <2>3. CASE /\ \/ Start(c) \/ Probe(c) \/ Clean(c) \/ SpawnFails(c)
                \/ Truncate(c) \/ Write(c) \/ WriteFails(c) \/ Stop(c) \/ Remove(c)
             /\ UNCHANGED ownVars
    <3>1. UNCHANGED <<proc, port>>
      BY <2>3 DEF Start, Probe, Clean, SpawnFails, Truncate, Write, WriteFails, Stop, Remove
    <3> QED BY <2>3, <3>1, OwnKept
  <2> QED BY <1>1, <2>1, <2>2, <2>3 DEF Command
<1>2. ASSUME NEW p \in Pids, BuildFails(p) PROVE Kept
  BY <1>2, EndsKeeps DEF BuildFails
<1>3. ASSUME NEW p \in Pids, ComesUp(p) PROVE Kept
  <2>1. CASE Notify(p) /\ UNCHANGED ownVars
    BY <2>1, PhaseKept DEF Notify, Serving
  <2>2. CASE Listen(p) /\ UNCHANGED ownVars
    BY <1>3, <2>2, ListenKeeps DEF ComesUp
  <2>3. CASE ListenFails(p) /\ Gone(p, "lost")
    BY <2>3, EndsKeeps DEF ListenFails
  <2> QED BY <1>3, <2>1, <2>2, <2>3 DEF ComesUp
<1>4. ASSUME NEW p \in Pids, ServeReturns(p) PROVE Kept
  BY <1>4, MainKept DEF ServeReturns, Fatal
<1>5. ASSUME NEW p \in Pids, Stops(p) PROVE Kept
  <2>1. CASE CloseServer(p) \/ FlushTelemetry(p) \/ DeadlinePasses(p)
    BY <2>1, MainKept DEF CloseServer, FlushTelemetry, DeadlinePasses
  <2>2. CASE BeginShutdown(p)
    BY <2>2, PhaseKept DEF BeginShutdown, Shutdown, Serving
  <2>3. CASE MainReturns(p)
    BY <2>3, EndsKeeps DEF MainReturns, Exit
  <2> QED BY <1>5, <2>1, <2>2, <2>3 DEF Stops
<1>6. ASSUME NEW p \in Pids, Crash(p) /\ Gone(p, "lost") PROVE Kept
  BY <1>6, EndsKeeps DEF Crash
<1>7. ASSUME NEW p \in Pids, Other(p) /\ UNCHANGED ownVars PROVE Kept
  BY <1>7, OtherKeeps
<1>8. ASSUME NEW r \in Requests, Arrive(r) \/ Leave(r) PROVE Kept
  BY <1>8, RequestKeeps
<1>9. ASSUME UNCHANGED serviceVars PROVE Kept
  BY <1>9, OwnKept DEF serviceVars, vars
<1>10. TypeOK'
  BY DaemonTypeStep, DaemonSimulated DEF ServiceInv
<1>11. Kept
  BY <1>1, <1>2, <1>3, <1>4, <1>5, <1>6, <1>7, <1>8, <1>9 DEF ServiceNext
<1> QED BY <1>10, <1>11 DEF ServiceInv

LEMMA ServiceInvHolds == ServiceSpec => []ServiceInv
<1>1. ServiceInit => ServiceInv
  BY DaemonAssumption DEF ServiceInit, Init, Idle, ServiceInv, TypeOK, OwnTypeOK, Begun, NoRequest,
                          RequestsInDaemons, ConfigurationsSound, Serving
<1> QED BY <1>1, ServiceStep, PTL DEF ServiceSpec

\* What serves has been checked with its flags, and has the secrets that its mode needs.
THEOREM ServiceSoundServes == ServiceSpec => []SoundServes
<1>1. ServiceInv => SoundServes
  <2> SUFFICES ASSUME ServiceInv, port # NoPid
               PROVE  /\ Validate(conf[port])
                      /\ conf[port].given \cap {"STORAGE_KEY", "SAS_TOKEN"} # {}
                      /\ "STORAGE_ACCOUNT" \in conf[port].given
    BY DEF SoundServes
  <2>1. Sound(conf[port]) /\ conf[port].mode \in {"account_key", "sas"}
    BY DEF ServiceInv, TypeOK, ConfigurationsSound, Serving, CanBuild
  <2> QED BY <2>1 DEF Sound, Needs, NeededBy
<1> QED BY <1>1, ServiceInvHolds, PTL

-----------------------------------------------------------------------------
\* Only a signal that comes too early, or the end of the shutdown, cuts a request.
THEOREM ServiceDrainsFirst == ServiceSpec => DrainsFirst
<1> DEFINE Cut(r) == req[r].at = "running" /\ req'[r].at = "cut"
           Excused(r) == MainAt(req[r].by, "late") \/ proc[req[r].by] = "booting"
<1>1. ASSUME ServiceInv, ServiceNext, NEW r \in Requests, Cut(r) PROVE Excused(r)
  <2>1. req[r] = [at |-> "running", by |-> req[r].by]
    BY <1>1 DEF ServiceInv, OwnTypeOK
  <2>2. ASSUME NEW p \in Pids, NEW how, Gone(p, how) PROVE how = "cut" /\ r \in In(p)
    BY <1>1, <2>2 DEF Gone
  <2>3. ASSUME NEW p \in Pids, r \in In(p) PROVE req[r].by = p
    BY <2>3 DEF In
  <2>4. ASSUME NEW c \in Commands, Command(c) PROVE Excused(r)
    <3>1. SignalProcess(c) /\ ~(UNCHANGED ownVars)
      BY <1>1, <2>4 DEF Command, SpawnAccepted, ownVars
    <3>2. /\ cmd[c].pid \in Pids
          /\ proc[cmd[c].pid] # "free" /\ proc'[cmd[c].pid] = "free"
          /\ Gone(cmd[c].pid, "cut")
      BY <1>1, <3>1 DEF SignalProcess, Signal, At, ServiceInv, TypeOK
    <3>3. req[r].by = cmd[c].pid
      BY <2>2, <2>3, <3>2
    <3>4. proc[cmd[c].pid] \in Serving
      BY <1>1, <3>3 DEF ServiceInv, RequestsInDaemons
    <3>5. proc[cmd[c].pid] = "booting"
      <4> SUFFICES ASSUME proc[cmd[c].pid] \in {"ready", "closing", "draining"} PROVE FALSE
        BY <3>4 DEF Serving
      <4>1. proc' = IF proc[cmd[c].pid] = "ready"
                    THEN [proc EXCEPT ![cmd[c].pid] = "closing"] ELSE proc
        BY <3>1 DEF SignalProcess, Signal
      <4> QED BY <1>1, <3>2, <4>1 DEF ServiceInv, TypeOK
    <3> QED BY <3>3, <3>5
  <2>5. ASSUME NEW p \in Pids, Stops(p) PROVE Excused(r)
    <3>1. MainReturns(p)
      BY <1>1, <2>5 DEF Stops, CloseServer, FlushTelemetry, BeginShutdown, DeadlinePasses, ownVars
    <3>2. r \in In(p)
      BY <2>2, <3>1 DEF MainReturns
    <3>3. MainAt(p, "late")
      BY <3>1, <3>2 DEF MainReturns, Drained
    <3> QED BY <2>3, <3>2, <3>3
  <2>6. ASSUME NEW p \in Pids, BuildFails(p) \/ ComesUp(p) \/ ServeReturns(p) PROVE FALSE
    <3>1. ~(UNCHANGED req)
      BY <1>1
    <3>2. Gone(p, "lost")
      BY <2>6, <3>1 DEF BuildFails, ComesUp, ServeReturns, Fatal, ownVars
    <3> QED BY <2>2, <3>2
  <2>7. ASSUME NEW p \in Pids, (Crash(p) /\ Gone(p, "lost")) \/ (Other(p) /\ UNCHANGED ownVars)
        PROVE  FALSE
    BY <1>1, <2>2, <2>7 DEF ownVars
  <2>8. ASSUME NEW s \in Requests, Arrive(s) \/ Leave(s) PROVE FALSE
    BY <1>1, <2>8 DEF Arrive, Leave, NoRequest, ServiceInv, OwnTypeOK
  <2> QED BY <1>1, <2>4, <2>5, <2>6, <2>7, <2>8 DEF ServiceNext
<1>2. ServiceInv /\ [ServiceNext]_serviceVars
        => [\A r \in Requests :
              req[r].at = "running" /\ req'[r].at = "cut" =>
                  LET p == req[r].by IN MainAt(p, "late") \/ proc[p] = "booting"]_serviceVars
  BY <1>1
<1> QED BY <1>2, ServiceInvHolds, PTL DEF ServiceSpec, DrainsFirst

=============================================================================
