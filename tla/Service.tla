------------------------------- MODULE Service -------------------------------
(***************************************************************************)
(* The service as its users have it (cmd/proxy/main.go): the commands and  *)
(* daemons of module Daemon, each daemon with the configuration that it    *)
(* was started with (module Startup) and with requests in it, from the     *)
(* start to the end of the graceful shutdown.                              *)
(*                                                                         *)
(* The daemon repeats what its parent has checked, with the same arguments *)
(* and environment, and comes to the same configuration.                   *)
(***************************************************************************)
EXTENDS Daemon, Startup

CONSTANTS
    Requests,       \* connections with a request
    Environments,   \* what the environment may be when a daemon is started
    FlagSets        \* the flags it may be started with

ASSUME EnvironmentsAssumption == Environments \subseteq Configs

VARIABLES
    conf,   \* the configuration of each daemon
    main,   \* how far the main of each daemon is in its shutdown; whether Serve returned
    req     \* what became of each request, and the daemon that it is in

ownVars == <<conf, main, req>>
serviceVars == <<vars, ownVars>>

-----------------------------------------------------------------------------
NotStarted == [mode |-> "none", level |-> Unset, logMode |-> Unset]
Begun == [at |-> "serving", returned |-> FALSE]
NoRequest == [at |-> "none", by |-> NoPid]

ServiceInit ==
    /\ Init
    /\ conf = [p \in Pids |-> NotStarted]
    /\ main = [p \in Pids |-> Begun]
    /\ req = [r \in Requests |-> NoRequest]

In(p) == {r \in Requests : req[r] = [at |-> "running", by |-> p]}

\* The process p is gone, and the requests that were in it are not answered.
Gone(p, how) ==
    /\ conf' = [conf EXCEPT ![p] = NotStarted]
    /\ main' = [main EXCEPT ![p] = Begun]
    /\ req' = [r \in Requests |-> IF r \in In(p) THEN [at |-> how, by |-> p] ELSE req[r]]

-----------------------------------------------------------------------------
(* The commands.  A start that is not accepted exits before startDaemon,   *)
(* and changes nothing.                                                    *)

SpawnAccepted(c) ==
    /\ Spawn(c)
    /\ \E env \in Environments, flags \in FlagSets :
          /\ Accepted(env, flags)
          /\ conf' = [conf EXCEPT ![cmd'[c].pid] = applyCLIOverrides(Loaded(env), flags)]
    /\ UNCHANGED <<main, req>>

\* SIGTERM, which ends a process that has not asked for it at once.
SignalProcess(c) ==
    /\ Signal(c)
    /\ LET p == cmd[c].pid
       IN  IF proc[p] # "free" /\ proc'[p] = "free" THEN Gone(p, "cut") ELSE UNCHANGED ownVars

Command(c) ==
    \/ SpawnAccepted(c)
    \/ SignalProcess(c)
    \/ /\ \/ Start(c) \/ Probe(c) \/ Clean(c) \/ SpawnFails(c)
          \/ Truncate(c) \/ Write(c) \/ WriteFails(c) \/ Stop(c) \/ Remove(c)
       /\ UNCHANGED ownVars

-----------------------------------------------------------------------------
(* A daemon starts.                                                        *)

\* The logger or the backend cannot be made: log.Fatalf, or Crit.
BuildFails(p) ==
    /\ proc[p] = "booting"
    /\ ~CanBuild(conf[p])
    /\ Ends(p)
    /\ Gone(p, "lost")
    /\ UNCHANGED <<pidFile, cmd>>

\* The server is built; main goes on to signal.Notify, its goroutine to the port.
ComesUp(p) ==
    /\ CanBuild(conf[p])
    /\ \/ (Notify(p) \/ Listen(p)) /\ UNCHANGED ownVars
       \/ ListenFails(p) /\ Gone(p, "lost")

-----------------------------------------------------------------------------
(* Requests.                                                               *)

\* Whoever has the port serves, main being in its shutdown or not.
Arrive(r) ==
    /\ req[r].at = "none"
    /\ port # NoPid
    /\ req' = [req EXCEPT ![r] = [at |-> "running", by |-> port]]
    /\ UNCHANGED <<vars, conf, main>>

\* The response is written, or the client has noticed that none will come.
Leave(r) ==
    /\ req[r].at # "none"
    /\ req' = [req EXCEPT ![r] = NoRequest]
    /\ UNCHANGED <<vars, conf, main>>

-----------------------------------------------------------------------------
(* A daemon stops.                                                         *)

MainAt(p, where) == main[p].at = where
MainGoes(p, where) == main' = [main EXCEPT ![p].at = where]

\* S3ProxyServer.Close: the table of clients is cleared and the cleanup of the cache
\* told to stop, with requests inside.
CloseServer(p) ==
    /\ proc[p] = "closing" /\ MainAt(p, "serving")
    /\ MainGoes(p, "closed")
    /\ UNCHANGED <<vars, conf, req>>

\* Telemetry is flushed, or its 5 seconds are over.
FlushTelemetry(p) ==
    /\ proc[p] = "closing" /\ MainAt(p, "closed")
    /\ MainGoes(p, "flushed")
    /\ UNCHANGED <<vars, conf, req>>

\* Mutated form: every error of ListenAndServe is fatal.
FatalAlways(err) == TRUE

Fatal(err) == err # "ErrServerClosed"

\* ListenAndServe returns in its goroutine, since Shutdown has closed the listener.
ServeReturns(p) ==
    /\ proc[p] = "draining" /\ ~main[p].returned
    /\ IF Fatal("ErrServerClosed")
       THEN Ends(p) /\ Gone(p, "cut") /\ UNCHANGED <<pidFile, cmd>>
       ELSE main' = [main EXCEPT ![p].returned = TRUE] /\ UNCHANGED <<vars, conf, req>>

BeginShutdown(p) ==
    /\ MainAt(p, "flushed")
    /\ Shutdown(p)
    /\ UNCHANGED ownVars

\* The 10 seconds of Shutdown are over.
DeadlinePasses(p) ==
    /\ proc[p] = "draining" /\ MainAt(p, "flushed")
    /\ MainGoes(p, "late")
    /\ UNCHANGED <<vars, conf, req>>

\* Mutated form: Shutdown without a deadline.
DrainedOfAll(p) == In(p) = {}

Drained(p) == In(p) = {} \/ MainAt(p, "late")

\* Shutdown returns, and main.
MainReturns(p) ==
    /\ Drained(p)
    /\ Exit(p)
    /\ Gone(p, "cut")

Stops(p) ==
    CloseServer(p) \/ FlushTelemetry(p) \/ BeginShutdown(p) \/ DeadlinePasses(p) \/ MainReturns(p)

ServiceNext ==
    \/ \E c \in Commands : Command(c)
    \/ \E p \in Pids :
          \/ BuildFails(p) \/ ComesUp(p) \/ ServeReturns(p) \/ Stops(p)
          \/ Crash(p) /\ Gone(p, "lost")
          \/ Other(p) /\ UNCHANGED ownVars
    \/ \E r \in Requests : Arrive(r) \/ Leave(r)

\* main goes on, and its deadlines pass.  Nothing is assumed of requests, clients,
\* commands or of a daemon that starts.
ServiceSpec == ServiceInit /\ [][ServiceNext]_serviceVars
ServiceFairSpec == ServiceSpec /\ \A p \in Pids : WF_serviceVars(Stops(p))

-----------------------------------------------------------------------------
\* What serves has been checked with its flags: no combined cap beside another one, no
\* negative one, TLS with its files, a cache that can hold something, a limiter that
\* admits somebody, and the secrets of the way in which it authenticates, which is one
\* that the backends can use.
SoundServes ==
    port # NoPid =>
        LET cfg == conf[port] IN
        /\ Validate(cfg)
        /\ cfg.given \cap {"STORAGE_KEY", "SAS_TOKEN"} # {}
        /\ "STORAGE_ACCOUNT" \in cfg.given

\* A stop cuts no request that can be answered within 10 seconds, whatever is closed
\* before and whichever goroutine ends first, unless the signal finds the daemon with
\* its port open and before signal.Notify.
DrainsFirst ==
    [][\A r \in Requests :
          req[r].at = "running" /\ req'[r].at = "cut" =>
              LET p == req[r].by IN MainAt(p, "late") \/ proc[p] = "booting"]_serviceVars

\* A daemon that has been told to stop ends, although requests may never be answered.
ShutdownEnds == \A p \in Pids : proc[p] = "closing" ~> proc[p] = "free"

=============================================================================
