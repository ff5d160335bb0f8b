------------------------------- MODULE Startup -------------------------------
(***************************************************************************)
(* From the environment and the flags to a configuration, and from that to *)
(* a server: LoadConfig and Validate (internal/config), applyCLIOverrides  *)
(* and the checks of main (cmd/proxy/main.go), and what can then be built. *)
(*                                                                         *)
(* An environment says which variables have a value, "given", and has the  *)
(* values of those that are compared.  A variable that does not parse has  *)
(* its default value; a cap that a flag gives and that does not parse is   *)
(* Garbled.                                                                *)
(***************************************************************************)
EXTENDS Integers, Sequences

CONSTANTS Unset, Garbled

ASSUME FlagAssumption == Unset \notin Int /\ Garbled \notin Int /\ Unset # Garbled

Directions == {"read", "write", "combined"}

\* An environment, and the configuration that it becomes.
Configs ==
    [given : SUBSET STRING, mode : STRING, level : STRING, logMode : STRING \cup {Unset},
     caps : [Directions -> Int], cacheMaxSize : Int, min : Int, max : Int]

-----------------------------------------------------------------------------
(* Azure credentials.                                                      *)

\* In the order of detectAuthMode.  "USE_MSI" and "USE_CLI" are given if they are "true".
AuthChoices(given) ==
    << <<"STORAGE_KEY" \in given, "account_key">>,
       <<"SAS_TOKEN" \in given, "sas">>,
       <<"TOKEN_FILE" \in given, "federated_token">>,
       <<{"CLIENT_ID", "CLIENT_SECRET", "TENANT_ID"} \subseteq given, "spn">>,
       <<given \cap {"USE_MSI", "IMDS_ENDPOINT"} # {}, "msi">>,
       <<"USE_CLI" \in given, "az_cli">>,
       <<given \cap {"CLIENT_ID", "IMDS_ENDPOINT"} # {}, "msi">> >>

detectAuthMode(given) ==
    LET fit == SelectSeq(AuthChoices(given), LAMBDA choice : choice[1])
    IN  IF fit = <<>> THEN "none" ELSE Head(fit)[2]

\* AzureAuthConfig.Validate; "TOKEN_FILE_READABLE" is no variable but what os.Stat says.
NeededBy ==
    [account_key |-> {"STORAGE_KEY"},
     sas |-> {"SAS_TOKEN"},
     federated_token |-> {"TOKEN_FILE", "TOKEN_FILE_READABLE", "CLIENT_ID", "TENANT_ID"},
     spn |-> {"CLIENT_ID", "CLIENT_SECRET", "TENANT_ID"},
     msi |-> {},
     az_cli |-> {}]

Needs(mode) == {"STORAGE_ACCOUNT"} \cup NeededBy[mode]

-----------------------------------------------------------------------------
(* The configuration.                                                      *)

\* LoadConfig, up to its checks.
Loaded(env) == [env EXCEPT !.mode = detectAuthMode(env.given)]

CapsValid(caps) ==
    /\ \A d \in Directions : caps[d] >= 0
    /\ caps["combined"] > 0 => caps["read"] = 0 /\ caps["write"] = 0

\* Config.Validate.  The time to live and the two times of the limiter are left out.
Validate(cfg) ==
    /\ {"S3_ACCESS_KEY", "S3_SECRET_KEY"} \subseteq cfg.given
    /\ "ENABLE_TLS" \in cfg.given => {"TLS_CERT_FILE", "TLS_KEY_FILE"} \subseteq cfg.given
    /\ "CACHE_ENABLED" \in cfg.given => cfg.cacheMaxSize > 0
    /\ CapsValid(cfg.caps)
    /\ "ADAPTIVE_CONCURRENCY" \in cfg.given => 0 < cfg.min /\ cfg.min <= cfg.max

\* applyCLIOverrides; a cap that does not parse ends the program.
Parses(flags) == \A d \in Directions : flags.caps[d] # Garbled

applyCLIOverrides(cfg, flags) ==
    [cfg EXCEPT !.level = IF flags.level = Unset THEN @ ELSE flags.level,
                !.caps = [d \in Directions |->
                            IF flags.caps[d] = Unset THEN @[d] ELSE flags.caps[d]]]

LoadConfig(env) ==
    /\ Loaded(env).mode # "none"
    /\ Needs(Loaded(env).mode) \subseteq env.given
    /\ Validate(Loaded(env))

\* Mutated form: what the flags have changed is not checked again.
AcceptedOnce(env, flags) == LoadConfig(env) /\ Parses(flags)

\* What main demands before it starts the daemon, and again in the daemon.
Accepted(env, flags) ==
    /\ LoadConfig(env)
    /\ Parses(flags)
    /\ Validate(applyCLIOverrides(Loaded(env), flags))

-----------------------------------------------------------------------------
\* NewLogger.  Without a LOG_MODE, main has it write to a file.
LoggerFits(cfg) == cfg.level # "crit" /\ cfg.logMode \in {Unset, "console", "file", "both"}

\* The clients of both backends are made from a key or a SAS token alone: the other
\* credentials need an SDK that is not there.
CanBuild(cfg) == LoggerFits(cfg) /\ cfg.mode \in {"account_key", "sas"}

=============================================================================
