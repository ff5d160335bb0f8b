------------------------------ MODULE MCService ------------------------------
(* One command at a time, PIDs that are given out again, and starts that are *)
(* refused, that are accepted and cannot be built, and that are sound.       *)
EXTENDS Service

Basic == {"STORAGE_ACCOUNT", "S3_ACCESS_KEY", "S3_SECRET_KEY"}
NoCaps == [d \in Directions |-> 0]
Env(given, caps) ==
    [given |-> Basic \cup given, mode |-> "none", level |-> "warn", logMode |-> Unset,
     cacheMaxSize |-> 1,
     caps |-> caps, min |-> 1, max |-> 2]

OneCap == [NoCaps EXCEPT !["combined"] = 1]
MCEnvironments == {Env({"STORAGE_KEY"}, OneCap), Env({"USE_MSI"}, OneCap),
                   Env({"STORAGE_KEY", "ENABLE_TLS"}, NoCaps)}

NoFlags == [level |-> Unset, caps |-> [d \in Directions |-> Unset]]
MCFlagSets == {NoFlags, [NoFlags EXCEPT !.caps["read"] = 1],
               [NoFlags EXCEPT !.caps["write"] = Garbled]}

=============================================================================
