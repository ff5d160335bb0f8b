------------------------------ MODULE MCServer ------------------------------
(* Two data requests that compete for one or two slots, for a method that    *)
(* counts both outcomes and one that counts successes, and a health check.   *)
EXTENDS Server

MCAsked == {Url("GET", "key", {}, {}), Url("DELETE", "bucket", {}, {}),
            Url("GET", "/health", {}, {})}
MCMethodOrder == <<"DeleteBucket", "GetObject">>

=============================================================================
