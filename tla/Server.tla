------------------------------- MODULE Server -------------------------------
(***************************************************************************)
(* The server around the handlers (internal/server/server.go): a request   *)
(* passes the concurrency limiter, the recoverer and the authentication,   *)
(* is routed to its handler, is counted and gives its slot back.           *)
(*                                                                         *)
(* A handler is what it counts and whether its status tells the limiter of *)
(* a success: the modules of the objects, uploads and listings say what it *)
(* does meanwhile.  The signature is correct or not (auth.VerifySignature  *)
(* is not modelled).                                                       *)
(***************************************************************************)
EXTENDS ConcurrencyLimiter, Statistics, Routes

CONSTANT Asked      \* the URLs that are asked for

ASSUME AskedAssumption == Asked \subseteq Urls

VARIABLE job        \* what became of each request in its handler

serverVars == <<vars, statsVars, job>>

-----------------------------------------------------------------------------
\* at: no handler yet, a method counted and its total not, or the response written.
Answered(success) == [at |-> "answered", ok |-> FALSE, success |-> success]
NoJob == [at |-> "none", ok |-> FALSE, success |-> FALSE]

ServerInit ==
    /\ Init
    /\ StatsInit
    /\ job = [r \in Requests |-> NoJob]

\* concurrencyMiddleware looks at the path alone.
Bypasses(u) == u.path \in {"/health", "/ping", "/admin/caps"}

\* authMiddleware: no signature is needed, a token may be, or a signature is.
NeedsNothing(u) == u.path \in {"/health", "/ping"}

\* The operations whose handlers count a failure as well as a success ...
UploadOps == {"InitiateMultipartUpload", "UploadPart", "CompleteMultipartUpload",
              "AbortMultipartUpload", "ListParts", "ListMultipartUploads"}
VersionOps == {"EnableVersioning", "GetVersioning", "ListObjectVersions", "GetObjectVersion",
               "DeleteObjectVersion"}
ObjectOps == {"ListObjectsV2", "PutObject", "GetObject", "HeadObject", "DeleteObject"}

\* ... and what the others count.  A bucket is created without being counted; a batch
\* of deletes is one successful DeleteObject, whatever became of its items.
MayCount(op, m, ok) ==
    \/ op \in UploadOps \cup VersionOps \cup ObjectOps \cup {"ListBuckets"} /\ m = op
    \/ op = "DeleteBucket" /\ m = "DeleteBucket" /\ ok
    \/ op = "DeleteObjects" /\ m = "DeleteObject" /\ ok

\* A request that is admitted or need not be, and for which no handler has run.
Unhandled(r) == pc[r] \in {"serving", "bypassing"} /\ job[r].at = "none"

Ends(r, success) == job' = [job EXCEPT ![r] = Answered(success)]

\* 403, which is no failure for the limiter.
Forbid(r) ==
    /\ Unhandled(r)
    /\ \E u \in Asked : Bypasses(u) = (r \in Control) /\ ~NeedsNothing(u)
    /\ Ends(r, TRUE)
    /\ UNCHANGED <<vars, statsVars>>

\* The handler ends without counting: a bad request, an object from the cache, a
\* panic that Recoverer answers.
HandleUncounted(r) ==
    /\ Unhandled(r)
    /\ \E success \in BOOLEAN : Ends(r, success)
    /\ UNCHANGED <<vars, statsVars>>

\* The handler is done, and counts.  A success has a status below 500; a failure may.
Handle(r) ==
    /\ Unhandled(r)
    /\ \E u \in Asked :
          /\ Bypasses(u) = (r \in Control)
          /\ \E m \in Methods, ok \in BOOLEAN, success \in BOOLEAN :
                /\ MayCount(Route(u), m, ok)
                /\ ok => success
                /\ CountMethod(m, ok)
                /\ job' = [job EXCEPT ![r] = [at |-> "counted", ok |-> ok, success |-> success]]
    /\ UNCHANGED vars

HandleTotal(r) ==
    /\ job[r].at = "counted"
    /\ CountTotal(job[r].ok)
    /\ Ends(r, job[r].success)
    /\ UNCHANGED vars

\* Back in concurrencyMiddleware: Release with the latency and the status.
Leave(r) ==
    /\ job[r].at = "answered"
    /\ IF pc[r] = "serving"
       THEN /\ Goes(r, "serving", "idle")
            /\ \E sample \in Bands : Release(sample, job[r].success)
            /\ UNCHANGED expired
       ELSE FinishBypass(r)
    /\ job' = [job EXCEPT ![r] = NoJob]
    /\ UNCHANGED statsVars

\* The steps of Acquire.
Waiting(r) == Admit(r) \/ Sleep(r) \/ Wake(r) \/ Reject(r)

Acquiring(r) ==
    /\ Arrive(r) \/ Waiting(r) \/ Expire(r)
    /\ UNCHANGED <<statsVars, job>>

ServerNext ==
    \/ \E r \in Requests :
          \/ Acquiring(r) \/ Forbid(r) \/ HandleUncounted(r) \/ Handle(r)
          \/ HandleTotal(r) \/ Leave(r)
    \/ GetStats /\ UNCHANGED <<vars, job>>

\* As for the limiter alone: nothing is assumed about the handlers.
ServerFairness ==
    \A r \in Requests :
        /\ WF_serverVars(Expire(r) /\ UNCHANGED <<statsVars, job>>)
        /\ WF_serverVars(Waiting(r) /\ UNCHANGED <<statsVars, job>>)

ServerSpec == ServerInit /\ [][ServerNext]_serverVars
ServerFairSpec == ServerSpec /\ ServerFairness

-----------------------------------------------------------------------------
\* The requests that count although they bypass the limiter.
CountingControl ==
    IF \E u \in Asked, m \in Methods : Bypasses(u) /\ MayCount(Route(u), m, TRUE)
    THEN Control ELSE {}

BetweenCounts(ok) == {r \in Requests : job[r].at = "counted" /\ job[r].ok = ok}

\* The totals are the sums of the methods' counters but for the requests that are
\* between the two, whichever handlers count what and end how.
TotalsAgree == \A ok \in BOOLEAN : Counted(ok) = totals[ok] + Cardinality(BetweenCounts(ok))

\* A snapshot, which stops nobody, shows a total that is at most as far below the sum
\* of its methods as there can be requests in handlers: the limiter's maximum and
\* those that bypass it.
SnapshotOvershoot ==
    [][Loaded.done = Len(Loads) /\ snap' # snap =>
          \A ok \in BOOLEAN :
              Loaded.sums[ok] <= Loaded.totals[ok] + Max + Cardinality(CountingControl)]_serverVars

\* Where a request would end up keeps to its kind, with every combination of
\* parameters: what reads changes nothing, the path of an object never leads to an
\* operation on the bucket, and an upload or version id never to the object itself
\* where it is read or deleted.  No state changes a route, so they are looked at when
\* nobody is there.
RoutesKeepKind ==
    (\A r \in Requests : pc[r] = "idle") /\ totals = Zero /\ snap = NoSnap =>
    \A u \in Urls :
        LET op == Route(u) IN
        /\ u.verb \in {"GET", "HEAD"} =>
              op \in {"Health", "ListBuckets", "ListObjectsV2", "ListMultipartUploads",
                      "GetVersioning", "ListObjectVersions", "ListParts", "GetObject",
                      "GetObjectVersion", "HeadObject", "HeadBucket", "MethodNotAllowed"}
        /\ u.path = "key" => op \notin {"CreateBucket", "DeleteBucket", "HeadBucket",
                                        "ListObjectsV2", "EnableVersioning", "ListBuckets"}
        /\ u.path = "key" /\ u.verb \in {"GET", "DELETE"} =>
              /\ Get(u, "uploadId") <=> op \in {"ListParts", "AbortMultipartUpload"}
              /\ Get(u, "versionId") => op \notin {"GetObject", "DeleteObject"}

=============================================================================
