------------------------------- MODULE Routes -------------------------------
(***************************************************************************)
(* Where a request ends up: registerRoutes (internal/server/server.go),    *)
(* the second thoughts of the object handlers (internal/handler), and what *)
(* each handler counts.                                                    *)
(*                                                                         *)
(* A URL is a kind of path and its query parameters, with a value or       *)
(* without.  "bucket/" is the path of a bucket with a slash at its end,    *)
(* which is an object path with an empty key.                              *)
(***************************************************************************)
EXTENDS Naturals, FiniteSets, Sequences

Verbs == {"GET", "HEAD", "PUT", "POST", "DELETE"}
Paths == {"/", "/health", "/ping", "/admin/caps", "bucket", "bucket/", "key"}
Flags == {"uploads", "versioning", "versions", "uploadId", "versionId", "partNumber", "delete"}

\* The parameters with a value, and those without.
Url(verb, path, valued, bare) ==
    [verb |-> verb, path |-> path, valued |-> valued, bare |-> bare]

Urls == {Url(v, p, s, b) : v \in Verbs, p \in Paths, s \in SUBSET Flags,
                           b \in SUBSET {"uploads", "delete"}}

-----------------------------------------------------------------------------
\* The path as the router sees it.  A fixed path with another method than its own
\* is the path of a bucket or an object after all.
Pattern(u) ==
    CASE u.path = "/health" -> IF u.verb = "GET" THEN "/health" ELSE "bucket"
      [] u.path = "/admin/caps" -> IF u.verb = "PUT" THEN "/admin/caps" ELSE "object"
      [] u.path = "/ping" -> "bucket"
      [] u.path \in {"bucket/", "key"} -> "object"
      [] OTHER -> u.path

HasKey(u) == u.path \in {"key", "/admin/caps"}

\* Query().Get(flag) != "" and Query().Has(flag).
Get(u, flag) == flag \in u.valued
Has(u, flag) == flag \in u.valued \cup u.bare

\* The first choice of which the parameter has a value, or else the last resort.
FirstOf(u, choices, otherwise) ==
    LET given == {i \in DOMAIN choices : Get(u, choices[i][1])}
    IN  IF given = {} THEN otherwise
        ELSE choices[CHOOSE i \in given : \A j \in given : i <= j][2]

\* PostObjectHandler.
PostObject(u) ==
    CASE Get(u, "uploadId") -> "CompleteMultipartUpload"
      [] Has(u, "delete") /\ ~Get(u, "uploadId") -> "DeleteObjects"
      [] OTHER -> IF ~Get(u, "uploads") /\ ~HasKey(u) THEN "ListMultipartUploads"
                  ELSE "InitiateMultipartUpload"

ReadsById == << <<"uploadId", "ListParts">>, <<"versionId", "GetObjectVersion">> >>

\* Mutated form: an upload of which the version is named, too, is not aborted.
DeletesByIdVersionFirst ==
    << <<"versionId", "DeleteObjectVersion">>, <<"uploadId", "AbortMultipartUpload">> >>

DeletesById ==
    << <<"uploadId", "AbortMultipartUpload">>, <<"versionId", "DeleteObjectVersion">> >>

\* Object paths.  The handlers of the objects turn to the bucket when there is no key.
ObjectRoute(u) ==
    CASE u.verb = "GET" ->
            FirstOf(u, ReadsById, IF HasKey(u) THEN "GetObject" ELSE "ListObjectsV2")
      [] u.verb = "PUT" ->
            IF Get(u, "uploadId") /\ Get(u, "partNumber") THEN "UploadPart"
            ELSE IF HasKey(u) THEN "PutObject" ELSE "CreateBucket"
      [] u.verb = "HEAD" -> IF HasKey(u) THEN "HeadObject" ELSE "HeadBucket"
      [] u.verb = "DELETE" ->
            FirstOf(u, DeletesById, IF HasKey(u) THEN "DeleteObject" ELSE "DeleteBucket")
      [] u.verb = "POST" -> PostObject(u)

BucketRoute(u) ==
    CASE u.verb = "GET" ->
            FirstOf(u, << <<"uploads", "ListMultipartUploads">>, <<"versioning", "GetVersioning">>,
                          <<"versions", "ListObjectVersions">> >>, "ListObjectsV2")
      [] u.verb = "PUT" -> FirstOf(u, << <<"versioning", "EnableVersioning">> >>, "CreateBucket")
      [] u.verb = "DELETE" -> "DeleteBucket"
      [] u.verb = "HEAD" -> "HeadBucket"
      [] u.verb = "POST" -> IF Has(u, "delete") THEN "DeleteObjects" ELSE "MethodNotAllowed"

Route(u) ==
    CASE Pattern(u) = "/health" -> "Health"
      [] Pattern(u) = "/admin/caps" -> "UpdateCaps"
      [] Pattern(u) = "/" -> IF u.verb = "GET" THEN "ListBuckets" ELSE "MethodNotAllowed"
      [] Pattern(u) = "bucket" -> BucketRoute(u)
      [] Pattern(u) = "object" -> ObjectRoute(u)

=============================================================================
