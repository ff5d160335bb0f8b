---------------------------- MODULE ObjectCache -----------------------------
(***************************************************************************)
(* The object handlers of internal/handler/handler.go between the storage  *)
(* backend and the local cache, for one object: GET and HEAD without a     *)
(* range, PUT and copy, DELETE, one item of a batch delete, completion of  *)
(* a multipart upload and deletion of a version.                           *)
(*                                                                         *)
(* The object's content is the number of the write that made it.  A body   *)
(* <<v, n>> is the first n units of the content of write v.  The LRU cache *)
(* is reduced to what the handlers see of it for this key: an entry, its   *)
(* file, and the goroutine that holds the mutex while it copies the file.  *)
(***************************************************************************)
EXTENDS Integers, FiniteSets

CONSTANTS
    Requests,   \* requests in progress, each with its caching goroutine
    MaxVersion, \* bound: writes that change the object
    SizeOf,     \* the size of the content of each write
    Threshold   \* cacheSizeThreshold

ASSUME VersionAssumption == MaxVersion \in Nat /\ SizeOf \in [1..MaxVersion -> Nat]
ASSUME ThresholdAssumption == Threshold \in Nat

VARIABLES
    stored,     \* what the backend holds: the number of a write, or Absent
    writes,     \* how many writes there were
    entry,      \* whether the cache has an entry for the key
    file,       \* the body in the entry's file, or NoFile
    copier,     \* the request whose Put holds the cache's mutex
    req,        \* the requests: where each is, and its local variables
    missed,     \* history: the content whose entry no later invalidation removes
    acked       \* history: the last write whose PUT or DELETE was answered

cacheVars == <<entry, file, copier>>
vars == <<stored, writes, cacheVars, req, missed, acked>>

-----------------------------------------------------------------------------
Absent == 0
NoFile == <<Absent, 0>>
Nobody == "nobody"
Versions == 1..MaxVersion

ASSUME NobodyAssumption == Nobody \notin Requests

\* The bodies that are a prefix of what some write stored.
Bodies == {NoFile} \cup UNION {{v} \X (0..SizeOf[v]) : v \in Versions}

Idle == [at |-> "idle", size |-> 0, body |-> NoFile, since |-> 0]

Init ==
    /\ stored = Absent
    /\ writes = 0
    /\ entry = FALSE
    /\ file = NoFile
    /\ copier = Nobody
    /\ req = [r \in Requests |-> Idle]
    /\ missed = {}
    /\ acked = 0

At(r, where) == req[r].at = where
Moves(r, where) == req' = [req EXCEPT ![r].at = where]
Returns(r) == req' = [req EXCEPT ![r] = Idle]

\* The response is what the last value of the request's body was.
Answers(r, body) == req' = [req EXCEPT ![r] = [@ EXCEPT !.at = "answered", !.body = body]]

-----------------------------------------------------------------------------
(* GetObjectHandler, GetObjectFromCache first.                             *)

StartGet(r) ==
    /\ At(r, "idle")
    /\ copier = Nobody
    /\ req' = [req EXCEPT ![r] = [Idle EXCEPT !.at = IF entry THEN "hit" ELSE "props",
                                              !.since = acked]]
    /\ UNCHANGED <<stored, writes, cacheVars, missed, acked>>

\* What os.ReadFile may return while the file is being written, or after.
OnDisk == IF copier = Nobody THEN {file}
          ELSE {<<file[1], n>> : n \in 0..req[copier].body[2]}

\* os.ReadFile of the path, the mutex released.
ReadHit(r) ==
    /\ At(r, "hit")
    /\ file # NoFile
    /\ \E body \in OnDisk : Answers(r, body)
    /\ UNCHANGED <<stored, writes, cacheVars, missed, acked>>

\* The file is gone: fall through to the backend.
ReadHitFails(r) ==
    /\ At(r, "hit")
    /\ file = NoFile
    /\ Moves(r, "props")
    /\ UNCHANGED <<stored, writes, cacheVars, missed, acked>>

\* The backend's GetObject asks for the properties first ...
GetProperties(r) ==
    /\ At(r, "props")
    /\ stored # Absent
    /\ req' = [req EXCEPT ![r].at = "download", ![r].size = SizeOf[stored]]
    /\ UNCHANGED <<stored, writes, cacheVars, missed, acked>>

\* ... and then for the content.
Download(r) ==
    /\ At(r, "download")
    /\ stored # Absent
    /\ req' = [req EXCEPT ![r].at = "reading", ![r].body = <<stored, SizeOf[stored]>>]
    /\ UNCHANGED <<stored, writes, cacheVars, missed, acked>>

\* Either call fails, or the object is not there: an error response.
GetFails(r) ==
    /\ At(r, "props") \/ At(r, "download")
    /\ Answers(r, NoFile)
    /\ UNCHANGED <<stored, writes, cacheVars, missed, acked>>

\* shouldCache, from the size that the properties gave.
shouldCache(size) == size > 0 /\ size <= Threshold

\* Mutated form: the buffer grows with the body.
BufferedWhole(body, size) == body

\* io.ReadFull into a buffer of the announced size: buf[:n].
Buffered(body, size) == <<body[1], IF body[2] < size THEN body[2] ELSE size>>

\* The body is read, the response written, and a goroutine is left to cache
\* what was read.  A connection that breaks gives ErrUnexpectedEOF, which is
\* let through: the response and the cached data end where it broke.
ReadForCache(r) ==
    /\ At(r, "reading")
    /\ shouldCache(req[r].size)
    /\ LET whole == Buffered(req[r].body, req[r].size)
       IN  \E n \in 0..whole[2] :
              req' = [req EXCEPT ![r].at = "caching", ![r].body = <<whole[1], n>>]
    /\ UNCHANGED <<stored, writes, cacheVars, missed, acked>>

\* Another read error: return after the headers.
ReadFails(r) ==
    /\ At(r, "reading")
    /\ shouldCache(req[r].size)
    /\ Answers(r, NoFile)
    /\ UNCHANGED <<stored, writes, cacheVars, missed, acked>>

\* Empty and large objects are streamed, the errors only logged.
Stream(r) ==
    /\ At(r, "reading")
    /\ ~shouldCache(req[r].size)
    /\ \E n \in 0..req[r].body[2] : Answers(r, <<req[r].body[1], n>>)
    /\ UNCHANGED <<stored, writes, cacheVars, missed, acked>>

\* The client has its answer; the id is free again.
Done(r) ==
    /\ At(r, "answered")
    /\ Returns(r)
    /\ UNCHANGED <<stored, writes, cacheVars, missed, acked>>

-----------------------------------------------------------------------------
(* HeadObjectHandler: the size of the cached file, else of the backend's   *)
(* object.  The answer is a body of that size.                             *)

StartHead(r) ==
    /\ At(r, "idle")
    /\ copier = Nobody
    /\ req' = [req EXCEPT ![r] = [Idle EXCEPT !.at = IF entry THEN "stat" ELSE "head",
                                              !.since = acked]]
    /\ UNCHANGED <<stored, writes, cacheVars, missed, acked>>

Stat(r) ==
    /\ At(r, "stat")
    /\ IF file = NoFile THEN Moves(r, "head") ELSE \E body \in OnDisk : Answers(r, body)
    /\ UNCHANGED <<stored, writes, cacheVars, missed, acked>>

\* The backend answers, says that there is no object, or fails.
HeadObject(r) ==
    /\ At(r, "head")
    /\ \/ stored # Absent /\ Answers(r, <<stored, SizeOf[stored]>>)
       \/ Answers(r, NoFile)
    /\ UNCHANGED <<stored, writes, cacheVars, missed, acked>>

-----------------------------------------------------------------------------
(* The goroutine that a GET leaves behind: CacheObject.                    *)

\* Put takes the mutex, drops the old entry and opens the file.
CacheBegin(r) ==
    /\ At(r, "caching")
    /\ copier = Nobody
    /\ copier' = r
    /\ entry' = FALSE
    /\ file' = <<req[r].body[1], 0>>
    /\ UNCHANGED <<stored, writes, req, missed, acked>>

\* The file is complete and the entry is there.
CacheEnd(r) ==
    /\ copier = r
    /\ copier' = Nobody
    /\ entry' = TRUE
    /\ file' = req[r].body
    /\ Returns(r)
    /\ UNCHANGED <<stored, writes, missed, acked>>

\* The write fails: a part of the file stays, without an entry.
CacheWriteFails(r) ==
    /\ copier = r
    /\ copier' = Nobody
    /\ \E body \in OnDisk : file' = body
    /\ Returns(r)
    /\ UNCHANGED <<stored, writes, entry, missed, acked>>

\* The temporary file fails, or the object is larger than the whole cache.
CacheRefuses(r) ==
    /\ At(r, "caching")
    /\ copier # r
    /\ Returns(r)
    /\ UNCHANGED <<stored, writes, cacheVars, missed, acked>>

\* Mutated form: nothing leaves the cache of itself.
LoseNever == FALSE

\* The entry is evicted, or its TTL has passed and a lookup or the cleanup
\* removes it.
Lose ==
    /\ entry
    /\ copier = Nobody
    /\ entry' = FALSE
    /\ file' = NoFile
    /\ UNCHANGED <<stored, writes, copier, req, missed, acked>>

-----------------------------------------------------------------------------
(* The handlers that change the object.                                    *)

\* The backend's new content: the next write, or nothing.
Changes ==
    \/ writes < MaxVersion /\ writes' = writes + 1 /\ stored' = writes + 1
    \/ stored # Absent /\ stored' = Absent /\ UNCHANGED writes

\* The content that the requests hold outside the cache, and the cache itself.
Held == {req[r].body[1] : r \in {q \in Requests : req[q].at \in {"reading", "caching"}}}
Cached == IF entry THEN {file[1]} ELSE {}

\* PutObjectHandler, with a body or as a copy, DeleteObjectHandler, or an item
\* of DeleteObjectsHandler: the backend first.
Change(r) ==
    /\ At(r, "idle")
    /\ Changes
    /\ req' = [req EXCEPT ![r] = [Idle EXCEPT !.at = "changed", !.since = writes']]
    /\ UNCHANGED <<cacheVars, missed, acked>>

\* Mutated form: the entry stays.
InvalidateObjectNot == UNCHANGED <<entry, file>>

\* LRUCache.Delete: the entry and its file, if there is an entry.
InvalidateObject ==
    IF entry THEN entry' = FALSE /\ file' = NoFile ELSE UNCHANGED <<entry, file>>

\* Then the cache, then the response.
Invalidate(r) ==
    /\ At(r, "changed")
    /\ copier = Nobody
    /\ InvalidateObject
    /\ missed' = missed \cup (Held \ {stored})
    /\ acked' = IF acked < req[r].since THEN req[r].since ELSE acked
    /\ Returns(r)
    /\ UNCHANGED <<stored, writes, copier>>

\* The file cannot be removed: a warning, and the same response.
InvalidateFails(r) ==
    /\ At(r, "changed")
    /\ copier = Nobody
    /\ entry
    /\ missed' = missed \cup ((Held \cup Cached) \ {stored})
    /\ acked' = IF acked < req[r].since THEN req[r].since ELSE acked
    /\ Returns(r)
    /\ UNCHANGED <<stored, writes, cacheVars>>

\* CompleteMultipartUploadHandler and DeleteObjectVersionHandler touch only the
\* backend.  So does a PUT or DELETE that the backend carries out although its
\* answer is lost, and a client that reaches the storage without the proxy.
ChangeUnseen ==
    /\ Changes
    /\ missed' = missed \cup Held \cup Cached
                     \cup (IF copier = Nobody THEN {} ELSE {file[1]})
    /\ UNCHANGED <<cacheVars, req, acked>>

Next ==
    \/ \E r \in Requests :
          \/ StartGet(r) \/ ReadHit(r) \/ ReadHitFails(r)
          \/ GetProperties(r) \/ Download(r) \/ GetFails(r)
          \/ ReadForCache(r) \/ ReadFails(r) \/ Stream(r) \/ Done(r)
          \/ StartHead(r) \/ Stat(r) \/ HeadObject(r)
          \/ CacheBegin(r) \/ CacheEnd(r) \/ CacheWriteFails(r) \/ CacheRefuses(r)
          \/ Change(r) \/ Invalidate(r) \/ InvalidateFails(r)
    \/ Lose
    \/ ChangeUnseen

Spec == Init /\ [][Next]_vars

\* Entries expire, and the cleanup runs.  Nothing is assumed of the requests:
\* a client or the backend may stop at any point.
FairSpec == Spec /\ WF_vars(Lose)

-----------------------------------------------------------------------------
\* Every variable keeps its type.  In particular what is served or cached is never
\* longer than the content it was read from, and only a request that is caching
\* holds the mutex.
TypeOK ==
    /\ stored \in Versions \cup {Absent}
    /\ writes \in 0..MaxVersion
    /\ entry \in BOOLEAN
    /\ file \in Bodies
    /\ copier \in {Nobody} \cup {r \in Requests : At(r, "caching")}
    /\ req \in [Requests ->
                [at : {"idle", "hit", "props", "download", "reading", "answered",
                       "caching", "changed", "stat", "head"},
                 size : Nat, body : Bodies, since : 0..MaxVersion]]
    /\ missed \subseteq Versions
    /\ acked \in 0..MaxVersion

Changing == \E r \in Requests : At(r, "changed")

\* The writers' order, backend first and cache second, keeps the cache coherent
\* but for the cases that "missed" collects: an entry is out of date only
\* while a writer has yet to invalidate it, or when the content was in the
\* hands of a GET while it was invalidated, or was replaced unseen.
FreshUnlessMissed ==
    entry /\ file[1] # stored => Changing \/ file[1] \in missed

\* The limit on what is buffered and cached holds for the bytes that arrive,
\* even when the object grew after its size was checked; and no more is served or
\* cached than there is (TypeOK).
BufferBounded ==
    /\ TypeOK
    /\ \A r \in Requests : At(r, "caching") => req[r].body[2] <= Threshold
    /\ entry => file[2] <= Threshold

\* Content that was replaced leaves the cache for good in the end, whatever
\* GETs still hold it: each of them can bring it back once, and it expires.
ReplacedLeavesForGood ==
    \A v \in Versions : v <= writes /\ stored # v ~> [](entry => file[1] # v)

\* What the comment on the invalidation in PutObjectHandler says: a GET that
\* begins after a PUT was answered has the content of that PUT or a later one.
NextGetIsFresh ==
    \A r \in Requests :
        At(r, "answered") /\ req[r].body # NoFile => req[r].body[1] >= req[r].since

=============================================================================
