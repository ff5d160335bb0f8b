---------------------------- MODULE ObjectProofs ----------------------------
(***************************************************************************)
(* Proofs about what clients see of objects: ObjectCache, for every set of *)
(* requests, every number and size of writes and every threshold, and      *)
(* Listing, for every set of keys, every order of the service, every       *)
(* prefix and page size and any number of changes.                         *)
(*                                                                         *)
(* That an entry is fresh is not inductive by itself: what the cache will  *)
(* hold is what some GET holds now.  The invariant says of every content   *)
(* between the backend and the cache what FreshUnlessMissed says of the    *)
(* entry.                                                                  *)
(*                                                                         *)
(* A token of Azure Files is an offset in a list that is walked anew for   *)
(* each page.  So the order in which a walk meets files is stated as a     *)
(* relation between two paths, Precedes, that does not depend on what else *)
(* is there, and the offset is compared with how many of the files come    *)
(* before a missing one: in the next list, or in the list that the walk    *)
(* under way can still make.                                               *)
(***************************************************************************)
EXTENDS ObjectCache, Listing, Counting, SequenceTheorems

-----------------------------------------------------------------------------
(* The cache.                                                              *)

Locals == [at : {"idle", "hit", "props", "download", "reading", "answered",
                 "caching", "changed", "stat", "head"},
           size : Nat, body : Bodies, since : 0..MaxVersion]

Holds(where) == where \in {"reading", "caching"}

\* Content v is what the backend holds, or a writer has still to invalidate it,
\* or no invalidation will.
Excused(v) == v # stored => Changing \/ v \in missed

HeldExcused ==
    \A r \in Requests :
        Holds(req[r].at) => req[r].body[1] \in Versions /\ Excused(req[r].body[1])

Bounded == \A r \in Requests : At(r, "caching") => req[r].body[2] <= Threshold

CopierAlone == copier # Nobody => ~entry /\ file[1] = req[copier].body[1]

EntryExcused ==
    entry => file[1] \in Versions /\ file[2] <= Threshold /\ Excused(file[1])

CacheInv ==
    /\ TypeOK
    /\ HeldExcused
    /\ Bounded
    /\ CopierAlone
    /\ EntryExcused

-----------------------------------------------------------------------------
\* A prefix of a stored content is a body.
LEMMA PrefixIsBody ==
    ASSUME NEW v \in Versions, NEW n \in 0..SizeOf[v]
    PROVE  <<v, n>> \in Bodies
  BY DEF Bodies

\* A body is no content at all, or a prefix of a stored content.
LEMMA BodyIsPrefix ==
    ASSUME NEW b \in Bodies
    PROVE  \/ b = NoFile
           \/ \E v \in Versions : \E n \in 0..SizeOf[v] : b = <<v, n>>
  BY DEF Bodies

\* So a body with content is one of a write, no longer than what was written ...
LEMMA BodyOfWrite ==
    ASSUME NEW b \in Bodies, b[1] \in Versions
    PROVE  /\ SizeOf[b[1]] \in Nat
           /\ b[2] \in 0..SizeOf[b[1]]
<1>1. b # NoFile
  BY VersionAssumption DEF NoFile, Absent, Versions
<1>2. PICK v \in Versions : \E m \in 0..SizeOf[v] : b = <<v, m>>
  BY <1>1, BodyIsPrefix
<1>3. SizeOf[v] \in Nat
  BY VersionAssumption DEF Versions
<1> QED BY <1>2, <1>3

\* ... and a shorter prefix of it is a body too.
LEMMA Shorter ==
    ASSUME NEW b \in Bodies, b[1] \in Versions, NEW n \in 0..b[2]
    PROVE  <<b[1], n>> \in Bodies
<1>1. n \in 0..SizeOf[b[1]]
  BY BodyOfWrite
<1> QED BY <1>1, PrefixIsBody

\* The whole content of a write is a body.
LEMMA WholeIsBody ==
    ASSUME NEW v \in Versions
    PROVE  SizeOf[v] \in Nat /\ <<v, SizeOf[v]>> \in Bodies
<1>1. SizeOf[v] \in Nat
  BY VersionAssumption DEF Versions
<1> QED BY <1>1, PrefixIsBody

LEMMA NoFileIsBody == NoFile \in Bodies
  BY DEF Bodies

\* The type of the requests, by the name the lemmas use.
LEMMA TypeOfRequests == TypeOK => req \in [Requests -> Locals]
  BY DEF TypeOK, Locals

\* A request that takes a step of its own, and neither holds the mutex nor has
\* an invalidation to do, disturbs nothing but what is said of it.
LEMMA OwnStep ==
    ASSUME CacheInv, NEW r \in Requests, NEW loc \in Locals,
           r # copier, ~At(r, "changed"),
           req' = [req EXCEPT ![r] = loc],
           UNCHANGED <<stored, writes, entry, file, copier, missed, acked>>,
           Holds(loc.at) => loc.body[1] \in Versions /\ Excused(loc.body[1]),
           loc.at = "caching" => loc.body[2] <= Threshold
    PROVE  CacheInv'
<1> USE DEF CacheInv
<1>1. req \in [Requests -> Locals] /\ req' \in [Requests -> Locals]
  BY DEF TypeOK, Locals
<1>2. \A q \in Requests : req'[q] = IF q = r THEN loc ELSE req[q]
  BY <1>1
<1>3. Changing => Changing'
  BY <1>2 DEF Changing, At
<1>4. TypeOK'
  <2>1. copier' \in {Nobody} \cup {q \in Requests : req'[q].at = "caching"}
    BY <1>2 DEF TypeOK, At
  <2> QED BY <1>1, <2>1 DEF TypeOK, Locals, At
<1>5. HeldExcused'
  BY <1>2, <1>3 DEF HeldExcused, Excused
<1>6. Bounded'
  BY <1>2 DEF Bounded, At
<1>7. CopierAlone'
  <2>1. copier \in Requests \/ copier = Nobody
    BY DEF TypeOK
  <2> QED BY <1>2, <2>1 DEF CopierAlone
<1>8. EntryExcused'
  BY <1>3 DEF EntryExcused, Excused
<1> QED BY <1>4, <1>5, <1>6, <1>7, <1>8

-----------------------------------------------------------------------------
\* Only a caching request holds the mutex.
LEMMA NotCopier ==
    ASSUME TypeOK, NEW r \in Requests, ~At(r, "caching")
    PROVE  r # copier
  BY NobodyAssumption DEF TypeOK

\* What is on the disk while someone may read the entry's file is a body.
LEMMA OnDiskIsBody ==
    ASSUME CacheInv, NEW b \in OnDisk
    PROVE  b \in Bodies
<1>1. CASE copier = Nobody
  BY <1>1 DEF OnDisk, CacheInv, TypeOK
<1>2. CASE copier # Nobody
  <2>1. copier \in Requests /\ At(copier, "caching")
    BY <1>2 DEF CacheInv, TypeOK
  <2> DEFINE c == req[copier].body
  <2>2. c \in Bodies /\ c[1] \in Versions /\ file[1] = c[1]
    BY <1>2, <2>1 DEF CacheInv, TypeOK, HeldExcused, Holds, At, CopierAlone
  <2>3. PICK n \in 0..c[2] : b = <<c[1], n>>
    BY <1>2, <2>2 DEF OnDisk
  <2> QED BY <2>2, <2>3, Shorter
<1> QED BY <1>1, <1>2

\* A request at any of the steps of a GET or HEAD that read takes a step.
LEMMA ReadStep ==
    ASSUME CacheInv, NEW r \in Requests,
           \/ StartGet(r) \/ ReadHit(r) \/ ReadHitFails(r)
           \/ GetProperties(r) \/ Download(r) \/ GetFails(r)
           \/ ReadForCache(r) \/ ReadFails(r) \/ Stream(r) \/ Done(r)
           \/ StartHead(r) \/ Stat(r) \/ HeadObject(r)
           \/ CacheRefuses(r)
    PROVE  CacheInv'
<1> DEFINE Same == UNCHANGED <<stored, writes, entry, file, copier, missed, acked>>
<1>0. /\ TypeOK
      /\ req \in [Requests -> Locals]
      /\ req[r] \in Locals
  BY TypeOfRequests DEF CacheInv
<1> SUFFICES \E loc \in Locals :
                /\ r # copier
                /\ ~At(r, "changed")
                /\ req' = [req EXCEPT ![r] = loc]
                /\ Same
                /\ Holds(loc.at) => loc.body[1] \in Versions /\ Excused(loc.body[1])
                /\ loc.at = "caching" => loc.body[2] <= Threshold
  BY OwnStep
<1> USE DEF cacheVars, Locals, Holds, At
<1>1. ASSUME ~At(r, "caching"), ~At(r, "changed"), Same,
             NEW b \in Bodies, Answers(r, b)
      PROVE  \E loc \in Locals :
                /\ r # copier
                /\ ~At(r, "changed")
                /\ req' = [req EXCEPT ![r] = loc]
                /\ Same
                /\ Holds(loc.at) => loc.body[1] \in Versions /\ Excused(loc.body[1])
                /\ loc.at = "caching" => loc.body[2] <= Threshold
  <2> DEFINE loc == [req[r] EXCEPT !.at = "answered", !.body = b]
  <2>1. loc \in Locals /\ loc.at = "answered" /\ req' = [req EXCEPT ![r] = loc]
    BY <1>0, <1>1 DEF Answers
  <2>2. r # copier
    BY <1>0, <1>1, NotCopier
  <2> QED BY <1>1, <2>1, <2>2
<1>2. CASE StartGet(r) \/ StartHead(r)
  <2> DEFINE loc(where) == [Idle EXCEPT !.at = where, !.since = acked]
  <2>1. PICK where \in {"hit", "props", "stat", "head"} : req' = [req EXCEPT ![r] = loc(where)]
    BY <1>2 DEF StartGet, StartHead
  <2>2. loc(where) \in Locals /\ loc(where).at = where
    BY <1>0, NoFileIsBody DEF Idle, TypeOK
  <2>3. Same /\ r # copier /\ ~At(r, "changed")
    BY <1>0, <1>2, NotCopier DEF StartGet, StartHead
  <2> QED BY <2>1, <2>2, <2>3
<1>3. CASE ReadHit(r)
  BY <1>1, <1>3, OnDiskIsBody DEF ReadHit
<1>4. CASE ReadHitFails(r) \/ (Stat(r) /\ file = NoFile)
  <2> DEFINE loc(where) == [req[r] EXCEPT !.at = where]
  <2>1. PICK where \in {"props", "head"} : req' = [req EXCEPT ![r] = loc(where)]
    BY <1>0, <1>4 DEF ReadHitFails, Stat, Moves
  <2>2. loc(where) \in Locals /\ loc(where).at = where
    BY <1>0
  <2>3. Same /\ r # copier /\ ~At(r, "changed")
    BY <1>0, <1>4, NotCopier DEF ReadHitFails, Stat
  <2> QED BY <2>1, <2>2, <2>3
<1>5. CASE Stat(r) /\ file # NoFile
  BY <1>1, <1>5, OnDiskIsBody DEF Stat
<1>6. CASE GetProperties(r)
  <2> DEFINE loc == [req[r] EXCEPT !.at = "download", !.size = SizeOf[stored]]
  <2>1. SizeOf[stored] \in Nat
    BY <1>0, <1>6, WholeIsBody DEF GetProperties, TypeOK
  <2>2. loc \in Locals /\ loc.at = "download" /\ req' = [req EXCEPT ![r] = loc]
    BY <1>0, <1>6, <2>1 DEF GetProperties
  <2>3. Same /\ r # copier /\ ~At(r, "changed")
    BY <1>0, <1>6, NotCopier DEF GetProperties
  <2> QED BY <2>2, <2>3
<1>7. CASE Download(r)
  <2> DEFINE loc == [req[r] EXCEPT !.at = "reading", !.body = <<stored, SizeOf[stored]>>]
  <2>1. stored \in Versions /\ <<stored, SizeOf[stored]>> \in Bodies
    BY <1>0, <1>7, WholeIsBody DEF Download, TypeOK
  <2>2. /\ loc \in Locals /\ loc.at = "reading" /\ loc.body[1] = stored
        /\ req' = [req EXCEPT ![r] = loc]
    BY <1>0, <1>7, <2>1 DEF Download
  <2>3. Same /\ r # copier /\ ~At(r, "changed")
    BY <1>0, <1>7, NotCopier DEF Download
  <2> QED BY <2>1, <2>2, <2>3 DEF Excused
<1>8. CASE GetFails(r) \/ ReadFails(r)
  BY <1>1, <1>8, NoFileIsBody DEF GetFails, ReadFails
<1>9. CASE ReadForCache(r)
  <2> DEFINE size == req[r].size
             body == req[r].body
             whole == Buffered(body, size)
             loc(n) == [req[r] EXCEPT !.at = "caching", !.body = <<whole[1], n>>]
  <2>1. PICK n \in 0..whole[2] : req' = [req EXCEPT ![r] = loc(n)]
    BY <1>0, <1>9 DEF ReadForCache
  <2>2. size \in Nat /\ size <= Threshold /\ body \in Bodies
        /\ body[1] \in Versions /\ Excused(body[1])
    BY <1>0, <1>9 DEF ReadForCache, shouldCache, CacheInv, HeldExcused
  <2>3. body[2] \in Nat
    BY <2>2, BodyOfWrite
  <2>4. whole[1] = body[1] /\ n \in 0..body[2] /\ n <= Threshold
    BY <2>2, <2>3, ThresholdAssumption DEF Buffered
  <2>5. <<whole[1], n>> \in Bodies
    BY <2>2, <2>4, Shorter
  <2>6. loc(n) \in Locals /\ loc(n).at = "caching" /\ loc(n).body = <<whole[1], n>>
    BY <1>0, <2>5
  <2>7. Same /\ r # copier /\ ~At(r, "changed")
    BY <1>0, <1>9, NotCopier DEF ReadForCache
  <2> QED BY <2>1, <2>2, <2>4, <2>6, <2>7
<1>10. CASE Stream(r)
  <2>1. req[r].body \in Bodies /\ req[r].body[1] \in Versions
    BY <1>0, <1>10 DEF Stream, CacheInv, HeldExcused
  <2>2. PICK n \in 0..req[r].body[2] : Answers(r, <<req[r].body[1], n>>)
    BY <1>10 DEF Stream
  <2>3. <<req[r].body[1], n>> \in Bodies
    BY <2>1, Shorter
  <2> QED BY <1>1, <1>10, <2>2, <2>3 DEF Stream
<1>11. CASE Done(r) \/ CacheRefuses(r)
  <2>1. Idle \in Locals /\ Idle.at = "idle"
    BY NoFileIsBody, VersionAssumption DEF Idle
  <2>2. Same /\ r # copier /\ ~At(r, "changed") /\ req' = [req EXCEPT ![r] = Idle]
    BY <1>0, <1>11, NotCopier DEF Done, CacheRefuses, Returns
  <2> QED BY <2>1, <2>2
<1>12. CASE HeadObject(r)
  <2>1. PICK b \in Bodies : Answers(r, b)
    BY <1>0, <1>12, WholeIsBody, NoFileIsBody DEF HeadObject, TypeOK
  <2> QED BY <1>1, <1>12, <2>1 DEF HeadObject
<1> QED
  BY <1>2, <1>3, <1>4, <1>5, <1>6, <1>7, <1>8, <1>9, <1>10, <1>11, <1>12

-----------------------------------------------------------------------------
\* What the writers, the caching goroutine and the cache itself do.

LEMMA CacheBeginStep ==
    ASSUME CacheInv, NEW r \in Requests, CacheBegin(r)
    PROVE  CacheInv'
<1> USE DEF CacheInv, CacheBegin
<1>1. req[r].body \in Bodies /\ req[r].body[1] \in Versions
  BY DEF TypeOK, HeldExcused, Holds, At
<1>2. <<req[r].body[1], 0>> \in Bodies
  <2>1. 0 \in 0..req[r].body[2]
    BY <1>1, BodyOfWrite
  <2> QED BY <1>1, <2>1, Shorter
<1>3. TypeOK'
  BY <1>2 DEF TypeOK, At
<1>4. HeldExcused' /\ Bounded'
  BY DEF HeldExcused, Bounded, Excused, Changing, At
<1>5. CopierAlone' /\ EntryExcused'
  BY DEF CopierAlone, EntryExcused
<1> QED BY <1>3, <1>4, <1>5

\* The goroutine returns, whatever it leaves in the file.
LEMMA CacheReturnStep ==
    ASSUME CacheInv, NEW r \in Requests, CacheEnd(r) \/ CacheWriteFails(r)
    PROVE  CacheInv'
<1> USE DEF CacheInv
<1>1. /\ TypeOK
      /\ copier = r /\ copier' = Nobody /\ At(r, "caching") /\ entry = FALSE
      /\ req' = [req EXCEPT ![r] = Idle]
      /\ UNCHANGED <<stored, writes, missed, acked>>
  BY NobodyAssumption DEF TypeOK, CopierAlone, CacheEnd, CacheWriteFails, Returns
<1>2. /\ req[r].body \in Bodies /\ req[r].body[1] \in Versions
      /\ Excused(req[r].body[1]) /\ req[r].body[2] <= Threshold
  BY <1>1 DEF TypeOK, HeldExcused, Bounded, Holds, At
<1>3. /\ file' \in Bodies /\ entry' \in BOOLEAN
      /\ entry' => file' = req[r].body
  <2>1. CASE CacheEnd(r)
    BY <1>2, <2>1 DEF CacheEnd
  <2>2. CASE CacheWriteFails(r)
    <3>1. entry' = FALSE
      BY <1>1, <2>2 DEF CacheWriteFails
    <3>2. file' \in Bodies
      BY <2>2, OnDiskIsBody DEF CacheWriteFails
    <3> QED BY <3>1, <3>2
  <2> QED BY <2>1, <2>2
<1>4. Idle \in Locals /\ Idle.at = "idle"
  BY NoFileIsBody, VersionAssumption DEF Idle, Locals
<1>5. req' \in [Requests -> Locals] /\ \A q \in Requests : req'[q] = IF q = r THEN Idle ELSE req[q]
  BY <1>1, <1>4, TypeOfRequests
<1>6. Changing => Changing'
  BY <1>1, <1>5 DEF Changing, At
<1>7. TypeOK'
  BY <1>1, <1>3, <1>5 DEF TypeOK, Locals
<1>8. HeldExcused' /\ Bounded'
  BY <1>1, <1>4, <1>5, <1>6 DEF HeldExcused, Bounded, Excused, Holds, At
<1>9. CopierAlone' /\ EntryExcused'
  BY <1>1, <1>2, <1>3, <1>6 DEF CopierAlone, EntryExcused, Excused
<1> QED BY <1>7, <1>8, <1>9

LEMMA LoseStep ==
    ASSUME CacheInv, Lose
    PROVE  CacheInv'
<1> USE DEF CacheInv, Lose
<1>1. TypeOK'
  BY NoFileIsBody DEF TypeOK, At
<1>2. HeldExcused' /\ Bounded'
  BY DEF HeldExcused, Bounded, Excused, Changing, At
<1> QED BY <1>1, <1>2 DEF CopierAlone, EntryExcused

\* What the backend holds afterwards is of the type.
LEMMA ChangesType ==
    ASSUME TypeOK, Changes
    PROVE  stored' \in Versions \cup {Absent} /\ writes' \in 0..MaxVersion
  BY VersionAssumption DEF TypeOK, Changes, Versions

LEMMA ChangeStep ==
    ASSUME CacheInv, NEW r \in Requests, Change(r)
    PROVE  CacheInv'
<1> USE DEF CacheInv
<1>1. TypeOK /\ r # copier /\ UNCHANGED <<entry, file, copier, missed, acked>>
  BY NotCopier DEF Change, cacheVars, At
<1> DEFINE loc == [Idle EXCEPT !.at = "changed", !.since = writes']
<1>2. stored' \in Versions \cup {Absent} /\ writes' \in 0..MaxVersion
  BY ChangesType DEF Change
<1>3. loc \in Locals /\ loc.at = "changed"
  BY <1>2, NoFileIsBody DEF Idle, Locals
<1>4. /\ req' \in [Requests -> Locals]
      /\ \A q \in Requests : req'[q] = IF q = r THEN loc ELSE req[q]
  BY <1>3, TypeOfRequests DEF Change
<1>5. TypeOK'
  <2>1. copier' \in {Nobody} \cup {q \in Requests : req'[q].at = "caching"}
    BY <1>1, <1>4 DEF TypeOK, At
  <2> QED BY <1>1, <1>2, <1>4, <2>1 DEF TypeOK, Locals, At
<1>6. Changing'
  BY <1>3, <1>4 DEF Changing, At
<1>7. HeldExcused' /\ Bounded'
  BY <1>1, <1>3, <1>4, <1>6 DEF HeldExcused, Bounded, Excused, Holds, At
<1>8. CopierAlone' /\ EntryExcused'
  BY <1>1, <1>4, <1>6 DEF CopierAlone, EntryExcused, Excused, TypeOK
<1> QED BY <1>5, <1>7, <1>8

LEMMA HeldVersions == CacheInv => Held \subseteq Versions /\ Cached \subseteq Versions
  BY DEF CacheInv, HeldExcused, Holds, Held, EntryExcused, Cached

LEMMA InvalidateStep ==
    ASSUME CacheInv, NEW r \in Requests, Invalidate(r) \/ InvalidateFails(r)
    PROVE  CacheInv'
<1> USE DEF CacheInv
<1>1. /\ TypeOK /\ copier = Nobody /\ copier' = Nobody
      /\ UNCHANGED <<stored, writes>>
      /\ req' = [req EXCEPT ![r] = Idle]
  BY DEF Invalidate, InvalidateFails, Returns, cacheVars
<1>2. Idle \in Locals /\ Idle.at = "idle"
  BY NoFileIsBody, VersionAssumption DEF Idle, Locals
<1>3. req' \in [Requests -> Locals] /\ \A q \in Requests : req'[q] = IF q = r THEN Idle ELSE req[q]
  BY <1>1, <1>2, TypeOfRequests
<1>4. /\ entry' \in BOOLEAN /\ file' \in Bodies
      /\ entry' => UNCHANGED <<entry, file>> /\ file[1] \in missed' \cup {stored}
  <2>1. CASE Invalidate(r)
    BY <1>1, <2>1, NoFileIsBody DEF Invalidate, InvalidateObject, TypeOK
  <2>2. CASE InvalidateFails(r)
    BY <1>1, <2>2 DEF InvalidateFails, Cached, cacheVars, TypeOK
  <2> QED BY <2>1, <2>2
<1>5. missed \subseteq missed' /\ missed' \subseteq Versions /\ Held \subseteq missed' \cup {stored}
  BY <1>1, HeldVersions DEF Invalidate, InvalidateFails, TypeOK
<1>6. acked' \in 0..MaxVersion
  BY <1>1 DEF Invalidate, InvalidateFails, TypeOK
<1>7. TypeOK'
  BY <1>1, <1>3, <1>4, <1>5, <1>6 DEF TypeOK, Locals
<1>8. HeldExcused'
  BY <1>1, <1>2, <1>3, <1>5 DEF HeldExcused, Excused, Holds, Held
<1>9. Bounded'
  BY <1>2, <1>3 DEF Bounded, At
<1>10. CopierAlone' /\ EntryExcused'
  BY <1>1, <1>4 DEF CopierAlone, EntryExcused, Excused
<1> QED BY <1>7, <1>8, <1>9, <1>10

LEMMA ChangeUnseenStep ==
    ASSUME CacheInv, ChangeUnseen
    PROVE  CacheInv'
<1> USE DEF CacheInv
<1>1. TypeOK /\ UNCHANGED <<entry, file, copier, req, acked>>
  BY DEF ChangeUnseen, cacheVars
<1>2. stored' \in Versions \cup {Absent} /\ writes' \in 0..MaxVersion
  BY ChangesType DEF ChangeUnseen
<1>3. copier # Nobody => file[1] \in Versions
  BY DEF CopierAlone, TypeOK, HeldExcused, Holds, At
<1>4. missed' \subseteq Versions /\ Held \subseteq missed' /\ Cached \subseteq missed'
  BY <1>1, <1>3, HeldVersions DEF ChangeUnseen, TypeOK
<1>5. TypeOK'
  BY <1>1, <1>2, <1>4 DEF TypeOK, At
<1>6. HeldExcused' /\ Bounded'
  BY <1>1, <1>4 DEF HeldExcused, Excused, Held, Holds, Bounded, At
<1>7. CopierAlone' /\ EntryExcused'
  BY <1>1, <1>4 DEF CopierAlone, EntryExcused, Excused, Cached
<1> QED BY <1>5, <1>6, <1>7

-----------------------------------------------------------------------------
LEMMA CacheInit == Init => CacheInv
<1> SUFFICES ASSUME Init PROVE CacheInv
  OBVIOUS
<1>1. Idle \in Locals /\ Idle.at = "idle"
  BY NoFileIsBody, VersionAssumption DEF Idle, Locals
<1>2. req \in [Requests -> Locals] /\ \A r \in Requests : req[r].at = "idle"
  BY <1>1 DEF Init
<1>3. TypeOK
  <2>1. stored \in Versions \cup {Absent} /\ missed \subseteq Versions /\ entry \in BOOLEAN
    BY DEF Init
  <2>2. 0 \in 0..MaxVersion /\ writes = 0 /\ acked = 0
    BY VersionAssumption DEF Init
  <2>3. file \in Bodies /\ copier = Nobody
    BY NoFileIsBody DEF Init
  <2> QED BY <1>2, <2>1, <2>2, <2>3 DEF TypeOK, Locals
<1> QED BY <1>2, <1>3 DEF Init, CacheInv, HeldExcused, Holds, Bounded, At, CopierAlone, EntryExcused

LEMMA CacheStep == CacheInv /\ [Next]_vars => CacheInv'
<1> SUFFICES ASSUME CacheInv, [Next]_vars PROVE CacheInv'
  OBVIOUS
<1>1. CASE UNCHANGED vars
  BY <1>1 DEF vars, cacheVars, CacheInv, TypeOK, HeldExcused, Excused, Changing, Bounded,
              CopierAlone, EntryExcused, At
<1>2. CASE Next
  BY <1>2, ReadStep, CacheBeginStep, CacheReturnStep, LoseStep, ChangeStep, InvalidateStep,
     ChangeUnseenStep DEF Next
<1> QED BY <1>1, <1>2

\* The invariant says what is announced of it.
LEMMA CacheInvImplies == CacheInv => FreshUnlessMissed /\ BufferBounded
  BY DEF CacheInv, EntryExcused, Excused, FreshUnlessMissed, Bounded, BufferBounded

LEMMA CacheInvariant == Spec => []CacheInv
  BY CacheInit, CacheStep, PTL DEF Spec

\* The handlers' order, backend first and cache second, keeps the entry in step
\* with the backend for any number of concurrent requests, but while a writer has
\* yet to invalidate it and for the contents that no invalidation can reach.
THEOREM Freshness == Spec => []FreshUnlessMissed
  BY CacheInvariant, CacheInvImplies, PTL

\* No response, buffer or cached file is longer than what was stored, and what is
\* buffered and cached stays within the threshold, even when the object grows
\* between the two calls of a download.
THEOREM BuffersBounded == Spec => []BufferBounded
  BY CacheInvariant, CacheInvImplies, PTL

-----------------------------------------------------------------------------
(* Paths.                                                                  *)

Path == Seq(STRING)

\* A nonempty finite set of numbers has a smallest and a largest one.
LEMMA Extremes ==
    ASSUME NEW S \in SUBSET Nat, IsFiniteSet(S), S # {}
    PROVE  /\ Min(S) \in S /\ \A i \in S : Min(S) <= i
           /\ Max(S) \in S /\ \A i \in S : i <= Max(S)
<1> DEFINE n == Cardinality(S)
           s == FromSmallest(S)
<1>1. /\ n \in Nat /\ s \in Seq(S) /\ DOMAIN s = 1..n
      /\ \A i, j \in 1..n : i < j => s[i] < s[j]
      /\ \A p \in S : \E i \in 1..n : s[i] = p
  BY FromSmallestFacts
<1> HIDE DEF n, s
<1>2. 1 \in 1..n /\ n \in 1..n
  <2>1. PICK p \in S : TRUE
    OBVIOUS
  <2>2. PICK i \in 1..n : s[i] = p
    BY <1>1
  <2> QED BY <1>1, <2>2
<1>3. s[1] \in S /\ s[n] \in S
  BY <1>1, <1>2
<1>4. ASSUME NEW p \in S PROVE s[1] <= p /\ p <= s[n]
  <2>1. PICK i \in 1..n : s[i] = p
    BY <1>1
  <2>2. (1 < i => s[1] < p) /\ (i < n => p < s[n])
    BY <1>1, <1>2, <2>1
  <2>3. p \in Nat /\ i \in 1..n /\ n \in Nat
    BY <1>1, <2>1
  <2>4. i = 1 \/ 1 < i
    BY <2>3
  <2>5. i = n \/ i < n
    BY <2>3
  <2>6. s[1] \in Nat /\ s[n] \in Nat
    BY <1>3
  <2>7. s[1] <= p
    BY <2>1, <2>2, <2>3, <2>4, <2>6
  <2>8. p <= s[n]
    BY <2>1, <2>2, <2>3, <2>5, <2>6
  <2> QED BY <2>7, <2>8
<1>5. Min(S) \in S /\ \A i \in S : Min(S) <= i
  <2>1. \E x \in S : \A y \in S : x =< y
    BY <1>3, <1>4
  <2> QED BY <2>1 DEF Min
<1>6. Max(S) \in S /\ \A i \in S : i <= Max(S)
  <2>1. \E x \in S : \A y \in S : x >= y
    BY <1>3, <1>4
  <2>2. Max(S) \in S /\ \A y \in S : Max(S) >= y
    BY <2>1 DEF Max
  <2> QED BY <2>2
<1> QED BY <1>5, <1>6

\* Two paths are the same when they have the same characters.
LEMMA SamePath ==
    ASSUME NEW a \in Path, NEW b \in Path, Len(a) = Len(b), \A i \in 1..Len(a) : a[i] = b[i]
    PROVE  a = b
  BY SeqEqual DEF Path

LEMMA SlashesFinite ==
    ASSUME NEW k \in Path
    PROVE  Slashes(k) \in SUBSET Nat /\ IsFiniteSet(Slashes(k)) /\ Slashes(k) \subseteq 1..Len(k)
<1>1. Slashes(k) \subseteq 1..Len(k) /\ Len(k) \in Nat
  BY DEF Slashes, Path
<1>2. IsFiniteSet(1..Len(k))
  BY <1>1, FS_Interval
<1> QED BY <1>1, <1>2, FS_Subset

\* What a directory on the way to k is: what stands before one of its slashes.
LEMMA ParentIs ==
    ASSUME NEW k \in Path, NEW e
    PROVE  e \in Parents(k) <=>
              /\ e \in Path
              /\ Len(e) < Len(k) /\ k[Len(e) + 1] = "/"
              /\ \A i \in 1..Len(e) : e[i] = k[i]
<1>1. ASSUME e \in Parents(k)
      PROVE  /\ e \in Path
             /\ Len(e) < Len(k) /\ k[Len(e) + 1] = "/"
             /\ \A i \in 1..Len(e) : e[i] = k[i]
  <2>1. PICK i \in Slashes(k) : e = SubSeq(k, 1, i - 1)
    BY <1>1 DEF Parents
  <2>2. i \in 1..Len(k) /\ k[i] = "/"
    BY <2>1 DEF Slashes, Path
  <2>3. e \in Path /\ Len(e) = i - 1 /\ \A j \in 1..(i - 1) : e[j] = k[j]
    BY <2>1, <2>2 DEF Path
  <2> QED BY <2>2, <2>3
<1>2. ASSUME e \in Path, Len(e) < Len(k), k[Len(e) + 1] = "/", \A i \in 1..Len(e) : e[i] = k[i]
      PROVE  e \in Parents(k)
  <2> DEFINE i == Len(e) + 1
             s == SubSeq(k, 1, i - 1)
  <2>1. Len(e) \in Nat /\ Len(k) \in Nat /\ i \in 1..Len(k)
    BY <1>2 DEF Path
  <2>2. i \in Slashes(k)
    BY <1>2, <2>1 DEF Slashes, Path
  <2>3. s \in Path /\ Len(s) = Len(e) /\ \A j \in 1..Len(e) : s[j] = k[j]
    BY <2>1 DEF Path
  <2>4. e = s
    BY <1>2, <2>3, SamePath
  <2> QED BY <2>2, <2>4 DEF Parents
<1> QED BY <1>1, <1>2

\* The directory of a path is the innermost of those on the way to it.
LEMMA DirFacts ==
    ASSUME NEW k \in Path
    PROVE  /\ DirOf(k) \in Path
           /\ DirOf(k) = Root \/ DirOf(k) \in Parents(k)
           /\ \A e \in Parents(k) : Len(e) <= Len(DirOf(k))
<1>1. CASE Slashes(k) = {}
  <2>1. DirOf(k) = Root /\ Parents(k) = {}
    BY <1>1 DEF DirOf, Parents
  <2> QED BY <2>1 DEF Root, Path
<1>2. CASE Slashes(k) # {}
  <2> DEFINE m == Max(Slashes(k))
  <2>1. m \in Slashes(k) /\ \A i \in Slashes(k) : i <= m
    BY <1>2, SlashesFinite, Extremes
  <2>2. DirOf(k) = SubSeq(k, 1, m - 1)
    BY <1>2 DEF DirOf
  <2> HIDE DEF m
  <2>3. DirOf(k) \in Parents(k)
    BY <2>1, <2>2 DEF Parents
  <2>4. m \in 1..Len(k) /\ Len(DirOf(k)) = m - 1
    BY <2>1, <2>2, SlashesFinite DEF Path
  <2>5. ASSUME NEW e \in Parents(k) PROVE Len(e) <= Len(DirOf(k))
    <3>1. e \in Path /\ Len(e) < Len(k) /\ k[Len(e) + 1] = "/"
      BY ParentIs
    <3>2. Len(e) + 1 \in Slashes(k)
      BY <3>1 DEF Slashes, Path
    <3>3. Len(e) + 1 <= m /\ Len(e) \in Nat
      BY <2>1, <3>1, <3>2 DEF Path
    <3> QED BY <2>4, <3>3
  <2> QED BY <2>3, <2>5, ParentIs
<1> QED BY <1>1, <1>2

LEMMA DirShorter ==
    ASSUME NEW k \in Path, k # Root
    PROVE  Len(DirOf(k)) < Len(k)
<1>1. Len(k) \in Nat /\ Len(k) # 0
  BY EmptySeq DEF Root, Path
<1>2. CASE DirOf(k) = Root
  BY <1>1, <1>2 DEF Root
<1>3. CASE DirOf(k) \in Parents(k)
  BY <1>3, ParentIs
<1> QED BY <1>2, <1>3, DirFacts

\* The directories on the way to a path are on the way to each other.
LEMMA Chain ==
    ASSUME NEW k \in Path, NEW f \in Parents(k)
    PROVE  /\ \A e \in Parents(f) : e \in Parents(k) /\ Len(e) < Len(f)
           /\ \A e \in Parents(k) : Len(e) < Len(f) => e \in Parents(f)
           /\ \A e \in Parents(k) : Len(e) = Len(f) => e = f
<1>1. f \in Path /\ Len(f) < Len(k) /\ \A i \in 1..Len(f) : f[i] = k[i]
  BY ParentIs
<1>2. Len(f) \in Nat /\ Len(k) \in Nat
  BY <1>1 DEF Path
<1>3. ASSUME NEW e \in Parents(f) PROVE e \in Parents(k) /\ Len(e) < Len(f)
  <2>1. e \in Path /\ Len(e) < Len(f) /\ f[Len(e) + 1] = "/" /\ \A i \in 1..Len(e) : e[i] = f[i]
    BY <1>1, ParentIs
  <2>2. Len(e) \in Nat
    BY <2>1 DEF Path
  <2>3. Len(e) + 1 \in 1..Len(f) /\ Len(e) < Len(k) /\ \A i \in 1..Len(e) : i \in 1..Len(f)
    BY <1>1, <1>2, <2>1, <2>2
  <2>4. k[Len(e) + 1] = "/" /\ \A i \in 1..Len(e) : e[i] = k[i]
    BY <1>1, <2>1, <2>3
  <2> QED BY <2>1, <2>3, <2>4, ParentIs
<1>4. ASSUME NEW e \in Parents(k), Len(e) < Len(f) PROVE e \in Parents(f)
  <2>1. e \in Path /\ k[Len(e) + 1] = "/" /\ \A i \in 1..Len(e) : e[i] = k[i]
    BY ParentIs
  <2>2. Len(e) \in Nat
    BY <2>1 DEF Path
  <2>3. Len(e) + 1 \in 1..Len(f) /\ \A i \in 1..Len(e) : i \in 1..Len(f)
    BY <1>2, <1>4, <2>2
  <2>4. f[Len(e) + 1] = "/" /\ \A i \in 1..Len(e) : e[i] = f[i]
    BY <1>1, <2>1, <2>3
  <2> QED BY <1>1, <1>4, <2>1, <2>4, ParentIs
<1>5. ASSUME NEW e \in Parents(k), Len(e) = Len(f) PROVE e = f
  <2>1. e \in Path /\ \A i \in 1..Len(e) : e[i] = k[i]
    BY ParentIs
  <2> QED BY <1>1, <1>5, <2>1, SamePath
<1> QED BY <1>3, <1>4, <1>5

-----------------------------------------------------------------------------
(* The tree.                                                               *)

\* k is in the directory d, or below.
Under(k, d) == d = Root \/ d \in Parents(k)

LEMMA UnderPath ==
    ASSUME NEW k \in Path, NEW d, Under(k, d)
    PROVE  d \in Path /\ Len(d) \in Nat /\ Len(d) <= Len(k) /\ Len(d) <= Len(DirOf(k))
<1>1. CASE d = Root
  <2>1. d \in Path /\ Len(d) = 0
    BY <1>1 DEF Root, Path
  <2>2. Len(k) \in Nat /\ Len(DirOf(k)) \in Nat
    BY DirFacts DEF Path
  <2> QED BY <2>1, <2>2
<1>2. CASE d \in Parents(k)
  <2>1. d \in Path /\ Len(d) < Len(k) /\ Len(d) <= Len(DirOf(k))
    BY <1>2, ParentIs, DirFacts
  <2>2. Len(d) \in Nat /\ Len(k) \in Nat
    BY <2>1 DEF Path
  <2> QED BY <2>1, <2>2
<1> QED BY <1>1, <1>2 DEF Under

\* A directory as deep as the one of k is that one.
LEMMA DeepestIsDir ==
    ASSUME NEW k \in Path, NEW d, Under(k, d), DirOf(k) # d
    PROVE  Len(d) < Len(DirOf(k))
<1>1. Len(d) \in Nat /\ Len(d) <= Len(DirOf(k)) /\ d \in Path /\ DirOf(k) \in Path
  BY UnderPath, DirFacts
<1>2. Len(DirOf(k)) \in Nat
  BY <1>1 DEF Path
<1>3. Len(d) # Len(DirOf(k))
  <2>1. CASE DirOf(k) = Root
    <3>1. Len(DirOf(k)) = 0
      BY <2>1 DEF Root
    <3>2. Len(d) # 0
      BY <1>1, <2>1, EmptySeq DEF Root, Path
    <3> QED BY <3>1, <3>2
  <2>2. CASE DirOf(k) \in Parents(k)
    <3>1. CASE d = Root
      <4>1. Len(d) = 0
        BY <3>1 DEF Root
      <4>2. Len(DirOf(k)) # 0
        BY <1>1, <3>1, EmptySeq DEF Root, Path
      <4> QED BY <4>1, <4>2
    <3>2. CASE d \in Parents(k)
      BY <2>2, <3>2, Chain
    <3> QED BY <3>1, <3>2 DEF Under
  <2> QED BY <2>1, <2>2, DirFacts
<1> QED BY <1>1, <1>2, <1>3

\* Two paths that are under d have the directories above d in common.
LEMMA Shared ==
    ASSUME NEW k \in Path, NEW l \in Path, NEW d, Under(k, d), Under(l, d),
           NEW e \in Parents(k), e # Root, Len(e) <= Len(d)
    PROVE  e \in Parents(l)
<1>1. e \in Path /\ Len(e) \in Nat /\ Len(e) # 0
  BY ParentIs, EmptySeq DEF Root, Path
<1>2. d # Root
  BY <1>1 DEF Root
<1>3. d \in Parents(k) /\ d \in Parents(l) /\ Len(d) \in Nat
  BY <1>2, UnderPath DEF Under
<1>4. CASE Len(e) = Len(d)
  BY <1>3, <1>4, Chain
<1>5. CASE Len(e) < Len(d)
  BY <1>3, <1>5, Chain
<1> QED BY <1>1, <1>3, <1>4, <1>5

\* A path is in one directory of each level only.
LEMMA OneChild ==
    ASSUME NEW k \in Path, NEW e \in Parents(k), NEW f \in Parents(k), e # Root, f # Root,
           DirOf(e) = DirOf(f)
    PROVE  e = f
<1>1. e \in Path /\ f \in Path
  BY ParentIs
<1>2. Len(e) \in Nat /\ Len(f) \in Nat /\ Len(DirOf(e)) \in Nat
  BY <1>1, DirFacts DEF Path
<1>3. Len(DirOf(e)) < Len(e) /\ Len(DirOf(f)) < Len(f)
  BY <1>1, DirShorter
<1>4. Len(e) < Len(f) => Len(e) <= Len(DirOf(f))
  BY <1>1, Chain, DirFacts
<1>5. Len(f) < Len(e) => Len(f) <= Len(DirOf(e))
  BY <1>1, Chain, DirFacts
<1>6. Len(e) = Len(f)
  BY <1>2, <1>3, <1>4, <1>5
<1> QED BY <1>6, Chain

\* What is under d is in d, or under one of the directories in d.
LEMMA NextDown ==
    ASSUME NEW k \in Path, NEW d, Under(k, d), DirOf(k) # d
    PROVE  \E e \in Parents(k) : e # Root /\ DirOf(e) = d
<1> DEFINE deeper == {i \in Slashes(k) : i > Len(d) + 1}
           m == Min(deeper)
           e == SubSeq(k, 1, m - 1)
<1>1. /\ d \in Path /\ Len(d) \in Nat /\ Len(d) < Len(DirOf(k)) /\ Len(DirOf(k)) \in Nat
      /\ Len(k) \in Nat
  BY UnderPath, DeepestIsDir, DirFacts DEF Path
<1>2. deeper # {}
  <2>1. DirOf(k) # Root
    BY <1>1 DEF Root
  <2>2. Len(DirOf(k)) < Len(k) /\ k[Len(DirOf(k)) + 1] = "/"
    BY <2>1, DirFacts, ParentIs
  <2>3. Len(DirOf(k)) + 1 \in Slashes(k)
    BY <1>1, <2>2 DEF Slashes, Path
  <2> QED BY <1>1, <2>3
<1>3. m \in deeper /\ \A i \in deeper : m <= i
  <2>1. deeper \in SUBSET Nat /\ IsFiniteSet(deeper)
    BY SlashesFinite, FS_Subset
  <2> HIDE DEF deeper
  <2> QED BY <1>2, <2>1, Extremes
<1>4. m \in Slashes(k) /\ m > Len(d) + 1 /\ \A i \in Slashes(k) : i > Len(d) + 1 => m <= i
  BY <1>3
<1> HIDE DEF m, deeper
<1>5. m \in 1..Len(k)
  BY <1>4, SlashesFinite
<1>6. e \in Path /\ Len(e) = m - 1 /\ \A i \in 1..(m - 1) : e[i] = k[i]
  BY <1>5 DEF Path
<1>7. e \in Parents(k)
  BY <1>4 DEF Parents
<1> HIDE DEF e
<1>8. e # Root
  BY <1>1, <1>4, <1>5, <1>6 DEF Root
<1>9. Slashes(e) = {i \in Slashes(k) : i <= Len(d) + 1}
  <2>1. Slashes(e) = {i \in 1..(m - 1) : k[i] = "/"}
    BY <1>5, <1>6 DEF Slashes, Path
  <2>2. Slashes(k) = {i \in 1..Len(k) : k[i] = "/"}
    BY DEF Slashes, Path
  <2>3. \A i \in 1..Len(k) : k[i] = "/" => (i <= m - 1 <=> i <= Len(d) + 1)
    BY <1>1, <1>4, <1>5, <2>2
  <2> QED BY <1>5, <2>1, <2>2, <2>3
<1>10. DirOf(e) = d
  <2>1. CASE d = Root
    <3>1. Len(d) = 0
      BY <2>1 DEF Root
    <3>2. DirOf(e) = Root \/ DirOf(e) \in Parents(e)
      BY <1>6, DirFacts
    <3>3. ASSUME DirOf(e) \in Parents(e) PROVE DirOf(e) = Root
      <4>1. DirOf(e) \in Path /\ Len(DirOf(e)) \in Nat
        BY <1>6, DirFacts DEF Path
      <4>2. Len(DirOf(e)) < Len(e) /\ e[Len(DirOf(e)) + 1] = "/"
        BY <1>6, <3>3, ParentIs
      <4>3. Len(DirOf(e)) + 1 \in Slashes(e)
        BY <1>5, <1>6, <4>1, <4>2 DEF Slashes, Path
      <4>4. Len(DirOf(e)) = 0
        BY <1>9, <3>1, <4>1, <4>3
      <4> QED BY <4>1, <4>4, EmptySeq DEF Root, Path
    <3> QED BY <2>1, <3>2, <3>3
  <2>2. CASE d \in Parents(k)
    <3>1. d \in Parents(e)
      <4>1. Len(d) < Len(e)
        BY <1>1, <1>4, <1>5, <1>6
      <4> QED BY <1>7, <2>2, <4>1, Chain
    <3>2. DirOf(e) \in Parents(e)
      <4>1. Len(d) <= Len(DirOf(e))
        BY <1>6, <3>1, DirFacts
      <4>2. CASE DirOf(e) = Root
        <5>1. Len(d) = 0
          BY <1>1, <4>1, <4>2 DEF Root
        <5>2. d = Root
          BY <1>1, <5>1, EmptySeq DEF Root, Path
        <5> QED BY <3>1, <4>2, <5>2
      <4> QED BY <1>6, <4>2, DirFacts
    <3>3. DirOf(e) \in Path /\ Len(DirOf(e)) \in Nat
      BY <1>6, DirFacts DEF Path
    <3>4. Len(DirOf(e)) < Len(e) /\ e[Len(DirOf(e)) + 1] = "/" /\ Len(d) <= Len(DirOf(e))
      BY <1>6, <3>1, <3>2, ParentIs, DirFacts
    <3>5. Len(DirOf(e)) + 1 \in Slashes(e)
      BY <1>5, <1>6, <3>3, <3>4 DEF Slashes, Path
    <3>6. Len(DirOf(e)) = Len(d)
      BY <1>1, <1>9, <3>3, <3>4, <3>5
    <3> QED BY <1>6, <3>1, <3>2, <3>6, Chain
  <2> QED BY <2>1, <2>2 DEF Under
<1> QED BY <1>7, <1>8, <1>10

-----------------------------------------------------------------------------
(* The order in which a walk meets the files.                              *)

\* Of two files in the same directory; a file and what is in a directory beside it; and
\* what is in two directories that are beside one another.
Beside(k, l) == DirOf(k) = DirOf(l) /\ Place(k) < Place(l)
Above(k, l) == DirOf(l) # DirOf(k) /\ Under(l, DirOf(k))
Apart(k, l) ==
    \E e \in Parents(k), f \in Parents(l) :
        e # Root /\ f # Root /\ DirOf(e) = DirOf(f) /\ Place(e) < Place(f)

Precedes(k, l) == Beside(k, l) \/ Above(k, l) \/ Apart(k, l)

\* Places are places in the order.
LEMMA PlaceFacts ==
    /\ Order \in Seq(ToSet(Order)) /\ Len(Order) \in Nat
    /\ \A k \in ToSet(Order) : Place(k) \in 1..Len(Order) /\ Order[Place(k)] = k
    /\ \A i \in 1..Len(Order) : Order[i] \in ToSet(Order) /\ Place(Order[i]) = i
<1>1. Order \in Seq(ToSet(Order)) /\ Len(Order) \in Nat /\ DOMAIN Order = 1..Len(Order)
  BY OrderAssumption
<1>2. ASSUME NEW k \in ToSet(Order) PROVE Place(k) \in 1..Len(Order) /\ Order[Place(k)] = k
  <2>1. \E i \in DOMAIN Order : Order[i] = k
    BY DEF ToSet
  <2> QED BY <1>1, <2>1 DEF Place
<1>3. ASSUME NEW i \in 1..Len(Order) PROVE Order[i] \in ToSet(Order) /\ Place(Order[i]) = i
  <2>1. Order[i] \in ToSet(Order)
    BY <1>1 DEF ToSet
  <2>2. Place(Order[i]) \in 1..Len(Order) /\ Order[Place(Order[i])] = Order[i]
    BY <1>2, <2>1
  <2> QED BY <1>1, <2>1, <2>2, OrderAssumption DEF IsInjective
<1> QED BY <1>1, <1>2, <1>3

\* Keys are paths, and they and their directories have places.
LEMMA KeyFacts ==
    ASSUME NEW k \in Keys
    PROVE  /\ k \in Path /\ k \in ToSet(Order) /\ Place(k) \in Nat
           /\ \A e \in Parents(k) : e # Root => e \in ToSet(Order) /\ Place(e) \in Nat
<1>1. k \in Path
  BY ListingAssumption DEF Path
<1>2. k \in ToSet(Order) /\ \A e \in Parents(k) : e # Root => e \in ToSet(Order)
  BY OrderAssumption
<1> QED BY <1>1, <1>2, PlaceFacts

LEMMA KeysFinite == IsFiniteSet(Keys)
<1>1. Order \in Seq(ToSet(Order)) /\ Len(Order) \in Nat /\ DOMAIN Order = 1..Len(Order)
  BY OrderAssumption
<1>2. IsFiniteSet(1..Len(Order))
  BY <1>1, FS_Interval
<1>3. IsFiniteSet(ToSet(Order))
  <2>1. Order \in Surjection(1..Len(Order), ToSet(Order))
    BY <1>1 DEF Surjection, ToSet
  <2> QED BY <1>2, <2>1, FS_Surjection
<1>4. Keys \subseteq ToSet(Order)
  BY KeyFacts
<1> QED BY <1>3, <1>4, FS_Subset

\* What the service lists of S: the members of S that have a place, in their order.
LEMMA InOrderFacts ==
    ASSUME NEW S
    PROVE  /\ InOrder(S) \in Seq(S \cap ToSet(Order))
           /\ \A i, j \in 1..Len(InOrder(S)) : i < j => Place(InOrder(S)[i]) < Place(InOrder(S)[j])
           /\ \A k \in S \cap ToSet(Order) : \E i \in 1..Len(InOrder(S)) : InOrder(S)[i] = k
<1> DEFINE s == InOrder(S)
<1>1. Order \in Seq(ToSet(Order))
  BY PlaceFacts
<1>2. PICK n, at : Picks(n, at, Order, S)
  BY <1>1, AmongFacts
<1>2b. /\ n \in Nat /\ at \in [1..n -> 1..Len(Order)]
       /\ s = [i \in 1..n |-> Order[at[i]]]
       /\ \A i \in 1..n : Order[at[i]] \in S
       /\ \A i, j \in 1..n : i < j => at[i] < at[j]
       /\ \A p \in 1..Len(Order) : Order[p] \in S => \E i \in 1..n : at[i] = p
  BY <1>2 DEF Picks, InOrder
<1> HIDE DEF s
<1>3. \A i \in 1..n : s[i] = Order[at[i]] /\ s[i] \in S \cap ToSet(Order) /\ Place(s[i]) = at[i]
  BY <1>2b, PlaceFacts
<1>4. s \in Seq(S \cap ToSet(Order)) /\ Len(s) = n
  BY <1>2b, <1>3
<1>5. \A i, j \in 1..n : i < j => Place(s[i]) < Place(s[j])
  BY <1>2b, <1>3
<1>6. ASSUME NEW k \in S \cap ToSet(Order) PROVE \E i \in 1..n : s[i] = k
  <2>1. Place(k) \in 1..Len(Order) /\ Order[Place(k)] = k
    BY PlaceFacts
  <2>2. PICK i \in 1..n : at[i] = Place(k)
    BY <1>2b, <2>1
  <2> QED BY <1>3, <2>1, <2>2
<1> QED BY <1>4, <1>5, <1>6 DEF s

\* What is in d is under d, and so is what is under a directory in d.
LEMMA DirIsUnder ==
    ASSUME NEW k \in Path
    PROVE  /\ Under(k, DirOf(k))
           /\ \A e \in Parents(k) : e # Root => Under(k, DirOf(e)) /\ DirOf(k) # DirOf(e)
<1>1. Under(k, DirOf(k))
  BY DirFacts DEF Under
<1>2. ASSUME NEW e \in Parents(k), e # Root PROVE Under(k, DirOf(e)) /\ DirOf(k) # DirOf(e)
  <2>1. e \in Path /\ Len(e) <= Len(DirOf(k))
    BY ParentIs, DirFacts
  <2>2. Len(DirOf(e)) < Len(e)
    BY <1>2, <2>1, DirShorter
  <2>3. Len(e) \in Nat /\ Len(DirOf(e)) \in Nat /\ Len(DirOf(k)) \in Nat
    BY <2>1, DirFacts DEF Path
  <2>4. Under(k, DirOf(e))
    BY <2>1, DirFacts, Chain DEF Under
  <2> QED BY <2>1, <2>2, <2>3, <2>4
<1> QED BY <1>1, <1>2

\* Two children of one directory that are on the way to k are the same: so two paths do
\* not part above where they part.
LEMMA PartOnce ==
    ASSUME NEW k \in Path, NEW l \in Path, NEW d, Under(k, d), Under(l, d),
           NEW e \in Parents(k), NEW f \in Parents(l), e # Root, f # Root, DirOf(e) = DirOf(f),
           Len(e) <= Len(d)
    PROVE  e = f
<1>1. e \in Parents(l)
  BY Shared
<1> QED BY <1>1, OneChild

LEMMA ApartNotBoth ==
    ASSUME NEW k \in Keys, NEW l \in Keys, Apart(k, l)
    PROVE  ~Apart(l, k)
<1> SUFFICES ASSUME Apart(l, k) PROVE FALSE
  OBVIOUS
<1>1. k \in Path /\ l \in Path
  BY KeyFacts
<1>2. PICK e \in Parents(k), f \in Parents(l) :
          e # Root /\ f # Root /\ DirOf(e) = DirOf(f) /\ Place(e) < Place(f)
  BY DEF Apart
<1>3. PICK g \in Parents(k), h \in Parents(l) :
          g # Root /\ h # Root /\ DirOf(h) = DirOf(g) /\ Place(h) < Place(g)
  BY DEF Apart
<1>4. Place(e) \in Nat /\ Place(f) \in Nat /\ Place(g) \in Nat /\ Place(h) \in Nat
  BY <1>2, <1>3, KeyFacts
<1>5. e # f /\ g # h /\ ~(e = g /\ f = h)
  BY <1>2, <1>3, <1>4
<1>6. /\ Under(k, DirOf(e)) /\ Under(l, DirOf(e)) /\ Under(k, DirOf(g)) /\ Under(l, DirOf(g))
  BY <1>1, <1>2, <1>3, DirIsUnder
<1>7. /\ e \in Path /\ g \in Path /\ Len(e) \in Nat /\ Len(g) \in Nat
      /\ Len(DirOf(e)) \in Nat /\ Len(DirOf(g)) \in Nat
  BY <1>1, ParentIs, DirFacts DEF Path
<1>8. Len(e) > Len(DirOf(g)) /\ Len(g) > Len(DirOf(e))
  BY <1>1, <1>2, <1>3, <1>5, <1>6, <1>7, PartOnce
<1>9. Len(e) < Len(g) => Len(e) <= Len(DirOf(g))
  BY <1>1, <1>7, Chain, DirFacts
<1>10. Len(g) < Len(e) => Len(g) <= Len(DirOf(e))
  BY <1>1, <1>7, Chain, DirFacts
<1>11. Len(e) = Len(g)
  BY <1>7, <1>8, <1>9, <1>10
<1>12. e = g
  BY <1>1, <1>11, Chain
<1>13. f = h
  BY <1>1, <1>2, <1>3, <1>12, OneChild
<1> QED BY <1>5, <1>12, <1>13

\* No two files precede each other, and none itself.
LEMMA Asymmetric ==
    ASSUME NEW k \in Keys, NEW l \in Keys, Precedes(k, l)
    PROVE  ~Precedes(l, k)
<1>1. k \in Path /\ l \in Path /\ Place(k) \in Nat /\ Place(l) \in Nat
  BY KeyFacts
<1>2. ASSUME NEW d, Under(k, d), Under(l, d), d = DirOf(k) \/ d = DirOf(l)
      PROVE  ~Apart(k, l) /\ ~Apart(l, k)
  <2>1. ASSUME NEW e \in Parents(k), NEW f \in Parents(l),
               e # Root, f # Root, DirOf(e) = DirOf(f), Place(e) # Place(f)
        PROVE  FALSE
    <3>1. CASE d = DirOf(k)
      <4>1. Len(e) <= Len(d)
        BY <1>1, <3>1, DirFacts
      <4> QED BY <1>1, <1>2, <2>1, <4>1, PartOnce
    <3>2. CASE d = DirOf(l)
      <4>1. Len(f) <= Len(d)
        BY <1>1, <3>2, DirFacts
      <4>2. f = e
        BY <1>1, <1>2, <2>1, <4>1, PartOnce
      <4> QED BY <2>1, <4>2
    <3> QED BY <1>2, <3>1, <3>2
  <2>2. \A e \in Parents(k), f \in Parents(l) :
            e # Root /\ f # Root => Place(e) \in Nat /\ Place(f) \in Nat
    BY KeyFacts
  <2> QED BY <2>1, <2>2 DEF Apart
<1>3. Under(k, DirOf(k)) /\ Under(l, DirOf(l))
  BY <1>1, DirIsUnder
<1>4. CASE Beside(k, l)
  <2>1. ~Beside(l, k) /\ ~Above(l, k)
    BY <1>1, <1>4 DEF Beside, Above
  <2>2. Under(l, DirOf(k))
    BY <1>3, <1>4 DEF Beside
  <2> QED BY <1>2, <1>3, <2>1, <2>2 DEF Precedes
<1>5. CASE Above(k, l)
  <2>1. ~Beside(l, k)
    BY <1>5 DEF Beside, Above
  <2>2. ~Above(l, k)
    <3>1. Len(DirOf(k)) < Len(DirOf(l))
      BY <1>1, <1>5, DeepestIsDir DEF Above
    <3>2. Above(l, k) => Len(DirOf(l)) < Len(DirOf(k))
      BY <1>1, DeepestIsDir DEF Above
    <3>3. Len(DirOf(k)) \in Nat /\ Len(DirOf(l)) \in Nat
      BY <1>1, DirFacts DEF Path
    <3> QED BY <3>1, <3>2, <3>3
  <2>3. ~Apart(l, k)
    BY <1>2, <1>3, <1>5 DEF Above
  <2> QED BY <2>1, <2>2, <2>3 DEF Precedes
<1>6. CASE Apart(k, l)
  <2>1. ~Beside(l, k)
    BY <1>2, <1>3, <1>6 DEF Beside
  <2>2. ~Above(l, k)
    BY <1>2, <1>3, <1>6 DEF Above
  <2> QED BY <1>6, <2>1, <2>2, ApartNotBoth DEF Precedes
<1> QED BY <1>4, <1>5, <1>6 DEF Precedes

-----------------------------------------------------------------------------
(* Sequences that ascend.                                                  *)

Ascends(s, R) == \A i, j \in 1..Len(s) : i < j => <<s[i], s[j]>> \in R

FileOrder == {p \in Keys \X Keys : Precedes(p[1], p[2])}

Dirs == {Root} \cup UNION {Parents(k) : k \in Keys}

\* All that is under the one directory precedes all that is under the other.
DirOrder ==
    {p \in Dirs \X Dirs : \A k, l \in Keys : Under(k, p[1]) /\ Under(l, p[2]) => Precedes(k, l)}

LEMMA SetOf ==
    ASSUME NEW S, NEW s \in Seq(S)
    PROVE  ToSet(s) \subseteq S /\ ToSet(s) = {s[i] : i \in 1..Len(s)} /\ Len(s) \in Nat /\ DOMAIN s = 1..Len(s)
  BY DEF ToSet

\* What a filter lets through.
LEMMA AmongSet ==
    ASSUME NEW T, NEW s \in Seq(T), NEW S
    PROVE  /\ Among(s, S) \in Seq(S \cap T)
           /\ ToSet(Among(s, S)) = ToSet(s) \cap S
           /\ IsInjective(s) => IsInjective(Among(s, S))
<1> DEFINE t == Among(s, S)
<1>1. Len(s) \in Nat /\ DOMAIN s = 1..Len(s) /\ ToSet(s) = {s[i] : i \in 1..Len(s)} /\ ToSet(s) \subseteq T
  BY SetOf
<1>2. PICK n, at : Picks(n, at, s, S)
  BY AmongFacts
<1>3. /\ n \in Nat /\ at \in [1..n -> 1..Len(s)] /\ t = [i \in 1..n |-> s[at[i]]]
      /\ \A i \in 1..n : s[at[i]] \in S
      /\ \A i, j \in 1..n : i < j => at[i] < at[j]
      /\ \A p \in 1..Len(s) : s[p] \in S => \E i \in 1..n : at[i] = p
  BY <1>2 DEF Picks
<1> HIDE DEF t
<1>4. \A i \in 1..n : at[i] \in 1..Len(s) /\ t[i] = s[at[i]] /\ t[i] \in ToSet(s) \cap S
  BY <1>1, <1>3
<1>5. t \in Seq(S \cap T) /\ Len(t) = n
  BY <1>1, <1>3, <1>4
<1>6. ToSet(t) = ToSet(s) \cap S
  <2>1. ToSet(t) = {t[i] : i \in 1..n}
    BY <1>5, SetOf
  <2>2. ASSUME NEW k \in ToSet(s) \cap S PROVE \E i \in 1..n : t[i] = k
    <3>1. PICK p \in 1..Len(s) : s[p] = k
      BY <1>1
    <3> QED BY <1>3, <1>4, <3>1
  <2> QED BY <1>4, <2>1, <2>2
<1>7. ASSUME IsInjective(s) PROVE IsInjective(t)
  <2> SUFFICES ASSUME NEW i \in 1..n, NEW j \in 1..n, t[i] = t[j] PROVE i = j
    BY <1>3 DEF IsInjective
  <2>1. at[i] = at[j] /\ at[i] \in Nat
    BY <1>1, <1>4, <1>7 DEF IsInjective
  <2>2. ~(i < j) /\ ~(j < i)
    BY <1>3, <2>1
  <2> QED BY <1>3, <2>2
<1> QED BY <1>5, <1>6, <1>7 DEF t

LEMMA ConcatSet ==
    ASSUME NEW S, NEW s \in Seq(S), NEW t \in Seq(S)
    PROVE  s \o t \in Seq(S) /\ ToSet(s \o t) = ToSet(s) \cup ToSet(t)
<1>1. /\ s \o t \in Seq(S) /\ Len(s \o t) = Len(s) + Len(t)
      /\ \A i \in 1..(Len(s) + Len(t)) : (s \o t)[i] = IF i <= Len(s) THEN s[i] ELSE t[i - Len(s)]
  BY ConcatProperties
<1>2. Len(s) \in Nat /\ Len(t) \in Nat
  OBVIOUS
<1> DEFINE c == s \o t
<1> HIDE DEF c
<1>3. ASSUME NEW i \in 1..Len(s) PROVE s[i] \in {c[j] : j \in 1..Len(c)}
  <2>1. i \in 1..Len(c) /\ c[i] = s[i]
    BY <1>1, <1>2 DEF c
  <2> QED BY <2>1
<1>4. ASSUME NEW i \in 1..Len(t) PROVE t[i] \in {c[j] : j \in 1..Len(c)}
  <2>1. i + Len(s) \in 1..Len(c) /\ ~(i + Len(s) <= Len(s)) /\ i + Len(s) - Len(s) = i
    BY <1>1, <1>2 DEF c
  <2>2. c[i + Len(s)] = t[i + Len(s) - Len(s)]
    BY <1>1, <2>1 DEF c
  <2> QED BY <2>1, <2>2
<1>5. ASSUME NEW j \in 1..Len(c)
      PROVE  c[j] \in {s[i] : i \in 1..Len(s)} \cup {t[i] : i \in 1..Len(t)}
  <2>1. CASE j <= Len(s)
    BY <1>1, <1>2, <2>1 DEF c
  <2>2. CASE ~(j <= Len(s))
    <3>1. j - Len(s) \in 1..Len(t) /\ c[j] = t[j - Len(s)]
      BY <1>1, <1>2, <2>2 DEF c
    <3> QED BY <3>1
  <2> QED BY <2>1, <2>2
<1>6. /\ ToSet(s) = {s[i] : i \in 1..Len(s)} /\ ToSet(t) = {t[i] : i \in 1..Len(t)}
      /\ ToSet(c) = {c[i] : i \in 1..Len(c)}
  BY <1>1, SetOf DEF c
<1>7. ToSet(c) = ToSet(s) \cup ToSet(t)
  BY <1>3, <1>4, <1>5, <1>6
<1> QED BY <1>1, <1>7 DEF c

LEMMA ConcatAscends ==
    ASSUME NEW S, NEW s \in Seq(S), NEW t \in Seq(S), NEW R, Ascends(s, R), Ascends(t, R),
           ToSet(s) \X ToSet(t) \subseteq R
    PROVE  Ascends(s \o t, R)
<1>1. /\ Len(s \o t) = Len(s) + Len(t)
      /\ \A i \in 1..(Len(s) + Len(t)) : (s \o t)[i] = IF i <= Len(s) THEN s[i] ELSE t[i - Len(s)]
  BY ConcatProperties
<1>2. Len(s) \in Nat /\ Len(t) \in Nat
  OBVIOUS
<1> DEFINE c == s \o t
<1> HIDE DEF c
<1> SUFFICES ASSUME NEW i \in 1..Len(c), NEW j \in 1..Len(c), i < j PROVE <<c[i], c[j]>> \in R
  BY DEF Ascends, c
<1>3. CASE j <= Len(s)
  <2>1. i \in 1..Len(s) /\ j \in 1..Len(s) /\ c[i] = s[i] /\ c[j] = s[j]
    BY <1>1, <1>2, <1>3 DEF c
  <2> QED BY <2>1 DEF Ascends
<1>4. CASE i <= Len(s) /\ ~(j <= Len(s))
  <2>1. i \in 1..Len(s) /\ j - Len(s) \in 1..Len(t) /\ c[i] = s[i] /\ c[j] = t[j - Len(s)]
    BY <1>1, <1>2, <1>4 DEF c
  <2>2. s[i] \in ToSet(s) /\ t[j - Len(s)] \in ToSet(t)
    BY <2>1, SetOf
  <2> QED BY <2>1, <2>2
<1>5. CASE ~(i <= Len(s))
  <2>1. /\ i - Len(s) \in 1..Len(t) /\ j - Len(s) \in 1..Len(t) /\ i - Len(s) < j - Len(s)
        /\ c[i] = t[i - Len(s)] /\ c[j] = t[j - Len(s)]
    BY <1>1, <1>2, <1>5 DEF c
  <2> QED BY <2>1 DEF Ascends
<1>6. i <= Len(s) \/ ~(i <= Len(s))
  OBVIOUS
<1> QED BY <1>3, <1>4, <1>5, <1>6

LEMMA TailAscends ==
    ASSUME NEW S, NEW s \in Seq(S), s # <<>>, NEW R, Ascends(s, R)
    PROVE  /\ Head(s) \in S /\ Tail(s) \in Seq(S) /\ Ascends(Tail(s), R)
           /\ ToSet(s) = {Head(s)} \cup ToSet(Tail(s))
           /\ {Head(s)} \X ToSet(Tail(s)) \subseteq R
<1>1. /\ Head(s) \in S /\ Head(s) = s[1] /\ Tail(s) \in Seq(S) /\ Len(Tail(s)) = Len(s) - 1
      /\ \A i \in 1..(Len(s) - 1) : Tail(s)[i] = s[i + 1]
  BY HeadTailProperties
<1>2. Len(s) \in Nat \ {0}
  BY EmptySeq
<1> DEFINE t == Tail(s)
<1> HIDE DEF t
<1>3. \A i \in 1..Len(t) : i + 1 \in 1..Len(s) /\ t[i] = s[i + 1]
  BY <1>1, <1>2 DEF t
<1>4. ToSet(s) = {s[i] : i \in 1..Len(s)} /\ ToSet(t) = {t[i] : i \in 1..Len(t)}
  BY <1>1, SetOf DEF t
<1>5. ASSUME NEW i \in 1..Len(s) PROVE s[i] \in {Head(s)} \cup ToSet(t)
  <2>1. CASE i = 1
    BY <1>1, <2>1
  <2>2. CASE i # 1
    <3>1. i - 1 \in 1..Len(t) /\ i - 1 + 1 = i
      BY <1>1, <1>2, <2>2 DEF t
    <3> QED BY <1>3, <1>4, <3>1
  <2> QED BY <2>1, <2>2
<1>6. Head(s) \in ToSet(s) /\ ToSet(t) \subseteq ToSet(s)
  <2>1. 1 \in 1..Len(s)
    BY <1>2
  <2> QED BY <1>1, <1>3, <1>4, <2>1
<1>7. ToSet(s) = {Head(s)} \cup ToSet(t)
  BY <1>4, <1>5, <1>6
<1>8. ASSUME NEW i \in 1..Len(t) PROVE <<Head(s), t[i]>> \in R
  <2>1. 1 \in 1..Len(s) /\ i + 1 \in 1..Len(s) /\ 1 < i + 1
    BY <1>2, <1>3
  <2> QED BY <1>1, <1>3, <2>1 DEF Ascends
<1>9. Ascends(t, R)
  <2> SUFFICES ASSUME NEW i \in 1..Len(t), NEW j \in 1..Len(t), i < j PROVE <<t[i], t[j]>> \in R
    BY DEF Ascends
  <2>1. i + 1 \in 1..Len(s) /\ j + 1 \in 1..Len(s) /\ i + 1 < j + 1
    BY <1>3
  <2> QED BY <1>3, <2>1 DEF Ascends
<1> QED BY <1>1, <1>4, <1>7, <1>8, <1>9 DEF t

\* What one directory yields: its files, and its directories, each in their order.
LEMMA FilesAscend ==
    ASSUME NEW d, NEW S \in SUBSET Keys, \A k \in S : DirOf(k) = d
    PROVE  InOrder(S) \in Seq(Keys) /\ ToSet(InOrder(S)) = S /\ Ascends(InOrder(S), FileOrder)
<1> DEFINE s == InOrder(S)
<1>1. S \cap ToSet(Order) = S
  BY KeyFacts
<1>2. /\ s \in Seq(S) /\ \A i, j \in 1..Len(s) : i < j => Place(s[i]) < Place(s[j])
      /\ \A k \in S : \E i \in 1..Len(s) : s[i] = k
  BY <1>1, InOrderFacts
<1> HIDE DEF s
<1>3. \A i \in 1..Len(s) : s[i] \in S /\ s[i] \in Keys
  BY <1>2
<1>4. s \in Seq(Keys)
  BY <1>2
<1>5. ToSet(s) = S
  <2>1. ToSet(s) = {s[i] : i \in 1..Len(s)}
    BY <1>4, SetOf
  <2> QED BY <1>2, <1>3, <2>1
<1>6. Ascends(s, FileOrder)
  <2> SUFFICES ASSUME NEW i \in 1..Len(s), NEW j \in 1..Len(s), i < j
               PROVE  <<s[i], s[j]>> \in FileOrder
    BY DEF Ascends
  <2>1. Beside(s[i], s[j])
    BY <1>2, <1>3 DEF Beside
  <2> QED BY <1>3, <2>1 DEF FileOrder, Precedes
<1> QED BY <1>4, <1>5, <1>6 DEF s

LEMMA DirsAscend ==
    ASSUME NEW d, NEW S \in SUBSET (Dirs \ {Root}), \A e \in S : DirOf(e) = d
    PROVE  InOrder(S) \in Seq(Dirs) /\ ToSet(InOrder(S)) = S /\ Ascends(InOrder(S), DirOrder)
<1> DEFINE s == InOrder(S)
<1>1. S \cap ToSet(Order) = S
  BY OrderAssumption DEF Dirs
<1>2. /\ s \in Seq(S) /\ \A i, j \in 1..Len(s) : i < j => Place(s[i]) < Place(s[j])
      /\ \A k \in S : \E i \in 1..Len(s) : s[i] = k
  BY <1>1, InOrderFacts
<1> HIDE DEF s
<1>3. \A i \in 1..Len(s) : s[i] \in S /\ s[i] \in Dirs
  BY <1>2
<1>4. s \in Seq(Dirs)
  BY <1>2
<1>5. ToSet(s) = S
  <2>1. ToSet(s) = {s[i] : i \in 1..Len(s)}
    BY <1>4, SetOf
  <2> QED BY <1>2, <1>3, <2>1
<1>6. Ascends(s, DirOrder)
  <2> SUFFICES ASSUME NEW i \in 1..Len(s), NEW j \in 1..Len(s), i < j
               PROVE  <<s[i], s[j]>> \in DirOrder
    BY DEF Ascends
  <2>1. ASSUME NEW k \in Keys, NEW l \in Keys, Under(k, s[i]), Under(l, s[j])
        PROVE  Precedes(k, l)
    <3>1. s[i] # Root /\ s[j] # Root /\ DirOf(s[i]) = DirOf(s[j]) /\ Place(s[i]) < Place(s[j])
      BY <1>2, <1>3
    <3>2. s[i] \in Parents(k) /\ s[j] \in Parents(l)
      BY <2>1, <3>1 DEF Under
    <3> QED BY <3>1, <3>2 DEF Precedes, Apart
  <2> QED BY <1>3, <2>1 DEF DirOrder
<1> QED BY <1>4, <1>5, <1>6 DEF s

-----------------------------------------------------------------------------
(* The invariant.                                                          *)

Clients ==
    [at : {"idle", "ask", "walk", "done"}, prefix : Path, delimiter : BOOLEAN, max : Nat \ {0},
     token : 0..Len(Order), contents : Seq(Keys), prefixes : SUBSET Path]

ListingType ==
    /\ backend \in {"blob", "file"}
    /\ files \subseteq Keys /\ dirs \subseteq Dirs
    /\ \A k \in files : Parents(k) \subseteq dirs
    /\ client \in Clients
    /\ walk \in [todo : Seq(Dirs), found : Seq(Keys)]
    /\ client.at # "walk" => walk = NoWalk
    /\ client.at = "walk" => backend = "file"
    /\ kept \subseteq files
    /\ client.at # "idle" /\ seen = {} => kept = files
    /\ seen \subseteq {"create", "delete"}
    /\ trouble \in 0..Trouble

\* The walk has found its files in order, and those it has still to find come after them.
WalkInv ==
    /\ Ascends(walk.found, FileOrder) /\ Ascends(walk.todo, DirOrder)
    /\ \A k \in ToSet(walk.found), d \in ToSet(walk.todo), l \in Keys : Under(l, d) => Precedes(k, l)
    /\ \A k \in ToSet(walk.found) : Matches(k)
    /\ "delete" \notin seen => ToSet(walk.found) \subseteq files

\* An object was returned, by itself or with its group.
Listed(k) ==
    IF Grouped(k) THEN PrefixOf(k) \in client.prefixes ELSE k \in ToSet(client.contents)

Missing(k) == k \in kept /\ Matches(k) /\ ~Listed(k)

Before(S, k) == {l \in S : Precedes(l, k)}

\* What the walk has found, and what it can find of what is there now.
Reach ==
    ToSet(walk.found)
        \cup {l \in files : Matches(l) /\ \E d \in ToSet(walk.todo) : Under(l, d)}

\* Of what is missing, as much comes before in the next list as the token skips: while
\* nothing is deleted it is not skipped.
FilePagesInv ==
    backend = "file" /\ "delete" \notin seen =>
        /\ client.at = "ask" =>
              \A k \in Keys : Missing(k) => client.token <= Cardinality(Before(Wanted(files), k))
        /\ client.at = "walk" =>
              /\ \A k \in kept : Matches(k) => k \in Reach
              /\ \A k \in Keys : Missing(k) => client.token <= Cardinality(Before(Reach, k))

BlobPagesInv ==
    backend = "blob" /\ client.at = "ask" =>
        \A k \in Keys : Missing(k) => client.token < Place(k)

DoneInv ==
    client.at = "done" /\ (backend = "blob" \/ "delete" \notin seen) =>
        \A k \in Keys : ~Missing(k)

\* What was returned lies before the token.
Passed(k) ==
    IF backend = "blob" THEN Place(k) <= client.token
    ELSE Cardinality(Before(Wanted(files), k)) < client.token

RestInv ==
    client.at # "idle" /\ seen = {} =>
        /\ IsInjective(client.contents)
        /\ ToSet(client.contents) \subseteq Wanted(files)
        /\ client.prefixes \subseteq {PrefixOf(k) : k \in {k \in Wanted(files) : Grouped(k)}}
        /\ client.at \in {"ask", "walk"} =>
              /\ \A k \in ToSet(client.contents) : Passed(k)
              /\ backend = "file" => client.token = 0 \/ client.token < Cardinality(Wanted(files))

ListingInv ==
    ListingType /\ WalkInv /\ FilePagesInv /\ BlobPagesInv /\ DoneInv /\ RestInv

-----------------------------------------------------------------------------
(* What comes before.                                                      *)

\* A list of files in the order of the walk: each file once, behind those of the list that
\* precede it, and not more files than the order has places.
LEMMA Position ==
    ASSUME NEW s \in Seq(Keys), Ascends(s, FileOrder)
    PROVE  /\ IsInjective(s)
           /\ \A p \in 1..Len(s) : Cardinality(Before(ToSet(s), s[p])) = p - 1
           /\ Cardinality(ToSet(s)) = Len(s)
           /\ Len(s) <= Len(Order)
<1>1. /\ Len(s) \in Nat /\ DOMAIN s = 1..Len(s) /\ ToSet(s) = {s[i] : i \in 1..Len(s)}
      /\ \A i \in 1..Len(s) : s[i] \in Keys
  BY SetOf
<1>2. \A i, j \in 1..Len(s) : i < j => Precedes(s[i], s[j]) /\ ~Precedes(s[j], s[i])
  BY <1>1, Asymmetric DEF Ascends, FileOrder
<1>3. \A i \in 1..Len(s) : ~Precedes(s[i], s[i])
  BY <1>1, Asymmetric
<1>4. ASSUME NEW i \in 1..Len(s), NEW j \in 1..Len(s), s[i] = s[j] PROVE i = j
  <2>1. ~(i < j) /\ ~(j < i)
    BY <1>2, <1>3, <1>4
  <2> QED BY <1>1, <2>1
<1>5. ASSUME NEW m \in 0..Len(s)
      PROVE  IsFiniteSet({s[i] : i \in 1..m}) /\ Cardinality({s[i] : i \in 1..m}) = m
  <2> DEFINE T == {s[i] : i \in 1..m}
             f == [i \in 1..m |-> s[i]]
  <2>1. f \in Surjection(1..m, T)
    BY DEF Surjection
  <2>2. f \in Injection(1..m, T)
    <3>1. \A i \in 1..m : i \in 1..Len(s)
      BY <1>1
    <3>2. \A i, j \in 1..m : f[i] = f[j] => i = j
      BY <1>4, <3>1
    <3> QED BY <2>1, <3>2 DEF Surjection, Injection, IsInjective
  <2>3. IsFiniteSet(1..m) /\ Cardinality(1..m) = m
    <3>1. IsFiniteSet(1..m) /\ Cardinality(1..m) = IF 1 > m THEN 0 ELSE m - 1 + 1
      BY FS_Interval
    <3> QED BY <1>1, <3>1
  <2> HIDE DEF T, f
  <2>4. IsFiniteSet(T) /\ Cardinality(T) = m
    BY <2>1, <2>2, <2>3, FS_Surjection
  <2> QED BY <2>4 DEF T
<1>6. ASSUME NEW p \in 1..Len(s) PROVE Cardinality(Before(ToSet(s), s[p])) = p - 1
  <2>1. p - 1 \in 0..Len(s)
    BY <1>1
  <2>2. Before(ToSet(s), s[p]) = {s[i] : i \in {i \in 1..Len(s) : Precedes(s[i], s[p])}}
    BY <1>1 DEF Before
  <2>3. ASSUME NEW i \in 1..Len(s) PROVE Precedes(s[i], s[p]) <=> i < p
    <3>1. i < p \/ i = p \/ p < i
      BY <1>1
    <3>2. i = p \/ p < i => ~(i < p)
      BY <1>1
    <3> QED BY <1>2, <1>3, <3>1, <3>2
  <2>4. {i \in 1..Len(s) : Precedes(s[i], s[p])} = 1..(p - 1)
    <3>1. \A i : i \in 1..(p - 1) <=> i \in 1..Len(s) /\ i < p
      BY <1>1
    <3> QED BY Zenon, <2>3, <3>1
  <2>5. Before(ToSet(s), s[p]) = {s[i] : i \in 1..(p - 1)}
    BY <2>2, <2>4
  <2> QED BY <1>5, <2>1, <2>5
<1>7. Cardinality(ToSet(s)) = Len(s)
  <2>1. Len(s) \in 0..Len(s)
    BY <1>1
  <2>2. Cardinality({s[i] : i \in 1..Len(s)}) = Len(s)
    BY <1>5, <2>1
  <2> QED BY <1>1, <2>2
<1>8. Len(s) <= Len(Order)
  <2>1. /\ Order \in Seq(ToSet(Order)) /\ Len(Order) \in Nat /\ DOMAIN Order = 1..Len(Order)
        /\ IsFiniteSet(1..Len(Order)) /\ Cardinality(1..Len(Order)) = Len(Order)
    <3>1. Order \in Seq(ToSet(Order)) /\ Len(Order) \in Nat /\ DOMAIN Order = 1..Len(Order)
      BY OrderAssumption
    <3>2. 1 \in Int /\ Len(Order) \in Int
      BY <3>1
    <3>3. /\ IsFiniteSet(1..Len(Order))
          /\ Cardinality(1..Len(Order)) = IF 1 > Len(Order) THEN 0 ELSE Len(Order) - 1 + 1
      BY <3>2, FS_Interval
    <3> QED BY <3>1, <3>3
  <2>2. Order \in Surjection(1..Len(Order), ToSet(Order))
    BY <2>1 DEF Surjection, ToSet
  <2>3. IsFiniteSet(ToSet(Order)) /\ Cardinality(ToSet(Order)) <= Len(Order)
    BY <2>1, <2>2, FS_Surjection
  <2>4. ToSet(s) \in SUBSET ToSet(Order)
    BY <1>1, KeyFacts
  <2>5. Cardinality(ToSet(s)) <= Cardinality(ToSet(Order))
    BY <2>3, <2>4, FS_Subset
  <2>6. Cardinality(ToSet(Order)) \in Nat
    BY <2>3, FS_CardinalityType
  <2>7. Len(s) <= Cardinality(ToSet(Order)) /\ Cardinality(ToSet(Order)) <= Len(Order)
    BY <1>7, <2>1, <2>3, <2>5
  <2>8. Len(s) \in Nat /\ Len(Order) \in Nat
    BY <1>1, <2>1
  <2> QED BY <2>6, <2>7, <2>8
<1> QED BY <1>1, <1>4, <1>6, <1>7, <1>8 DEF IsInjective

\* The more files there are, the more come before.
LEMMA BeforeMore ==
    ASSUME NEW T \in SUBSET Keys, NEW S \in SUBSET T, NEW k
    PROVE  /\ Cardinality(Before(S, k)) \in Nat /\ Cardinality(Before(T, k)) \in Nat
           /\ Cardinality(Before(S, k)) <= Cardinality(Before(T, k))
<1>1. Before(S, k) \in SUBSET Before(T, k) /\ Before(T, k) \in SUBSET Keys
  BY DEF Before
<1>2. IsFiniteSet(Before(T, k))
  BY <1>1, KeysFinite, FS_Subset
<1>3. IsFiniteSet(Before(S, k)) /\ Cardinality(Before(S, k)) <= Cardinality(Before(T, k))
  BY <1>1, <1>2, FS_Subset
<1> QED BY <1>2, <1>3, FS_CardinalityType

\* What is listed of S, in the terms of the properties.
LEMMA ListsIsListed ==
    ASSUME client \in Clients, NEW S
    PROVE  Lists(S) <=> \A k \in S : Matches(k) => Listed(k)
<1>1. Range(client.contents) = ToSet(client.contents)
  BY DEF Range, ToSet
<1> QED BY <1>1 DEF Lists, Listed, Wanted, Matches

-----------------------------------------------------------------------------
(* A page.                                                                 *)

LEMMA MinTwo == \A a, b \in Nat : Min({a, b}) = IF a <= b THEN a ELSE b
<1> SUFFICES ASSUME NEW a \in Nat, NEW b \in Nat PROVE Min({a, b}) = IF a <= b THEN a ELSE b
  OBVIOUS
<1> DEFINE m == IF a <= b THEN a ELSE b
<1>1. m \in {a, b} /\ \A y \in {a, b} : m =< y
  OBVIOUS
<1>2. \A x \in {a, b} : (\A y \in {a, b} : x =< y) => x = m
  OBVIOUS
<1> HIDE DEF m
<1>3. Min({a, b}) = m
  BY <1>1, <1>2 DEF Min
<1> QED BY <1>3 DEF m

\* As long as the parameters of the listing stay, so does what it asks for.
LEMMA SameQuestion ==
    ASSUME client'.prefix = client.prefix, client'.delimiter = client.delimiter, NEW k
    PROVE  /\ Matches(k)' = Matches(k) /\ Grouped(k)' = Grouped(k) /\ PrefixOf(k)' = PrefixOf(k)
           /\ \A S : Wanted(S)' = Wanted(S)
  BY DEF Matches, Grouped, PrefixOf, Cuts, Wanted

LEMMA GroupPath ==
    ASSUME client \in Clients, NEW k \in Keys, Grouped(k)
    PROVE  PrefixOf(k) \in Path
<1>1. k \in Path /\ Cuts(k) # {}
  BY KeyFacts DEF Grouped
<1>2. Cuts(k) \in SUBSET Nat /\ IsFiniteSet(Cuts(k)) /\ Cuts(k) \subseteq 1..Len(k)
  BY <1>1, SlashesFinite, FS_Subset DEF Cuts
<1>3. Min(Cuts(k)) \in 1..Len(k)
  BY <1>1, <1>2, Extremes
<1> QED BY <1>1, <1>3 DEF PrefixOf, Path

\* A page that is returned: nothing of it is lost, and nothing else is added.
LEMMA ReturnFacts ==
    ASSUME client \in Clients, NEW page \in Seq(Keys), NEW next \in 0..Len(Order), Return(page, next)
    PROVE  /\ client' \in Clients
           /\ client'.prefix = client.prefix /\ client'.delimiter = client.delimiter
           /\ client'.token = next
           /\ client'.at = IF next = NoToken THEN "done" ELSE "ask"
           /\ \A k \in Keys : Listed(k) \/ k \in ToSet(page) => Listed(k)'
           /\ ToSet(client'.contents) \subseteq ToSet(client.contents) \cup ToSet(page)
           /\ client'.prefixes
                 = client.prefixes \cup {PrefixOf(k) : k \in {k \in ToSet(page) : Grouped(k)}}
           /\ /\ IsInjective(client.contents) /\ IsInjective(page)
              /\ ToSet(client.contents) \cap ToSet(page) = {}
              => IsInjective(client'.contents)
<1> DEFINE U == {k \in Keys : ~Grouped(k)}
           s == client.contents
           t == Among(page, U)
           G == {PrefixOf(page[i]) : i \in {j \in DOMAIN page : Grouped(page[j])}}
<1>0. /\ s \in Seq(Keys) /\ client.prefixes \in SUBSET Path
      /\ Len(s) \in Nat /\ DOMAIN s = 1..Len(s) /\ ToSet(s) = {s[i] : i \in 1..Len(s)}
  BY SetOf DEF Clients
<1>1. Len(page) \in Nat /\ DOMAIN page = 1..Len(page) /\ ToSet(page) = {page[i] : i \in 1..Len(page)}
  BY SetOf
<1>4. G = {PrefixOf(k) : k \in {k \in ToSet(page) : Grouped(k)}}
  BY <1>1
<1>5. G \in SUBSET Path
  <2>1. \A k \in ToSet(page) : k \in Keys
    BY SetOf
  <2> QED BY <1>4, <2>1, GroupPath
<1>6. client' = [client EXCEPT !.contents = s \o t, !.prefixes = @ \cup G, !.token = next,
                               !.at = IF next = NoToken THEN "done" ELSE "ask"]
  BY DEF Return
<1> HIDE DEF G, t
<1>7. /\ t \in Seq(Keys) /\ Len(t) \in Nat /\ DOMAIN t = 1..Len(t)
      /\ \A i \in 1..Len(t) : t[i] \in ToSet(t)
      /\ IsInjective(page) => IsInjective(t)
  <2>1. t \in Seq(U \cap Keys) /\ (IsInjective(page) => IsInjective(t))
    BY AmongSet DEF t
  <2> HIDE DEF U
  <2>2. t \in Seq(Keys)
    BY <2>1
  <2> QED BY <2>1, <2>2, SetOf
<1>8. ToSet(t) = {k \in ToSet(page) : ~Grouped(k)}
  <2>1. ToSet(t) = ToSet(page) \cap U /\ ToSet(page) \subseteq Keys
    BY AmongSet, SetOf DEF t
  <2> QED BY <2>1
<1> HIDE DEF U
<1>9. s \o t \in Seq(Keys) /\ ToSet(s \o t) = ToSet(s) \cup ToSet(t)
  BY <1>0, <1>7, ConcatSet
<1>10. /\ client'.contents = s \o t /\ client'.prefixes = client.prefixes \cup G
       /\ client'.token = next /\ client'.at = IF next = NoToken THEN "done" ELSE "ask"
       /\ client'.prefix = client.prefix /\ client'.delimiter = client.delimiter
  BY <1>6 DEF Clients
<1>11. client' \in Clients
  <2>1. next \in 0..Len(Order) /\ client.prefixes \cup G \in SUBSET Path
    BY <1>0, <1>5
  <2> QED BY <1>6, <1>9, <2>1 DEF Clients
<1>12. ASSUME NEW k \in Keys, Listed(k) \/ k \in ToSet(page) PROVE Listed(k)'
  <2>1. Grouped(k)' = Grouped(k) /\ PrefixOf(k)' = PrefixOf(k)
    BY <1>10, SameQuestion
  <2>2. CASE Grouped(k)
    <3>1. PrefixOf(k) \in client.prefixes \cup G
      BY <1>4, <1>12, <2>2 DEF Listed
    <3> QED BY <1>10, <2>1, <2>2, <3>1 DEF Listed
  <2>3. CASE ~Grouped(k)
    <3>1. k \in ToSet(client'.contents)
      BY <1>8, <1>9, <1>10, <1>12, <2>3 DEF Listed
    <3> QED BY <2>1, <2>3, <3>1 DEF Listed
  <2> QED BY <2>2, <2>3
<1>13. ASSUME IsInjective(s), IsInjective(page), ToSet(s) \cap ToSet(page) = {}
       PROVE  IsInjective(s \o t)
  <2>0. /\ s \o t \in Seq(Keys) /\ Len(s \o t) = Len(s) + Len(t)
        /\ \A i \in 1..(Len(s) + Len(t)) :
               (s \o t)[i] = IF i <= Len(s) THEN s[i] ELSE t[i - Len(s)]
    <3>1. s \in Seq(Keys) /\ t \in Seq(Keys)
      BY <1>0, <1>7
    <3> HIDE DEF s
    <3> QED BY <3>1, ConcatProperties
  <2> DEFINE n == Len(t)
  <2>1. /\ Len(s \o t) = Len(s) + n /\ DOMAIN (s \o t) = 1..(Len(s) + n) /\ n \in Nat
        /\ \A i \in 1..(Len(s) + n) : (s \o t)[i] = IF i <= Len(s) THEN s[i] ELSE t[i - Len(s)]
    BY <1>7, <2>0
  <2>2. \A i, j \in 1..n : t[i] = t[j] => i = j
    BY <1>7, <1>13 DEF IsInjective
  <2>3. \A i \in 1..Len(s), j \in 1..n : s[i] # t[j]
    <3>1. \A j \in 1..n : t[j] \in ToSet(page)
      BY <1>7, <1>8
    <3> QED BY <1>0, <1>13, <3>1
  <2>4. \A i, j \in 1..Len(s) : s[i] = s[j] => i = j
    BY <1>0, <1>13 DEF IsInjective
  <2> DEFINE c == s \o t
  <2> HIDE DEF c, n
  <2> SUFFICES ASSUME NEW i \in 1..(Len(s) + n), NEW j \in 1..(Len(s) + n), c[i] = c[j]
               PROVE  i = j
    BY <2>1 DEF IsInjective, c
  <2>5. CASE i <= Len(s) /\ j <= Len(s)
    BY <1>0, <2>1, <2>4, <2>5 DEF c
  <2>6. CASE i <= Len(s) /\ ~(j <= Len(s))
    <3>1. i \in 1..Len(s) /\ j - Len(s) \in 1..n /\ c[i] = s[i] /\ c[j] = t[j - Len(s)]
      BY <1>0, <2>1, <2>6 DEF c
    <3> QED BY <2>3, <3>1
  <2>7. CASE ~(i <= Len(s)) /\ j <= Len(s)
    <3>1. j \in 1..Len(s) /\ i - Len(s) \in 1..n /\ c[j] = s[j] /\ c[i] = t[i - Len(s)]
      BY <1>0, <2>1, <2>7 DEF c
    <3> QED BY <2>3, <3>1
  <2>8. CASE ~(i <= Len(s)) /\ ~(j <= Len(s))
    <3>1. /\ i - Len(s) \in 1..n /\ j - Len(s) \in 1..n
          /\ c[i] = t[i - Len(s)] /\ c[j] = t[j - Len(s)]
      BY <1>0, <2>1, <2>8 DEF c
    <3>2. i - Len(s) = j - Len(s)
      BY <2>2, <3>1
    <3> QED BY <1>0, <2>1, <3>2
  <2> QED BY <2>5, <2>6, <2>7, <2>8
<1>14. ToSet(client'.contents) \subseteq ToSet(client.contents) \cup ToSet(page)
  BY <1>8, <1>9, <1>10
<1>15. client'.prefixes = client.prefixes \cup {PrefixOf(k) : k \in {k \in ToSet(page) : Grouped(k)}}
  BY <1>4, <1>10
<1> QED BY <1>10, <1>11, <1>12, <1>13, <1>14, <1>15

-----------------------------------------------------------------------------
(* The steps.                                                              *)

\* What a listing has returned of k stays the same as long as the listing does.
LEMMA SameListing ==
    ASSUME client'.prefix = client.prefix, client'.delimiter = client.delimiter,
           client'.contents = client.contents, client'.prefixes = client.prefixes
    PROVE  /\ \A k : Matches(k)' = Matches(k) /\ Listed(k)' = Listed(k)
           /\ \A k : (kept' \subseteq kept /\ Missing(k)' => Missing(k)) /\ (Missing(k)' => k \in kept')
           /\ {PrefixOf(k) : k \in {k \in Wanted(files) : Grouped(k)}}'
                 = {PrefixOf(k) : k \in {k \in Wanted(files') : Grouped(k)}}
           /\ Wanted(files)' = Wanted(files')
  BY DEF Matches, Listed, Missing, Grouped, PrefixOf, Cuts, Wanted

LEMMA BeginKeeps == ListingInv /\ Begin /\ UNCHANGED backend => ListingInv'
<1> SUFFICES ASSUME ListingInv, Begin, UNCHANGED backend PROVE ListingInv'
  OBVIOUS
<1>1. PICK prefix \in AskedPrefixes, delimiter \in BOOLEAN, asked \in AskedMax :
          client' = [at |-> "ask", prefix |-> prefix, delimiter |-> delimiter,
                     max |-> PageSize(asked), token |-> NoToken,
                     contents |-> <<>>, prefixes |-> {}]
  BY DEF Begin
<1>2. /\ kept' = files /\ seen' = {} /\ files' = files /\ dirs' = dirs /\ walk' = walk
      /\ trouble' = trouble /\ backend' = backend /\ walk = NoWalk /\ client.at # "walk"
  BY DEF Begin, ListingInv, ListingType
<1>3. /\ client'.at = "ask" /\ client'.token = 0 /\ client'.contents = <<>> /\ client'.prefixes = {}
  BY <1>1 DEF NoToken
<1>4. client' \in Clients
  <2>1. prefix \in Path /\ PageSize(asked) \in Nat \ {0} /\ 0 \in 0..Len(Order)
    BY ListingAssumption, PlaceFacts DEF PageSize, Path
  <2>2. <<>> \in Seq(Keys)
    OBVIOUS
  <2> QED BY <1>1, <2>1, <2>2 DEF Clients, NoToken
<1>5. ListingType'
  BY <1>2, <1>3, <1>4 DEF ListingInv, ListingType
<1>6. WalkInv'
  <2>1. ToSet(<<>>) = {} /\ Len(<<>>) = 0
    BY DEF ToSet
  <2>2. walk' = NoWalk
    BY <1>2
  <2> QED BY <2>1, <2>2 DEF WalkInv, NoWalk, Ascends
<1>7. FilePagesInv'
  <2>1. Wanted(files)' \in SUBSET Keys
    BY <1>5 DEF Wanted, ListingType
  <2>2. \A k : Cardinality(Before(Wanted(files), k))' \in Nat
    BY <2>1, BeforeMore
  <2> QED BY <1>3, <2>2 DEF FilePagesInv
<1>8. BlobPagesInv'
  <2>1. \A k \in Keys : 0 < Place(k)
    BY KeyFacts, PlaceFacts
  <2> QED BY <1>3, <2>1 DEF BlobPagesInv
<1>9. DoneInv'
  BY <1>3 DEF DoneInv
<1>10. RestInv'
  <2>1. ToSet(<<>>) = {} /\ IsInjective(<<>>)
    BY DEF ToSet, IsInjective
  <2> QED BY <1>3, <2>1 DEF RestInv
<1> QED BY <1>5, <1>6, <1>7, <1>8, <1>9, <1>10 DEF ListingInv

LEMMA RequestKeeps == ListingInv /\ Request /\ UNCHANGED backend => ListingInv'
<1> SUFFICES ASSUME ListingInv, Request, UNCHANGED backend PROVE ListingInv'
  OBVIOUS
<1>1. /\ backend = "file" /\ client.at = "ask" /\ client \in Clients
      /\ files' = files /\ dirs' = dirs /\ kept' = kept /\ seen' = seen /\ trouble' = trouble
      /\ backend' = backend
      /\ walk' = [todo |-> <<Root>>, found |-> <<>>] /\ client' = [client EXCEPT !.at = "walk"]
  BY DEF Request, ListingInv, ListingType
<1>2. /\ client'.at = "walk" /\ client'.token = client.token
      /\ client'.prefix = client.prefix /\ client'.delimiter = client.delimiter
      /\ client'.contents = client.contents /\ client'.prefixes = client.prefixes
  BY <1>1 DEF Clients
<1>3. walk'.todo = <<Root>> /\ walk'.found = <<>> /\ ToSet(<<Root>>) = {Root} /\ ToSet(<<>>) = {}
  BY <1>1 DEF ToSet
<1>4. ListingType'
  <2>1. client' \in Clients
    BY <1>1 DEF Clients
  <2>2. <<Root>> \in Seq(Dirs) /\ <<>> \in Seq(Keys)
    BY DEF Dirs
  <2> QED BY <1>1, <1>2, <2>1, <2>2 DEF ListingInv, ListingType
<1>5. WalkInv'
  <2>1. Ascends(<<Root>>, DirOrder) /\ Ascends(<<>>, FileOrder)
    BY DEF Ascends
  <2> QED BY <1>3, <2>1 DEF WalkInv
<1>6. Reach' = Wanted(files)
  <2>1. Reach' = {l \in files : Matches(l)' /\ \E d \in {Root} : Under(l, d)}
    BY <1>1, <1>3 DEF Reach
  <2>2. \A l : Matches(l)' = Matches(l) /\ (Matches(l) <=> IsPrefix(client.prefix, l))
    BY <1>2, SameListing DEF Matches
  <2> QED BY <2>1, <2>2 DEF Wanted, Under
<1>7. FilePagesInv'
  <2> SUFFICES ASSUME "delete" \notin seen
               PROVE  /\ \A k \in kept : Matches(k)' => k \in Reach'
                      /\ \A k \in Keys :
                            Missing(k)' => client.token <= Cardinality(Before(Wanted(files), k))
    BY <1>1, <1>2, <1>6 DEF FilePagesInv
  <2>1. \A k \in kept : Matches(k)' => k \in Wanted(files)
    BY <1>2, SameListing DEF ListingInv, ListingType, Wanted, Matches
  <2>2. \A k : Missing(k)' => Missing(k)
    BY <1>1, <1>2, SameListing
  <2> QED BY <1>1, <1>6, <2>1, <2>2 DEF ListingInv, FilePagesInv
<1>8. BlobPagesInv' /\ DoneInv'
  BY <1>2 DEF BlobPagesInv, DoneInv
<1>9. RestInv'
  <2>1. Wanted(files)' = Wanted(files)
    BY <1>1, <1>2 DEF Wanted
  <2>2. \A k : Passed(k)' = Passed(k)
    BY <1>1, <1>2, <2>1 DEF Passed
  <2>3. {PrefixOf(k) : k \in {k \in Wanted(files) : Grouped(k)}}'
           = {PrefixOf(k) : k \in {k \in Wanted(files) : Grouped(k)}}
    BY <1>1, <1>2, SameListing
  <2> QED BY <1>1, <1>2, <2>1, <2>2, <2>3 DEF ListingInv, RestInv
<1> QED BY <1>4, <1>5, <1>7, <1>8, <1>9 DEF ListingInv

LEMMA DirectoryFailsKeeps == ListingInv /\ DirectoryFails /\ UNCHANGED backend => ListingInv'
<1> SUFFICES ASSUME ListingInv, DirectoryFails, UNCHANGED backend PROVE ListingInv'
  OBVIOUS
<1>1. /\ client.at = "walk" /\ client \in Clients /\ trouble < Trouble /\ trouble' = trouble + 1
      /\ files' = files /\ dirs' = dirs /\ kept' = kept /\ seen' = seen
      /\ backend' = backend /\ backend = "file"
      /\ walk' = NoWalk /\ client' = [client EXCEPT !.at = "ask"]
  BY DEF DirectoryFails, ListingInv, ListingType
<1>2. /\ client'.at = "ask" /\ client'.token = client.token
      /\ client'.prefix = client.prefix /\ client'.delimiter = client.delimiter
      /\ client'.contents = client.contents /\ client'.prefixes = client.prefixes
  BY <1>1 DEF Clients
<1>3. ListingType'
  <2>1. client' \in Clients
    BY <1>1 DEF Clients
  <2>2. NoWalk \in [todo : Seq(Dirs), found : Seq(Keys)]
    BY DEF NoWalk
  <2>3. trouble + 1 \in 0..Trouble
    BY <1>1, ListingAssumption DEF ListingInv, ListingType
  <2> QED BY <1>1, <1>2, <2>1, <2>2, <2>3 DEF ListingInv, ListingType
<1>4. WalkInv'
  <2>1. ToSet(<<>>) = {} /\ Len(<<>>) = 0
    BY DEF ToSet
  <2> QED BY <1>1, <2>1 DEF WalkInv, NoWalk, Ascends
<1>5. Wanted(files)' = Wanted(files) /\ Wanted(files) \in SUBSET Keys
  BY <1>1, <1>2 DEF Wanted, ListingInv, ListingType
<1>6. FilePagesInv'
  <2> SUFFICES ASSUME "delete" \notin seen, NEW k \in Keys, Missing(k)'
               PROVE  client.token <= Cardinality(Before(Wanted(files), k))
    BY <1>1, <1>2, <1>5 DEF FilePagesInv
  <2>1. Missing(k)
    BY <1>1, <1>2, SameListing
  <2>2. client.token <= Cardinality(Before(Reach, k)) /\ client.token \in Nat
    BY <1>1, <2>1 DEF ListingInv, FilePagesInv, Clients
  <2>3. Reach \in SUBSET Wanted(files)
    BY DEF ListingInv, WalkInv, Reach, Wanted, Matches
  <2>4. /\ Cardinality(Before(Reach, k)) \in Nat /\ Cardinality(Before(Wanted(files), k)) \in Nat
        /\ Cardinality(Before(Reach, k)) <= Cardinality(Before(Wanted(files), k))
    BY <1>5, <2>3, BeforeMore
  <2> QED BY <2>2, <2>4
<1>7. BlobPagesInv' /\ DoneInv'
  BY <1>1, <1>2 DEF BlobPagesInv, DoneInv
<1>8. RestInv'
  <2>1. \A k : Passed(k)' = Passed(k)
    BY <1>1, <1>2, <1>5 DEF Passed
  <2>2. {PrefixOf(k) : k \in {k \in Wanted(files) : Grouped(k)}}'
           = {PrefixOf(k) : k \in {k \in Wanted(files) : Grouped(k)}}
    BY <1>1, <1>2, SameListing
  <2> QED BY <1>1, <1>2, <1>5, <2>1, <2>2 DEF ListingInv, RestInv
<1> QED BY <1>3, <1>4, <1>6, <1>7, <1>8 DEF ListingInv

LEMMA CreateKeeps ==
    ListingInv /\ (\E k \in Keys : Create(k)) /\ UNCHANGED backend => ListingInv'
<1> SUFFICES ASSUME ListingInv, NEW new \in Keys, Create(new), UNCHANGED backend PROVE ListingInv'
  OBVIOUS
<1>1. /\ client \in Clients /\ client' = client /\ walk' = walk /\ kept' = kept /\ backend' = backend
      /\ files' = files \cup {new} /\ dirs' = dirs \cup Parents(new)
      /\ seen' = seen \cup {"create"} /\ trouble < Trouble /\ trouble' = trouble + 1
  BY DEF Create, ListingInv, ListingType
<1>2. ListingType'
  <2>1. trouble + 1 \in 0..Trouble
    BY <1>1, ListingAssumption DEF ListingInv, ListingType
  <2>2. files' \subseteq Keys /\ dirs' \subseteq Dirs /\ \A k \in files' : Parents(k) \subseteq dirs'
    BY <1>1 DEF ListingInv, ListingType, Dirs
  <2> QED BY <1>1, <2>1, <2>2 DEF ListingInv, ListingType
<1>3. (\A k : Matches(k)' = Matches(k) /\ (Missing(k)' => Missing(k))) /\ ("delete" \in seen' => "delete" \in seen)
  BY <1>1, SameListing
<1>4. WalkInv'
  BY <1>1, <1>3 DEF ListingInv, WalkInv
<1>5. FilePagesInv'
  <2> SUFFICES ASSUME backend = "file", "delete" \notin seen
               PROVE  /\ client.at = "ask" =>
                            \A k \in Keys : Missing(k)' => client.token <= Cardinality(Before(Wanted(files)', k))
                      /\ client.at = "walk" =>
                            /\ \A k \in kept : Matches(k) => k \in Reach'
                            /\ \A k \in Keys : Missing(k)' => client.token <= Cardinality(Before(Reach', k))
    BY <1>1, <1>3 DEF FilePagesInv
  <2>1. client.token \in Nat
    BY <1>1 DEF Clients
  <2>2. ASSUME NEW k \in Keys, NEW T \in SUBSET Keys, NEW S \in SUBSET T,
               client.token <= Cardinality(Before(S, k))
        PROVE  client.token <= Cardinality(Before(T, k))
    <3>1. /\ Cardinality(Before(S, k)) \in Nat /\ Cardinality(Before(T, k)) \in Nat
          /\ Cardinality(Before(S, k)) <= Cardinality(Before(T, k))
      BY BeforeMore
    <3> QED BY <2>1, <2>2, <3>1
  <2>3. Wanted(files)' \in SUBSET Keys /\ Wanted(files) \in SUBSET Wanted(files)'
    BY <1>1, <1>2 DEF Wanted, ListingType
  <2>4. Reach' \in SUBSET Keys /\ Reach \in SUBSET Reach'
    <3>1. Reach' = ToSet(walk.found)
                      \cup {l \in files' : Matches(l) /\ \E d \in ToSet(walk.todo) : Under(l, d)}
      BY <1>1, <1>3 DEF Reach
    <3>2. ToSet(walk.found) \subseteq Keys /\ files' \subseteq Keys
      BY <1>2, SetOf DEF ListingInv, ListingType
    <3> QED BY <1>1, <3>1, <3>2 DEF Reach
  <2>5. ASSUME client.at = "ask", NEW k \in Keys, Missing(k)'
        PROVE  client.token <= Cardinality(Before(Wanted(files)', k))
    BY <1>3, <2>2, <2>3, <2>5 DEF ListingInv, FilePagesInv
  <2>6. ASSUME client.at = "walk", NEW k \in Keys, Missing(k)'
        PROVE  client.token <= Cardinality(Before(Reach', k))
    BY <1>3, <2>2, <2>4, <2>6 DEF ListingInv, FilePagesInv
  <2>7. ASSUME client.at = "walk", NEW k \in kept, Matches(k) PROVE k \in Reach'
    BY <2>4, <2>7 DEF ListingInv, FilePagesInv
  <2> QED BY <2>5, <2>6, <2>7
<1>6. BlobPagesInv' /\ DoneInv'
  BY <1>1, <1>3 DEF ListingInv, BlobPagesInv, DoneInv
<1>7. RestInv'
  BY <1>1 DEF RestInv
<1> QED BY <1>2, <1>4, <1>5, <1>6, <1>7 DEF ListingInv

LEMMA DeleteKeeps ==
    ListingInv /\ (\E k \in Keys : Delete(k)) /\ UNCHANGED backend => ListingInv'
<1> SUFFICES ASSUME ListingInv, NEW old \in Keys, Delete(old), UNCHANGED backend PROVE ListingInv'
  OBVIOUS
<1>1. /\ client' = client /\ walk' = walk /\ dirs' = dirs /\ backend' = backend
      /\ files' = files \ {old} /\ kept' = kept \ {old}
      /\ seen' = seen \cup {"delete"} /\ trouble < Trouble /\ trouble' = trouble + 1
  BY DEF Delete
<1>2. ListingType'
  <2>1. trouble + 1 \in 0..Trouble
    BY <1>1, ListingAssumption DEF ListingInv, ListingType
  <2> QED BY <1>1, <2>1 DEF ListingInv, ListingType
<1>3. \A k : Matches(k)' = Matches(k) /\ (Missing(k)' => Missing(k))
  BY <1>1, SameListing
<1>4. WalkInv'
  BY <1>1, <1>3 DEF ListingInv, WalkInv
<1>5. FilePagesInv' /\ RestInv'
  BY <1>1 DEF FilePagesInv, RestInv
<1>6. BlobPagesInv' /\ DoneInv'
  BY <1>1, <1>3 DEF ListingInv, BlobPagesInv, DoneInv
<1> QED BY <1>2, <1>4, <1>5, <1>6 DEF ListingInv

\* On the way to what is asked for, each directory could match.
LEMMA WayMatches ==
    ASSUME client \in Clients, NEW k \in Path, Matches(k), NEW e \in Parents(k)
    PROVE  CouldMatch(e)
<1> DEFINE p == client.prefix
<1>1. p \in Path
  BY DEF Clients
<1> HIDE DEF p
<1>2. Len(p) \in Nat /\ Len(k) \in Nat /\ Len(p) <= Len(k) /\ SubSeq(p, 1, Len(p)) = SubSeq(k, 1, Len(p))
  BY <1>1 DEF Matches, IsPrefix, Path, p
<1>3. /\ e \in Path /\ Len(e) \in Nat /\ Len(e) < Len(k) /\ \A i \in 1..Len(e) : e[i] = k[i]
  BY ParentIs DEF Path
<1>4. \A i \in 1..Len(p) : p[i] = k[i]
  <2>1. /\ \A i \in 1..Len(p) : SubSeq(p, 1, Len(p))[i] = p[i]
        /\ \A i \in 1..Len(p) : SubSeq(k, 1, Len(p))[i] = k[i]
    BY <1>1, <1>2 DEF Path
  <2> QED BY <1>2, <2>1
<1>5. ASSUME NEW a \in Path, NEW b \in Path, Len(a) <= Len(b), \A i \in 1..Len(a) : a[i] = b[i]
      PROVE  IsPrefix(a, b)
  <2> DEFINE s == SubSeq(a, 1, Len(a))
             t == SubSeq(b, 1, Len(a))
  <2>1. Len(a) \in Nat /\ Len(b) \in Nat
    BY DEF Path
  <2>2. /\ s \in Path /\ Len(s) = Len(a) /\ \A i \in 1..Len(a) : s[i] = a[i]
        /\ t \in Path /\ Len(t) = Len(a) /\ \A i \in 1..Len(a) : t[i] = b[i]
    BY <1>5, <2>1 DEF Path
  <2> HIDE DEF s, t
  <2>3. s = t
    BY <1>5, <2>2, SamePath
  <2> QED BY <1>5, <2>3 DEF IsPrefix, s, t
<1>6. CASE Len(e) <= Len(p)
  <2>1. \A i \in 1..Len(e) : e[i] = p[i]
    BY <1>2, <1>3, <1>4, <1>6
  <2>2. IsPrefix(e, p)
    BY <1>1, <1>3, <1>5, <1>6, <2>1
  <2> QED BY <2>2 DEF CouldMatch, p
<1>7. CASE Len(p) < Len(e)
  <2>1. \A i \in 1..Len(p) : p[i] = e[i]
    BY <1>2, <1>3, <1>4, <1>7
  <2>2. IsPrefix(p, e)
    BY <1>1, <1>2, <1>3, <1>5, <1>7, <2>1
  <2> QED BY <2>2 DEF CouldMatch, p
<1> QED BY <1>2, <1>3, <1>6, <1>7

LEMMA ReadDirectoryKeeps == ListingInv /\ ReadDirectory /\ UNCHANGED backend => ListingInv'
<1> SUFFICES ASSUME ListingInv, ReadDirectory, UNCHANGED backend PROVE ListingInv'
  OBVIOUS
<1> DEFINE d == Head(walk.todo)
           rest == Tail(walk.todo)
           fs == {k \in files : DirOf(k) = d /\ Matches(k)}
           ds == {e \in dirs \ {Root} : DirOf(e) = d /\ CouldMatch(e)}
<1>1. /\ client.at = "walk" /\ client \in Clients /\ client' = client
      /\ files' = files /\ dirs' = dirs /\ kept' = kept /\ seen' = seen /\ trouble' = trouble
      /\ backend' = backend /\ backend = "file"
      /\ walk.todo # <<>>
      /\ walk' = [todo |-> InOrder(ds) \o rest, found |-> walk.found \o InOrder(fs)]
  BY DEF ReadDirectory, ListingInv, ListingType
<1>2. walk'.todo = InOrder(ds) \o rest /\ walk'.found = walk.found \o InOrder(fs)
  BY <1>1
<1>3. /\ walk.todo \in Seq(Dirs) /\ walk.found \in Seq(Keys) /\ files \subseteq Keys /\ dirs \subseteq Dirs
      /\ \A k \in files : Parents(k) \subseteq dirs
      /\ Ascends(walk.found, FileOrder) /\ Ascends(walk.todo, DirOrder)
      /\ \A k \in ToSet(walk.found), e \in ToSet(walk.todo), l \in Keys : Under(l, e) => Precedes(k, l)
  BY DEF ListingInv, ListingType, WalkInv
<1>4. /\ d \in Dirs /\ rest \in Seq(Dirs) /\ Ascends(rest, DirOrder)
      /\ ToSet(walk.todo) = {d} \cup ToSet(rest) /\ {d} \X ToSet(rest) \subseteq DirOrder
  BY <1>1, <1>3, TailAscends
<1> HIDE DEF d, rest
<1>5. /\ fs \in SUBSET files /\ fs \in SUBSET Keys /\ \A k \in fs : DirOf(k) = d /\ Matches(k)
      /\ ds \in SUBSET (Dirs \ {Root}) /\ \A e \in ds : DirOf(e) = d /\ e # Root /\ e \in Dirs
  BY <1>3
<1>6. /\ \A l \in files : DirOf(l) = d /\ Matches(l) => l \in fs
      /\ \A e \in dirs : e # Root /\ DirOf(e) = d /\ CouldMatch(e) => e \in ds
  OBVIOUS
<1> HIDE DEF fs, ds
<1>7. InOrder(fs) \in Seq(Keys) /\ ToSet(InOrder(fs)) = fs /\ Ascends(InOrder(fs), FileOrder)
  BY <1>5, FilesAscend
<1>8. InOrder(ds) \in Seq(Dirs) /\ ToSet(InOrder(ds)) = ds /\ Ascends(InOrder(ds), DirOrder)
  BY <1>5, DirsAscend
<1>9. walk'.found \in Seq(Keys) /\ ToSet(walk'.found) = ToSet(walk.found) \cup fs
  BY <1>2, <1>3, <1>7, ConcatSet
<1>10. walk'.todo \in Seq(Dirs) /\ ToSet(walk'.todo) = ds \cup ToSet(rest)
  BY <1>2, <1>4, <1>8, ConcatSet
<1>11. \A k \in Keys : k \in Path
  BY KeyFacts
<1>12. ASSUME NEW k \in Keys, NEW e \in ds, Under(k, e) PROVE Under(k, d) /\ DirOf(k) # d
  <2>1. e \in Parents(k) /\ e # Root /\ DirOf(e) = d
    BY <1>5, <1>12 DEF Under
  <2> QED BY <1>11, <2>1, DirIsUnder
<1>13. ASSUME NEW k \in ToSet(walk.found), NEW l \in Keys, Under(l, d) PROVE Precedes(k, l)
  BY <1>3, <1>4, <1>13
<1>14. ASSUME NEW e \in ToSet(rest), NEW k \in Keys, NEW l \in Keys, Under(k, d), Under(l, e)
       PROVE  Precedes(k, l)
  <2>1. <<d, e>> \in DirOrder
    BY <1>4
  <2> QED BY <1>14, <2>1 DEF DirOrder
<1>15. \A k \in fs : Under(k, d)
  BY <1>5, <1>11, DirIsUnder
<1>16. ListingType'
  BY <1>1, <1>9, <1>10 DEF ListingInv, ListingType
<1>17. WalkInv'
  <2>1. Ascends(walk'.found, FileOrder)
    <3>1. ToSet(walk.found) \X fs \subseteq FileOrder
      <4>1. \A k \in ToSet(walk.found), l \in fs : k \in Keys /\ l \in Keys /\ Precedes(k, l)
        BY <1>3, <1>5, <1>13, <1>15, SetOf
      <4> QED BY <4>1 DEF FileOrder
    <3> QED BY <1>2, <1>3, <1>7, <3>1, ConcatAscends
  <2>2. Ascends(walk'.todo, DirOrder)
    <3>1. ds \X ToSet(rest) \subseteq DirOrder
      <4>1. ASSUME NEW e \in ds, NEW f \in ToSet(rest), NEW k \in Keys, NEW l \in Keys,
                   Under(k, e), Under(l, f)
            PROVE  Precedes(k, l)
        BY <1>12, <1>14, <4>1
      <4>2. \A e \in ds, f \in ToSet(rest) : e \in Dirs /\ f \in Dirs
        BY <1>4, <1>5, SetOf
      <4> QED BY <4>1, <4>2 DEF DirOrder
    <3> QED BY <1>2, <1>4, <1>8, <3>1, ConcatAscends
  <2>3. ASSUME NEW k \in ToSet(walk'.found), NEW e \in ToSet(walk'.todo), NEW l \in Keys, Under(l, e)
        PROVE  Precedes(k, l)
    <3>1. CASE k \in ToSet(walk.found) /\ e \in ds
      BY <1>12, <1>13, <2>3, <3>1
    <3>2. CASE k \in ToSet(walk.found) /\ e \in ToSet(rest)
      BY <1>3, <1>4, <2>3, <3>2
    <3>3. CASE k \in fs /\ e \in ds
      BY <1>5, <1>12, <2>3, <3>3 DEF Precedes, Above
    <3>4. CASE k \in fs /\ e \in ToSet(rest)
      BY <1>5, <1>14, <1>15, <2>3, <3>4
    <3> QED BY <1>9, <1>10, <3>1, <3>2, <3>3, <3>4
  <2>4. \A k \in ToSet(walk'.found) : Matches(k)'
    BY <1>1, <1>5, <1>9, SameListing DEF ListingInv, WalkInv
  <2>5. "delete" \notin seen => ToSet(walk'.found) \subseteq files
    BY <1>5, <1>9 DEF ListingInv, WalkInv
  <2> QED BY <1>1, <2>1, <2>2, <2>3, <2>4, <2>5 DEF WalkInv
<1>18. Reach' \in SUBSET Keys /\ Reach \in SUBSET Reach'
  <2>1. Reach' = ToSet(walk'.found)
                    \cup {l \in files : Matches(l) /\ \E e \in ToSet(walk'.todo) : Under(l, e)}
    <3>1. \A l : Matches(l)' = Matches(l)
      BY <1>1, SameListing
    <3> QED BY <1>1, <3>1 DEF Reach
  <2>2. ASSUME NEW l \in files, Matches(l), Under(l, d) PROVE l \in Reach'
    <3>1. CASE DirOf(l) = d
      BY <1>6, <1>9, <2>1, <2>2, <3>1
    <3>2. CASE DirOf(l) # d
      <4>1. l \in Path
        BY <1>3, <1>11
      <4>2. PICK e \in Parents(l) : e # Root /\ DirOf(e) = d
        BY <2>2, <3>2, <4>1, NextDown
      <4>3. e \in ds
        BY <1>1, <1>3, <1>6, <2>2, <4>1, <4>2, WayMatches
      <4> QED BY <1>10, <2>1, <2>2, <4>3 DEF Under
    <3> QED BY <3>1, <3>2
  <2>3. ASSUME NEW l \in Reach PROVE l \in Reach'
    <3>1. CASE l \in ToSet(walk.found)
      BY <1>9, <2>1, <3>1
    <3>2. CASE l \in files /\ Matches(l) /\ Under(l, d)
      BY <2>2, <3>2
    <3>3. ASSUME NEW e \in ToSet(rest), l \in files, Matches(l), Under(l, e) PROVE l \in Reach'
      BY <1>10, <2>1, <3>3
    <3> QED BY <1>4, <3>1, <3>2, <3>3 DEF Reach
  <2>4. ToSet(walk'.found) \subseteq Keys
    BY <1>9, SetOf
  <2> QED BY <1>3, <2>1, <2>3, <2>4
<1>19. FilePagesInv'
  <2> SUFFICES ASSUME "delete" \notin seen
               PROVE  /\ \A k \in kept : Matches(k)' => k \in Reach'
                      /\ \A k \in Keys : Missing(k)' => client.token <= Cardinality(Before(Reach', k))
    BY <1>1 DEF FilePagesInv
  <2>1. ASSUME NEW k \in kept, Matches(k)' PROVE k \in Reach'
    BY <1>1, <1>18, <2>1, SameListing DEF ListingInv, FilePagesInv
  <2>2. ASSUME NEW k \in Keys, Missing(k)' PROVE client.token <= Cardinality(Before(Reach', k))
    <3>1. Missing(k)
      BY <1>1, <2>2, SameListing
    <3>2. client.token <= Cardinality(Before(Reach, k)) /\ client.token \in Nat
      BY <1>1, <3>1 DEF ListingInv, FilePagesInv, Clients
    <3>3. /\ Cardinality(Before(Reach, k)) \in Nat /\ Cardinality(Before(Reach', k)) \in Nat
          /\ Cardinality(Before(Reach, k)) <= Cardinality(Before(Reach', k))
      BY <1>18, BeforeMore
    <3> QED BY <3>2, <3>3
  <2> QED BY <2>1, <2>2
<1>20. BlobPagesInv' /\ DoneInv'
  BY <1>1 DEF BlobPagesInv, DoneInv
<1>21. RestInv'
  <2>1. Wanted(files)' = Wanted(files)
    BY <1>1 DEF Wanted
  <2>2. \A k : Passed(k)' = Passed(k)
    BY <1>1, <2>1 DEF Passed
  <2>3. {PrefixOf(k) : k \in {k \in Wanted(files) : Grouped(k)}}'
           = {PrefixOf(k) : k \in {k \in Wanted(files) : Grouped(k)}}
    BY <1>1, SameListing
  <2> QED BY <1>1, <2>1, <2>2, <2>3 DEF ListingInv, RestInv
<1> QED BY <1>16, <1>17, <1>19, <1>20, <1>21 DEF ListingInv

LEMMA NoWalkInv == walk' = NoWalk => WalkInv'
<1>1. ToSet(<<>>) = {} /\ Len(<<>>) = 0
  BY DEF ToSet
<1> QED BY <1>1 DEF WalkInv, NoWalk, Ascends

\* What a page leaves missing was missing, and is not on the page.
LEMMA StillMissing ==
    ASSUME client \in Clients, NEW page \in Seq(Keys), NEW next \in 0..Len(Order), Return(page, next),
           kept' = kept, NEW k \in Keys, Missing(k)'
    PROVE  Missing(k) /\ k \notin ToSet(page)
<1>1. ~(Listed(k) \/ k \in ToSet(page)) /\ client'.prefix = client.prefix
  BY ReturnFacts DEF Missing
<1> QED BY <1>1 DEF Missing, Matches

\* While nothing changes, pages add up.
LEMMA RestAddsUp ==
    ASSUME client \in Clients, NEW page \in Seq(Keys), NEW next \in 0..Len(Order), Return(page, next),
           files' = files, ToSet(page) \subseteq Wanted(files), IsInjective(page),
           IsInjective(client.contents), ToSet(client.contents) \cap ToSet(page) = {},
           ToSet(client.contents) \subseteq Wanted(files),
           client.prefixes \subseteq {PrefixOf(k) : k \in {k \in Wanted(files) : Grouped(k)}}
    PROVE  /\ IsInjective(client'.contents)
           /\ ToSet(client'.contents) \subseteq Wanted(files)'
           /\ client'.prefixes \subseteq {PrefixOf(k) : k \in {k \in Wanted(files) : Grouped(k)}}'
<1>1. /\ IsInjective(client'.contents)
      /\ ToSet(client'.contents) \subseteq ToSet(client.contents) \cup ToSet(page)
      /\ client'.prefixes = client.prefixes \cup {PrefixOf(k) : k \in {k \in ToSet(page) : Grouped(k)}}
      /\ client'.prefix = client.prefix /\ client'.delimiter = client.delimiter
  BY ReturnFacts
<1>2. Wanted(files)' = Wanted(files)
  BY <1>1 DEF Wanted
<1>3. {PrefixOf(k) : k \in {k \in Wanted(files) : Grouped(k)}}'
         = {PrefixOf(k) : k \in {k \in Wanted(files) : Grouped(k)}}
  BY <1>1, <1>2 DEF PrefixOf, Grouped, Cuts
<1> QED BY <1>1, <1>2, <1>3

LEMMA FilePageKeeps == ListingInv /\ FilePage /\ UNCHANGED backend => ListingInv'
<1> SUFFICES ASSUME ListingInv, FilePage, UNCHANGED backend PROVE ListingInv'
  OBVIOUS
<1> DEFINE all == walk.found
           off == OffsetOf(all)
           end == Min({off + client.max, Len(all)})
           page == SubSeq(all, off + 1, end)
           next == NextToken(all, end)
<1>1. /\ client.at = "walk" /\ client \in Clients /\ walk.todo = <<>> /\ walk' = NoWalk
      /\ files' = files /\ dirs' = dirs /\ kept' = kept /\ seen' = seen /\ trouble' = trouble
      /\ backend' = backend /\ backend = "file"
      /\ Return(page, next)
  BY DEF FilePage, Forget, ListingInv, ListingType
<1>2. /\ client.token \in Nat /\ client.max \in Nat /\ client.max > 0
      /\ client.prefixes \in SUBSET Path
  BY <1>1 DEF Clients
<1>3. /\ all \in Seq(Keys) /\ Len(all) \in Nat /\ DOMAIN all = 1..Len(all)
      /\ ToSet(all) = {all[i] : i \in 1..Len(all)} /\ ToSet(all) \subseteq Keys
      /\ IsInjective(all) /\ Cardinality(ToSet(all)) = Len(all) /\ Len(all) <= Len(Order)
      /\ \A p \in 1..Len(all) : Cardinality(Before(ToSet(all), all[p])) = p - 1
  <2>1. all \in Seq(Keys) /\ Ascends(all, FileOrder)
    BY DEF ListingInv, ListingType, WalkInv
  <2> HIDE DEF all
  <2> QED BY <2>1, Position, SetOf
<1>4. off = IF client.token < Len(all) THEN client.token ELSE 0
  BY DEF OffsetOf
<1>5. next = IF end < Len(all) THEN end ELSE 0
  BY DEF NextToken, NoToken
<1>6. end = IF off + client.max <= Len(all) THEN off + client.max ELSE Len(all)
  <2>1. off + client.max \in Nat
    BY <1>2, <1>4
  <2> HIDE DEF off, all
  <2> QED BY <1>3, <2>1, MinTwo
<1>7. /\ Reach = ToSet(all)
      /\ \A k \in ToSet(all) : Matches(k)
      /\ "delete" \notin seen => ToSet(all) \subseteq Wanted(files)
  <2>1. ToSet(walk.todo) = {}
    BY <1>1 DEF ToSet
  <2>2. Reach = ToSet(all)
    BY <2>1 DEF Reach
  <2>3. \A k \in ToSet(all) : Matches(k)
    BY DEF ListingInv, WalkInv
  <2>4. "delete" \notin seen => ToSet(all) \subseteq files
    BY DEF ListingInv, WalkInv
  <2> HIDE DEF all
  <2> QED BY <2>2, <2>3, <2>4 DEF Wanted, Matches
<1> HIDE DEF all, off, end, next
<1>8. /\ off \in Nat /\ end \in Nat /\ off <= end /\ end <= Len(all)
      /\ client.token < Len(all) => off = client.token
      /\ 0 < Len(all) => off < end
  <2>1. /\ off \in Nat /\ off <= Len(all) /\ (0 < Len(all) => off < Len(all))
        /\ client.token < Len(all) => off = client.token
    BY <1>2, <1>3, <1>4
  <2>2. off + client.max \in Nat /\ off < off + client.max
    BY <1>2, <2>1
  <2>3. CASE off + client.max <= Len(all)
    BY <1>3, <1>6, <2>1, <2>2, <2>3
  <2>4. CASE ~(off + client.max <= Len(all))
    BY <1>3, <1>6, <2>1, <2>4
  <2> QED BY <2>3, <2>4
<1> DEFINE n == end - off
<1>9. /\ n \in Nat /\ page \in Seq(Keys) /\ Len(page) = n /\ DOMAIN page = 1..n
      /\ \A i \in 1..n : page[i] = all[off + i] /\ off + i \in 1..Len(all)
  <2>1. n \in Nat /\ off + n = end
    BY <1>8
  <2>2. page = [i \in 1..n |-> all[off + i]]
    BY <1>3, <1>8 DEF page
  <2> HIDE DEF n, page
  <2>3. \A i \in 1..n : off + i \in 1..Len(all)
    BY <1>3, <1>8, <2>1
  <2>4. \A i \in 1..n : page[i] = all[off + i] /\ page[i] \in Keys
    BY <1>3, <2>2, <2>3
  <2>5. page \in [1..n -> Keys]
    BY <2>2, <2>4
  <2> QED BY <2>1, <2>3, <2>4, <2>5
<1> HIDE DEF page
<1>10. ToSet(page) = {all[i] : i \in off + 1..end}
  <2>1. ToSet(page) = {page[i] : i \in 1..n}
    BY <1>9, SetOf
  <2>2. \A i \in off + 1..end : i - off \in 1..n /\ off + (i - off) = i
    BY <1>8
  <2>3. \A i \in 1..n : off + i \in off + 1..end
    BY <1>8
  <2> HIDE DEF n
  <2>4. ASSUME NEW i \in off + 1..end PROVE all[i] \in ToSet(page)
    BY <1>9, <2>1, <2>2
  <2>5. ASSUME NEW i \in 1..n PROVE page[i] \in {all[j] : j \in off + 1..end}
    BY <1>9, <2>3
  <2> QED BY <2>1, <2>4, <2>5
<1> HIDE DEF n
<1>11. IsInjective(page)
  <2> SUFFICES ASSUME NEW i \in 1..n, NEW j \in 1..n, page[i] = page[j]
               PROVE  i = j
    BY <1>9 DEF IsInjective
  <2>1. off + i \in 1..Len(all) /\ off + j \in 1..Len(all) /\ all[off + i] = all[off + j]
    BY <1>9
  <2>2. off + i = off + j
    BY <1>3, <2>1 DEF IsInjective
  <2> QED BY <1>8, <1>9, <2>2
<1>12. next \in 0..Len(Order)
  BY <1>3, <1>5, <1>8, PlaceFacts
<1>13. /\ client' \in Clients /\ client'.prefix = client.prefix /\ client'.delimiter = client.delimiter
       /\ client'.token = next /\ client'.at = IF next = 0 THEN "done" ELSE "ask"
       /\ ToSet(client'.contents) \subseteq ToSet(client.contents) \cup ToSet(page)
  BY <1>1, <1>9, <1>12, ReturnFacts DEF NoToken
<1>14. ListingType'
  <2>1. NoWalk \in [todo : Seq(Dirs), found : Seq(Keys)]
    BY DEF NoWalk
  <2>2. client.at # "idle" /\ client'.at # "walk" /\ client'.at # "idle"
    BY <1>1, <1>13
  <2> QED BY <1>1, <1>13, <2>1, <2>2 DEF ListingInv, ListingType
<1>15. Wanted(files)' = Wanted(files) /\ Wanted(files) \in SUBSET Keys
  BY <1>1, <1>13 DEF Wanted, ListingInv, ListingType
<1>16. ASSUME "delete" \notin seen, NEW k \in Keys, Missing(k)'
       PROVE  client'.at = "ask" /\ client'.token <= Cardinality(Before(Wanted(files), k))
  <2>1. Missing(k) /\ k \notin ToSet(page)
    BY <1>1, <1>9, <1>12, <1>16, StillMissing
  <2>2. k \in ToSet(all) /\ client.token <= Cardinality(Before(ToSet(all), k))
    BY <1>1, <1>7, <1>16, <2>1 DEF ListingInv, FilePagesInv, Missing
  <2>3. PICK p \in 1..Len(all) : all[p] = k
    BY <1>3, <2>2
  <2>4. Cardinality(Before(ToSet(all), k)) = p - 1 /\ p \in Nat
    BY <1>3, <2>3
  <2>5. client.token <= p - 1
    BY <2>2, <2>4
  <2>6. client.token < Len(all) /\ off = client.token
    BY <1>2, <1>3, <1>8, <2>3, <2>5
  <2>7. ~(p \in off + 1..end)
    BY <1>10, <2>1, <2>3
  <2>8. end < p /\ end < Len(all) /\ end > 0 /\ end <= p - 1
    BY <1>2, <1>3, <1>8, <2>3, <2>5, <2>6, <2>7
  <2>9. next = end /\ client'.at = "ask" /\ client'.token = end
    BY <1>5, <1>8, <1>13, <2>8
  <2>10. /\ Cardinality(Before(ToSet(all), k)) \in Nat /\ Cardinality(Before(Wanted(files), k)) \in Nat
         /\ Cardinality(Before(ToSet(all), k)) <= Cardinality(Before(Wanted(files), k))
    <3>1. ToSet(all) \in SUBSET Wanted(files)
      BY <1>7, <1>16
    <3> QED BY <1>15, <3>1, BeforeMore
  <2>11. client'.token <= Cardinality(Before(Wanted(files), k))
    BY <1>8, <2>4, <2>8, <2>9, <2>10
  <2> QED BY <2>9, <2>11
<1>17. FilePagesInv'
  <2>1. client'.at # "walk"
    BY <1>13
  <2> QED BY <1>1, <1>15, <1>16, <2>1 DEF FilePagesInv
<1>18. BlobPagesInv'
  BY <1>1 DEF BlobPagesInv
<1>19. DoneInv'
  <2> SUFFICES ASSUME client'.at = "done", "delete" \notin seen, NEW k \in Keys, Missing(k)' PROVE FALSE
    BY <1>1 DEF DoneInv
  <2> QED BY <1>16
<1>20. RestInv'
  <2> SUFFICES ASSUME seen = {}
               PROVE  /\ IsInjective(client'.contents)
                      /\ ToSet(client'.contents) \subseteq Wanted(files)'
                      /\ client'.prefixes \subseteq {PrefixOf(k) : k \in {k \in Wanted(files) : Grouped(k)}}'
                      /\ client'.at \in {"ask", "walk"} =>
                            /\ \A k \in ToSet(client'.contents) : Passed(k)'
                            /\ client'.token < Cardinality(Wanted(files))
    BY <1>1, <1>15 DEF RestInv
  <2>1. ToSet(all) = Wanted(files)
    <3>1. kept = files /\ "delete" \notin seen
      BY <1>1 DEF ListingInv, ListingType
    <3>2. \A k \in files : Matches(k) => k \in ToSet(all)
      BY <1>1, <1>7, <3>1 DEF ListingInv, FilePagesInv
    <3> QED BY <1>7, <3>1, <3>2 DEF Wanted, Matches
  <2>2. /\ IsInjective(client.contents) /\ ToSet(client.contents) \subseteq Wanted(files)
        /\ client.prefixes \subseteq {PrefixOf(k) : k \in {k \in Wanted(files) : Grouped(k)}}
        /\ \A k \in ToSet(client.contents) : Cardinality(Before(ToSet(all), k)) < client.token
        /\ client.token = 0 \/ client.token < Len(all)
    <3>1. /\ IsInjective(client.contents) /\ ToSet(client.contents) \subseteq Wanted(files)
          /\ client.prefixes \subseteq {PrefixOf(k) : k \in {k \in Wanted(files) : Grouped(k)}}
          /\ \A k \in ToSet(client.contents) : Passed(k)
          /\ client.token = 0 \/ client.token < Cardinality(Wanted(files))
      BY <1>1 DEF ListingInv, RestInv
    <3>2. \A k : Passed(k) <=> Cardinality(Before(ToSet(all), k)) < client.token
      BY <1>1, <2>1 DEF Passed
    <3>3. Cardinality(Wanted(files)) = Len(all)
      BY <1>3, <2>1
    <3> QED BY <3>1, <3>2, <3>3
  <2>3. off = client.token
    BY <1>2, <1>3, <1>4, <2>2
  <2>4. ASSUME NEW i \in off + 1..end
        PROVE  i \in 1..Len(all) /\ Cardinality(Before(ToSet(all), all[i])) = i - 1
    <3>1. i \in 1..Len(all)
      BY <1>3, <1>8
    <3> QED BY <1>3, <3>1
  <2>5. ToSet(client.contents) \cap ToSet(page) = {}
    <3> SUFFICES ASSUME NEW i \in off + 1..end, all[i] \in ToSet(client.contents) PROVE FALSE
      BY <1>10
    <3>1. i - 1 < client.token
      BY <2>2, <2>4
    <3> QED BY <1>8, <2>3, <3>1
  <2>6. ToSet(page) \subseteq Wanted(files)
    BY <1>3, <1>10, <2>1, <2>4
  <2>7. /\ IsInjective(client'.contents)
        /\ ToSet(client'.contents) \subseteq Wanted(files)'
        /\ client'.prefixes \subseteq {PrefixOf(k) : k \in {k \in Wanted(files) : Grouped(k)}}'
    BY <1>1, <1>9, <1>11, <1>12, <2>2, <2>5, <2>6, RestAddsUp
  <2>8. ASSUME client'.at \in {"ask", "walk"}
        PROVE  /\ \A k \in ToSet(client'.contents) : Passed(k)'
               /\ client'.token < Cardinality(Wanted(files))
    <3>1. client'.token = end /\ end < Len(all)
      BY <1>5, <1>13, <2>8
    <3>2. Cardinality(Wanted(files)) = Len(all)
      BY <1>3, <2>1
    <3>3. ASSUME NEW k \in ToSet(client'.contents) PROVE Cardinality(Before(ToSet(all), k)) < end
      <4>1. CASE k \in ToSet(client.contents)
        <5>1. Cardinality(Before(ToSet(all), k)) < off
          BY <2>2, <2>3, <4>1
        <5>2. k \in Keys /\ Cardinality(Before(ToSet(all), k)) \in Nat
          BY <1>3, <1>15, <2>2, <4>1, BeforeMore
        <5> QED BY <1>8, <5>1, <5>2
      <4>2. CASE k \in ToSet(page)
        <5>1. PICK i \in off + 1..end : all[i] = k
          BY <1>10, <4>2
        <5>2. Cardinality(Before(ToSet(all), k)) = i - 1
          BY <2>4, <5>1
        <5> QED BY <1>8, <5>2
      <4> QED BY <1>13, <4>1, <4>2
    <3>4. \A k : Passed(k)' <=> Cardinality(Before(ToSet(all), k)) < end
      BY <1>1, <1>15, <2>1, <3>1 DEF Passed
    <3> QED BY <3>1, <3>2, <3>3, <3>4
  <2> QED BY <2>7, <2>8
<1> QED BY <1>1, <1>14, <1>17, <1>18, <1>19, <1>20, NoWalkInv DEF ListingInv

LEMMA BlobPageKeeps == ListingInv /\ BlobPage /\ UNCHANGED backend => ListingInv'
<1> SUFFICES ASSUME ListingInv, BlobPage, UNCHANGED backend PROVE ListingInv'
  OBVIOUS
<1> DEFINE S == Behind({k \in files \cup (dirs \ {Root}) : Matches(k)})
           T == S \cap ToSet(Order)
           later == InOrder(S)
           m == Min({client.max, Len(later)})
           items == SubSeq(later, 1, m)
           page == Among(items, files)
           next == Marker(later)
<1>1. /\ client.at = "ask" /\ client \in Clients /\ walk' = walk /\ walk = NoWalk
      /\ files' = files /\ dirs' = dirs /\ kept' = kept /\ seen' = seen /\ trouble' = trouble
      /\ backend' = backend /\ backend = "blob" /\ files \subseteq Keys
      /\ Return(page, next)
  BY DEF BlobPage, Later, Shown, ServicePage, ListingInv, ListingType
<1>2. client.token \in Nat /\ client.max \in Nat /\ client.max > 0
  BY <1>1 DEF Clients
<1>3. /\ later \in Seq(T) /\ Len(later) \in Nat /\ DOMAIN later = 1..Len(later)
      /\ \A i \in 1..Len(later) : later[i] \in T
      /\ \A i, j \in 1..Len(later) : i < j => Place(later[i]) < Place(later[j])
      /\ \A k \in T : \E i \in 1..Len(later) : later[i] = k
  <2>1. /\ later \in Seq(T)
        /\ \A i, j \in 1..Len(later) : i < j => Place(later[i]) < Place(later[j])
        /\ \A k \in T : \E i \in 1..Len(later) : later[i] = k
    BY InOrderFacts
  <2> HIDE DEF later, T
  <2> QED BY <2>1
<1>4. \A k \in T : Matches(k) /\ Place(k) > client.token /\ Place(k) \in 1..Len(Order)
  BY PlaceFacts DEF Behind
<1>5. \A k \in files : Matches(k) /\ Place(k) > client.token => k \in T
  BY <1>1, KeyFacts DEF Behind
<1>6. m = IF client.max <= Len(later) THEN client.max ELSE Len(later)
  <2> HIDE DEF later
  <2> QED BY <1>2, <1>3, MinTwo
<1>7. next = IF Len(later) > client.max THEN Place(later[client.max]) ELSE 0
  BY DEF Marker, NoToken
<1> HIDE DEF T, S, later, m, next
<1>8. m \in Nat /\ m <= Len(later)
  BY <1>2, <1>3, <1>6
<1>9. /\ items \in Seq(T) /\ DOMAIN items = 1..m
      /\ \A i \in 1..m : items[i] = later[i] /\ i \in 1..Len(later)
      /\ ToSet(items) = {items[i] : i \in 1..m}
  <2>1. items = [i \in 1..m |-> later[i]]
    BY <1>3, <1>8
  <2>2. \A i \in 1..m : i \in 1..Len(later)
    BY <1>3, <1>8
  <2> HIDE DEF items
  <2>3. \A i \in 1..m : items[i] = later[i] /\ items[i] \in T
    BY <1>3, <2>1, <2>2
  <2>4. items \in Seq(T) /\ DOMAIN items = 1..m
    BY <1>8, <2>1, <2>3
  <2> QED BY <2>2, <2>3, <2>4 DEF ToSet
<1> HIDE DEF items
<1>10. IsInjective(items)
  <2> SUFFICES ASSUME NEW i \in 1..m, NEW j \in 1..m, items[i] = items[j] PROVE i = j
    BY <1>9 DEF IsInjective
  <2>1. Place(later[i]) = Place(later[j]) /\ i \in 1..Len(later) /\ j \in 1..Len(later)
    BY <1>9
  <2>2. ~(i < j) /\ ~(j < i)
    BY <1>3, <1>4, <2>1
  <2> QED BY <1>8, <2>2
<1>11. /\ page \in Seq(Keys) /\ ToSet(page) = ToSet(items) \cap files /\ IsInjective(page)
  <2>1. page \in Seq(files \cap T) /\ ToSet(page) = ToSet(items) \cap files /\ IsInjective(page)
    BY <1>9, <1>10, AmongSet
  <2> HIDE DEF page
  <2>2. page \in Seq(Keys)
    BY <1>1, <2>1
  <2> QED BY <2>1, <2>2
<1> HIDE DEF page
<1>12. ToSet(page) \subseteq Wanted(files) /\ \A k \in ToSet(page) : Place(k) > client.token
  <2>1. ToSet(items) \subseteq T
    BY <1>3, <1>9
  <2> QED BY <1>4, <1>11, <2>1 DEF Wanted, Matches
<1>13. next \in 0..Len(Order) /\ (Len(later) > client.max => next > 0)
  <2>1. CASE Len(later) > client.max
    <3>1. client.max \in 1..Len(later)
      BY <1>2, <1>3, <2>1
    <3>2. Place(later[client.max]) \in 1..Len(Order)
      BY <1>3, <1>4, <3>1
    <3> QED BY <1>7, <2>1, <3>2, PlaceFacts
  <2>2. CASE ~(Len(later) > client.max)
    BY <1>7, <2>2, PlaceFacts
  <2> QED BY <2>1, <2>2
<1>14. /\ client' \in Clients /\ client'.prefix = client.prefix /\ client'.delimiter = client.delimiter
       /\ client'.token = next /\ client'.at = IF next = 0 THEN "done" ELSE "ask"
       /\ ToSet(client'.contents) \subseteq ToSet(client.contents) \cup ToSet(page)
  BY <1>1, <1>11, <1>13, ReturnFacts DEF NoToken
<1>15. ListingType'
  BY <1>1, <1>14 DEF ListingInv, ListingType
<1>16. ASSUME NEW k \in Keys, Missing(k)' PROVE client'.at = "ask" /\ client'.token < Place(k)
  <2>1. Missing(k) /\ k \notin ToSet(page)
    BY <1>1, <1>11, <1>13, <1>16, StillMissing
  <2>2. client.token < Place(k) /\ k \in files /\ Matches(k)
    BY <1>1, <2>1 DEF ListingInv, BlobPagesInv, ListingType, Missing
  <2>3. k \in T /\ Place(k) \in Nat
    BY <1>2, <1>4, <1>5, <2>2, KeyFacts
  <2>4. PICK i \in 1..Len(later) : later[i] = k
    BY <1>3, <2>3
  <2>5. ~(i \in 1..m)
    BY <1>9, <1>11, <2>1, <2>2, <2>4
  <2>6. Len(later) > client.max /\ client.max \in 1..Len(later) /\ client.max < i
    BY <1>2, <1>3, <1>6, <2>4, <2>5
  <2>7. Place(later[client.max]) < Place(k)
    BY <1>3, <2>4, <2>6
  <2> QED BY <1>7, <1>13, <1>14, <2>6, <2>7
<1>17. FilePagesInv'
  BY <1>1 DEF FilePagesInv
<1>18. BlobPagesInv' /\ DoneInv'
  BY <1>14, <1>16 DEF BlobPagesInv, DoneInv
<1>19. RestInv'
  <2> SUFFICES ASSUME seen = {}
               PROVE  /\ IsInjective(client'.contents)
                      /\ ToSet(client'.contents) \subseteq Wanted(files)'
                      /\ client'.prefixes \subseteq {PrefixOf(k) : k \in {k \in Wanted(files) : Grouped(k)}}'
                      /\ client'.at \in {"ask", "walk"} =>
                            \A k \in ToSet(client'.contents) : Place(k) <= client'.token
    BY <1>1 DEF RestInv, Passed
  <2>1. /\ IsInjective(client.contents) /\ ToSet(client.contents) \subseteq Wanted(files)
        /\ client.prefixes \subseteq {PrefixOf(k) : k \in {k \in Wanted(files) : Grouped(k)}}
        /\ \A k \in ToSet(client.contents) : Place(k) <= client.token
    BY <1>1 DEF ListingInv, RestInv, Passed
  <2>2. \A k \in Wanted(files) : Place(k) \in Nat
    BY <1>1, KeyFacts DEF Wanted
  <2>3. ToSet(client.contents) \cap ToSet(page) = {}
    BY <1>2, <1>12, <2>1, <2>2
  <2>4. /\ IsInjective(client'.contents)
        /\ ToSet(client'.contents) \subseteq Wanted(files)'
        /\ client'.prefixes \subseteq {PrefixOf(k) : k \in {k \in Wanted(files) : Grouped(k)}}'
    BY <1>1, <1>11, <1>12, <1>13, <2>1, <2>3, RestAddsUp
  <2>5. ASSUME client'.at \in {"ask", "walk"}, NEW k \in ToSet(client'.contents)
        PROVE  Place(k) <= client'.token
    <3>1. Len(later) > client.max /\ client'.token = Place(later[client.max])
      BY <1>7, <1>14, <2>5
    <3>2. /\ client.max \in 1..Len(later) /\ client.max = m /\ later[client.max] \in T
          /\ Place(later[client.max]) \in Nat
      <4>1. client.max \in 1..Len(later) /\ client.max = m
        BY <1>2, <1>3, <1>6, <3>1
      <4> QED BY <1>3, <1>4, <4>1
    <3>3. CASE k \in ToSet(client.contents)
      <4>1. Place(k) <= client.token /\ Place(k) \in Nat
        BY <2>1, <2>2, <3>3
      <4>2. client.token < Place(later[client.max])
        BY <1>4, <3>2
      <4> QED BY <1>2, <3>1, <3>2, <4>1, <4>2
    <3>4. CASE k \in ToSet(page)
      <4>1. PICK i \in 1..m : later[i] = k
        BY <1>9, <1>11, <3>4
      <4>2. i \in 1..Len(later) /\ (i < client.max \/ i = client.max)
        BY <1>8, <1>9, <3>2, <4>1
      <4>3. Place(k) \in Nat
        BY <1>3, <1>4, <4>1, <4>2
      <4>4. CASE i < client.max
        BY <1>3, <3>1, <3>2, <4>1, <4>2, <4>3, <4>4
      <4>5. CASE i = client.max
        BY <3>1, <3>2, <4>1, <4>5
      <4> QED BY <4>2, <4>4, <4>5
    <3> QED BY <1>14, <3>3, <3>4
  <2> QED BY <2>4, <2>5
<1>20. WalkInv'
  BY <1>1, NoWalkInv
<1> QED BY <1>15, <1>17, <1>18, <1>19, <1>20 DEF ListingInv

-----------------------------------------------------------------------------
(* The theorems.                                                           *)

LEMMA ListingInvHolds == ListingSpec => []ListingInv
<1>1. ASSUME ListingInit PROVE ListingInv
  <2>1. client = [at |-> "idle", prefix |-> <<>>, delimiter |-> FALSE, max |-> MaxKeys,
                  token |-> NoToken, contents |-> <<>>, prefixes |-> {}]
    BY <1>1 DEF ListingInit
  <2>2. client \in Clients
    <3>1. <<>> \in Path /\ <<>> \in Seq(Keys) /\ 0 \in 0..Len(Order) /\ MaxKeys \in Nat \ {0}
      BY ListingAssumption, PlaceFacts DEF Path
    <3> QED BY <2>1, <3>1 DEF Clients, NoToken
  <2>3. client.at = "idle"
    BY <2>1
  <2>4. /\ walk = NoWalk /\ kept = {} /\ seen = {} /\ trouble = 0 /\ files \subseteq Keys
        /\ backend \in {"blob", "file"} /\ dirs = {Root} \cup UNION {Parents(k) : k \in files}
    BY <1>1 DEF ListingInit
  <2>5. ListingType
    <3>1. dirs \subseteq Dirs /\ \A k \in files : Parents(k) \subseteq dirs
      BY <2>4 DEF Dirs
    <3>2. NoWalk \in [todo : Seq(Dirs), found : Seq(Keys)]
      BY DEF NoWalk
    <3>3. trouble \in 0..Trouble
      BY <2>4, ListingAssumption
    <3> QED BY <2>2, <2>3, <2>4, <3>1, <3>2, <3>3 DEF ListingType
  <2>6. WalkInv
    <3>1. ToSet(<<>>) = {} /\ Len(<<>>) = 0
      BY DEF ToSet
    <3> QED BY <2>4, <3>1 DEF WalkInv, NoWalk, Ascends
  <2>7. FilePagesInv /\ BlobPagesInv /\ DoneInv /\ RestInv
    BY <2>3 DEF FilePagesInv, BlobPagesInv, DoneInv, RestInv
  <2> QED BY <2>5, <2>6, <2>7 DEF ListingInv
<1>2. ASSUME ListingInv, [ListingNext]_listingVars PROVE ListingInv'
  <2>1. CASE Page
    <3>1. (Request \/ ReadDirectory \/ FilePage \/ BlobPage) /\ UNCHANGED backend
      BY <2>1 DEF Page
    <3> QED BY <1>2, <3>1, RequestKeeps, ReadDirectoryKeeps, FilePageKeeps, BlobPageKeeps
  <2>2. CASE (Begin \/ DirectoryFails \/ OthersChange) /\ UNCHANGED backend
    <3>1. CASE Begin
      BY <1>2, <2>2, <3>1, BeginKeeps
    <3>2. CASE DirectoryFails
      BY <1>2, <2>2, <3>2, DirectoryFailsKeeps
    <3>3. CASE OthersChange
      BY <1>2, <2>2, <3>3, CreateKeeps, DeleteKeeps DEF OthersChange
    <3> QED BY <2>2, <3>1, <3>2, <3>3
  <2>3. CASE UNCHANGED listingVars
    <3>1. /\ client' = client /\ walk' = walk /\ files' = files /\ dirs' = dirs /\ kept' = kept
          /\ seen' = seen /\ trouble' = trouble /\ backend' = backend
      BY <2>3 DEF listingVars
    <3>2. \A k : Matches(k)' = Matches(k) /\ (Missing(k)' => Missing(k))
      BY <3>1, SameListing
    <3>3. Wanted(files)' = Wanted(files) /\ Reach' = Reach
      BY <3>1 DEF Wanted, Reach, Matches
    <3>4. ListingType' /\ WalkInv'
      BY <1>2, <3>1, <3>2 DEF ListingInv, ListingType, WalkInv
    <3>5. FilePagesInv' /\ BlobPagesInv' /\ DoneInv'
      BY <1>2, <3>1, <3>2, <3>3 DEF ListingInv, FilePagesInv, BlobPagesInv, DoneInv
    <3>6. RestInv'
      <4>1. \A k : Passed(k)' = Passed(k)
        BY <3>1, <3>3 DEF Passed
      <4>2. {PrefixOf(k) : k \in {k \in Wanted(files) : Grouped(k)}}'
               = {PrefixOf(k) : k \in {k \in Wanted(files) : Grouped(k)}}
        BY <3>1, SameListing
      <4> QED BY <1>2, <3>1, <3>3, <4>1, <4>2 DEF ListingInv, RestInv
    <3> QED BY <3>4, <3>5, <3>6 DEF ListingInv
  <2> QED BY <1>2, <2>1, <2>2, <2>3 DEF ListingNext
<1> QED BY <1>1, <1>2, PTL DEF ListingSpec

\* KeptIsListed for all keys, orders, prefixes and page sizes: what was there all the
\* while is listed, whatever is created meanwhile.
THEOREM ListingsKeep == ListingSpec => []KeptIsListed
<1>1. ASSUME ListingInv PROVE KeptIsListed
  <2> SUFFICES ASSUME client.at = "done", backend = "blob" \/ "delete" \notin seen PROVE Lists(kept)
    BY DEF KeptIsListed
  <2>1. client \in Clients /\ kept \subseteq Keys
    BY <1>1 DEF ListingInv, ListingType
  <2>2. \A k \in kept : Matches(k) => Listed(k)
    BY <1>1, <2>1 DEF ListingInv, DoneInv, Missing
  <2> QED BY <2>1, <2>2, ListsIsListed
<1> QED BY <1>1, ListingInvHolds, PTL

\* AtRestIsExact for all keys, orders, prefixes and page sizes: at rest the pages of a
\* listing hold each object and each group that is asked for, each object once.
THEOREM ListingsAtRest == ListingSpec => []AtRestIsExact
<1>1. ASSUME ListingInv PROVE AtRestIsExact
  <2>1. ListingType
    BY <1>1 DEF ListingInv
  <2>2. Range(client.contents) = ToSet(client.contents) /\ ToSet(client.contents) \subseteq Keys
    <3>1. client.contents \in Seq(Keys)
      BY <2>1 DEF ListingType, Clients
    <3>2. ToSet(client.contents) \subseteq Keys
      BY <3>1, SetOf
    <3> QED BY <3>2 DEF Range, ToSet
  <2>3. ListingTypeOK
    <3>1. client.at \in {"idle", "ask", "walk", "done"} /\ client.token \in 0..Len(Order)
      BY <2>1 DEF ListingType, Clients
    <3> QED BY <2>1, <2>2, <3>1 DEF ListingType, ListingTypeOK
  <2>4. ASSUME client.at = "done", seen = {}
        PROVE  /\ Lists(files)
               /\ IsInjective(client.contents)
               /\ Range(client.contents) \subseteq Wanted(files)
               /\ client.prefixes \subseteq {PrefixOf(k) : k \in {k \in Wanted(files) : Grouped(k)}}
    <3>1. kept = files /\ client \in Clients /\ files \subseteq Keys
      BY <2>1, <2>4 DEF ListingType
    <3>2. \A k \in files : Matches(k) => Listed(k)
      BY <1>1, <2>4, <3>1 DEF ListingInv, DoneInv, Missing
    <3>3. Lists(files)
      BY <3>1, <3>2, ListsIsListed
    <3>4. /\ IsInjective(client.contents) /\ ToSet(client.contents) \subseteq Wanted(files)
          /\ client.prefixes \subseteq {PrefixOf(k) : k \in {k \in Wanted(files) : Grouped(k)}}
      BY <1>1, <2>4 DEF ListingInv, RestInv
    <3> QED BY <2>2, <3>3, <3>4
  <2> QED BY <2>3, <2>4 DEF AtRestIsExact
<1> QED BY <1>1, ListingInvHolds, PTL

=============================================================================
