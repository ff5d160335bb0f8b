---------------------------- MODULE RangeRequest ----------------------------
(***************************************************************************)
(* Range requests with the cache on (internal/handler/handler.go):         *)
(* parseSingleRange, handleRangeGetWithCache over blocks of the object,    *)
(* prefetchBlocks, and GetObjectRange of the Azure Blob backend, for one   *)
(* object that other requests overwrite and delete.                        *)
(*                                                                         *)
(* A byte is <<v, p>>: position p of the content of write v.  A request    *)
(* that falls back to the full GET is over for this module.                *)
(***************************************************************************)
EXTENDS Integers, Sequences, FiniteSets

CONSTANTS
    Requests,       \* requests in progress, each with its prefetch goroutine
    MaxVersion,     \* bound: writes of the object
    SizeOf,         \* the size of the content of each write
    Headers,        \* the Range headers that are sent
    blockSize,      \* 8 MB in the code
    PrefetchCount   \* 3 in the code

\* A start is what stands before the first dash, and has no sign.
ASSUME RangeAssumption ==
    /\ MaxVersion \in Nat \ {0} /\ SizeOf \in [1..MaxVersion -> Nat \ {0}]
    /\ blockSize \in Nat \ {0} /\ PrefetchCount \in Nat
    /\ Headers \subseteq [kind : {"suffix", "from", "span"}, a : Int, b : Int]
    /\ \A h \in Headers : h.kind # "suffix" => h.a \in Nat

VARIABLES
    stored,     \* the write that the backend holds, or Absent
    writes,     \* how many there were
    files,      \* the block files on disk
    entries,    \* the blocks that have a cache entry
    copying,    \* the Put that holds the cache's mutex, or NoCopy
    req         \* the requests

cacheVars == <<files, entries, copying>>
vars == <<stored, writes, cacheVars, req>>

-----------------------------------------------------------------------------
Absent == 0
NoCopy == <<>>

\* What lies beyond a slice's length: bytes that no read has filled.
Junk == <<Absent, 0>>

Bytes(v, from, n) == [i \in 1..n |-> <<v, from + i - 1>>]

Least(a, b) == IF a < b THEN a ELSE b

\* parseSingleRange: a header is a suffix length, an open start, or both ends.
Suffix(n) == [kind |-> "suffix", a |-> n, b |-> n]
From(s) == [kind |-> "from", a |-> s, b |-> s]
Span(s, e) == [kind |-> "span", a |-> s, b |-> e]

\* Mutated form: the end of a range is not clamped to the object.
lastOfUnclamped(h, size) == IF h.kind = "span" THEN h.b ELSE size - 1

firstOf(h, size) == IF h.kind = "suffix" THEN size - Least(h.a, size) ELSE h.a
lastOf(h, size) == IF h.kind = "span" THEN Least(h.b, size - 1) ELSE size - 1

invalid(h, size) ==
    \/ h.kind = "suffix" /\ h.a <= 0
    \/ h.kind = "span" /\ h.b < h.a
    \/ firstOf(h, size) >= size

\* Block blk of an object of the given size, first and last byte.
blockKey(blk, size) == <<blk * blockSize, Least((blk + 1) * blockSize, size) - 1>>

-----------------------------------------------------------------------------
Idle == [at |-> "idle", header |-> Suffix(0), size |-> 0, blk |-> 0,
         count |-> 0, data |-> <<>>, from |-> 0, short |-> FALSE]

Init ==
    /\ stored = 1
    /\ writes = 1
    /\ files = [k \in {} |-> <<>>]
    /\ entries = {}
    /\ copying = NoCopy
    /\ req = [r \in Requests |-> Idle]

At(r, where) == req[r].at = where
Becomes(r, local) == req' = [req EXCEPT ![r] = local]
Returns(r) == Becomes(r, Idle)

Copies(r) == copying # NoCopy /\ copying[1] = r

Start(r) == firstOf(req[r].header, req[r].size)
End(r) == lastOf(req[r].header, req[r].size)
StartBlock(r) == Start(r) \div blockSize
EndBlock(r) == End(r) \div blockSize
Key(r) == blockKey(req[r].blk, req[r].size)

\* HEAD discovers the size, and the range is parsed against it.
HeadAndParse(r) ==
    /\ At(r, "idle")
    /\ stored # Absent
    /\ \E h \in Headers :
          LET local == [Idle EXCEPT !.header = h, !.size = SizeOf[stored]]
          IN  IF invalid(h, SizeOf[stored])
              THEN Becomes(r, [local EXCEPT !.at = "rejected"])
              ELSE Becomes(r, [local EXCEPT !.at = "lookup",
                                            !.blk = firstOf(h, SizeOf[stored]) \div blockSize])
    /\ UNCHANGED <<stored, writes, cacheVars>>

\* There is no object: the request is left to the full GET.
FallsBack(r) ==
    /\ At(r, "idle")
    /\ stored = Absent
    /\ UNCHANGED vars

-----------------------------------------------------------------------------
(* The cache, block by block.                                              *)

\* GetObjectFromCache of the current block.
Lookup(r) ==
    /\ At(r, "lookup")
    /\ copying = NoCopy
    /\ IF Key(r) \in entries
       THEN Becomes(r, [req[r] EXCEPT !.at = "read"])
       ELSE Becomes(r, [req[r] EXCEPT !.at = "props", !.data = <<>>])
    /\ UNCHANGED <<stored, writes, cacheVars>>

\* Mutated forms: the slice starts with the chunk, or its end is exclusive.
PayloadFromChunk(local, first, last) == SubSeq(local.data, 1, last - first + 1)
PayloadShort(local, first, last) ==
    SubSeq(local.data, first - local.from + 1, last - local.from)

\* What is served: data[offset:payloadEnd], the end clamped to the data.
Payload(local, first, last) ==
    SubSeq(local.data, first - local.from + 1, last - local.from + 1)

\* The slice of the response panics when the data ends before its offset.
Panics(local, first) == first - local.from > Len(local.data)

\* All blocks are there: answer from their concatenation.
Respond(r, local) ==
    LET first == firstOf(local.header, local.size)
        last == Least(lastOf(local.header, local.size), local.from + Len(local.data) - 1)
    IN  IF Panics(local, first) THEN Returns(r)
        ELSE Becomes(r, [local EXCEPT !.at = "answered", !.from = first,
                                      !.data = Payload(local, first, last)])

\* os.ReadFile of the block's path, the mutex released; while a Put writes the
\* file, any part of it.
Read(r) ==
    /\ At(r, "read")
    /\ Key(r) \in DOMAIN files
    /\ \E n \in 0..Len(files[Key(r)]) :
          LET got == SubSeq(files[Key(r)], 1, n)
              local == [req[r] EXCEPT !.data = @ \o got,
                                      !.from = StartBlock(r) * blockSize,
                                      !.short = @ \/ n < Key(r)[2] - Key(r)[1] + 1]
          IN  /\ n = Len(files[Key(r)]) \/ (copying # NoCopy /\ copying[2] = Key(r))
              /\ IF req[r].blk < EndBlock(r)
                 THEN Becomes(r, [local EXCEPT !.at = "lookup", !.blk = @ + 1])
                 ELSE Respond(r, local)
    /\ UNCHANGED <<stored, writes, cacheVars>>

ReadFails(r) ==
    /\ At(r, "read")
    /\ Key(r) \notin DOMAIN files
    /\ Becomes(r, [req[r] EXCEPT !.at = "props", !.data = <<>>])
    /\ UNCHANGED <<stored, writes, cacheVars>>

-----------------------------------------------------------------------------
(* GetObjectRange, for the whole chunk or for one block to prefetch.       *)

Prefetching(r) == req[r].at \in {"pf_lookup", "pf_props", "pf_download", "pf_cache"}

chunkStart(r) == IF Prefetching(r) THEN Key(r)[1] ELSE StartBlock(r) * blockSize
chunkEnd(r) == IF Prefetching(r) THEN Key(r)[2]
               ELSE Least((EndBlock(r) + 1) * blockSize, req[r].size) - 1

\* The properties: the length is clamped to what the object has now.
RangeProperties(r) ==
    /\ At(r, "props") \/ At(r, "pf_props")
    /\ stored # Absent
    /\ chunkStart(r) < SizeOf[stored]
    /\ Becomes(r, [req[r] EXCEPT !.at = IF Prefetching(r) THEN "pf_download" ELSE "download",
                   !.count = Least(chunkEnd(r) - chunkStart(r) + 1,
                                   SizeOf[stored] - chunkStart(r))])
    /\ UNCHANGED <<stored, writes, cacheVars>>

\* The download, of what the object is by then, read to its end.
RangeDownload(r) ==
    /\ At(r, "download") \/ At(r, "pf_download")
    /\ stored # Absent
    /\ chunkStart(r) < SizeOf[stored]
    /\ Becomes(r, [req[r] EXCEPT !.at = IF Prefetching(r) THEN "pf_cache" ELSE "cache",
                   !.blk = IF Prefetching(r) THEN @ ELSE StartBlock(r),
                   !.from = chunkStart(r), !.short = FALSE,
                   !.data = Bytes(stored, chunkStart(r),
                                  Least(req[r].count, SizeOf[stored] - chunkStart(r)))])
    /\ UNCHANGED <<stored, writes, cacheVars>>

\* Either call fails or the body cannot be read: fall back, or stop prefetching,
\* which also happens when the request's context is cancelled.
RangeFails(r) ==
    /\ req[r].at \in {"props", "download", "pf_props", "pf_download"}
    /\ Returns(r)
    /\ UNCHANGED <<stored, writes, cacheVars>>

-----------------------------------------------------------------------------
(* CacheObject of a block.                                                 *)

\* data[bufOffset:bufOffset+bLen], as far as the data goes.
Slice(r) == SubSeq(req[r].data, Key(r)[1] - req[r].from + 1,
                   Least(Key(r)[2] - req[r].from + 1, Len(req[r].data)))

\* The slice may exceed the length, up to the capacity that ReadAll left: the
\* rest is Junk.  Prefetching caches what it read as it is.
Block(r) ==
    IF Prefetching(r) THEN req[r].data
    ELSE Slice(r) \o [i \in 1..(Key(r)[2] - Key(r)[1] + 1 - Len(Slice(r))) |-> Junk]

\* Put: the old entry goes and the file is opened.
CacheBegin(r) ==
    /\ At(r, "cache") \/ At(r, "pf_cache")
    /\ copying = NoCopy
    /\ copying' = <<r, Key(r)>>
    /\ entries' = entries \ {Key(r)}
    /\ files' = [k \in DOMAIN files \cup {Key(r)} |-> IF k = Key(r) THEN Block(r) ELSE files[k]]
    /\ UNCHANGED <<stored, writes, req>>

\* The next block, the response after the last, or the next prefetch.
NextBlock(r) ==
    IF Prefetching(r) THEN Becomes(r, [req[r] EXCEPT !.at = "pf_lookup", !.blk = @ + 1])
    ELSE IF req[r].blk < EndBlock(r) THEN Becomes(r, [req[r] EXCEPT !.blk = @ + 1])
    ELSE Respond(r, req[r])

CacheEnd(r) ==
    /\ Copies(r)
    /\ copying' = NoCopy
    /\ entries' = entries \cup {Key(r)}
    /\ NextBlock(r)
    /\ UNCHANGED <<stored, writes, files>>

\* An error is a warning, but the end of prefetching.
GoesOn(r) == IF Prefetching(r) THEN Returns(r) ELSE NextBlock(r)

\* The write fails, and a part of the file stays without an entry.
CacheWriteFails(r) ==
    /\ Copies(r)
    /\ copying' = NoCopy
    /\ \E n \in 0..Len(files[Key(r)]) : files' = [files EXCEPT ![Key(r)] = SubSeq(@, 1, n)]
    /\ GoesOn(r)
    /\ UNCHANGED <<stored, writes, entries>>

\* The temporary file fails, or the block is larger than the whole cache.
CacheRefuses(r) ==
    /\ At(r, "cache") \/ At(r, "pf_cache")
    /\ ~Copies(r)
    /\ GoesOn(r)
    /\ UNCHANGED <<stored, writes, cacheVars>>

\* The data is shorter than the block and its capacity too: the slice panics,
\* and the recovery middleware ends the request.
SlicePanics(r) ==
    /\ At(r, "cache")
    /\ ~Copies(r)
    /\ Key(r)[2] - req[r].from + 1 > Len(req[r].data)
    /\ Returns(r)
    /\ UNCHANGED <<stored, writes, cacheVars>>

-----------------------------------------------------------------------------
(* prefetchBlocks, after the response or the rejection.                    *)

Finish(r) ==
    /\ At(r, "answered") \/ At(r, "rejected")
    /\ IF At(r, "rejected") THEN Returns(r)
       ELSE Becomes(r, [Idle EXCEPT !.at = "pf_lookup", !.header = req[r].header,
                                    !.size = req[r].size, !.blk = EndBlock(r) + 1])
    /\ UNCHANGED <<stored, writes, cacheVars>>

\* The end of the object or of the count, a block that is there, or a fetch.
Prefetch(r) ==
    /\ At(r, "pf_lookup")
    /\ copying = NoCopy
    /\ IF req[r].blk > EndBlock(r) + PrefetchCount \/ req[r].blk * blockSize >= req[r].size
       THEN Returns(r)
       ELSE IF Key(r) \in entries THEN Becomes(r, [req[r] EXCEPT !.blk = @ + 1])
       ELSE Becomes(r, [req[r] EXCEPT !.at = "pf_props"])
    /\ UNCHANGED <<stored, writes, cacheVars>>

-----------------------------------------------------------------------------
\* An entry is evicted or expires.
Lose(k) ==
    /\ copying = NoCopy
    /\ k \in entries
    /\ entries' = entries \ {k}
    /\ files' = [j \in DOMAIN files \ {k} |-> files[j]]
    /\ UNCHANGED <<stored, writes, copying, req>>

\* PUT, copy, DELETE or completion: PutObjectHandler and the others invalidate
\* the key of the whole object and none of its blocks.
Overwrite ==
    /\ \/ writes < MaxVersion /\ writes' = writes + 1 /\ stored' = writes + 1
       \/ stored # Absent /\ stored' = Absent /\ UNCHANGED writes
    /\ UNCHANGED <<cacheVars, req>>

Next ==
    \/ \E r \in Requests :
          \/ HeadAndParse(r) \/ FallsBack(r) \/ Lookup(r) \/ Read(r) \/ ReadFails(r)
          \/ RangeProperties(r) \/ RangeDownload(r) \/ RangeFails(r)
          \/ CacheBegin(r) \/ CacheEnd(r) \/ SlicePanics(r)
          \/ CacheWriteFails(r) \/ CacheRefuses(r)
          \/ Finish(r) \/ Prefetch(r)
    \/ \E k \in entries : Lose(k)
    \/ Overwrite

Spec == Init /\ [][Next]_vars

-----------------------------------------------------------------------------
Byte == {Junk} \cup UNION {{v} \X (0..SizeOf[v] - 1) : v \in 1..MaxVersion}

\* Every variable keeps its type: in particular nobody reads past the end of a
\* content, and only the request whose Put is running has a file half written.
TypeOK ==
    /\ writes \in 1..MaxVersion /\ stored \in 0..writes
    /\ entries \subseteq DOMAIN files
    /\ \A k \in DOMAIN files : k \in Nat \X Nat /\ files[k] \in Seq(Byte)
    /\ copying # NoCopy =>
          /\ copying \in Requests \X (Nat \X Nat)
          /\ At(copying[1], "cache") \/ At(copying[1], "pf_cache")
    /\ req \in [Requests ->
          [at : {"idle", "rejected", "lookup", "read", "props", "download", "cache", "answered",
                 "pf_lookup", "pf_props", "pf_download", "pf_cache"},
           header : Headers \cup {Suffix(0)}, size : Nat, blk : Nat, count : Nat,
           data : Seq(Byte), from : Nat, short : BOOLEAN]]

\* The positions that a header asks for, of an object of the given size.
Asked(h, size) ==
    {p \in 0..size - 1 : CASE h.kind = "suffix" -> p >= size - h.a
                           [] h.kind = "from" -> p >= h.a
                           [] h.kind = "span" -> h.a <= p /\ p <= h.b}

\* parseSingleRange gives exactly the bytes that the header selects, and rejects
\* exactly the headers that select none: for every form of header with numbers from
\* zero to beyond the end of the object, whatever that is when nobody is at it.
RangeSelectsAsked ==
    stored # Absent /\ (\A r \in Requests : At(r, "idle")) =>
        LET size == SizeOf[stored]
            numbers == 0..size + 2
        IN  \A h \in {Suffix(n) : n \in numbers} \cup {From(n) : n \in numbers}
                        \cup {Span(s, e) : s, e \in numbers} :
                IF invalid(h, size) THEN Asked(h, size) = {}
                ELSE /\ Asked(h, size) # {}
                     /\ firstOf(h, size)..lastOf(h, size) = Asked(h, size)

\* Whoever cached it and whatever the object was at the time, a block's file
\* has each byte at its place: block boundaries and slices of fetched chunks
\* agree between requests that saw different sizes.
BlocksPlaced ==
    \A k \in DOMAIN files :
        /\ Len(files[k]) <= k[2] - k[1] + 1
        /\ \A i \in 1..Len(files[k]) : files[k][i] = Junk \/ files[k][i][2] = k[1] + i - 1

\* Every byte of a response stands for its offset in the range, or was never
\* read, unless one of the blocks that it was put together from was short.
PayloadPlaced ==
    \A r \in Requests :
        At(r, "answered") /\ ~req[r].short
            => \A i \in 1..Len(req[r].data) :
                  req[r].data[i] = Junk \/ req[r].data[i][2] = Start(r) + i - 1

\* Bytes stay in their place, on disk and in responses.
BytesPlaced == TypeOK /\ BlocksPlaced /\ PayloadPlaced

\* As long as nobody changes the object, a response is exactly the range, from
\* whatever mix of cached, evicted, prefetched and fetched blocks it comes.
RangeExact ==
    \A r \in Requests :
        At(r, "answered") /\ ~req[r].short /\ writes = 1 /\ stored = 1
            => req[r].data = Bytes(1, Start(r), End(r) - Start(r) + 1)

=============================================================================
