------------------------------ MODULE LRUCache ------------------------------
(***************************************************************************)
(* The on-disk object cache: LRUCache (internal/cache/lru.go) and the      *)
(* CacheManager calls that wrap it (internal/cache/manager.go).            *)
(*                                                                         *)
(* Every LRUCache method runs under lc.mutex.  What does not run under it  *)
(* is the caller's os.ReadFile of the path that Get returned, so Put, its  *)
(* eviction loop and the cleanup pass are split into the steps whose disk  *)
(* effects such a reader can see; mutex says who is inside.                *)
(*                                                                         *)
(* Time is relative: age is the time since CreatedAt and idle the time     *)
(* since LastUsedAt, both saturating one unit past the TTL, so that        *)
(* now.After(ExpiresAt) is age > TTL and runs need no bound on the clock.  *)
(***************************************************************************)
EXTENDS Integers, Sequences, FiniteSets, FiniteSetsExt

CONSTANTS
    Keys,       \* cache keys ("bucket/key"), as sequences of characters
    Values,     \* object contents
    SafeChars,  \* the characters escapeName keeps: letters, digits and "."
    Underscore, \* what it writes for every other character
    Readers,    \* goroutines that call ReadCachedObject
    SizeOf,     \* SizeOf[v]: the length in bytes of content v
    MaxBytes,   \* lc.maxBytes
    TTL,        \* lc.ttl, in clock units
    NoFile,     \* the name does not exist on disk
    Partial     \* the file was truncated and its content is still being written

\* Mutated form: no character is recognised as safe.
escapeNameKeepsNone(k) == [i \in DOMAIN k |-> Underscore]

\* escapeName: the file name of key k inside cacheDir.
escapeName(k) == [i \in DOMAIN k |-> IF k[i] \in SafeChars THEN k[i] ELSE Underscore]

Files == {escapeName(k) : k \in Keys}

Whole == Keys \X Values     \* a complete file: content v, written for key k

ASSUME SizesAssumption == SizeOf \in [Values -> Nat]
ASSUME LimitsAssumption == MaxBytes \in Nat /\ TTL \in Nat \ {0}
ASSUME FilesAssumption == NoFile # Partial /\ {NoFile, Partial} \cap Whole = {}

VARIABLES
    entries,        \* lc.entries: function from the cached keys to their CacheEntry
    lruList,        \* lc.lruList: keys, least recently used first
    currentBytes,   \* lc.currentBytes
    disk,           \* what each name in cacheDir holds
    mutex,          \* lc.mutex: free, or the method that holds it and where it is
    put,            \* the key and content the running Put is storing, else NoFile
    toRemove,       \* expired keys the running cleanup pass still has to remove
    cleaner,        \* control point of cleanupExpiredEntries
    tick,           \* a tick waits in cleanupTicker.C
    closed,         \* Close has run
    reader          \* what each reader holds: key, stage and what it read

cacheVars == <<entries, lruList, currentBytes>>
cleanerVars == <<toRemove, cleaner, tick, closed>>
vars == <<cacheVars, disk, mutex, put, cleanerVars, reader>>

-----------------------------------------------------------------------------
Contents == Whole \cup {NoFile, Partial}
Entry == [size : Nat, age : 0..TTL + 1, idle : 0..TTL + 1]
ReaderState == [at : {"idle", "path", "done"}, key : Keys, data : Contents]

Expired(k) == entries[k].age > TTL

\* The list element of key k: where it stands in lruList.
Pos(k) == CHOOSE i \in 1..Len(lruList) : lruList[i] = k

\* lruList without the element of k.
Without(k) == SubSeq(lruList, 1, Pos(k) - 1) \o SubSeq(lruList, Pos(k) + 1, Len(lruList))

Forget(k) == [j \in DOMAIN entries \ {k} |-> entries[j]]

\* Mutated form: the bytes of the entry are not given back.
UnlinkKeepsBytes(k) == lruList' = Without(k) /\ entries' = Forget(k) /\ UNCHANGED currentBytes

\* removeEntry: out of the list and the map, its bytes given back, its file
\* deleted (the error of os.Remove is ignored).
Unlink(k) ==
    /\ lruList' = Without(k)
    /\ entries' = Forget(k)
    /\ currentBytes' = currentBytes - entries[k].size

removeEntry(k) ==
    /\ Unlink(k)
    /\ disk' = [disk EXCEPT ![escapeName(k)] = NoFile]

-----------------------------------------------------------------------------
(***************************************************************************)
(* NewLRUCache wipes the directory, so nothing survives from an earlier    *)
(* run, and starts the cleanup goroutine.                                  *)
(***************************************************************************)
Init ==
    /\ entries = [k \in {} |-> 0]
    /\ lruList = <<>>
    /\ currentBytes = 0
    /\ disk = [f \in Files |-> NoFile]
    /\ mutex = "free"
    /\ put = NoFile
    /\ toRemove = {}
    /\ cleaner = "loop"
    /\ tick = FALSE
    /\ closed = FALSE
    /\ \E k \in Keys : reader = [r \in Readers |-> [at |-> "idle", key |-> k, data |-> NoFile]]

-----------------------------------------------------------------------------
(* Get, as the first half of ReadCachedObject by reader r.  A miss leaves  *)
(* no trace when the key is absent.                                        *)

CanGet(r, k) == mutex = "free" /\ reader[r].at # "path" /\ k \in DOMAIN entries

\* The entry has expired, or its file is gone: the entry is removed, a miss.
GetStale(r, k) ==
    /\ CanGet(r, k)
    /\ Expired(k) \/ disk[escapeName(k)] = NoFile
    /\ removeEntry(k)
    /\ UNCHANGED <<mutex, put, cleanerVars, reader>>

\* Mutated form: a hit leaves the element where it is.
MoveToBackSkipped(k) == UNCHANGED lruList

MoveToBack(k) == lruList' = Append(Without(k), k)

\* A hit: the element moves to the back and the caller gets the path.
GetHit(r, k) ==
    /\ CanGet(r, k)
    /\ ~Expired(k)
    /\ disk[escapeName(k)] # NoFile
    /\ entries' = [entries EXCEPT ![k].idle = 0]
    /\ MoveToBack(k)
    /\ reader' = [reader EXCEPT ![r] = [at |-> "path", key |-> k, data |-> NoFile]]
    /\ UNCHANGED <<currentBytes, disk, mutex, put, cleanerVars>>

\* os.ReadFile of the path, after the mutex was released.
ReadFile(r) ==
    /\ reader[r].at = "path"
    /\ reader' = [reader EXCEPT ![r].at = "done", ![r].data = disk[escapeName(reader[r].key)]]
    /\ UNCHANGED <<cacheVars, disk, mutex, put, cleanerVars>>

-----------------------------------------------------------------------------
(* Put, reached through CacheObject.  A source that cannot be read and a   *)
(* content larger than the whole cache are rejected with nothing changed.  *)

\* Mutated form: nothing is rejected.
AcceptsAll(v) == TRUE

Accepts(v) == SizeOf[v] <= MaxBytes

\* Lock, remove the old entry, and let os.WriteFile create or truncate the file.
PutBegin(k, v) ==
    /\ mutex = "free"
    /\ Accepts(v)
    /\ IF k \in DOMAIN entries THEN Unlink(k) ELSE UNCHANGED cacheVars
    /\ disk' = [disk EXCEPT ![escapeName(k)] = Partial]
    /\ put' = <<k, v>>
    /\ mutex' = "copying"
    /\ UNCHANGED <<cleanerVars, reader>>

\* The destination cannot be opened: Put returns an error, the old entry is gone.
PutOpenFails(k, v) ==
    /\ mutex = "free"
    /\ Accepts(v)
    /\ k \in DOMAIN entries
    /\ removeEntry(k)
    /\ UNCHANGED <<mutex, put, cleanerVars, reader>>

\* The write fails half way: the truncated file stays behind without an entry.
PutWriteFails ==
    /\ mutex = "copying"
    /\ mutex' = "free"
    /\ put' = NoFile
    /\ UNCHANGED <<cacheVars, disk, cleanerVars, reader>>

NewEntry(v) == [size |-> SizeOf[v], age |-> 0, idle |-> 0]

\* The copy is complete: PushBack, map, bytes.  The eviction loop follows.
PutInsert ==
    /\ mutex = "copying"
    /\ LET k == put[1]
           new == NewEntry(put[2])
       IN  /\ entries' = [j \in DOMAIN entries \cup {k} |-> IF j = k THEN new ELSE entries[j]]
           /\ lruList' = Append(lruList, k)
           /\ disk' = [disk EXCEPT ![escapeName(k)] = put]
    /\ currentBytes' = currentBytes + SizeOf[put[2]]
    /\ mutex' = "evicting"
    /\ UNCHANGED <<put, cleanerVars, reader>>

\* Mutated form: the limit is missed by one byte.
OverLimitByOne == currentBytes > MaxBytes + 1 /\ Len(lruList) > 0

\* The condition of Put's eviction loop.
OverLimit == currentBytes > MaxBytes /\ Len(lruList) > 0

\* One turn of the loop: the front of the list goes.
EvictOldest ==
    /\ mutex = "evicting"
    /\ OverLimit
    /\ removeEntry(lruList[1])
    /\ UNCHANGED <<mutex, put, cleanerVars, reader>>

\* The loop ends and the deferred Unlock runs.
PutReturn ==
    /\ mutex = "evicting"
    /\ ~OverLimit
    /\ mutex' = "free"
    /\ put' = NoFile
    /\ UNCHANGED <<cacheVars, disk, cleanerVars, reader>>

-----------------------------------------------------------------------------
\* Delete (InvalidateObject): an os.Remove error other than "not exist" returns
\* before anything changes, which is a stuttering step here.
Delete(k) ==
    /\ mutex = "free"
    /\ k \in DOMAIN entries
    /\ removeEntry(k)
    /\ UNCHANGED <<mutex, put, cleanerVars, reader>>

\* Clear (InvalidateAll), every file removed.
Clear ==
    /\ mutex = "free"
    /\ entries' = [k \in {} |-> 0]
    /\ lruList' = <<>>
    /\ currentBytes' = 0
    /\ disk' = [f \in Files |-> IF \E k \in DOMAIN entries : escapeName(k) = f
                                THEN NoFile ELSE disk[f]]
    /\ UNCHANGED <<mutex, put, cleanerVars, reader>>

\* Clear, returning early at a file it cannot remove: the files the map
\* iteration met before are gone and the structures keep all their entries.
ClearFails ==
    /\ mutex = "free"
    /\ \E met \in SUBSET {escapeName(k) : k \in DOMAIN entries} :
          /\ \E k \in DOMAIN entries : escapeName(k) \notin met /\ disk[escapeName(k)] # NoFile
          /\ disk' = [f \in Files |-> IF f \in met THEN NoFile ELSE disk[f]]
    /\ UNCHANGED <<cacheVars, mutex, put, cleanerVars, reader>>

-----------------------------------------------------------------------------
(* cleanupExpiredEntries and its ticker.  The goroutine is either parked   *)
(* in its select, on its way back to it ("loop"), holding a tick and       *)
(* waiting for the mutex ("ticked"), inside a pass, or gone.               *)

\* Mutated form: Close leaves the ticker on.
TickerFiresAlways ==
    /\ cleaner # "stopped"
    /\ ~tick
    /\ IF cleaner = "parked"
       THEN cleaner' = "ticked" /\ UNCHANGED tick
       ELSE tick' = TRUE /\ UNCHANGED cleaner
    /\ UNCHANGED <<cacheVars, disk, mutex, put, toRemove, closed, reader>>

\* The runtime delivers a tick: to the parked goroutine, or to the channel.
TickerFires ==
    /\ ~closed
    /\ cleaner # "stopped"
    /\ ~tick
    /\ IF cleaner = "parked"
       THEN cleaner' = "ticked" /\ UNCHANGED tick
       ELSE tick' = TRUE /\ UNCHANGED cleaner
    /\ UNCHANGED <<cacheVars, disk, mutex, put, toRemove, closed, reader>>

\* The goroutine reaches its select and takes the waiting tick or parks.
Select ==
    /\ cleaner = "loop"
    /\ cleaner' = IF tick THEN "ticked" ELSE "parked"
    /\ tick' = FALSE
    /\ UNCHANGED <<cacheVars, disk, mutex, put, toRemove, closed, reader>>

\* Mutated form: the pass does not take the lock.
CleanupBeginUnlocked ==
    /\ cleaner = "ticked"
    /\ mutex = "free"
    /\ cleaner' = "pass"
    /\ toRemove' = {k \in DOMAIN entries : Expired(k)}
    /\ UNCHANGED <<cacheVars, disk, mutex, put, tick, closed, reader>>

\* Lock, and collect what has expired by now.
CleanupBegin ==
    /\ cleaner = "ticked"
    /\ mutex = "free"
    /\ mutex' = "cleaning"
    /\ cleaner' = "pass"
    /\ toRemove' = {k \in DOMAIN entries : Expired(k)}
    /\ UNCHANGED <<cacheVars, disk, put, tick, closed, reader>>

\* Remove one collected entry, in list order.
CleanupRemove ==
    /\ cleaner = "pass"
    /\ \E k \in toRemove :
          /\ \A j \in toRemove : Pos(k) <= Pos(j)
          /\ removeEntry(k)
          /\ toRemove' = toRemove \ {k}
    /\ UNCHANGED <<mutex, put, cleaner, tick, closed, reader>>

\* Mutated form: the goroutine returns after its first pass.
CleanupEndReturns ==
    /\ cleaner = "pass"
    /\ toRemove = {}
    /\ mutex' = "free"
    /\ cleaner' = "stopped"
    /\ UNCHANGED <<cacheVars, disk, put, toRemove, tick, closed, reader>>

\* The pass is over: Unlock, and back to the select.
CleanupEnd ==
    /\ cleaner = "pass"
    /\ toRemove = {}
    /\ mutex' = "free"
    /\ cleaner' = "loop"
    /\ UNCHANGED <<cacheVars, disk, put, toRemove, tick, closed, reader>>

\* Close: stop the ticker (which discards an undelivered tick) and offer the
\* stop signal without waiting; only a parked goroutine takes it.
Close ==
    /\ ~closed
    /\ closed' = TRUE
    /\ tick' = FALSE
    /\ cleaner' = IF cleaner = "parked" THEN "stopped" ELSE cleaner
    /\ UNCHANGED <<cacheVars, disk, mutex, put, toRemove, reader>>

-----------------------------------------------------------------------------
Older(a) == IF a > TTL THEN a ELSE a + 1

\* Time passes, whoever holds the mutex.
ClockTick ==
    /\ entries' = [k \in DOMAIN entries |->
                    [entries[k] EXCEPT !.age = Older(@), !.idle = Older(@)]]
    /\ UNCHANGED <<lruList, currentBytes, disk, mutex, put, cleanerVars, reader>>

Read(r) == ReadFile(r) \/ \E k \in Keys : GetStale(r, k) \/ GetHit(r, k)

Mutate == \/ \E k \in Keys, v \in Values : PutBegin(k, v) \/ PutOpenFails(k, v)
          \/ \E k \in Keys : Delete(k)
          \/ Clear
          \/ ClearFails

PutStep == PutWriteFails \/ PutInsert \/ EvictOldest \/ PutReturn

CleanupStep == Select \/ CleanupBegin \/ CleanupRemove \/ CleanupEnd

Next ==
    \/ \E r \in Readers : Read(r)
    \/ Mutate
    \/ PutStep
    \/ TickerFires
    \/ CleanupStep
    \/ Close
    \/ ClockTick

Spec == Init /\ [][Next]_vars

-----------------------------------------------------------------------------
(* Fairness: the runtime keeps firing a ticker that is not stopped, runnable *)
(* goroutines run, and sync.Mutex does not starve a waiter (its starvation  *)
(* mode), hence strong fairness for the one step that waits for the lock.   *)
Fairness ==
    /\ WF_vars(TickerFires)
    /\ WF_vars(Select)
    /\ SF_vars(CleanupBegin)
    /\ WF_vars(CleanupRemove)
    /\ WF_vars(CleanupEnd)
    /\ WF_vars(PutStep)

FairSpec == Spec /\ Fairness

-----------------------------------------------------------------------------
(* Properties.                                                             *)

\* Every variable keeps its type; currentBytes in particular never goes
\* negative, whatever order removals happen in.
TypeOK ==
    /\ DOMAIN entries \subseteq Keys
    /\ entries \in [DOMAIN entries -> Entry]
    /\ lruList \in Seq(Keys)
    /\ currentBytes \in Nat
    /\ disk \in [Files -> Contents]
    /\ mutex \in {"free", "copying", "evicting", "cleaning"}
    /\ IF mutex \in {"copying", "evicting"} THEN put \in Whole ELSE put = NoFile
    /\ toRemove \subseteq Keys
    /\ cleaner \in {"loop", "parked", "ticked", "pass", "stopped"}
    /\ tick \in BOOLEAN /\ closed \in BOOLEAN
    /\ reader \in [Readers -> ReaderState]

\* lc.lruList and lc.entries describe the same cache: each cached key has
\* exactly one list element and no element is left for a key that was removed.
ListMatchesMap ==
    /\ \A i, j \in 1..Len(lruList) : lruList[i] = lruList[j] => i = j
    /\ {lruList[i] : i \in 1..Len(lruList)} = DOMAIN entries

\* lc.currentBytes is the sum of the sizes of the entries, after any sequence
\* of replacements, evictions, expirations, deletions and failed copies.
BytesAccounted ==
    currentBytes = MapThenSumSet(LAMBDA k : entries[k].size, DOMAIN entries)

\* The size limit holds whenever no Put is inside its eviction loop.
BytesWithinLimit == mutex # "evicting" => currentBytes <= MaxBytes

\* The list is ordered by LastUsedAt: what stands in front of an element has
\* been idle at least as long.  This is what makes evicting the front LRU.
RecencyOrder ==
    \A i, j \in 1..Len(lruList) :
        i < j => entries[lruList[i]].idle >= entries[lruList[j]].idle

\* The file of an entry is the whole content stored for that very key, of the
\* recorded size, unless a failed Clear removed it.  Needs distinct file names.
EntryFileIntact ==
    \A k \in DOMAIN entries :
        disk[escapeName(k)] \in {NoFile} \cup {<<k, v>> : v \in {w \in Values : SizeOf[w] = entries[k].size}}

\* The four places in which the cache is kept agree, whatever operations and
\* failing disk calls went before.  Needs distinct file names.
CacheConsistent == ListMatchesMap /\ BytesAccounted /\ EntryFileIntact

\* A reader that holds a path never reads another object's bytes, although it
\* opens the file after the mutex was released.  Needs distinct file names.
ReadsOwnObject ==
    \A r \in Readers :
        reader[r].at = "done" => reader[r].data \in {NoFile, Partial} \cup ({reader[r].key} \X Values)

\* What a cleanup pass has collected stays cached and expired until the pass
\* removes it: no Get or Put can renew or drop an element under its hands.
CollectedStayExpired ==
    cleaner = "pass" => \A k \in toRemove : k \in DOMAIN entries /\ Expired(k)

\* The eviction loop of a Put never evicts the object that Put stored.
PutKeepsItsKey == [][mutex = "evicting" => put[1] \in DOMAIN entries']_vars

\* lru.go, cleanupExpiredEntries: "even if entries are never accessed again,
\* they are eventually cleaned up" (while the cache is open).
ExpiredEventuallyRemoved ==
    \A k \in Keys : (k \in DOMAIN entries /\ Expired(k)) ~> (k \notin DOMAIN entries \/ ~Expired(k) \/ closed)

\* Close does not wait for the cleanup goroutine, and its signal is lost unless that
\* goroutine is in its select; still the goroutine ends or parks for good, at most one
\* pass later, and keeps the mutex from nobody.
CloseQuiets == closed ~> [](cleaner \in {"parked", "stopped"} /\ mutex # "cleaning")

=============================================================================
