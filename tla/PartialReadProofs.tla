-------------------------- MODULE PartialReadProofs ---------------------------
(***************************************************************************)
(* Proofs about the two readers that put a stream together from parts of   *)
(* an object.                                                              *)
(*                                                                         *)
(* ConcurrentReader, for every number of workers, blob size and chunk      *)
(* size: every step is one of OrderedStream, or leaves what the consumer   *)
(* sees alone.  That a delivered chunk continues the stream follows from   *)
(* where the loop is in the blob.  That the end comes after the last byte  *)
(* needs that no chunk is lost on its way: as long as nothing is called    *)
(* off, a chunk that was dispatched is with a worker, in the results, in   *)
(* the map, or delivered, so that when the results are closed and empty    *)
(* the loop has got to the last one.                                       *)
(*                                                                         *)
(* RangeRequest, for every block size, every header and every sequence of  *)
(* sizes that the object has: each byte on disk, in flight and in a        *)
(* response stands at its place, and as long as there was one write each   *)
(* is the byte of that write.  The invariant follows a request through its *)
(* stages: how much it has read so far, what chunk it asks for, and that   *)
(* its blocks lie within that chunk.                                       *)
(***************************************************************************)
EXTENDS ConcurrentReader, RangeRequest, FiniteSetTheorems, SequenceTheorems, TLAPS

-----------------------------------------------------------------------------
(* ConcurrentReader: chunks and bytes.                                     *)

LEMMA Mono ==
    ASSUME NEW a \in Nat, NEW b \in Nat, NEW c \in Nat, a <= b
    PROVE  a * c <= b * c
  OBVIOUS

\* The last chunk starts within the blob, and ends at its end or after.
LEMMA NumChunks ==
    /\ numChunks \in Nat \ {0}
    /\ (numChunks - 1) * chunkSize < blobSize
    /\ blobSize <= numChunks * chunkSize
  BY ReaderAssumption DEF numChunks

\* How many bytes the first k chunks are.
Reached(k) == IF k * chunkSize < blobSize THEN k * chunkSize ELSE blobSize

LEMMA ReachedFacts ==
    /\ Reached(0) = 0
    /\ Reached(numChunks) = blobSize
    /\ \A k \in Nat : Reached(k) \in 0..blobSize
    /\ \A k \in Chunks : /\ k \in Nat /\ k + 1 \in Nat
                         /\ Reached(k) = k * chunkSize /\ k * chunkSize < blobSize
                         /\ Reached(k) < Reached(k + 1)
                         /\ Reached(k + 1) = IF k * chunkSize + chunkSize > blobSize
                                             THEN blobSize ELSE k * chunkSize + chunkSize
<1> USE ReaderAssumption
<1>1. ASSUME NEW k \in Nat PROVE k * chunkSize \in Nat /\ (k + 1) * chunkSize = k * chunkSize + chunkSize
  OBVIOUS
<1>2. Reached(0) = 0
  BY DEF Reached
<1>3. Reached(numChunks) = blobSize
  BY <1>1, NumChunks DEF Reached
<1>4. ASSUME NEW k \in Nat PROVE Reached(k) \in 0..blobSize
  BY <1>1 DEF Reached
<1>5. ASSUME NEW k \in Chunks
      PROVE  /\ k \in Nat /\ k + 1 \in Nat
             /\ Reached(k) = k * chunkSize /\ k * chunkSize < blobSize
             /\ Reached(k) < Reached(k + 1)
             /\ Reached(k + 1) = IF k * chunkSize + chunkSize > blobSize
                                 THEN blobSize ELSE k * chunkSize + chunkSize
  <2>1. k \in Nat /\ numChunks - 1 \in Nat /\ k <= numChunks - 1
    BY NumChunks DEF Chunks
  <2>2. k * chunkSize <= (numChunks - 1) * chunkSize
    BY <2>1, Mono
  <2>3. k * chunkSize < blobSize
    BY <1>1, <2>1, <2>2, NumChunks
  <2> QED BY <1>1, <2>1, <2>3 DEF Reached
<1> QED BY <1>2, <1>3, <1>4, <1>5

\* The first n bytes of the blob.
Upto(n) == SubSeq(Stream!Content, 1, n)

LEMMA UptoFacts ==
    /\ Upto(0) = <<>>
    /\ Upto(blobSize) = Stream!Content
    /\ \A n \in 0..blobSize : /\ Upto(n) = [i \in 1..n |-> i - 1]
                              /\ Upto(n) \in Seq(Nat) /\ Len(Upto(n)) = n
<1> USE ReaderAssumption
<1>1. Stream!Content \in Seq(Nat) /\ Len(Stream!Content) = blobSize
  BY DEF Stream!Content
<1>2. ASSUME NEW n \in 0..blobSize
      PROVE  /\ Upto(n) = [i \in 1..n |-> i - 1]
             /\ Upto(n) \in Seq(Nat) /\ Len(Upto(n)) = n
  <2>1. Upto(n) = [i \in 1..n |-> Stream!Content[i]]
    BY <1>1 DEF Upto
  <2>2. \A i \in 1..n : Stream!Content[i] = i - 1 /\ i - 1 \in Nat
    BY DEF Stream!Content
  <2> QED BY <2>1, <2>2
<1>3. Upto(0) = <<>>
  BY <1>2
<1>4. Upto(blobSize) = Stream!Content
  BY <1>2 DEF Stream!Content
<1> QED BY <1>2, <1>3, <1>4

LEMMA Joined ==
    ASSUME NEW s \in Seq(Nat), NEW t \in Seq(Nat), NEW u \in Seq(Nat),
           Len(u) = Len(s) + Len(t),
           \A i \in 1..Len(s) : s[i] = u[i],
           \A i \in 1..Len(t) : t[i] = u[Len(s) + i]
    PROVE  s \o t = u
<1>1. s \o t \in Seq(Nat) /\ Len(s \o t) = Len(u)
  OBVIOUS
<1>2. ASSUME NEW i \in 1..Len(u) PROVE (s \o t)[i] = u[i]
  <2>1. CASE i <= Len(s)
    BY <2>1
  <2>2. CASE i > Len(s)
    <3>1. i - Len(s) \in 1..Len(t) /\ Len(s) + (i - Len(s)) = i
      BY <2>2
    <3>2. (s \o t)[i] = t[i - Len(s)]
      BY <2>2
    <3> QED BY <3>1, <3>2
  <2> QED BY <2>1, <2>2
<1> QED BY <1>1, <1>2, SeqEqual

\* A chunk continues what is before it.
LEMMA Continues ==
    ASSUME NEW k \in Chunks
    PROVE  Upto(Reached(k)) \o ChunkData(k) = Upto(Reached(k + 1))
<1> DEFINE a == Reached(k)
           b == Reached(k + 1)
           c == b - a
<1>1. /\ a \in 0..blobSize /\ b \in 0..blobSize /\ a < b /\ a = k * chunkSize
      /\ b = IF a + chunkSize > blobSize THEN blobSize ELSE a + chunkSize
      /\ a \in Nat /\ b \in Nat /\ c \in Nat /\ b = a + c
  BY ReachedFacts
<1>2. ChunkData(k) = [i \in 1..c |-> a + i - 1]
  <2>1. c = IF k * chunkSize + chunkSize > blobSize THEN blobSize - k * chunkSize ELSE chunkSize
    BY <1>1, ReaderAssumption
  <2> QED BY <1>1, <2>1 DEF ChunkData
<1> HIDE DEF a, b, c
<1>3. Upto(a) \in Seq(Nat) /\ Len(Upto(a)) = a /\ \A i \in 1..a : Upto(a)[i] = i - 1
  BY <1>1, UptoFacts
<1>4. ChunkData(k) \in Seq(Nat) /\ Len(ChunkData(k)) = c /\ \A i \in 1..c : ChunkData(k)[i] = a + i - 1
  BY <1>1, <1>2
<1>5. Upto(b) \in Seq(Nat) /\ Len(Upto(b)) = b /\ \A i \in 1..b : Upto(b)[i] = i - 1
  BY <1>1, UptoFacts
<1>6. \A i \in 1..a : i \in 1..b
  BY <1>1
<1>7. \A i \in 1..c : a + i \in 1..b /\ (a + i) - 1 = a + i - 1
  BY <1>1
<1>8. Upto(a) \o ChunkData(k) = Upto(b)
  <2>1. Len(Upto(b)) = Len(Upto(a)) + Len(ChunkData(k))
    BY <1>1, <1>3, <1>4, <1>5
  <2>2. \A i \in 1..Len(Upto(a)) : Upto(a)[i] = Upto(b)[i]
    BY <1>3, <1>5, <1>6
  <2>3. \A i \in 1..Len(ChunkData(k)) : ChunkData(k)[i] = Upto(b)[Len(Upto(a)) + i]
    BY <1>3, <1>4, <1>5, <1>7
  <2> QED BY <1>3, <1>4, <1>5, <2>1, <2>2, <2>3, Joined
<1> QED BY <1>8 DEF a, b

-----------------------------------------------------------------------------
(* The invariant.                                                          *)

Results == [id : Chunks, failed : BOOLEAN]
Places == {"receive", "check", "download", "send", "exited"}

ReaderType ==
    /\ feeder \in 0..numChunks + 1
    /\ worker \in [Workers -> [at : Places, id : Chunks, failed : BOOLEAN]]
    /\ results \in Seq(Results) /\ Len(results) <= Cardinality(Workers)
    /\ closed \in BOOLEAN /\ cancelled \in BOOLEAN /\ hungUp \in BOOLEAN
    /\ buffer \subseteq Chunks
    /\ nextChunkID \in 0..numChunks
    /\ loop \in {"receive", "write", "returned"}
    /\ end \in {"open", "eof", "error"}

\* The loop writes when the next chunk is there, and has ended the pipe only when it
\* has returned.
LoopInv ==
    /\ loop = "write" => nextChunkID \in buffer
    /\ loop = "receive" => nextChunkID \notin buffer
    /\ loop # "returned" => end = "open"
    /\ hungUp => cancelled

OutInv == out = Upto(Reached(nextChunkID))

Queued(c) == \E i \in 1..Len(results) : results[i].id = c
Held(c) == \E w \in Workers : worker[w].at \in {"check", "download", "send"} /\ worker[w].id = c

\* As long as nothing is called off, no chunk is lost, and nobody goes home before the
\* last job.
NothingLost ==
    ~cancelled =>
        /\ \A c \in Chunks : c < feeder =>
              c < nextChunkID \/ c \in buffer \/ Queued(c) \/ Held(c)
        /\ (\E w \in Workers : worker[w].at = "exited") => JobsClosed

ClosedLast == closed => \A w \in Workers : worker[w].at = "exited"

ReaderInv == ReaderType /\ LoopInv /\ OutInv /\ NothingLost /\ ClosedLast

LEMMA ReaderInvInit == ReaderInit => ReaderInv
<1> SUFFICES ASSUME ReaderInit PROVE ReaderInv
  OBVIOUS
<1> USE NumChunks DEF ReaderInit
<1>1. 0 \in Chunks
  BY DEF Chunks
<1>2. ReaderType
  <2>1. worker \in [Workers -> [at : Places, id : Chunks, failed : BOOLEAN]]
    BY <1>1 DEF Places
  <2>2. feeder \in 0..numChunks + 1 /\ nextChunkID \in 0..numChunks
    OBVIOUS
  <2>3. results \in Seq(Results) /\ Len(results) <= Cardinality(Workers)
    BY FS_CardinalityType, ReaderAssumption
  <2>4. /\ buffer \subseteq Chunks
        /\ closed \in BOOLEAN /\ cancelled \in BOOLEAN /\ hungUp \in BOOLEAN
        /\ loop \in {"receive", "write", "returned"}
        /\ end \in {"open", "eof", "error"}
    OBVIOUS
  <2> QED BY <2>1, <2>2, <2>3, <2>4 DEF ReaderType
<1>3. LoopInv /\ NothingLost /\ ClosedLast
  BY DEF LoopInv, NothingLost, ClosedLast
<1>4. OutInv
  BY ReachedFacts, UptoFacts DEF OutInv
<1> QED BY <1>2, <1>3, <1>4 DEF ReaderInv

\* A chunk that is not lost stays where it is, or moves on.
LEMMA StillThere ==
    ASSUME NothingLost, cancelled \in BOOLEAN, feeder' = feeder,
           ~cancelled' => ~cancelled,
           \A c \in Chunks : c < nextChunkID \/ c \in buffer \/ Queued(c) \/ Held(c) =>
               c < nextChunkID' \/ c \in buffer' \/ Queued(c)' \/ Held(c)',
           \A w \in Workers : worker'[w].at = "exited" => worker[w].at = "exited"
    PROVE  NothingLost'
  BY DEF NothingLost, JobsClosed

LEMMA WorkerStep ==
    ASSUME ReaderInv, NEW w \in Workers,
           Dispatch(w) \/ Check(w) \/ Download(w) \/ Send(w) \/ Exit(w)
    PROVE  ReaderInv'
<1> USE NumChunks DEF ReaderInv
<1>1. UNCHANGED <<closed, loopVars, cancelled, hungUp, out, end>>
  BY DEF Dispatch, Check, Download, Send, Exit
<1>2. ~closed
  BY DEF ClosedLast, Dispatch, Check, Download, Send, Exit, Moves, GivesUpSending
<1>3. LoopInv' /\ OutInv' /\ ClosedLast'
  BY <1>1, <1>2 DEF LoopInv, OutInv, ClosedLast, loopVars
<1>4. CASE Dispatch(w)
  <2>1. /\ feeder < numChunks /\ feeder' = feeder + 1 /\ results' = results
        /\ worker' = [worker EXCEPT ![w] = [at |-> "check", id |-> feeder, failed |-> FALSE]]
        /\ worker[w].at = "receive"
    BY <1>4 DEF Dispatch
  <2>2. feeder \in Chunks
    BY <2>1 DEF ReaderType, Chunks
  <2>3. ReaderType'
    BY <1>1, <2>1, <2>2 DEF ReaderType, Places, loopVars
  <2>4. \A v \in Workers : v # w => worker'[v] = worker[v]
    BY <2>1 DEF ReaderType
  <2>5. worker'[w].at = "check" /\ worker'[w].id = feeder
    BY <2>1 DEF ReaderType
  <2>6. ASSUME NEW c \in Chunks, c < feeder', ~cancelled
        PROVE  c < nextChunkID' \/ c \in buffer' \/ Queued(c)' \/ Held(c)'
    <3>1. CASE c = feeder
      BY <2>5, <3>1 DEF Held
    <3>2. CASE c # feeder
      <4>1. c < feeder
        BY <2>1, <2>2, <2>6, <3>2 DEF Chunks
      <4>2. c < nextChunkID \/ c \in buffer \/ Queued(c) \/ Held(c)
        BY <2>6, <4>1 DEF NothingLost
      <4>3. Held(c) => Held(c)'
        BY <2>1, <2>4 DEF Held
      <4> QED BY <1>1, <2>1, <4>2, <4>3 DEF Queued, loopVars
    <3> QED BY <3>1, <3>2
  <2>7. NothingLost'
    <3>1. ~cancelled => ~JobsClosed
      BY <2>1 DEF JobsClosed, ReaderType
    <3>2. ~cancelled => \A v \in Workers : worker'[v].at # "exited"
      BY <2>4, <2>5, <3>1 DEF NothingLost
    <3> QED BY <1>1, <2>6, <3>2 DEF NothingLost
  <2> QED BY <1>3, <2>3, <2>7
<1>5. CASE Check(w) \/ Download(w)
  <2>1. PICK place \in Places, f \in BOOLEAN :
           /\ worker' = [worker EXCEPT ![w] = [at |-> place, id |-> worker[w].id, failed |-> f]]
           /\ place \in {"download", "send"} \/ (place = "exited" /\ cancelled)
    BY <1>5 DEF Check, Download, Moves, ReaderType, Places
  <2>2. feeder' = feeder /\ results' = results
    BY <1>5 DEF Check, Download
  <2>3. ReaderType'
    BY <1>1, <2>1, <2>2 DEF ReaderType, Places, loopVars
  <2>4. \A v \in Workers : v # w => worker'[v] = worker[v]
    BY <2>1 DEF ReaderType
  <2>5. worker'[w].at = place /\ worker'[w].id = worker[w].id
    BY <2>1 DEF ReaderType
  <2>6. NothingLost'
    <3>1. CASE cancelled
      BY <1>1, <3>1 DEF NothingLost
    <3>2. CASE ~cancelled
      <4>1. \A c : Held(c) => Held(c)'
        BY <2>1, <2>4, <2>5, <3>2 DEF Held
      <4>2. \A v \in Workers : worker'[v].at = "exited" => worker[v].at = "exited"
        BY <2>1, <2>4, <2>5, <3>2
      <4> QED BY <1>1, <2>2, <4>1, <4>2, StillThere DEF Queued, loopVars, ReaderType
    <3> QED BY <3>1, <3>2
  <2> QED BY <1>3, <2>3, <2>6
<1>6. CASE Send(w)
  <2> DEFINE x == [id |-> worker[w].id, failed |-> worker[w].failed]
  <2>1. /\ results' = Append(results, x) /\ feeder' = feeder
        /\ worker' = [worker EXCEPT ![w].at = "receive"] /\ worker[w].at = "send"
    BY <1>6 DEF Send, Moves
  <2>2. x \in Results /\ x.id = worker[w].id
    BY DEF ReaderType, Results
  <2> HIDE DEF x
  <2>3. /\ results' \in Seq(Results) /\ Len(results') = Len(results) + 1
        /\ \A i \in 1..Len(results) : results'[i] = results[i]
        /\ results'[Len(results) + 1] = x
    BY <2>1, <2>2 DEF ReaderType
  <2>a. Len(results') <= Cardinality(Workers)
    <3>1. Len(results) < Cardinality(Workers) /\ Cardinality(Workers) \in Nat /\ Len(results) \in Nat
      BY <1>6, FS_CardinalityType, ReaderAssumption DEF Send, hasRoom, ReaderType
    <3> QED BY <2>3, <3>1
  <2>4. ReaderType'
    BY <1>1, <2>1, <2>3, <2>a DEF ReaderType, Places, loopVars
  <2>5. \A v \in Workers : v # w => worker'[v] = worker[v]
    BY <2>1 DEF ReaderType
  <2>6. worker'[w].at = "receive"
    BY <2>1 DEF ReaderType
  <2>7. Len(results) \in Nat
    BY DEF ReaderType
  <2>8. \A c : Queued(c) => Queued(c)'
    BY <2>3, <2>7 DEF Queued
  <2>9. \E i \in 1..Len(results') : results'[i].id = worker[w].id
    BY <2>2, <2>3, <2>7
  <2>10. \A c : Held(c) => Held(c)' \/ Queued(c)'
    BY <2>5, <2>9 DEF Held, Queued
  <2>11. NothingLost'
    BY <1>1, <2>1, <2>5, <2>6, <2>8, <2>10, StillThere DEF loopVars, ReaderType
  <2> QED BY <1>3, <2>4, <2>11
<1>7. CASE Exit(w)
  <2>1. /\ worker' = [worker EXCEPT ![w].at = "exited"] /\ feeder' = feeder /\ results' = results
        /\ (worker[w].at = "receive" /\ JobsClosed) \/ (worker[w].at = "send" /\ cancelled)
    BY <1>7 DEF Exit, GivesUpSending
  <2>2. ReaderType'
    BY <1>1, <2>1 DEF ReaderType, Places, loopVars
  <2>3. \A v \in Workers : v # w => worker'[v] = worker[v]
    BY <2>1 DEF ReaderType
  <2>4. NothingLost'
    <3>1. CASE cancelled
      BY <1>1, <3>1 DEF NothingLost
    <3>2. CASE ~cancelled
      <4>1. \A c : Held(c) => Held(c)'
        BY <2>1, <2>3, <3>2 DEF Held
      <4> QED BY <1>1, <2>1, <3>2, <4>1 DEF NothingLost, Queued, JobsClosed, loopVars
    <3> QED BY <3>1, <3>2
  <2> QED BY <1>3, <2>2, <2>4
<1> QED BY <1>4, <1>5, <1>6, <1>7

LEMMA ReceiveStep ==
    ASSUME ReaderInv, Receive \/ ReceiveFailed
    PROVE  ReaderInv'
<1> USE DEF ReaderInv
<1>1. /\ loop = "receive" /\ results # <<>> /\ results' = Tail(results)
      /\ UNCHANGED <<feeder, worker, closed, nextChunkID, hungUp, out>>
  BY DEF Receive, ReceiveFailed
<1>2. /\ results' \in Seq(Results) /\ results[1] \in Results
      /\ Len(results) \in Nat \ {0} /\ Len(results') = Len(results) - 1
      /\ \A i \in 2..Len(results) : results'[i - 1] = results[i]
  BY <1>1 DEF ReaderType
<1>a. Len(results') <= Cardinality(Workers)
  <2>1. Cardinality(Workers) \in Nat /\ Len(results) <= Cardinality(Workers)
    BY FS_CardinalityType, ReaderAssumption DEF ReaderType
  <2> QED BY <1>2, <2>1
<1>3. OutInv' /\ ClosedLast'
  BY <1>1 DEF OutInv, ClosedLast
<1>4. CASE Receive
  <2>1. /\ buffer' = buffer \cup {results[1].id} /\ UNCHANGED <<cancelled, end>>
        /\ loop' = IF nextChunkID \in buffer' THEN "write" ELSE "receive"
    BY <1>4 DEF Receive
  <2>2. ReaderType' /\ LoopInv'
    BY <1>1, <1>2, <1>a, <2>1 DEF ReaderType, LoopInv, Results
  <2>3. \A c : Queued(c) => Queued(c)' \/ c \in buffer'
    <3> SUFFICES ASSUME NEW i \in 1..Len(results), i # 1
                 PROVE  i - 1 \in 1..Len(results') /\ results'[i - 1].id = results[i].id
      BY <2>1 DEF Queued
    <3> QED BY <1>2
  <2>4. \A c : Held(c) => Held(c)'
    BY <1>1 DEF Held
  <2>5. NothingLost'
    BY <1>1, <2>1, <2>3, <2>4, StillThere DEF ReaderType
  <2> QED BY <1>3, <2>2, <2>5
<1>5. CASE ReceiveFailed
  <2>1. buffer' = buffer /\ cancelled' = TRUE /\ loop' = "returned" /\ end' \in {end, "error"}
    BY <1>5 DEF ReceiveFailed, Ends, failureReported
  <2>2. ReaderType' /\ LoopInv' /\ NothingLost'
    BY <1>1, <1>2, <1>a, <2>1 DEF ReaderType, LoopInv, NothingLost
  <2> QED BY <1>3, <2>2
<1> QED BY <1>4, <1>5

LEMMA DeliverStep ==
    ASSUME ReaderInv, Deliver
    PROVE  ReaderInv' /\ Stream!Deliver
<1> USE NumChunks DEF ReaderInv
<1> DEFINE k == nextChunkID
<1>1. /\ loop = "write" /\ out' = out \o ChunkData(k) /\ buffer' = buffer \ {k}
      /\ nextChunkID' = k + 1 /\ loop' = IF nextChunkID' \in buffer' THEN "write" ELSE "receive"
      /\ UNCHANGED <<feeder, worker, results, closed, cancelled, hungUp, end>>
  BY DEF Deliver, chanVars
<1>2. k \in Chunks /\ end = "open"
  BY <1>1 DEF LoopInv, ReaderType
<1>3. ReaderType' /\ LoopInv' /\ ClosedLast'
  BY <1>1, <1>2 DEF ReaderType, LoopInv, ClosedLast, Chunks
<1>4. out' = Upto(Reached(k + 1))
  BY <1>1, <1>2, Continues DEF OutInv
<1>5. NothingLost'
  <2>1. \A c \in Chunks : c < k \/ c = k => c < k + 1
    BY <1>2 DEF Chunks
  <2> QED BY <1>1, <2>1, StillThere DEF ReaderType, Queued, Held
<1>6. Stream!Deliver
  <2>1. Reached(k) \in 0..blobSize /\ Reached(k + 1) \in 0..blobSize /\ Reached(k) < Reached(k + 1)
    BY <1>2, ReachedFacts
  <2>2. Len(out) = Reached(k)
    BY <2>1, UptoFacts DEF OutInv
  <2>3. Reached(k + 1) \in Len(out) + 1..blobSize
    BY <2>1, <2>2
  <2> QED BY <1>1, <1>2, <1>4, <2>3 DEF Stream!Deliver, Upto
<1> QED BY <1>1, <1>3, <1>4, <1>5, <1>6 DEF OutInv

LEMMA OtherStep ==
    ASSUME ReaderInv,
           \/ CloseJobs \/ CloseResults \/ ReceiveClosed \/ WriteFails \/ Close \/ CancelParent
           \/ UNCHANGED readerVars
    PROVE  ReaderInv'
<1> USE NumChunks DEF ReaderInv
<1>1. CASE CloseJobs
  <2>1. /\ feeder' = numChunks + 1 /\ (feeder = numChunks \/ cancelled)
        /\ UNCHANGED <<worker, results, closed, loopVars, cancelled, hungUp, out, end>>
    BY <1>1 DEF CloseJobs
  <2>2. ReaderType' /\ LoopInv' /\ OutInv' /\ ClosedLast'
    BY <2>1 DEF ReaderType, LoopInv, OutInv, ClosedLast, loopVars
  <2>3. NothingLost'
    <3>1. \A c \in Chunks : c < numChunks
      BY DEF Chunks
    <3> QED BY <2>1, <3>1 DEF NothingLost, JobsClosed, Queued, Held, loopVars
  <2> QED BY <2>2, <2>3
<1>2. CASE CloseResults
  <2>1. /\ \A w \in Workers : worker[w].at = "exited"
        /\ closed' = TRUE
        /\ UNCHANGED <<feeder, worker, results, loopVars, cancelled, hungUp, out, end>>
    BY <1>2 DEF CloseResults
  <2> QED BY <2>1 DEF ReaderType, LoopInv, OutInv, ClosedLast, NothingLost, JobsClosed, Queued, Held,
              loopVars
<1>3. CASE ReceiveClosed
  <2>1. /\ loop' = "returned" /\ end' \in {end, "eof"}
        /\ UNCHANGED <<chanVars, buffer, nextChunkID, cancelled, hungUp, out>>
    BY <1>3 DEF ReceiveClosed, Ends
  <2> QED BY <2>1 DEF ReaderType, LoopInv, OutInv, ClosedLast, NothingLost, JobsClosed, Queued, Held,
              chanVars
<1>4. CASE WriteFails
  <2>1. /\ loop' = "returned" /\ end' \in {end, "eof"} /\ cancelled' = TRUE
        /\ UNCHANGED <<chanVars, buffer, nextChunkID, hungUp, out>>
    BY <1>4 DEF WriteFails, Ends
  <2> QED BY <2>1 DEF ReaderType, LoopInv, OutInv, ClosedLast, NothingLost, chanVars
<1>5. CASE Close \/ CancelParent
  <2>1. /\ cancelled' = TRUE /\ hungUp' \in BOOLEAN
        /\ UNCHANGED <<chanVars, loopVars, out, end>>
    BY <1>5 DEF Close, CancelParent, ReaderType
  <2> QED BY <2>1 DEF ReaderType, LoopInv, OutInv, ClosedLast, NothingLost, chanVars, loopVars
<1>6. CASE UNCHANGED readerVars
  BY <1>6 DEF ReaderType, LoopInv, OutInv, ClosedLast, NothingLost, JobsClosed, Queued, Held,
              readerVars, chanVars, loopVars
<1> QED BY <1>1, <1>2, <1>3, <1>4, <1>5, <1>6

LEMMA ReaderStep == ReaderInv /\ [ReaderNext]_readerVars => ReaderInv'
  BY WorkerStep, ReceiveStep, DeliverStep, OtherStep DEF ReaderNext

LEMMA ReaderInductive == ReaderSpec => []ReaderInv
  BY ReaderInvInit, ReaderStep, PTL DEF ReaderSpec

\* When the results are closed and empty and nothing was called off, the consumer has
\* every byte.
LEMMA AllDelivered ==
    ASSUME ReaderInv, loop = "receive", results = <<>>, closed, ~cancelled
    PROVE  out = Stream!Content
<1> USE NumChunks DEF ReaderInv
<1>1. \A w \in Workers : worker[w].at = "exited"
  BY DEF ClosedLast
<1>2. feeder = numChunks + 1
  BY <1>1, ReaderAssumption DEF NothingLost, JobsClosed
<1>3. \A c : ~Queued(c) /\ ~Held(c)
  BY <1>1 DEF Queued, Held
<1>4. ASSUME nextChunkID # numChunks PROVE FALSE
  <2>1. nextChunkID \in Chunks /\ nextChunkID < feeder /\ ~(nextChunkID < nextChunkID)
    BY <1>2, <1>4 DEF ReaderType, Chunks
  <2> QED BY <1>3, <2>1 DEF NothingLost, LoopInv
<1> QED BY <1>4, ReachedFacts, UptoFacts DEF OutInv

\* Every step of the reader is one of the stream, or is not seen by the consumer.
LEMMA StreamSimulated ==
    ASSUME ReaderInv, [ReaderNext]_readerVars
    PROVE  [Stream!Next]_<<out, end, cancelled>>
<1> USE DEF ReaderInv, Stream!Next
<1>1. CASE \E w \in Workers : Dispatch(w) \/ Check(w) \/ Download(w) \/ Send(w) \/ Exit(w)
  BY <1>1 DEF Dispatch, Check, Download, Send, Exit
<1>2. CASE CloseJobs \/ CloseResults \/ Receive \/ UNCHANGED readerVars
  BY <1>2 DEF CloseJobs, CloseResults, Receive, readerVars
<1>3. CASE ReceiveFailed
  BY <1>3 DEF ReceiveFailed, Ends, failureReported, LoopInv, Stream!Finish
<1>4. CASE ReceiveClosed
  BY <1>4, AllDelivered DEF ReceiveClosed, Ends, LoopInv, Stream!Finish, ReaderType
<1>5. CASE Deliver
  BY <1>5, DeliverStep
<1>6. CASE WriteFails
  BY <1>6 DEF WriteFails, Ends, LoopInv, Stream!Finish, ReaderType
<1>7. CASE Close \/ CancelParent
  BY <1>7 DEF Close, CancelParent, Stream!CallOff, ReaderType
<1> QED BY <1>1, <1>2, <1>3, <1>4, <1>5, <1>6, <1>7 DEF ReaderNext

-----------------------------------------------------------------------------
\* Every variable keeps its type, and results never holds more than it has room for.
THEOREM ReaderTypeCorrect == ReaderSpec => []ReaderTypeOK
<1>1. ReaderInv => ReaderTypeOK
  BY DEF ReaderInv, ReaderType, Places, ReaderTypeOK
<1> QED BY <1>1, ReaderInductive, PTL

\* The reader is an ordered stream, but for liveness: the consumer gets the bytes of the
\* blob in order and each once, whichever worker is first; an error if a chunk failed;
\* and the end only after the last byte, unless the download was called off.
THEOREM ReaderIsOrderedStream ==
    ReaderSpec => Stream!Init /\ [][Stream!Next]_<<out, end, cancelled>>
<1>1. ReaderInit => Stream!Init
  BY DEF ReaderInit, Stream!Init
<1>2. ReaderInv /\ [ReaderNext]_readerVars => [Stream!Next]_<<out, end, cancelled>>
  BY StreamSimulated
<1> QED BY <1>1, <1>2, ReaderInductive, PTL DEF ReaderSpec

-----------------------------------------------------------------------------
(* RangeRequest: the headers.                                              *)

HeaderSpace ==
    {h \in [kind : {"suffix", "from", "span"}, a : Int, b : Int] : h.kind # "suffix" => h.a \in Nat}

LEMMA HeadersInSpace == Headers \cup {Suffix(0)} \subseteq HeaderSpace
  BY RangeAssumption DEF HeaderSpace, Suffix

\* A header that is not rejected gives a range within the object.
LEMMA RangeWithin ==
    ASSUME NEW h \in HeaderSpace, NEW size \in Nat \ {0}, ~invalid(h, size)
    PROVE  /\ firstOf(h, size) \in Nat /\ lastOf(h, size) \in Nat
           /\ firstOf(h, size) <= lastOf(h, size) /\ lastOf(h, size) < size
<1>1. CASE h.kind = "suffix"
  BY <1>1 DEF HeaderSpace, invalid, firstOf, lastOf, Least
<1>2. CASE h.kind = "from"
  BY <1>2 DEF HeaderSpace, invalid, firstOf, lastOf, Least
<1>3. CASE h.kind = "span"
  BY <1>3 DEF HeaderSpace, invalid, firstOf, lastOf, Least
<1> QED BY <1>1, <1>2, <1>3 DEF HeaderSpace

\* The positions that a header selects are those of the range, and there are none
\* exactly when it is rejected: for every header and every size.
LEMMA SelectsAsked ==
    ASSUME NEW h \in HeaderSpace, NEW size \in Nat \ {0}
    PROVE  IF invalid(h, size) THEN Asked(h, size) = {}
           ELSE Asked(h, size) # {} /\ firstOf(h, size)..lastOf(h, size) = Asked(h, size)
<1>1. ASSUME NEW p \in Int
      PROVE  p \in Asked(h, size) <=>
                 ~invalid(h, size) /\ firstOf(h, size) <= p /\ p <= lastOf(h, size)
  <2>1. CASE h.kind = "suffix"
    BY <2>1 DEF HeaderSpace, Asked, invalid, firstOf, lastOf, Least
  <2>2. CASE h.kind = "from"
    BY <2>2 DEF HeaderSpace, Asked, invalid, firstOf, lastOf, Least
  <2>3. CASE h.kind = "span"
    BY <2>3 DEF HeaderSpace, Asked, invalid, firstOf, lastOf, Least
  <2> QED BY <2>1, <2>2, <2>3 DEF HeaderSpace
<1>2. Asked(h, size) \subseteq Int
  <2>1. Asked(h, size) \subseteq 0..size - 1
    BY Zenon DEF Asked
  <2> QED BY <2>1
<1>3. CASE invalid(h, size)
  BY <1>1, <1>2, <1>3
<1>4. CASE ~invalid(h, size)
  <2>1. firstOf(h, size) \in Nat /\ lastOf(h, size) \in Nat /\ firstOf(h, size) <= lastOf(h, size)
    BY <1>4, RangeWithin
  <2> DEFINE S == Asked(h, size)
             first == firstOf(h, size)
             last == lastOf(h, size)
  <2>2. \A p \in Int : p \in S <=> first <= p /\ p <= last
    BY <1>1, <1>4
  <2> HIDE DEF S, first, last
  <2>3. first \in S
    BY <2>1, <2>2 DEF first, last
  <2>4. \A p : p \in first..last <=> p \in S
    BY <1>2, <2>1, <2>2 DEF first, last, S
  <2>5. first..last = S
    BY <2>4, Zenon
  <2> QED BY <1>4, <2>3, <2>5 DEF S, first, last
<1> QED BY <1>3, <1>4

-----------------------------------------------------------------------------
(* Blocks.                                                                 *)

\* How the blocks that a range meets lie around it.
LEMMA Geometry ==
    ASSUME NEW first \in Nat, NEW last \in Nat, NEW size \in Nat, first <= last, last < size
    PROVE  LET sb == first \div blockSize
               eb == last \div blockSize
           IN  /\ sb \in Nat /\ eb \in Nat /\ sb <= eb
               /\ sb * blockSize \in Nat /\ eb * blockSize \in Nat
               /\ sb * blockSize <= first
               /\ eb * blockSize <= last /\ last < (eb + 1) * blockSize
<1> DEFINE sb == first \div blockSize
           eb == last \div blockSize
<1>1. blockSize \in Nat \ {0}
  BY RangeAssumption
<1>2. sb \in Nat /\ sb * blockSize <= first /\ first < (sb + 1) * blockSize
  BY <1>1
<1>3. eb \in Nat /\ eb * blockSize <= last /\ last < (eb + 1) * blockSize
  BY <1>1
<1>4. sb <= eb
  BY <1>1
<1> QED BY <1>1, <1>2, <1>3, <1>4

\* A block that begins within the object is not empty.
LEMMA KeyWithin ==
    ASSUME NEW blk \in Nat, NEW size \in Nat, blk * blockSize < size
    PROVE  LET k == blockKey(blk, size)
           IN  /\ k \in Nat \X Nat /\ k[1] = blk * blockSize
               /\ k[1] <= k[2] /\ k[2] < size /\ k[2] < (blk + 1) * blockSize
               /\ k[2] + 1 = Least((blk + 1) * blockSize, size)
<1>1. blockSize \in Nat \ {0} /\ blk * blockSize \in Nat /\ (blk + 1) * blockSize \in Nat
  BY RangeAssumption
<1>2. (blk + 1) * blockSize = blk * blockSize + blockSize
  BY <1>1
<1> DEFINE x == blk * blockSize
           y == (blk + 1) * blockSize
<1>3. x \in Nat /\ y \in Nat /\ x < y /\ x < size
  BY <1>1, <1>2
<1>4. blockKey(blk, size) = <<x, Least(y, size) - 1>>
  BY DEF blockKey
<1> HIDE DEF x, y
<1>5. Least(y, size) - 1 \in Nat /\ x <= Least(y, size) - 1 /\ Least(y, size) - 1 < size
      /\ Least(y, size) - 1 < y /\ Least(y, size) - 1 + 1 = Least(y, size)
  BY <1>3 DEF Least
<1> QED BY <1>3, <1>4, <1>5 DEF x, y
-----------------------------------------------------------------------------
(* Bytes at their place.                                                   *)

\* What may stand at position p after w writes: after one, nothing but the byte of it.
Fits(b, p, w) == IF w = 1 THEN b = <<1, p>> ELSE b = Junk \/ b[2] = p
Placed(data, from, w) == \A i \in 1..Len(data) : Fits(data[i], from + i - 1, w)

LEMMA PlacedEmpty == \A from, w : Placed(<<>>, from, w) /\ <<>> \in Seq(Byte) /\ Len(<<>>) = 0
  BY DEF Placed

LEMMA PlacedLater ==
    ASSUME NEW data \in Seq(Byte), NEW from \in Nat, NEW w, NEW w2, w2 # 1, Placed(data, from, w)
    PROVE  Placed(data, from, w2)
<1>1. ASSUME NEW i \in 1..Len(data) PROVE Fits(data[i], from + i - 1, w2)
  <2>1. Fits(data[i], from + i - 1, w)
    BY DEF Placed
  <2> QED BY <2>1 DEF Fits
<1> QED BY <1>1 DEF Placed

LEMMA PlacedBytes ==
    ASSUME NEW v \in 1..MaxVersion, NEW from \in Nat, NEW n \in Nat, from + n <= SizeOf[v],
           NEW w, w = 1 => v = 1
    PROVE  /\ Bytes(v, from, n) \in Seq(Byte) /\ Len(Bytes(v, from, n)) = n
           /\ Placed(Bytes(v, from, n), from, w)
<1> DEFINE s == Bytes(v, from, n)
<1>1. ASSUME NEW i \in 1..n PROVE s[i] = <<v, from + i - 1>> /\ s[i] \in Byte
  <2>1. s[i] = <<v, from + i - 1>>
    BY DEF Bytes
  <2>2. SizeOf[v] \in Nat
    BY RangeAssumption
  <2>3. from + i - 1 \in 0..SizeOf[v] - 1
    BY <2>2
  <2> QED BY <2>1, <2>3 DEF Byte
<1>2. s \in [1..n -> Byte]
  <2>1. s = [i \in 1..n |-> s[i]]
    BY DEF Bytes
  <2> HIDE DEF s
  <2> QED BY <1>1, <2>1
<1>3. s \in Seq(Byte) /\ Len(s) = n
  BY <1>2, IsASeq, LenProperties
<1>4. ASSUME NEW i \in 1..n PROVE Fits(s[i], from + i - 1, w)
  <2>1. s[i] = <<v, from + i - 1>>
    BY <1>1
  <2> HIDE DEF s
  <2> QED BY <2>1 DEF Fits
<1> QED BY <1>3, <1>4 DEF Placed

LEMMA PlacedCat ==
    ASSUME NEW s \in Seq(Byte), NEW t \in Seq(Byte), NEW from \in Nat, NEW w,
           Placed(s, from, w), Placed(t, from + Len(s), w)
    PROVE  /\ s \o t \in Seq(Byte) /\ Len(s \o t) = Len(s) + Len(t)
           /\ Placed(s \o t, from, w)
<1>1. /\ s \o t \in Seq(Byte) /\ Len(s \o t) = Len(s) + Len(t)
      /\ Len(s) \in Nat /\ Len(t) \in Nat
      /\ \A i \in 1..Len(s) + Len(t) : (s \o t)[i] = IF i <= Len(s) THEN s[i] ELSE t[i - Len(s)]
  BY ConcatProperties, LenProperties
<1>2. ASSUME NEW i \in 1..Len(s) + Len(t) PROVE Fits((s \o t)[i], from + i - 1, w)
  <2>1. CASE i <= Len(s)
    BY <1>1, <2>1 DEF Placed
  <2>2. CASE i > Len(s)
    <3>1. i - Len(s) \in 1..Len(t) /\ (s \o t)[i] = t[i - Len(s)]
      BY <1>1, <2>2
    <3>2. Fits(t[i - Len(s)], from + Len(s) + (i - Len(s)) - 1, w)
      BY <3>1 DEF Placed
    <3>3. from + Len(s) + (i - Len(s)) - 1 = from + i - 1
      BY <1>1
    <3> QED BY <3>1, <3>2, <3>3
  <2> QED BY <1>1, <2>1, <2>2
<1> QED BY <1>1, <1>2 DEF Placed

\* A part of a sequence, from position a on, which may be past its end.
LEMMA PlacedCut ==
    ASSUME NEW s \in Seq(Byte), NEW from \in Nat, NEW w, Placed(s, from, w),
           NEW a \in Nat \ {0}, NEW e \in Nat, e <= Len(s)
    PROVE  /\ SubSeq(s, a, e) \in Seq(Byte)
           /\ Len(SubSeq(s, a, e)) = IF a <= e THEN e - a + 1 ELSE 0
           /\ Placed(SubSeq(s, a, e), from + a - 1, w)
<1> DEFINE t == SubSeq(s, a, e)
           n == IF a <= e THEN e - a + 1 ELSE 0
<1>1. n \in Nat /\ \A i \in 1..n : a + i - 1 \in 1..Len(s) /\ i \in Nat
  BY LenProperties
<1>2. t \in Seq(Byte) /\ Len(t) = n /\ \A i \in 1..n : t[i] = s[a + i - 1]
  OBVIOUS
<1> HIDE DEF t, n
<1>3. ASSUME NEW i \in 1..n PROVE Fits(t[i], from + a - 1 + i - 1, w)
  <2>1. a + i - 1 \in 1..Len(s) /\ from + a - 1 + i - 1 = from + (a + i - 1) - 1
    BY <1>1
  <2>2. Fits(s[a + i - 1], from + (a + i - 1) - 1, w)
    BY <2>1 DEF Placed
  <2> QED BY <1>2, <2>1, <2>2
<1>4. Placed(t, from + a - 1, w)
  BY <1>2, <1>3 DEF Placed
<1> QED BY <1>2, <1>4 DEF t, n

\* What is filled up with junk is placed still, unless there was but one write.
LEMMA PlacedJunk ==
    ASSUME NEW from \in Nat, NEW n \in Nat, NEW w, w = 1 => n = 0
    PROVE  LET t == [i \in 1..n |-> Junk]
           IN  t \in Seq(Byte) /\ Len(t) = n /\ Placed(t, from, w)
<1> DEFINE t == [i \in 1..n |-> Junk]
<1>1. t \in Seq(Byte) /\ Len(t) = n /\ \A i \in 1..n : t[i] = Junk
  BY IsASeq, LenProperties DEF Byte
<1> HIDE DEF t
<1>2. ASSUME NEW i \in 1..n PROVE Fits(t[i], from + i - 1, w)
  BY <1>1 DEF Fits
<1>3. Placed(t, from, w)
  BY <1>1, <1>2 DEF Placed
<1> QED BY <1>1, <1>3 DEF t
-----------------------------------------------------------------------------
(* The requests.                                                           *)

ReqType ==
    [at : {"idle", "rejected", "lookup", "read", "props", "download", "cache", "answered",
           "pf_lookup", "pf_props", "pf_download", "pf_cache"},
     header : Headers \cup {Suffix(0)}, size : Nat, blk : Nat, count : Nat,
     data : Seq(Byte), from : Nat, short : BOOLEAN]

First(q) == firstOf(q.header, q.size)
Last(q) == lastOf(q.header, q.size)
FirstBlock(q) == First(q) \div blockSize
LastBlock(q) == Last(q) \div blockSize
KeyOf(q) == blockKey(q.blk, q.size)
Begins(q) == FirstBlock(q) * blockSize

Prefetches(q) == q.at \in {"pf_lookup", "pf_props", "pf_download", "pf_cache"}
ChunkFrom(q) == IF Prefetches(q) THEN KeyOf(q)[1] ELSE Begins(q)
ChunkTo(q) == IF Prefetches(q) THEN KeyOf(q)[2]
              ELSE Least((LastBlock(q) + 1) * blockSize, q.size) - 1

\* A range within the object, that of the one write if there was but one.
Ranged(q, w) == q.size # 0 /\ ~invalid(q.header, q.size) /\ (w = 1 => q.size = SizeOf[1])

\* The block that the request is at is one of its range or, prefetching, one of the object.
BlockOK(q) ==
    /\ q.at \in {"lookup", "read", "props", "download", "cache"} =>
          FirstBlock(q) <= q.blk /\ q.blk <= LastBlock(q)
    /\ q.at \in {"pf_props", "pf_download", "pf_cache"} => q.blk * blockSize < q.size

\* What was read from the cache is the blocks so far.
ReadSoFar(q, w) ==
    q.at \in {"lookup", "read"} /\ ~q.short =>
        Len(q.data) = (q.blk - FirstBlock(q)) * blockSize /\ Placed(q.data, Begins(q), w)

\* What is asked for, and what came of it, begins where the chunk does and ends no
\* later; it is the whole chunk if there was but one write.
Within(q, n, w) ==
    n <= ChunkTo(q) - ChunkFrom(q) + 1 /\ (w = 1 => n = ChunkTo(q) - ChunkFrom(q) + 1)
Fetched(q, w) ==
    /\ q.at \in {"download", "pf_download"} => Within(q, q.count, w)
    /\ q.at \in {"cache", "pf_cache"} =>
          q.from = ChunkFrom(q) /\ Within(q, Len(q.data), w) /\ Placed(q.data, q.from, w)

AnswerOK(q, w) ==
    q.at = "answered" /\ ~q.short =>
        Placed(q.data, First(q), w) /\ (w = 1 => Len(q.data) = Last(q) - First(q) + 1)

ReqInv(q, w) ==
    /\ q.at \notin {"idle", "rejected"} => Ranged(q, w)
    /\ BlockOK(q) /\ ReadSoFar(q, w) /\ Fetched(q, w) /\ AnswerOK(q, w)

FilesInv ==
    \A k \in DOMAIN files :
        Len(files[k]) <= k[2] - k[1] + 1 /\ Placed(files[k], k[1], writes)

CopyInv == copying # NoCopy => copying[2] = KeyOf(req[copying[1]]) /\ copying[2] \in DOMAIN files

RangeInv ==
    /\ TypeOK
    /\ \A r \in Requests : ReqInv(req[r], writes)
    /\ FilesInv /\ CopyInv

LEMMA Widths == blockSize \in Nat /\ blockSize # 0
  BY RangeAssumption

\* Where the range of a request and its blocks are.
LEMMA RangeFacts ==
    ASSUME NEW q \in ReqType, NEW w, Ranged(q, w)
    PROVE  /\ First(q) \in Nat /\ Last(q) \in Nat /\ First(q) <= Last(q) /\ Last(q) < q.size
           /\ FirstBlock(q) \in Nat /\ LastBlock(q) \in Nat /\ FirstBlock(q) <= LastBlock(q)
           /\ Begins(q) \in Nat /\ Begins(q) <= First(q)
           /\ LastBlock(q) * blockSize \in Nat /\ LastBlock(q) * blockSize <= Last(q)
           /\ (LastBlock(q) + 1) * blockSize \in Nat /\ Last(q) < (LastBlock(q) + 1) * blockSize
<1>1. q.header \in HeaderSpace /\ q.size \in Nat \ {0} /\ ~invalid(q.header, q.size)
  BY HeadersInSpace DEF ReqType, Ranged
<1>2. First(q) \in Nat /\ Last(q) \in Nat /\ First(q) <= Last(q) /\ Last(q) < q.size
  BY <1>1, RangeWithin DEF First, Last
<1>3. /\ FirstBlock(q) \in Nat /\ LastBlock(q) \in Nat /\ FirstBlock(q) <= LastBlock(q)
      /\ Begins(q) \in Nat /\ LastBlock(q) * blockSize \in Nat
      /\ Begins(q) <= First(q)
      /\ LastBlock(q) * blockSize <= Last(q) /\ Last(q) < (LastBlock(q) + 1) * blockSize
  BY <1>1, <1>2, Geometry DEF FirstBlock, LastBlock, Begins
<1>4. (LastBlock(q) + 1) * blockSize \in Nat
  BY <1>3, Widths
<1> QED BY <1>2, <1>3, <1>4

\* Where the block is that a request is at, and where it is in the chunk.
LEMMA BlockFacts ==
    ASSUME NEW q \in ReqType, NEW w, ReqInv(q, w),
           q.at \in {"lookup", "read", "props", "download", "cache"}
    PROVE  /\ KeyOf(q) \in Nat \X Nat /\ KeyOf(q)[1] = q.blk * blockSize
           /\ KeyOf(q)[1] <= KeyOf(q)[2]
           /\ Begins(q) <= KeyOf(q)[1] /\ KeyOf(q)[2] <= ChunkTo(q)
           /\ ChunkFrom(q) = Begins(q) /\ ChunkTo(q) \in Nat /\ ChunkTo(q) < q.size
           /\ Last(q) <= ChunkTo(q)
           /\ q.blk < LastBlock(q) => KeyOf(q)[2] + 1 = (q.blk + 1) * blockSize
           /\ q.blk = LastBlock(q) => KeyOf(q)[2] = ChunkTo(q)
<1>1. Ranged(q, w) /\ q.blk \in Nat /\ q.size \in Nat /\ FirstBlock(q) <= q.blk /\ q.blk <= LastBlock(q)
  BY DEF ReqInv, BlockOK, ReqType
<1>2. /\ First(q) \in Nat /\ Last(q) \in Nat /\ Last(q) < q.size
      /\ FirstBlock(q) \in Nat /\ LastBlock(q) \in Nat
      /\ Begins(q) \in Nat /\ LastBlock(q) * blockSize \in Nat
      /\ LastBlock(q) * blockSize <= Last(q)
      /\ (LastBlock(q) + 1) * blockSize \in Nat /\ Last(q) < (LastBlock(q) + 1) * blockSize
  BY <1>1, RangeFacts
<1>3. /\ q.blk * blockSize <= LastBlock(q) * blockSize /\ Begins(q) <= q.blk * blockSize
      /\ q.blk * blockSize \in Nat /\ (q.blk + 1) * blockSize \in Nat
      /\ (q.blk + 1) * blockSize <= (LastBlock(q) + 1) * blockSize
      /\ q.blk < LastBlock(q) => (q.blk + 1) * blockSize <= LastBlock(q) * blockSize
  BY <1>1, <1>2, Widths, Mono DEF Begins
<1>4. q.blk * blockSize < q.size
  BY <1>1, <1>2, <1>3
<1>5. /\ KeyOf(q) \in Nat \X Nat /\ KeyOf(q)[1] = q.blk * blockSize
      /\ KeyOf(q)[1] <= KeyOf(q)[2] /\ KeyOf(q)[2] < q.size
      /\ KeyOf(q)[2] + 1 = Least((q.blk + 1) * blockSize, q.size)
  BY <1>1, <1>4, KeyWithin DEF KeyOf
<1>6. ~Prefetches(q)
  BY DEF Prefetches
<1>7. ChunkFrom(q) = Begins(q) /\ ChunkTo(q) = Least((LastBlock(q) + 1) * blockSize, q.size) - 1
  BY <1>6 DEF ChunkFrom, ChunkTo
<1> DEFINE x == (q.blk + 1) * blockSize
           y == (LastBlock(q) + 1) * blockSize
           k == KeyOf(q)[2]
           c == ChunkTo(q)
           n == q.size
<1>8. /\ x \in Nat /\ y \in Nat /\ x <= y /\ k \in Nat /\ n \in Nat /\ Last(q) \in Nat
      /\ k + 1 = Least(x, n) /\ c = Least(y, n) - 1 /\ Last(q) < y /\ Last(q) < n
      /\ q.blk < LastBlock(q) => x < n
  BY <1>1, <1>2, <1>3, <1>5, <1>7
<1>9. q.blk = LastBlock(q) => x = y
  OBVIOUS
<1> HIDE DEF x, y, k, c, n
<1>10. /\ k + 1 \in Nat /\ k + 1 <= x /\ k + 1 <= n /\ k + 1 \in {x, n}
       /\ c + 1 \in Nat /\ c + 1 <= y /\ c + 1 <= n /\ c + 1 \in {y, n}
  BY <1>8 DEF Least
<1>11. c \in Nat /\ c < n /\ Last(q) <= c /\ k <= c
  BY <1>8, <1>10
<1>12. q.blk < LastBlock(q) => k + 1 = x
  BY <1>8, <1>10
<1>13. q.blk = LastBlock(q) => k = c
  <2> SUFFICES ASSUME q.blk = LastBlock(q) PROVE k + 1 = Least(y, n) /\ c = Least(y, n) - 1
    BY <1>8, <1>10
  <2> QED BY <1>8, <1>9
<1> QED BY <1>3, <1>5, <1>7, <1>11, <1>12, <1>13 DEF x, y, k, c, n

\* The same for a block that is prefetched.
LEMMA PrefetchFacts ==
    ASSUME NEW q \in ReqType, NEW w, ReqInv(q, w), q.at \in {"pf_props", "pf_download", "pf_cache"}
    PROVE  /\ KeyOf(q) \in Nat \X Nat
           /\ KeyOf(q)[1] <= KeyOf(q)[2] /\ KeyOf(q)[2] < q.size
           /\ ChunkFrom(q) = KeyOf(q)[1] /\ ChunkTo(q) = KeyOf(q)[2]
<1>1. q.blk \in Nat /\ q.size \in Nat /\ q.blk * blockSize < q.size
  BY DEF ReqInv, BlockOK, ReqType
<1> QED BY <1>1, KeyWithin DEF KeyOf, Prefetches, ChunkFrom, ChunkTo
-----------------------------------------------------------------------------
(* The steps of a request.                                                 *)

LEMMA RangeTyped ==
    ASSUME RangeInv
    PROVE  /\ writes \in 1..MaxVersion /\ stored \in 0..writes /\ entries \subseteq DOMAIN files
           /\ req \in [Requests -> ReqType]
           /\ \A r \in Requests : req[r] \in ReqType /\ ReqInv(req[r], writes)
           /\ \A k \in DOMAIN files :
                 k \in Nat \X Nat /\ files[k] \in Seq(Byte)
                 /\ Len(files[k]) <= k[2] - k[1] + 1 /\ Placed(files[k], k[1], writes)
  BY DEF RangeInv, TypeOK, ReqType, FilesInv

\* A request moves, and the store and the cache stay as they are.
\* The request has a local state again that is as it should be.
MovesOn(r) == \E q \in ReqType : ReqInv(q, writes) /\ Becomes(r, q)

LEMMA OneMoves ==
    ASSUME RangeInv, NEW r \in Requests, NEW q \in ReqType, ReqInv(q, writes),
           Becomes(r, q), ~Copies(r), UNCHANGED <<stored, writes, cacheVars>>
    PROVE  RangeInv'
<1>1. /\ req \in [Requests -> ReqType] /\ req' = [req EXCEPT ![r] = q]
      /\ stored' = stored /\ writes' = writes /\ files' = files
      /\ entries' = entries /\ copying' = copying
  BY RangeTyped DEF Becomes, cacheVars
<1>2. req' \in [Requests -> ReqType] /\ \A s \in Requests : ReqInv(req'[s], writes')
  BY <1>1, RangeTyped
<1>3. copying # NoCopy => copying[1] \in Requests /\ req'[copying[1]] = req[copying[1]]
  BY <1>1 DEF RangeInv, TypeOK, Copies
<1>4. TypeOK'
  BY <1>1, <1>2, <1>3 DEF RangeInv, TypeOK, ReqType, At, NoCopy
<1>5. FilesInv' /\ CopyInv'
  BY <1>1, <1>3 DEF RangeInv, FilesInv, CopyInv, NoCopy
<1> QED BY <1>2, <1>4, <1>5 DEF RangeInv

\* Only a request that caches copies.
LEMMA CopiesAt ==
    ASSUME RangeInv, NEW r \in Requests, Copies(r)
    PROVE  req[r].at \in {"cache", "pf_cache"}
  BY DEF RangeInv, TypeOK, Copies, At

LEMMA IdleOK == Idle \in ReqType /\ \A w : ReqInv(Idle, w)
<1>1. Idle \in ReqType
  BY DEF Idle, ReqType, Suffix
<1>2. Idle.at = "idle"
  BY DEF Idle
<1> QED BY <1>1, <1>2 DEF ReqInv, BlockOK, ReadSoFar, Fetched, AnswerOK

LEMMA ReturnsStep ==
    ASSUME RangeInv, NEW r \in Requests, Returns(r), ~Copies(r),
           UNCHANGED <<stored, writes, cacheVars>>
    PROVE  RangeInv'
  BY IdleOK, OneMoves DEF Returns

LEMMA HeadStep ==
    ASSUME RangeInv, NEW r \in Requests, HeadAndParse(r)
    PROVE  RangeInv'
<1>1. PICK h \in Headers :
          LET local == [Idle EXCEPT !.header = h, !.size = SizeOf[stored]]
          IN  IF invalid(h, SizeOf[stored])
              THEN Becomes(r, [local EXCEPT !.at = "rejected"])
              ELSE Becomes(r, [local EXCEPT !.at = "lookup",
                                            !.blk = firstOf(h, SizeOf[stored]) \div blockSize])
  BY DEF HeadAndParse
<1> DEFINE n == SizeOf[stored]
           local == [Idle EXCEPT !.header = h, !.size = n]
           b == firstOf(h, n) \div blockSize
           asks == [local EXCEPT !.at = "lookup", !.blk = b]
           rejects == [local EXCEPT !.at = "rejected"]
<1>2. ~Copies(r) /\ UNCHANGED <<stored, writes, cacheVars>>
  BY CopiesAt DEF HeadAndParse, At
<1>3. n \in Nat \ {0} /\ (writes = 1 => n = SizeOf[1])
  <2>1. stored \in 1..MaxVersion /\ (writes = 1 => stored = 1)
    BY RangeTyped, RangeAssumption DEF HeadAndParse, Absent
  <2> QED BY <2>1, RangeAssumption
<1>4. CASE invalid(h, n)
  <2>1. rejects \in ReqType /\ rejects.at = "rejected"
    BY <1>3, IdleOK DEF ReqType, Idle
  <2>2. Becomes(r, rejects)
    BY <1>1, <1>4
  <2> HIDE DEF rejects
  <2>3. ReqInv(rejects, writes)
    BY <2>1 DEF ReqInv, BlockOK, ReadSoFar, Fetched, AnswerOK
  <2> QED BY <1>2, <2>1, <2>2, <2>3, OneMoves
<1>5. CASE ~invalid(h, n)
  <2>1. h \in HeaderSpace
    BY HeadersInSpace
  <2>2. firstOf(h, n) \in Nat /\ lastOf(h, n) \in Nat /\ firstOf(h, n) <= lastOf(h, n) /\ lastOf(h, n) < n
    BY <1>3, <1>5, <2>1, RangeWithin
  <2>3. b \in Nat
    BY <2>2, <1>3, Geometry
  <2>4. Becomes(r, asks)
    BY <1>1, <1>5
  <2> HIDE DEF b, n
  <2>5. /\ asks \in ReqType /\ asks.at = "lookup" /\ asks.header = h /\ asks.size = n
        /\ asks.blk = b /\ asks.data = <<>>
    BY <1>3, <2>3, IdleOK DEF ReqType, Idle
  <2> HIDE DEF asks, local
  <2>6. Ranged(asks, writes)
    BY <1>3, <1>5, <2>5 DEF Ranged
  <2>7. First(asks) = firstOf(h, n) /\ FirstBlock(asks) = b
    BY <2>5 DEF First, FirstBlock, b
  <2>8. FirstBlock(asks) \in Nat /\ FirstBlock(asks) <= LastBlock(asks) /\ LastBlock(asks) \in Nat
    BY <2>5, <2>6, RangeFacts
  <2>9. BlockOK(asks)
    BY <2>5, <2>7, <2>8 DEF BlockOK
  <2>10. ReadSoFar(asks, writes)
    <3>1. Len(asks.data) = 0 /\ (asks.blk - FirstBlock(asks)) * blockSize = 0
      BY <2>3, <2>5, <2>7, Widths
    <3> QED BY <2>5, <3>1, PlacedEmpty DEF ReadSoFar
  <2>11. ReqInv(asks, writes)
    BY <2>5, <2>6, <2>9, <2>10 DEF ReqInv, Fetched, AnswerOK
  <2> QED BY <1>2, <2>4, <2>5, <2>11, OneMoves
<1> QED BY <1>4, <1>5

LEMMA LookupStep ==
    ASSUME RangeInv, NEW r \in Requests, Lookup(r)
    PROVE  RangeInv'
<1> DEFINE q == req[r]
           hit == [req[r] EXCEPT !.at = "read"]
           miss == [req[r] EXCEPT !.at = "props", !.data = <<>>]
<1>1. /\ q \in ReqType /\ ReqInv(q, writes) /\ q.at = "lookup"
      /\ ~Copies(r) /\ UNCHANGED <<stored, writes, cacheVars>>
      /\ Becomes(r, hit) \/ Becomes(r, miss)
  BY RangeTyped DEF Lookup, At, Copies
<1>2. ASSUME NEW p, p \in {hit, miss}
      PROVE  /\ p \in ReqType /\ p.at \in {"read", "props"} /\ p.header = q.header
             /\ p.size = q.size /\ p.blk = q.blk /\ p.short = q.short
             /\ p.at = "read" => p.data = q.data
  BY <1>1, <1>2, PlacedEmpty DEF ReqType
<1> HIDE DEF q, hit, miss
<1>3. ASSUME NEW p, p \in {hit, miss} PROVE ReqInv(p, writes)
  <2>1. /\ p.at \in {"read", "props"} /\ p.header = q.header
        /\ p.size = q.size /\ p.blk = q.blk /\ p.short = q.short
        /\ p.at = "read" => p.data = q.data
    BY <1>2, <1>3
  <2>2. First(p) = First(q) /\ Last(p) = Last(q)
    BY <2>1 DEF First, Last
  <2>3. FirstBlock(p) = FirstBlock(q) /\ LastBlock(p) = LastBlock(q) /\ Begins(p) = Begins(q)
    BY <2>2 DEF FirstBlock, LastBlock, Begins
  <2>4. Ranged(p, writes) /\ BlockOK(p)
    BY <1>1, <2>1, <2>3 DEF ReqInv, Ranged, BlockOK
  <2>5. ReadSoFar(p, writes)
    BY <1>1, <2>1, <2>3 DEF ReqInv, ReadSoFar
  <2> QED BY <2>1, <2>4, <2>5 DEF ReqInv, Fetched, AnswerOK
<1> QED BY <1>1, <1>2, <1>3, OneMoves

\* Two records of a request that agree on what was asked for and where it is.
Same(p, q) == p.header = q.header /\ p.size = q.size

LEMMA SameRange ==
    ASSUME NEW p, NEW q, Same(p, q)
    PROVE  /\ First(p) = First(q) /\ Last(p) = Last(q)
           /\ FirstBlock(p) = FirstBlock(q) /\ LastBlock(p) = LastBlock(q) /\ Begins(p) = Begins(q)
           /\ p.blk = q.blk => KeyOf(p) = KeyOf(q)
           /\ \A w : Ranged(q, w) => Ranged(p, w)
  BY DEF Same, First, Last, FirstBlock, LastBlock, Begins, KeyOf, Ranged

\* The response, of data that begins where the first block does and, if there was but
\* one write and no block was short, goes to the end of the range.
LEMMA RespondStep ==
    ASSUME NEW r \in Requests, NEW q \in ReqType, Ranged(q, writes),
           q.from = Begins(q),
           ~q.short => Placed(q.data, q.from, writes)
                       /\ (writes = 1 => q.from + Len(q.data) > Last(q)),
           Respond(r, q)
    PROVE  MovesOn(r)
<1> DEFINE first == First(q)
           from == q.from
           last == Least(Last(q), from + Len(q.data) - 1)
           data == SubSeq(q.data, first - from + 1, last - from + 1)
           a == [q EXCEPT !.at = "answered", !.from = first, !.data = data]
<1>1. CASE Panics(q, first)
  BY <1>1, IdleOK DEF Respond, Returns, First, MovesOn
<1>2. CASE ~Panics(q, first)
  <2>1. Becomes(r, a)
    BY <1>2 DEF Respond, Payload, First, Last
  <2>2. /\ first \in Nat /\ Last(q) \in Nat /\ first <= Last(q) /\ from \in Nat /\ from <= first
        /\ q.data \in Seq(Byte) /\ Len(q.data) \in Nat
    BY RangeFacts DEF ReqType
  <2> DEFINE x == first - from + 1
             e == last - from + 1
  <2>3. /\ x \in Nat \ {0} /\ e \in Nat /\ e <= Len(q.data) /\ from + x - 1 = first
        /\ from + Len(q.data) > Last(q) => x <= e /\ e - x + 1 = Last(q) - first + 1
    <3> DEFINE m == Len(q.data)
               l == Last(q)
    <3>1. m \in Nat /\ l \in Nat /\ from \in Nat /\ first \in Nat /\ first <= l /\ from <= first
          /\ last = Least(l, from + m - 1)
      BY <2>2
    <3> HIDE DEF m, l, first, from, last
    <3> QED BY <3>1 DEF Least, m, l
  <2>4. SubSeq(q.data, x, e) \in Seq(Byte)
    BY <2>2, <2>3
  <2>5. ASSUME ~q.short
        PROVE  /\ Placed(SubSeq(q.data, x, e), from + x - 1, writes)
               /\ Len(SubSeq(q.data, x, e)) = IF x <= e THEN e - x + 1 ELSE 0
    <3> HIDE DEF x, e, from
    <3> QED BY <2>2, <2>3, <2>5, PlacedCut DEF from
  <2> HIDE DEF first, last
  <2>6. data \in Seq(Byte)
    BY <2>4
  <2> HIDE DEF data
  <2>7. /\ a \in ReqType /\ a.at = "answered" /\ Same(a, q)
        /\ a.data = data /\ a.short = q.short
    BY <2>2, <2>6 DEF ReqType, Same
  <2> HIDE DEF a
  <2>8. AnswerOK(a, writes)
    <3> SUFFICES ASSUME ~q.short
                 PROVE  Placed(data, First(q), writes)
                        /\ (writes = 1 => Len(data) = Last(q) - First(q) + 1)
      BY <2>7, SameRange DEF AnswerOK
    <3>1. data = SubSeq(q.data, x, e)
      BY DEF data
    <3>2. from + x - 1 = First(q)
      BY <2>3 DEF first
    <3>3. writes = 1 => from + Len(q.data) > Last(q)
      OBVIOUS
    <3> HIDE DEF x, e, from
    <3> QED BY <2>3, <2>5, <3>1, <3>2, <3>3 DEF first
  <2>9. ReqInv(a, writes)
    BY <2>7, <2>8, SameRange DEF ReqInv, BlockOK, ReadSoFar, Fetched
  <2> QED BY <2>1, <2>7, <2>9 DEF MovesOn
<1> QED BY <1>1, <1>2

LEMMA ReadStep ==
    ASSUME RangeInv, NEW r \in Requests, Read(r)
    PROVE  RangeInv'
<1> DEFINE q == req[r]
           k == KeyOf(q)
           f == files[k]
<1>1. /\ q \in ReqType /\ ReqInv(q, writes) /\ q.at = "read" /\ k \in DOMAIN files
      /\ ~Copies(r) /\ UNCHANGED <<stored, writes, cacheVars>>
  BY RangeTyped, CopiesAt DEF Read, At, Key, KeyOf
<1>2. PICK n \in 0..Len(f) :
          LET local == [q EXCEPT !.data = q.data \o SubSeq(f, 1, n),
                                 !.from = Begins(q),
                                 !.short = q.short \/ n < k[2] - k[1] + 1]
          IN  IF q.blk < LastBlock(q)
              THEN Becomes(r, [local EXCEPT !.at = "lookup", !.blk = local.blk + 1])
              ELSE Respond(r, local)
  BY <1>1 DEF Read, Key, KeyOf, StartBlock, EndBlock, Start, End, Begins, FirstBlock, LastBlock,
              First, Last, ReqType
<1> DEFINE got == SubSeq(f, 1, n)
           all == q.data \o got
           local == [q EXCEPT !.data = all, !.from = Begins(q),
                              !.short = q.short \/ n < k[2] - k[1] + 1]
           on == [local EXCEPT !.at = "lookup", !.blk = local.blk + 1]
<1>3. /\ Ranged(q, writes) /\ FirstBlock(q) <= q.blk /\ q.blk <= LastBlock(q)
      /\ q.blk \in Nat /\ q.data \in Seq(Byte) /\ q.from \in Nat
      /\ ~q.short => Len(q.data) = (q.blk - FirstBlock(q)) * blockSize
                     /\ Placed(q.data, Begins(q), writes)
  BY <1>1 DEF ReqInv, BlockOK, ReadSoFar, ReqType
<1>4. /\ First(q) \in Nat /\ Last(q) \in Nat /\ FirstBlock(q) \in Nat /\ LastBlock(q) \in Nat
      /\ Begins(q) \in Nat
  BY <1>1, <1>3, RangeFacts
<1>5. /\ k \in Nat \X Nat /\ k[1] = q.blk * blockSize /\ k[1] <= k[2]
      /\ q.blk < LastBlock(q) => k[2] + 1 = (q.blk + 1) * blockSize
      /\ q.blk = LastBlock(q) => Last(q) <= k[2]
  BY <1>1, BlockFacts
<1>6. /\ f \in Seq(Byte) /\ Len(f) \in Nat /\ Len(f) <= k[2] - k[1] + 1
      /\ Placed(f, k[1], writes)
  BY <1>1, RangeTyped
<1>7. got \in Seq(Byte) /\ Len(got) = n /\ Placed(got, k[1], writes)
  <2> HIDE DEF f
  <2>1. /\ got \in Seq(Byte) /\ Len(got) = IF 1 <= n THEN n - 1 + 1 ELSE 0
        /\ Placed(got, k[1] + 1 - 1, writes)
    BY <1>5, <1>6, PlacedCut
  <2> QED BY <1>5, <2>1
<1>8. all \in Seq(Byte)
  <2> HIDE DEF got
  <2> QED BY <1>3, <1>7
<1>9. ASSUME ~q.short
      PROVE  /\ Begins(q) + Len(q.data) = k[1] /\ Len(all) = Len(q.data) + n
             /\ Placed(all, Begins(q), writes)
  <2>1. Begins(q) + Len(q.data) = k[1]
    <3>1. (q.blk - FirstBlock(q)) * blockSize = q.blk * blockSize - FirstBlock(q) * blockSize
      BY <1>3, <1>4, Widths
    <3> QED BY <1>3, <1>4, <1>5, <1>9, <3>1, Widths DEF Begins
  <2> HIDE DEF got
  <2> QED BY <1>3, <1>4, <1>7, <1>9, <2>1, PlacedCat
<1> HIDE DEF all
<1>10. /\ local \in ReqType /\ Same(local, q) /\ local.blk = q.blk /\ local.data = all
       /\ local.from = Begins(q) /\ local.at = "read"
       /\ (~local.short => ~q.short /\ ~(n < k[2] - k[1] + 1))
  BY <1>1, <1>4, <1>8 DEF ReqType, Same
<1>11. ~local.short => ~q.short /\ n = k[2] - k[1] + 1
  <2>1. n \in Nat /\ n <= k[2] - k[1] + 1 /\ k[1] \in Nat /\ k[2] \in Nat
    BY <1>5, <1>6
  <2> HIDE DEF local, k, f
  <2> QED BY <1>10, <2>1
<1>12. CASE q.blk < LastBlock(q)
  <2>1. Becomes(r, on)
    BY <1>2, <1>12 DEF all
  <2> HIDE DEF local
  <2>2. /\ on \in ReqType /\ Same(on, q) /\ on.blk = q.blk + 1 /\ on.data = all
        /\ on.at = "lookup" /\ on.short = local.short
    <3>1. local \in ReqType /\ Same(local, q) /\ local.blk = q.blk /\ local.data = all
      BY <1>10
    <3> DEFINE b == local.blk + 1
    <3>2. b \in Nat /\ b = q.blk + 1
      BY <1>3, <3>1
    <3> HIDE DEF q, b
    <3>3. on = [local EXCEPT !.at = "lookup", !.blk = b]
      BY DEF b
    <3> HIDE DEF on
    <3>4. on \in ReqType
      BY <3>1, <3>2, <3>3 DEF ReqType
    <3>5. /\ on.header = local.header /\ on.size = local.size /\ on.blk = b /\ on.data = local.data
          /\ on.at = "lookup"
      BY <3>1, <3>3 DEF ReqType
    <3>6. on.short = local.short
      BY <3>1, <3>3 DEF ReqType
    <3> QED BY <3>1, <3>2, <3>4, <3>5, <3>6 DEF Same
  <2> HIDE DEF on
  <2>3. Ranged(on, writes) /\ BlockOK(on)
    BY <1>3, <1>4, <1>12, <2>2, SameRange DEF BlockOK
  <2>4. ReadSoFar(on, writes)
    <3> SUFFICES ASSUME ~on.short
                 PROVE  Len(all) = (on.blk - FirstBlock(q)) * blockSize /\ Placed(all, Begins(q), writes)
      BY <2>2, SameRange DEF ReadSoFar
    <3>1. ~q.short /\ n = k[2] - k[1] + 1
      BY <1>11, <2>2
    <3>2. Begins(q) + Len(q.data) = k[1] /\ Len(all) = Len(q.data) + n /\ Placed(all, Begins(q), writes)
      BY <1>9, <3>1
    <3>3. k[2] + 1 = (q.blk + 1) * blockSize /\ k[1] \in Nat /\ k[2] \in Nat /\ Len(q.data) \in Nat
      BY <1>3, <1>5, <1>12
    <3>4. Len(all) = (q.blk + 1) * blockSize - Begins(q)
      <4> DEFINE z == (q.blk + 1) * blockSize
                 b == Begins(q)
                 x == Len(q.data)
      <4>1. /\ b \in Nat /\ x \in Nat /\ k[1] \in Nat /\ k[2] \in Nat
            /\ n = k[2] - k[1] + 1 /\ b + x = k[1] /\ Len(all) = x + n /\ k[2] + 1 = z
        BY <1>4, <3>1, <3>2, <3>3
      <4> HIDE DEF k, f, z, b, x
      <4>2. Len(all) = z - b
        BY <4>1
      <4> QED BY <4>2 DEF z, b
    <3>5. (on.blk - FirstBlock(q)) * blockSize = (q.blk + 1) * blockSize - FirstBlock(q) * blockSize
      BY <1>3, <1>4, <2>2, Widths
    <3> QED BY <3>2, <3>4, <3>5 DEF Begins
  <2>5. ReqInv(on, writes)
    BY <2>2, <2>3, <2>4 DEF ReqInv, Fetched, AnswerOK
  <2> QED BY <1>1, <2>1, <2>2, <2>5, OneMoves
<1>13. CASE ~(q.blk < LastBlock(q))
  <2>1. Respond(r, local)
    BY <1>2, <1>13 DEF all
  <2> HIDE DEF local
  <2>2. /\ Ranged(local, writes) /\ Begins(local) = Begins(q) /\ Last(local) = Last(q)
    BY <1>3, <1>10, SameRange
  <2>3. ASSUME ~local.short
        PROVE  Placed(local.data, local.from, writes) /\ local.from + Len(local.data) > Last(local)
    <3>1. ~q.short /\ n = k[2] - k[1] + 1 /\ q.blk = LastBlock(q)
      BY <1>3, <1>4, <1>11, <1>13, <2>3
    <3>2. Begins(q) + Len(q.data) = k[1] /\ Len(all) = Len(q.data) + n /\ Placed(all, Begins(q), writes)
      BY <1>9, <3>1
    <3>3. Last(q) <= k[2] /\ k[1] \in Nat /\ k[2] \in Nat /\ Len(q.data) \in Nat
      BY <1>3, <1>5, <3>1
    <3>4. Begins(q) + Len(all) > Last(q)
      <4> DEFINE z == Last(q)
                 b == Begins(q)
                 x == Len(q.data)
      <4>1. /\ b \in Nat /\ x \in Nat /\ k[1] \in Nat /\ k[2] \in Nat /\ z \in Nat
            /\ n = k[2] - k[1] + 1 /\ b + x = k[1] /\ Len(all) = x + n /\ z <= k[2]
        BY <1>4, <3>1, <3>2, <3>3
      <4> HIDE DEF k, f, z, b, x
      <4>2. b + Len(all) > z
        BY <4>1
      <4> QED BY <4>2 DEF z, b
    <3> QED BY <1>10, <2>2, <3>2, <3>4
  <2>4. MovesOn(r)
    BY <1>10, <2>1, <2>2, <2>3, RespondStep
  <2>5. PICK p \in ReqType : ReqInv(p, writes) /\ Becomes(r, p)
    BY <2>4 DEF MovesOn
  <2> QED BY <1>1, <2>5, OneMoves
<1> QED BY <1>12, <1>13

LEMMA ReadFailsStep ==
    ASSUME RangeInv, NEW r \in Requests, ReadFails(r)
    PROVE  RangeInv'
<1> DEFINE q == req[r]
           p == [req[r] EXCEPT !.at = "props", !.data = <<>>]
<1>1. /\ q \in ReqType /\ ReqInv(q, writes) /\ q.at = "read" /\ Becomes(r, p)
      /\ ~Copies(r) /\ UNCHANGED <<stored, writes, cacheVars>>
  BY RangeTyped, CopiesAt DEF ReadFails, At
<1>2. p \in ReqType /\ p.at = "props" /\ Same(p, q) /\ p.blk = q.blk
  BY <1>1, PlacedEmpty DEF ReqType, Same
<1> HIDE DEF p, q
<1>3. ReqInv(p, writes)
  BY <1>1, <1>2, SameRange DEF ReqInv, BlockOK, ReadSoFar, Fetched, AnswerOK
<1> QED BY <1>1, <1>2, <1>3, OneMoves

\* The chunk of a request is the range from ChunkFrom to ChunkTo.
LEMMA ChunkIs ==
    ASSUME NEW r \in Requests
    PROVE  chunkStart(r) = ChunkFrom(req[r]) /\ chunkEnd(r) = ChunkTo(req[r])
  BY DEF chunkStart, chunkEnd, ChunkFrom, ChunkTo, Prefetching, Prefetches, Key, KeyOf, StartBlock,
         EndBlock, Start, End, Begins, FirstBlock, LastBlock, First, Last

LEMMA ChunkFacts ==
    ASSUME NEW q \in ReqType, NEW w, ReqInv(q, w),
           q.at \in {"props", "download", "cache", "pf_props", "pf_download", "pf_cache"}
    PROVE  /\ ChunkFrom(q) \in Nat /\ ChunkTo(q) \in Nat /\ ChunkFrom(q) <= ChunkTo(q)
           /\ ChunkTo(q) < q.size
           /\ KeyOf(q) \in Nat \X Nat /\ KeyOf(q)[1] <= KeyOf(q)[2]
           /\ ChunkFrom(q) <= KeyOf(q)[1] /\ KeyOf(q)[2] <= ChunkTo(q)
<1>1. CASE q.at \in {"props", "download", "cache"}
  <2>1. Begins(q) \in Nat
    BY <1>1, RangeFacts DEF ReqInv
  <2> QED BY <1>1, <2>1, BlockFacts
<1>2. CASE q.at \in {"pf_props", "pf_download", "pf_cache"}
  BY <1>2, PrefetchFacts
<1> QED BY <1>1, <1>2

\* The content that the backend holds.
LEMMA StoredFacts ==
    ASSUME RangeInv, stored # Absent
    PROVE  stored \in 1..MaxVersion /\ SizeOf[stored] \in Nat /\ (writes = 1 => stored = 1)
<1>1. stored \in 1..MaxVersion /\ (writes = 1 => stored = 1)
  BY RangeTyped, RangeAssumption DEF Absent
<1> QED BY <1>1, RangeAssumption

\* A chunk keeps its place when the request goes on to fetch it.
LEMMA SameChunk ==
    ASSUME NEW p, NEW q, Same(p, q), p.blk = q.blk, Prefetches(p) = Prefetches(q)
    PROVE  ChunkFrom(p) = ChunkFrom(q) /\ ChunkTo(p) = ChunkTo(q)
<1>1. p.size = q.size /\ KeyOf(p) = KeyOf(q) /\ Begins(p) = Begins(q) /\ LastBlock(p) = LastBlock(q)
  BY SameRange DEF Same
<1> QED BY <1>1 DEF ChunkFrom, ChunkTo

LEMMA PropertiesStep ==
    ASSUME RangeInv, NEW r \in Requests, RangeProperties(r)
    PROVE  RangeInv'
<1> DEFINE q == req[r]
           from == ChunkFrom(q)
           to == ChunkTo(q)
           n == Least(to - from + 1, SizeOf[stored] - from)
           next == IF Prefetches(q) THEN "pf_download" ELSE "download"
           p == [req[r] EXCEPT !.at = next, !.count = n]
<1>1. /\ q \in ReqType /\ ReqInv(q, writes) /\ q.at \in {"props", "pf_props"} /\ Becomes(r, p)
      /\ stored # Absent /\ from < SizeOf[stored]
      /\ ~Copies(r) /\ UNCHANGED <<stored, writes, cacheVars>>
  BY RangeTyped, CopiesAt, ChunkIs DEF RangeProperties, At, Prefetching, Prefetches
<1>2. /\ from \in Nat /\ to \in Nat /\ from <= to /\ to < q.size /\ q.size \in Nat
      /\ (writes = 1 => q.size = SizeOf[1])
  BY <1>1, ChunkFacts DEF ReqInv, Ranged, ReqType
<1>3. SizeOf[stored] \in Nat /\ (writes = 1 => SizeOf[stored] = q.size)
  BY <1>1, <1>2, StoredFacts
<1>4. n \in Nat /\ n <= to - from + 1 /\ (writes = 1 => n = to - from + 1)
  <2> HIDE DEF from, to
  <2> QED BY <1>1, <1>2, <1>3 DEF Least
<1>5. next \in {"download", "pf_download"} /\ (next = "pf_download" <=> q.at = "pf_props")
  BY <1>1 DEF Prefetches
<1> HIDE DEF next, n
<1>6. p \in ReqType /\ p.at = next /\ Same(p, q) /\ p.blk = q.blk /\ p.count = n
  BY <1>1, <1>4, <1>5 DEF ReqType, Same
<1> HIDE DEF p, q
<1>7. Prefetches(p) = Prefetches(q)
  BY <1>1, <1>5, <1>6 DEF Prefetches
<1>8. ChunkFrom(p) = from /\ ChunkTo(p) = to
  BY <1>6, <1>7, SameChunk
<1>9. Fetched(p, writes)
  BY <1>4, <1>5, <1>6, <1>8 DEF Fetched, Within
<1>10. Ranged(p, writes) /\ BlockOK(p)
  BY <1>1, <1>5, <1>6, SameRange DEF ReqInv, BlockOK, Same
<1>11. ReqInv(p, writes)
  BY <1>5, <1>6, <1>9, <1>10 DEF ReqInv, ReadSoFar, AnswerOK
<1> QED BY <1>1, <1>6, <1>11, OneMoves

LEMMA DownloadStep ==
    ASSUME RangeInv, NEW r \in Requests, RangeDownload(r)
    PROVE  RangeInv'
<1> DEFINE q == req[r]
           from == ChunkFrom(q)
           to == ChunkTo(q)
           n == Least(q.count, SizeOf[stored] - from)
           next == IF Prefetches(q) THEN "pf_cache" ELSE "cache"
           b == IF Prefetches(q) THEN q.blk ELSE FirstBlock(q)
           data == Bytes(stored, from, n)
           p == [req[r] EXCEPT !.at = next, !.blk = b, !.from = from, !.short = FALSE, !.data = data]
<1>1. /\ q \in ReqType /\ ReqInv(q, writes) /\ q.at \in {"download", "pf_download"} /\ Becomes(r, p)
      /\ stored # Absent /\ from < SizeOf[stored]
      /\ ~Copies(r) /\ UNCHANGED <<stored, writes, cacheVars>>
  BY RangeTyped, CopiesAt, ChunkIs
     DEF RangeDownload, At, Prefetching, Prefetches, StartBlock, Start, FirstBlock, First, ReqType
<1>2. /\ from \in Nat /\ to \in Nat /\ from <= to /\ to < q.size /\ q.size \in Nat
      /\ Ranged(q, writes) /\ (writes = 1 => q.size = SizeOf[1])
  BY <1>1, ChunkFacts DEF ReqInv, Ranged, ReqType
<1>3. /\ stored \in 1..MaxVersion /\ SizeOf[stored] \in Nat
      /\ (writes = 1 => stored = 1 /\ SizeOf[stored] = q.size)
  BY <1>1, <1>2, StoredFacts
<1>4. q.count \in Nat /\ q.count <= to - from + 1 /\ (writes = 1 => q.count = to - from + 1)
  BY <1>1 DEF ReqInv, Fetched, Within, ReqType
<1>5. /\ n \in Nat /\ from + n <= SizeOf[stored] /\ n <= to - from + 1
      /\ (writes = 1 => n = to - from + 1)
  <2> DEFINE c == q.count
  <2>1. c \in Nat /\ c <= to - from + 1 /\ (writes = 1 => c = to - from + 1) /\ n = Least(c, SizeOf[stored] - from)
    BY <1>4
  <2> HIDE DEF from, to, c, n
  <2> QED BY <1>1, <1>2, <1>3, <2>1 DEF Least
<1>6. data \in Seq(Byte) /\ Len(data) = n /\ Placed(data, from, writes)
  <2> HIDE DEF n, from
  <2> QED BY <1>2, <1>3, <1>5, PlacedBytes
<1>7. next \in {"cache", "pf_cache"} /\ (next = "pf_cache" <=> q.at = "pf_download")
  BY <1>1 DEF Prefetches
<1>8. FirstBlock(q) \in Nat /\ LastBlock(q) \in Nat /\ FirstBlock(q) <= LastBlock(q)
  BY <1>1, <1>2, RangeFacts
<1>9. b \in Nat /\ (next = "pf_cache" => b = q.blk) /\ (next = "cache" => b = FirstBlock(q))
  BY <1>1, <1>7, <1>8 DEF ReqType, Prefetches
<1> HIDE DEF next, data, b, from
<1>10. /\ p \in ReqType /\ p.at = next /\ Same(p, q) /\ p.blk = b /\ p.from = from /\ p.data = data
  BY <1>1, <1>2, <1>6, <1>7, <1>9 DEF ReqType, Same
<1> HIDE DEF p, q, to, n
<1>11. p.size = q.size /\ Begins(p) = Begins(q) /\ LastBlock(p) = LastBlock(q) /\ FirstBlock(p) = FirstBlock(q)
       /\ Ranged(p, writes)
  BY <1>2, <1>10, SameRange DEF Same
<1>12. ChunkFrom(p) = from /\ ChunkTo(p) = to
  <2>1. CASE next = "pf_cache"
    <3>1. p.blk = q.blk /\ Prefetches(p) = Prefetches(q)
      BY <1>1, <1>7, <1>9, <1>10, <2>1 DEF Prefetches
    <3> QED BY <1>10, <3>1, SameChunk DEF from, to
  <2>2. CASE next = "cache"
    <3>1. ~Prefetches(p) /\ ~Prefetches(q)
      BY <1>1, <1>7, <1>10, <2>2 DEF Prefetches
    <3> QED BY <1>11, <3>1 DEF ChunkFrom, ChunkTo, from, to
  <2> QED BY <1>7, <2>1, <2>2
<1>13. Fetched(p, writes)
  BY <1>5, <1>6, <1>7, <1>10, <1>12 DEF Fetched, Within
<1>14. BlockOK(p)
  <2>1. next = "pf_cache" => q.blk * blockSize < q.size
    BY <1>1, <1>7 DEF ReqInv, BlockOK
  <2> QED BY <1>7, <1>8, <1>9, <1>10, <1>11, <2>1 DEF BlockOK
<1>15. ReqInv(p, writes)
  BY <1>7, <1>10, <1>11, <1>13, <1>14 DEF ReqInv, ReadSoFar, AnswerOK
<1> QED BY <1>1, <1>10, <1>15, OneMoves

-----------------------------------------------------------------------------
(* The steps of the cache.                                                 *)

\* A Put ends: the request moves on, and the files are as they should be.
LEMMA PutEnds ==
    ASSUME RangeInv, NEW r \in Requests, MovesOn(r), copying' = NoCopy,
           UNCHANGED <<stored, writes>>, entries' \subseteq DOMAIN files',
           \A k \in DOMAIN files' :
              k \in Nat \X Nat /\ files'[k] \in Seq(Byte)
              /\ Len(files'[k]) <= k[2] - k[1] + 1 /\ Placed(files'[k], k[1], writes)
    PROVE  RangeInv'
<1>1. PICK q \in ReqType : ReqInv(q, writes) /\ req' = [req EXCEPT ![r] = q]
  BY DEF MovesOn, Becomes
<1>2. req' \in [Requests -> ReqType] /\ \A s \in Requests : ReqInv(req'[s], writes')
  BY <1>1, RangeTyped
<1>3. TypeOK'
  BY <1>2 DEF RangeInv, TypeOK, ReqType, NoCopy
<1>4. FilesInv' /\ CopyInv'
  BY DEF FilesInv, CopyInv, NoCopy
<1> QED BY <1>2, <1>3, <1>4 DEF RangeInv

\* What a request does after a block of its own range: the next, or the response.
LEMMA NextBlockMoves ==
    ASSUME RangeInv, NEW r \in Requests, req[r].at \in {"cache", "pf_cache"}, NextBlock(r)
    PROVE  MovesOn(r)
<1> DEFINE q == req[r]
           pf == [req[r] EXCEPT !.at = "pf_lookup", !.blk = q.blk + 1]
           on == [req[r] EXCEPT !.blk = q.blk + 1]
<1>1. q \in ReqType /\ ReqInv(q, writes) /\ Ranged(q, writes) /\ q.blk \in Nat
  BY RangeTyped DEF ReqInv, ReqType
<1>2. Prefetching(r) <=> q.at = "pf_cache"
  BY DEF Prefetching
<1>3. CASE q.at = "pf_cache"
  <2>1. Becomes(r, pf)
    BY <1>1, <1>2, <1>3 DEF NextBlock, ReqType
  <2>2. pf \in ReqType
    <3> DEFINE b == q.blk + 1
    <3>1. b \in Nat
      BY <1>1
    <3> HIDE DEF b
    <3>2. [req[r] EXCEPT !.at = "pf_lookup", !.blk = b] \in ReqType
      BY <1>1, <3>1 DEF ReqType
    <3> QED BY <3>2 DEF b
  <2>3. pf.at = "pf_lookup" /\ Same(pf, q)
    BY <1>1 DEF ReqType, Same
  <2> HIDE DEF pf, q
  <2>4. ReqInv(pf, writes)
    BY <1>1, <2>3, SameRange DEF ReqInv, BlockOK, ReadSoFar, Fetched, AnswerOK
  <2> QED BY <2>1, <2>2, <2>4 DEF MovesOn
<1>4. CASE q.at = "cache" /\ q.blk < LastBlock(q)
  <2>1. Becomes(r, on)
    BY <1>1, <1>2, <1>4 DEF NextBlock, ReqType, EndBlock, End, LastBlock, Last
  <2>2. on \in ReqType /\ on.at = "cache" /\ Same(on, q) /\ on.blk = q.blk + 1
        /\ on.data = q.data /\ on.from = q.from
    BY <1>1, <1>4 DEF ReqType, Same
  <2> HIDE DEF on, q
  <2>3. ~Prefetches(q) /\ ~Prefetches(on)
    BY <1>4, <2>2 DEF Prefetches
  <2>4. ChunkFrom(on) = ChunkFrom(q) /\ ChunkTo(on) = ChunkTo(q)
    BY <2>2, <2>3, SameRange DEF ChunkFrom, ChunkTo, Same
  <2>5. Fetched(on, writes)
    BY <1>1, <1>4, <2>2, <2>4 DEF ReqInv, Fetched, Within
  <2>6. BlockOK(on)
    <3>1. FirstBlock(q) \in Nat /\ LastBlock(q) \in Nat /\ FirstBlock(q) <= q.blk
      BY <1>1, <1>4, RangeFacts DEF ReqInv, BlockOK
    <3> QED BY <1>1, <1>4, <2>2, <3>1, SameRange DEF BlockOK
  <2>7. ReqInv(on, writes)
    BY <1>1, <2>2, <2>5, <2>6, SameRange DEF ReqInv, ReadSoFar, AnswerOK
  <2> QED BY <2>1, <2>2, <2>7 DEF MovesOn
<1>5. CASE q.at = "cache" /\ ~(q.blk < LastBlock(q))
  <2>1. Respond(r, q)
    BY <1>2, <1>5 DEF NextBlock, EndBlock, End, LastBlock, Last
  <2>2. q.from = ChunkFrom(q) /\ Within(q, Len(q.data), writes) /\ Placed(q.data, q.from, writes)
    BY <1>1, <1>5 DEF ReqInv, Fetched
  <2>3. ChunkFrom(q) = Begins(q) /\ ChunkTo(q) \in Nat /\ Last(q) <= ChunkTo(q)
    BY <1>1, <1>5, BlockFacts
  <2>4. Begins(q) \in Nat /\ Last(q) \in Nat
    BY <1>1, RangeFacts
  <2>5. writes = 1 => q.from + Len(q.data) > Last(q)
    BY <2>2, <2>3, <2>4 DEF Within
  <2> QED BY <1>1, <2>1, <2>2, <2>3, <2>5, RespondStep
<1> QED BY <1>3, <1>4, <1>5

\* A block that is cached has each byte at its place, and is no longer than its key says.
LEMMA BlockPlaced ==
    ASSUME RangeInv, NEW r \in Requests, req[r].at \in {"cache", "pf_cache"}
    PROVE  /\ Block(r) \in Seq(Byte)
           /\ Len(Block(r)) <= Key(r)[2] - Key(r)[1] + 1
           /\ Placed(Block(r), Key(r)[1], writes)
<1> DEFINE q == req[r]
           k == KeyOf(q)
<1>1. q \in ReqType /\ ReqInv(q, writes) /\ Key(r) = k
  BY RangeTyped DEF Key, KeyOf
<1>2. /\ ChunkFrom(q) \in Nat /\ ChunkTo(q) \in Nat
      /\ k[1] \in Nat /\ k[2] \in Nat /\ k[1] <= k[2]
      /\ ChunkFrom(q) <= k[1] /\ k[2] <= ChunkTo(q)
  BY <1>1, ChunkFacts
<1>3. /\ q.from = ChunkFrom(q) /\ Within(q, Len(q.data), writes) /\ Placed(q.data, q.from, writes)
      /\ q.data \in Seq(Byte) /\ Len(q.data) \in Nat
  BY <1>1 DEF ReqInv, Fetched, ReqType
<1>4. CASE q.at = "pf_cache"
  <2>1. Block(r) = q.data
    BY <1>4 DEF Block, Prefetching
  <2>2. ChunkFrom(q) = k[1] /\ ChunkTo(q) = k[2]
    BY <1>1, <1>4, PrefetchFacts
  <2> QED BY <1>1, <1>2, <1>3, <2>1, <2>2 DEF Within
<1>5. CASE q.at = "cache"
  <2> DEFINE d == q.data
             l == Len(d)
             from == q.from
             to == ChunkTo(q)
             x == k[1]
             y == k[2]
             a == x - from + 1
             e == Least(y - from + 1, l)
             s == SubSeq(d, a, e)
             m == y - x + 1 - Len(s)
             t == [i \in 1..m |-> Junk]
  <2>1. Block(r) = s \o t
    BY <1>1, <1>5 DEF Block, Slice, Prefetching
  <2>2. /\ l \in Nat /\ x \in Nat /\ y \in Nat /\ from \in Nat /\ to \in Nat
        /\ x <= y /\ from <= x /\ y <= to
        /\ (writes = 1 => l = to - from + 1)
        /\ d \in Seq(Byte) /\ Placed(d, from, writes) /\ l = Len(d)
    BY <1>2, <1>3 DEF Within
  <2> HIDE DEF d, l, from, to, x, y
  <2>3. e \in Nat /\ e <= l /\ e <= y - from + 1 /\ (writes = 1 => e = y - from + 1)
    BY <2>2 DEF Least
  <2> HIDE DEF e
  <2>4. a \in Nat \ {0} /\ from + a - 1 = x
    BY <2>2
  <2>5. /\ (a <= e => e - a + 1 <= y - x + 1)
        /\ (writes = 1 => a <= e /\ e - a + 1 = y - x + 1)
    BY <2>2, <2>3
  <2> HIDE DEF a
  <2>6. /\ s \in Seq(Byte) /\ Len(s) = IF a <= e THEN e - a + 1 ELSE 0
        /\ Placed(s, from + a - 1, writes)
    BY <2>2, <2>3, <2>4, PlacedCut
  <2>7. Placed(s, x, writes)
    BY <2>4, <2>6
  <2> HIDE DEF s
  <2>8. Len(s) \in Nat /\ m \in Nat /\ (writes = 1 => m = 0) /\ Len(s) + m = y - x + 1
    BY <2>2, <2>3, <2>4, <2>5, <2>6
  <2> HIDE DEF m
  <2>9. t \in Seq(Byte) /\ Len(t) = m /\ Placed(t, x + Len(s), writes)
    <3>1. x + Len(s) \in Nat
      BY <2>2, <2>8
    <3> QED BY <2>8, <3>1, PlacedJunk
  <2> HIDE DEF t
  <2>10. s \o t \in Seq(Byte) /\ Len(s \o t) = y - x + 1 /\ Placed(s \o t, x, writes)
    BY <2>2, <2>6, <2>7, <2>8, <2>9, PlacedCat
  <2> QED BY <1>1, <2>1, <2>2, <2>10 DEF x, y
<1> QED BY <1>4, <1>5

LEMMA GoesOnMoves ==
    ASSUME RangeInv, NEW r \in Requests, req[r].at \in {"cache", "pf_cache"}, GoesOn(r)
    PROVE  MovesOn(r)
<1>1. CASE Prefetching(r)
  BY <1>1, IdleOK DEF GoesOn, Returns, MovesOn
<1>2. CASE ~Prefetching(r)
  BY <1>2, NextBlockMoves DEF GoesOn
<1> QED BY <1>1, <1>2

\* The Put that is running is for the block that the request is at.
LEMMA CopyFacts ==
    ASSUME RangeInv, NEW r \in Requests, Copies(r)
    PROVE  req[r].at \in {"cache", "pf_cache"} /\ Key(r) \in DOMAIN files /\ copying # NoCopy
  BY CopiesAt DEF RangeInv, CopyInv, Copies, Key, KeyOf

LEMMA CacheBeginStep ==
    ASSUME RangeInv, NEW r \in Requests, CacheBegin(r)
    PROVE  RangeInv'
<1> DEFINE k == Key(r)
           b == Block(r)
<1>1. /\ req[r].at \in {"cache", "pf_cache"} /\ copying' = <<r, k>> /\ entries' = entries \ {k}
      /\ files' = [j \in DOMAIN files \cup {k} |-> IF j = k THEN b ELSE files[j]]
      /\ stored' = stored /\ writes' = writes /\ req' = req
  BY DEF CacheBegin, At
<1>2. k \in Nat \X Nat /\ k = KeyOf(req[r])
  BY <1>1, RangeTyped, ChunkFacts DEF Key, KeyOf
<1>3. b \in Seq(Byte) /\ Len(b) <= k[2] - k[1] + 1 /\ Placed(b, k[1], writes)
  BY <1>1, BlockPlaced
<1> HIDE DEF k, b
<1>4. DOMAIN files' = DOMAIN files \cup {k} /\ \A j \in DOMAIN files' : files'[j] = IF j = k THEN b ELSE files[j]
  BY <1>1
<1>5. \A j \in DOMAIN files' :
         j \in Nat \X Nat /\ files'[j] \in Seq(Byte)
         /\ Len(files'[j]) <= j[2] - j[1] + 1 /\ Placed(files'[j], j[1], writes)
  BY <1>2, <1>3, <1>4, RangeTyped
<1>6. FilesInv'
  BY <1>1, <1>5 DEF FilesInv
<1>7. copying'[1] = r /\ copying'[2] = k /\ copying' \in Requests \X (Nat \X Nat)
  BY <1>1, <1>2
<1>8. CopyInv'
  BY <1>1, <1>2, <1>4, <1>7 DEF CopyInv
<1>9. entries' \subseteq DOMAIN files'
  BY <1>1, <1>4, RangeTyped
<1>10. TypeOK'
  BY <1>1, <1>5, <1>7, <1>9 DEF RangeInv, TypeOK, At
<1>11. \A s \in Requests : ReqInv(req'[s], writes')
  BY <1>1, RangeTyped
<1> QED BY <1>6, <1>8, <1>10, <1>11 DEF RangeInv

LEMMA CacheEndStep ==
    ASSUME RangeInv, NEW r \in Requests, CacheEnd(r)
    PROVE  RangeInv'
<1>1. MovesOn(r) /\ Key(r) \in DOMAIN files
  BY CopyFacts, NextBlockMoves DEF CacheEnd
<1>2. /\ copying' = NoCopy /\ entries' = entries \cup {Key(r)} /\ files' = files
      /\ UNCHANGED <<stored, writes>>
  BY DEF CacheEnd
<1>3. entries' \subseteq DOMAIN files'
  BY <1>1, <1>2, RangeTyped
<1>4. \A k \in DOMAIN files' :
         k \in Nat \X Nat /\ files'[k] \in Seq(Byte)
         /\ Len(files'[k]) <= k[2] - k[1] + 1 /\ Placed(files'[k], k[1], writes)
  BY <1>2, RangeTyped
<1> QED BY <1>1, <1>2, <1>3, <1>4, PutEnds

LEMMA CacheWriteFailsStep ==
    ASSUME RangeInv, NEW r \in Requests, CacheWriteFails(r)
    PROVE  RangeInv'
<1> DEFINE x == Key(r)
<1>1. MovesOn(r) /\ x \in DOMAIN files
  BY CopyFacts, GoesOnMoves DEF CacheWriteFails
<1>2. PICK n \in 0..Len(files[x]) : files' = [files EXCEPT ![x] = SubSeq(files[x], 1, n)]
  BY DEF CacheWriteFails
<1>3. copying' = NoCopy /\ entries' = entries /\ UNCHANGED <<stored, writes>>
  BY DEF CacheWriteFails
<1> HIDE DEF x
<1>4. /\ x \in Nat \X Nat /\ files[x] \in Seq(Byte) /\ Len(files[x]) \in Nat
      /\ Len(files[x]) <= x[2] - x[1] + 1 /\ Placed(files[x], x[1], writes)
  BY <1>1, RangeTyped
<1> DEFINE f == files[x]
           s == SubSeq(f, 1, n)
<1>5. s \in Seq(Byte) /\ Len(s) <= x[2] - x[1] + 1 /\ Placed(s, x[1], writes)
  <2> HIDE DEF f
  <2>1. n \in Nat /\ n <= Len(f) /\ x[1] \in Nat /\ f \in Seq(Byte) /\ Placed(f, x[1], writes)
    BY <1>4 DEF f
  <2>2. /\ s \in Seq(Byte) /\ Len(s) = IF 1 <= n THEN n - 1 + 1 ELSE 0
        /\ Placed(s, x[1] + 1 - 1, writes)
    BY <2>1, PlacedCut
  <2>3. Len(s) = n /\ x[1] + 1 - 1 = x[1]
    BY <2>1, <2>2
  <2>4. n <= x[2] - x[1] + 1
    BY <1>4, <2>1 DEF f
  <2> QED BY <2>2, <2>3, <2>4
<1> HIDE DEF s
<1>6. DOMAIN files' = DOMAIN files /\ \A k \in DOMAIN files : files'[k] = IF k = x THEN s ELSE files[k]
  BY <1>1, <1>2 DEF s
<1>7. \A k \in DOMAIN files' :
         k \in Nat \X Nat /\ files'[k] \in Seq(Byte)
         /\ Len(files'[k]) <= k[2] - k[1] + 1 /\ Placed(files'[k], k[1], writes)
  BY <1>4, <1>5, <1>6, RangeTyped
<1>8. entries' \subseteq DOMAIN files'
  BY <1>3, <1>6, RangeTyped
<1> QED BY <1>1, <1>3, <1>7, <1>8, PutEnds

LEMMA CacheRefusesStep ==
    ASSUME RangeInv, NEW r \in Requests, CacheRefuses(r) \/ SlicePanics(r)
    PROVE  RangeInv'
<1>1. CASE CacheRefuses(r)
  <2>1. MovesOn(r) /\ ~Copies(r) /\ UNCHANGED <<stored, writes, cacheVars>>
    BY <1>1, GoesOnMoves DEF CacheRefuses, At
  <2> QED BY <2>1, OneMoves DEF MovesOn
<1>2. CASE SlicePanics(r)
  BY <1>2, ReturnsStep DEF SlicePanics
<1> QED BY <1>1, <1>2

-----------------------------------------------------------------------------
(* Prefetching, and the others.                                            *)

LEMMA FinishStep ==
    ASSUME RangeInv, NEW r \in Requests, Finish(r)
    PROVE  RangeInv'
<1> DEFINE q == req[r]
           b == LastBlock(q) + 1
           p == [Idle EXCEPT !.at = "pf_lookup", !.header = q.header, !.size = q.size, !.blk = b]
<1>1. /\ q \in ReqType /\ ReqInv(q, writes) /\ q.at \in {"answered", "rejected"}
      /\ ~Copies(r) /\ UNCHANGED <<stored, writes, cacheVars>>
  BY RangeTyped, CopiesAt DEF Finish, At
<1>2. CASE q.at = "rejected"
  BY <1>1, <1>2, ReturnsStep DEF Finish, At
<1>3. CASE q.at = "answered"
  <2>1. Becomes(r, p)
    BY <1>3 DEF Finish, At, EndBlock, End, LastBlock, Last
  <2>2. Ranged(q, writes) /\ b \in Nat
    BY <1>1, <1>3, RangeFacts DEF ReqInv
  <2> HIDE DEF b
  <2>3. p \in ReqType
    BY <1>1, <2>2, IdleOK DEF ReqType, Idle
  <2>4. p.at = "pf_lookup" /\ Same(p, q)
    BY IdleOK DEF ReqType, Idle, Same
  <2> HIDE DEF p, q
  <2>5. ReqInv(p, writes)
    BY <2>2, <2>4, SameRange DEF ReqInv, BlockOK, ReadSoFar, Fetched, AnswerOK
  <2> QED BY <1>1, <2>1, <2>3, <2>5, OneMoves
<1> QED BY <1>1, <1>2, <1>3

LEMMA PrefetchStep ==
    ASSUME RangeInv, NEW r \in Requests, Prefetch(r)
    PROVE  RangeInv'
<1> DEFINE q == req[r]
           b == q.blk + 1
           on == [req[r] EXCEPT !.blk = b]
           get == [req[r] EXCEPT !.at = "pf_props"]
<1>1. /\ q \in ReqType /\ ReqInv(q, writes) /\ q.at = "pf_lookup" /\ Ranged(q, writes)
      /\ ~Copies(r) /\ UNCHANGED <<stored, writes, cacheVars>>
  BY RangeTyped, CopiesAt DEF Prefetch, At, ReqInv
<1>2. \/ Returns(r)
      \/ Becomes(r, on)
      \/ Becomes(r, get) /\ ~(q.blk * blockSize >= q.size)
  BY <1>1 DEF Prefetch, ReqType
<1>3. b \in Nat /\ q.blk * blockSize \in Nat /\ q.size \in Nat
  BY <1>1, Widths DEF ReqType
<1> HIDE DEF b
<1>4. /\ on \in ReqType /\ on.at = "pf_lookup" /\ Same(on, q)
      /\ get \in ReqType /\ get.at = "pf_props" /\ Same(get, q) /\ get.blk = q.blk
  BY <1>1, <1>3 DEF ReqType, Same
<1> HIDE DEF on, get, q
<1>5. CASE Returns(r)
  BY <1>1, <1>5, ReturnsStep
<1>6. CASE Becomes(r, on)
  <2>1. ReqInv(on, writes)
    BY <1>1, <1>4, SameRange DEF ReqInv, BlockOK, ReadSoFar, Fetched, AnswerOK
  <2> QED BY <1>1, <1>4, <1>6, <2>1, OneMoves
<1>7. CASE Becomes(r, get) /\ ~(q.blk * blockSize >= q.size)
  <2>1. q.blk * blockSize < q.size
    BY <1>3, <1>7
  <2>2. ReqInv(get, writes)
    BY <1>1, <1>4, <2>1, SameRange DEF ReqInv, BlockOK, ReadSoFar, Fetched, AnswerOK, Same
  <2> QED BY <1>1, <1>4, <1>7, <2>2, OneMoves
<1> QED BY <1>2, <1>5, <1>6, <1>7

LEMMA LoseStep ==
    ASSUME RangeInv, NEW k \in entries, Lose(k)
    PROVE  RangeInv'
<1>1. /\ copying = NoCopy /\ copying' = copying /\ stored' = stored /\ writes' = writes /\ req' = req
      /\ DOMAIN files' = DOMAIN files \ {k} /\ \A j \in DOMAIN files' : files'[j] = files[j]
      /\ entries' = entries \ {k}
  BY DEF Lose
<1>2. TypeOK'
  BY <1>1 DEF RangeInv, TypeOK, NoCopy
<1>3. FilesInv' /\ CopyInv'
  BY <1>1 DEF RangeInv, FilesInv, CopyInv, NoCopy
<1>4. \A r \in Requests : ReqInv(req'[r], writes')
  BY <1>1, RangeTyped
<1> QED BY <1>2, <1>3, <1>4 DEF RangeInv

\* A request that was as it should be is so still when there is another write.
LEMMA LaterOK ==
    ASSUME NEW q \in ReqType, NEW w, NEW w2, w2 # 1, ReqInv(q, w)
    PROVE  ReqInv(q, w2)
<1>1. q.at \notin {"idle", "rejected"} => Ranged(q, w2)
  BY DEF ReqInv, Ranged
<1>2. q.data \in Seq(Byte) /\ q.from \in Nat
  BY DEF ReqType
<1>3. ASSUME q.at \notin {"idle", "rejected"} PROVE Begins(q) \in Nat /\ First(q) \in Nat
  BY <1>3, RangeFacts DEF ReqInv
<1>4. ReadSoFar(q, w2)
  BY <1>2, <1>3, PlacedLater DEF ReqInv, ReadSoFar
<1>5. Fetched(q, w2)
  BY <1>2, PlacedLater DEF ReqInv, Fetched, Within
<1>6. AnswerOK(q, w2)
  BY <1>2, <1>3, PlacedLater DEF ReqInv, AnswerOK
<1> QED BY <1>1, <1>4, <1>5, <1>6 DEF ReqInv

LEMMA OverwriteStep ==
    ASSUME RangeInv, Overwrite
    PROVE  RangeInv'
<1>1. /\ files' = files /\ entries' = entries /\ copying' = copying /\ req' = req
      /\ writes' \in 1..MaxVersion /\ stored' \in 0..writes'
      /\ writes' = writes \/ writes' # 1
  BY RangeTyped, RangeAssumption DEF Overwrite, cacheVars, Absent
<1>2. TypeOK'
  BY <1>1 DEF RangeInv, TypeOK, At, NoCopy
<1>3. ASSUME NEW r \in Requests PROVE ReqInv(req'[r], writes')
  BY <1>1, RangeTyped, LaterOK
<1>4. ASSUME NEW k \in DOMAIN files PROVE Placed(files[k], k[1], writes')
  BY <1>1, RangeTyped, PlacedLater
<1>5. FilesInv' /\ CopyInv'
  BY <1>1, <1>4 DEF RangeInv, FilesInv, CopyInv, NoCopy
<1> QED BY <1>2, <1>3, <1>5 DEF RangeInv

-----------------------------------------------------------------------------
LEMMA RangeInit == Init => RangeInv
<1> SUFFICES ASSUME Init PROVE RangeInv
  OBVIOUS
<1>1. TypeOK
  BY IdleOK, RangeAssumption DEF Init, TypeOK, ReqType, NoCopy, Absent
<1>2. \A r \in Requests : ReqInv(req[r], writes)
  BY IdleOK DEF Init
<1>3. FilesInv /\ CopyInv
  BY DEF Init, FilesInv, CopyInv
<1> QED BY <1>1, <1>2, <1>3 DEF RangeInv

LEMMA RangeStep == RangeInv /\ [Next]_vars => RangeInv'
<1> SUFFICES ASSUME RangeInv, [Next]_vars PROVE RangeInv'
  OBVIOUS
<1>1. ASSUME NEW r \in Requests, FallsBack(r) PROVE UNCHANGED vars
  BY <1>1 DEF FallsBack
<1>2. ASSUME UNCHANGED vars PROVE RangeInv'
  <2>1. /\ UNCHANGED <<stored, writes, files, entries, copying, req>>
    BY <1>2 DEF vars, cacheVars
  <2>2. TypeOK' /\ FilesInv' /\ CopyInv'
    BY <2>1 DEF RangeInv, TypeOK, At, FilesInv, CopyInv, NoCopy
  <2>3. \A r \in Requests : ReqInv(req'[r], writes')
    BY <2>1, RangeTyped
  <2> QED BY <2>2, <2>3 DEF RangeInv
<1>3. ASSUME NEW r \in Requests, RangeFails(r) PROVE RangeInv'
  <2>1. ~Copies(r)
    BY <1>3, CopiesAt DEF RangeFails
  <2> QED BY <1>3, <2>1, ReturnsStep DEF RangeFails
<1>4. ASSUME NEW r \in Requests,
             \/ HeadAndParse(r) \/ Lookup(r) \/ Read(r) \/ ReadFails(r)
             \/ RangeProperties(r) \/ RangeDownload(r)
      PROVE  RangeInv'
  BY <1>4, HeadStep, LookupStep, ReadStep, ReadFailsStep, PropertiesStep, DownloadStep
<1>5. ASSUME NEW r \in Requests,
             \/ CacheBegin(r) \/ CacheEnd(r) \/ SlicePanics(r) \/ CacheWriteFails(r)
             \/ CacheRefuses(r) \/ Finish(r) \/ Prefetch(r)
      PROVE  RangeInv'
  BY <1>5, CacheBeginStep, CacheEndStep, CacheWriteFailsStep, CacheRefusesStep, FinishStep,
     PrefetchStep
<1>6. ASSUME NEW k \in entries, Lose(k) PROVE RangeInv'
  BY <1>6, LoseStep
<1> QED BY <1>1, <1>2, <1>3, <1>4, <1>5, <1>6, OverwriteStep DEF Next

LEMMA RangeInductive == Spec => []RangeInv
  BY RangeInit, RangeStep, PTL DEF Spec

-----------------------------------------------------------------------------
LEMMA InvPlaced == RangeInv => BytesPlaced
<1> SUFFICES ASSUME RangeInv PROVE BytesPlaced
  OBVIOUS
<1>1. ASSUME NEW b, NEW p, Fits(b, p, writes) PROVE b = Junk \/ b[2] = p
  BY <1>1 DEF Fits
<1>2. BlocksPlaced
  BY <1>1, RangeTyped DEF BlocksPlaced, Placed
<1>3. ASSUME NEW r \in Requests, At(r, "answered"), ~req[r].short,
             NEW i \in 1..Len(req[r].data)
      PROVE  req[r].data[i] = Junk \/ req[r].data[i][2] = Start(r) + i - 1
  <2>1. Placed(req[r].data, First(req[r]), writes) /\ Start(r) = First(req[r])
    BY <1>3, RangeTyped DEF ReqInv, AnswerOK, At, Start, First
  <2> QED BY <1>1, <2>1 DEF Placed
<1>4. PayloadPlaced
  BY <1>3 DEF PayloadPlaced
<1> QED BY <1>2, <1>4 DEF BytesPlaced, RangeInv

LEMMA InvExact == RangeInv => RangeExact
<1> SUFFICES ASSUME RangeInv, NEW r \in Requests, At(r, "answered"), ~req[r].short, writes = 1
             PROVE  req[r].data = Bytes(1, Start(r), End(r) - Start(r) + 1)
  BY DEF RangeExact
<1> DEFINE q == req[r]
           d == q.data
           n == Last(q) - First(q) + 1
<1>1. q \in ReqType /\ ReqInv(q, 1) /\ q.at = "answered" /\ Start(r) = First(q) /\ End(r) = Last(q)
  BY RangeTyped DEF At, Start, First, End, Last
<1>2. /\ First(q) \in Nat /\ n \in Nat /\ d \in Seq(Byte) /\ Len(d) = n
      /\ Placed(d, First(q), 1)
  BY <1>1, RangeFacts DEF ReqInv, AnswerOK, ReqType
<1>3. ASSUME NEW i \in 1..n PROVE d[i] = <<1, First(q) + i - 1>>
  <2>1. Fits(d[i], First(q) + i - 1, 1)
    BY <1>2 DEF Placed
  <2> QED BY <2>1 DEF Fits
<1>4. d = [i \in 1..n |-> <<1, First(q) + i - 1>>]
  <2>1. d = [i \in 1..n |-> d[i]]
    BY <1>2
  <2> HIDE DEF d, n
  <2> QED BY <1>3, <2>1
<1> QED BY <1>1, <1>4 DEF Bytes

LEMMA InvSelects == RangeInv => RangeSelectsAsked
<1> DEFINE size == SizeOf[stored]
           numbers == 0..size + 2
           H == {Suffix(n) : n \in numbers} \cup {From(n) : n \in numbers}
                    \cup {Span(s, e) : s, e \in numbers}
<1> SUFFICES ASSUME RangeInv, stored # Absent, NEW h \in H
             PROVE  IF invalid(h, size) THEN Asked(h, size) = {}
                    ELSE /\ Asked(h, size) # {}
                         /\ firstOf(h, size)..lastOf(h, size) = Asked(h, size)
  BY DEF RangeSelectsAsked
<1>1. size \in Nat \ {0}
  BY StoredFacts, RangeAssumption
<1> HIDE DEF size
<1>2. h \in HeaderSpace
  <2>1. \A n \in numbers : n \in Nat
    BY <1>1
  <2> HIDE DEF numbers
  <2>2. \A n \in Nat : Suffix(n) \in HeaderSpace /\ From(n) \in HeaderSpace
    BY DEF Suffix, From, HeaderSpace
  <2>3. \A s, e \in Nat : Span(s, e) \in HeaderSpace
    BY DEF Span, HeaderSpace
  <2> QED BY <2>1, <2>2, <2>3
<1> QED BY <1>1, <1>2, SelectsAsked

\* Each byte that is cached or served stands at its place, whoever cached it and
\* whatever the object was at the time: the blocks of all sizes agree on where they
\* begin, and what is put together from them has no gap unless a file was short.
THEOREM RangeBytesPlaced == Spec => []BytesPlaced
  BY RangeInductive, InvPlaced, PTL

\* As long as nobody changes the object, a response is the range and nothing else,
\* from whatever mix of cached, evicted, prefetched and fetched blocks it comes.
THEOREM RangeServedExactly == Spec => []RangeExact
  BY RangeInductive, InvExact, PTL

\* parseSingleRange gives the bytes that the header selects and rejects the headers
\* that select none, for every size that the object has.
THEOREM RangesAsAsked == Spec => []RangeSelectsAsked
  BY RangeInductive, InvSelects, PTL

=============================================================================
