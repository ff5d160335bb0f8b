-------------------------- MODULE ConcurrentReader --------------------------
(***************************************************************************)
(* concurrentReader (internal/backend/azureblob/concurrent_reader.go): the *)
(* body of a large blob, downloaded in chunks by several workers.          *)
(*                                                                         *)
(*   feeder --jobs--> workers --results--> run's loop --pipe--> consumer   *)
(*                                                                         *)
(* jobs is unbuffered, results holds as many chunks as there are workers,  *)
(* and the loop keeps in a map what arrives too early.  A byte is its      *)
(* position in the blob; the pipe hands a whole chunk over in one step.    *)
(* GetObject uses the reader above 64 MB, so there is at least one chunk.  *)
(***************************************************************************)
EXTENDS Integers, Sequences, FiniteSets

CONSTANTS Workers, blobSize, chunkSize

ASSUME ReaderAssumption ==
    /\ IsFiniteSet(Workers) /\ Workers # {}
    /\ blobSize \in Nat \ {0} /\ chunkSize \in Nat \ {0}

VARIABLES
    feeder,     \* the next job to send; numChunks + 1 when jobs is closed
    worker,     \* where each worker is, its chunk and whether that failed
    results,    \* the results channel
    closed,     \* whether results is closed
    buffer,     \* the chunks that wait in the map
    nextChunkID,
    loop,       \* where run's loop is
    cancelled,  \* whether the reader's context is done
    hungUp,     \* whether the consumer closed the reader
    out,        \* the bytes that the consumer has read
    end         \* what the consumer's next Read finds: data, the end, an error

chanVars == <<feeder, worker, results, closed>>
loopVars == <<buffer, nextChunkID, loop>>
readerVars == <<chanVars, loopVars, cancelled, hungUp, out, end>>

-----------------------------------------------------------------------------
numChunks == (blobSize + chunkSize - 1) \div chunkSize

Chunks == 0..numChunks - 1

\* The bytes of a chunk, the last one cut at the end of the blob.
ChunkData(id) ==
    LET start == id * chunkSize
        count == IF start + chunkSize > blobSize THEN blobSize - start ELSE chunkSize
    IN  [i \in 1..count |-> start + i - 1]

JobsClosed == feeder = numChunks + 1

ReaderInit ==
    /\ feeder = 0
    /\ worker = [w \in Workers |-> [at |-> "receive", id |-> 0, failed |-> FALSE]]
    /\ results = <<>>
    /\ closed = FALSE
    /\ buffer = {}
    /\ nextChunkID = 0
    /\ loop = "receive"
    /\ cancelled = FALSE
    /\ hungUp = FALSE
    /\ out = <<>>
    /\ end = "open"

-----------------------------------------------------------------------------
(* The feeder and the workers.                                             *)

Moves(w, from, to) == worker[w].at = from /\ worker' = [worker EXCEPT ![w].at = to]

\* The feeder's send meets a worker's receive.
Dispatch(w) ==
    /\ feeder < numChunks
    /\ worker[w].at = "receive"
    /\ worker' = [worker EXCEPT ![w] = [at |-> "check", id |-> feeder, failed |-> FALSE]]
    /\ feeder' = feeder + 1
    /\ UNCHANGED <<results, closed, loopVars, cancelled, hungUp, out, end>>

\* All jobs are sent, or the context is done: close(jobs).
CloseJobs ==
    /\ feeder = numChunks \/ (cancelled /\ ~JobsClosed)
    /\ feeder' = numChunks + 1
    /\ UNCHANGED <<worker, results, closed, loopVars, cancelled, hungUp, out, end>>

\* The worker looks whether the context is done.
Check(w) ==
    /\ Moves(w, "check", IF cancelled THEN "exited" ELSE "download")
    /\ UNCHANGED <<feeder, results, closed, loopVars, cancelled, hungUp, out, end>>

\* DownloadStream and ReadFull return; a cancelled download fails.
Download(w) ==
    /\ worker[w].at = "download"
    /\ \E failed \in BOOLEAN :
          worker' = [worker EXCEPT ![w].at = "send", ![w].failed = failed]
    /\ UNCHANGED <<feeder, results, closed, loopVars, cancelled, hungUp, out, end>>

hasRoom == Len(results) < Cardinality(Workers)

Send(w) ==
    /\ hasRoom
    /\ Moves(w, "send", "receive")
    /\ results' = Append(results, [id |-> worker[w].id, failed |-> worker[w].failed])
    /\ UNCHANGED <<feeder, closed, loopVars, cancelled, hungUp, out, end>>

\* Mutated form: a worker with a result waits for room and nothing else.
GivesUpSendingNever(w) == FALSE

GivesUpSending(w) == worker[w].at = "send" /\ cancelled

\* jobs is closed, or the context is done while the worker has a result.
Exit(w) ==
    /\ (worker[w].at = "receive" /\ JobsClosed) \/ GivesUpSending(w)
    /\ worker' = [worker EXCEPT ![w].at = "exited"]
    /\ UNCHANGED <<feeder, results, closed, loopVars, cancelled, hungUp, out, end>>

\* wg.Wait, then close(results).
CloseResults ==
    /\ ~closed
    /\ \A w \in Workers : worker[w].at = "exited"
    /\ closed' = TRUE
    /\ UNCHANGED <<feeder, worker, results, loopVars, cancelled, hungUp, out, end>>

-----------------------------------------------------------------------------
(* The loop of run and the pipe.                                           *)

\* A chunk that arrived: it goes to the map, and the loop writes if the next one
\* is there.
Receive ==
    /\ loop = "receive"
    /\ results # <<>>
    /\ ~results[1].failed
    /\ results' = Tail(results)
    /\ buffer' = buffer \cup {results[1].id}
    /\ loop' = IF nextChunkID \in buffer' THEN "write" ELSE "receive"
    /\ UNCHANGED <<feeder, worker, closed, nextChunkID, cancelled, hungUp, out, end>>

\* The end of the pipe is set once: the deferred Close comes too late.
Ends(how) == end' = IF end = "open" THEN how ELSE end

\* Mutated form: a failed chunk ends the pipe like the last one.
failureReportedAsEnd == "eof"

failureReported == "error"

\* A chunk that failed: CloseWithError, cancel, return.
ReceiveFailed ==
    /\ loop = "receive"
    /\ results # <<>>
    /\ results[1].failed
    /\ results' = Tail(results)
    /\ Ends(failureReported)
    /\ cancelled' = TRUE
    /\ loop' = "returned"
    /\ UNCHANGED <<feeder, worker, closed, buffer, nextChunkID, hungUp, out>>

\* results is closed and empty: return, and the deferred w.Close.
ReceiveClosed ==
    /\ loop = "receive"
    /\ results = <<>>
    /\ closed
    /\ Ends("eof")
    /\ loop' = "returned"
    /\ UNCHANGED <<chanVars, buffer, nextChunkID, cancelled, hungUp, out>>

\* The consumer reads the chunk that the loop is writing.
Deliver ==
    /\ loop = "write"
    /\ ~hungUp
    /\ out' = out \o ChunkData(nextChunkID)
    /\ buffer' = buffer \ {nextChunkID}
    /\ nextChunkID' = nextChunkID + 1
    /\ loop' = IF nextChunkID' \in buffer' THEN "write" ELSE "receive"
    /\ UNCHANGED <<chanVars, cancelled, hungUp, end>>

\* The consumer is gone: Write fails, cancel, return, and the deferred w.Close.
WriteFails ==
    /\ loop = "write"
    /\ hungUp
    /\ cancelled' = TRUE
    /\ loop' = "returned"
    /\ Ends("eof")
    /\ UNCHANGED <<chanVars, buffer, nextChunkID, hungUp, out>>

\* The consumer's Close.
Close ==
    /\ ~hungUp
    /\ hungUp' = TRUE
    /\ cancelled' = TRUE
    /\ UNCHANGED <<chanVars, loopVars, out, end>>

\* The request's context is cancelled while the consumer may go on reading.
CancelParent ==
    /\ ~cancelled
    /\ cancelled' = TRUE
    /\ UNCHANGED <<chanVars, loopVars, hungUp, out, end>>

ReaderNext ==
    \/ \E w \in Workers : Dispatch(w) \/ Check(w) \/ Download(w) \/ Send(w) \/ Exit(w)
    \/ CloseJobs \/ CloseResults
    \/ Receive \/ ReceiveFailed \/ ReceiveClosed \/ Deliver \/ WriteFails
    \/ Close \/ CancelParent

ReaderSpec == ReaderInit /\ [][ReaderNext]_readerVars

\* Goroutines run and downloads return.  The consumer need not close the reader,
\* and reads as long as it does not.
Fairness ==
    /\ \A w \in Workers :
          WF_readerVars(Dispatch(w) \/ Check(w) \/ Download(w) \/ Send(w) \/ Exit(w))
    /\ WF_readerVars(CloseJobs) /\ WF_readerVars(CloseResults)
    /\ WF_readerVars(Receive \/ ReceiveFailed \/ ReceiveClosed \/ Deliver \/ WriteFails)

FairSpec == ReaderSpec /\ Fairness

-----------------------------------------------------------------------------
\* Every variable keeps its type, and results keeps to its capacity.
ReaderTypeOK ==
    /\ feeder \in 0..numChunks + 1
    /\ \A w \in Workers :
          worker[w].at \in {"receive", "check", "download", "send", "exited"}
    /\ Len(results) <= Cardinality(Workers)
    /\ buffer \subseteq Chunks
    /\ nextChunkID \in 0..numChunks
    /\ loop \in {"receive", "write", "returned"}
    /\ end \in {"open", "eof", "error"}

\* No goroutine outlives the reader: once the consumer has closed it, workers,
\* feeder and loop all return, wherever they were blocked.
CloseReleasesAll ==
    hungUp ~> (loop = "returned" /\ closed /\ JobsClosed)

\* The reader is an ordered stream of the blob: whatever the order in which
\* chunks arrive, the consumer gets every byte once and in order, an error of any
\* chunk as an error, and the end only after the last byte, unless the download
\* was called off; and a consumer that goes on reading gets to the end.
Stream == INSTANCE OrderedStream WITH Size <- blobSize, calledOff <- cancelled
ImplementsStream == Stream!Spec

=============================================================================
