------------------------------ MODULE BlobObject -------------------------------
(***************************************************************************)
(* PutObject, CopyObject and DeleteObject on Azure Blobs                   *)
(* (internal/backend/azureblob/client.go) by several requests that write   *)
(* one blob, which multipart uploads write too (module BlobMultipart,      *)
(* which has the initial states and the runs).  The blob changes as a      *)
(* whole, when the service commits it, and blocks that are staged for it   *)
(* are dropped then.  The MD5 that later reads show as the ETag comes with *)
(* the commit when the body is in memory, and by a call of its own when it *)
(* is streamed.                                                            *)
(*                                                                         *)
(* A blob is a sequence of blocks <<what it is of, part, which>>.  A copy  *)
(* is a GET of the source, which learns the size before it opens the body, *)
(* followed by a put.                                                      *)
(***************************************************************************)
EXTENDS Integers, Sequences, FiniteSets

CONSTANTS
    Requests,           \* calls in flight
    Bodies,             \* what a PUT, or the source of a copy, can hold
    Size(_),            \* how long each one is
    CleanEnds(_),       \* where the body of a PUT can end without an error (ChunkedBody)
    NoBody

ASSUME BlobAssumption ==
    /\ NoBody \notin Bodies
    /\ \A b \in Bodies : /\ Size(b) \in Nat
                         /\ Size(b) \in CleanEnds(b)
                         /\ CleanEnds(b) \subseteq 0..Size(b)

VARIABLES
    blob,   \* its blocks and its Content-MD5, or NoBlob
    staged, \* its uncommitted blocks, by part
    src,    \* the content of the object that is copied
    put     \* the calls of PutObject

objectVars == <<blob, staged, src, put>>

-----------------------------------------------------------------------------
\* The first n bytes of a body, as one block that is no part of an upload.
Content(b, n) == << <<b, 0, n>> >>

NoSum == <<>>
NoBlob == [content |-> <<>>, sum |-> NoSum]

NoPut == [at |-> "idle", copy |-> FALSE, streamed |-> FALSE, size |-> 0,
          body |-> NoBody, n |-> 0, alone |-> TRUE]

ObjectInit ==
    /\ blob = NoBlob
    /\ staged = <<>>
    /\ src \in Bodies
    /\ put = [w \in Requests |-> NoPut]

Busy(w) == put[w].at \notin {"idle", "done", "failed"}
Others(w) == {v \in Requests \ {w} : Busy(v)}

\* The calls, once w has changed the blob or begins to: the others are not alone.
Met(w) == [v \in Requests |->
              IF v # w /\ Busy(v) THEN [put[v] EXCEPT !.alone = FALSE] ELSE put[v]]

Enters(w, p) == put' = [Met(w) EXCEPT ![w] = [p EXCEPT !.alone = Others(w) = {}]]
Becomes(w, p) == put' = [put EXCEPT ![w] = p]
Fails(w) == Becomes(w, [NoPut EXCEPT !.at = "failed"])

\* A body of which the size is known and small is read into memory, unless a
\* bandwidth limiter is in use.
Ways(size) == IF size > 0 THEN BOOLEAN ELSE {TRUE}

\* PutObject with the length of the body, or without for an aws-chunked one.
Start(w) ==
    /\ \E b \in Bodies : \E size \in {Size(b), 0} : \E streamed \in Ways(size) :
          Enters(w, [NoPut EXCEPT !.at = "read", !.streamed = streamed,
                                  !.size = IF streamed THEN 0 ELSE size, !.body = b])
    /\ UNCHANGED <<blob, staged, src>>

\* CopyObject: the properties of the source say how long it is ...
StartCopy(w) ==
    /\ Enters(w, [NoPut EXCEPT !.at = "open", !.copy = TRUE, !.size = Size(src)])
    /\ UNCHANGED <<blob, staged, src>>

\* ... and the download is of what it holds by now.
Open(w) ==
    /\ put[w].at = "open"
    /\ \E streamed \in Ways(put[w].size) :
          Becomes(w, [put[w] EXCEPT !.at = "read", !.streamed = streamed, !.body = src,
                                    !.size = IF streamed THEN 0 ELSE @])
    /\ UNCHANGED <<blob, staged, src>>

\* Another request writes the source.
Overwrite ==
    /\ src' \in Bodies \ {src}
    /\ put' = [w \in Requests |-> [put[w] EXCEPT !.alone = @ /\ put[w].at # "open"]]
    /\ UNCHANGED <<blob, staged>>

-----------------------------------------------------------------------------
\* Where the body can end: a source that is downloaded ends where it ends.
Ends(w) == IF put[w].copy THEN {Size(put[w].body)} ELSE CleanEnds(put[w].body)

\* io.ReadFull fills the buffer, and looks no further.
Filled(w, n) == n >= put[w].size

Least(a, b) == IF a < b THEN a ELSE b

ReadFull(w) ==
    /\ put[w].at = "read"
    /\ ~put[w].streamed
    /\ \E n \in Ends(w) :
          IF Filled(w, n)
          THEN Becomes(w, [put[w] EXCEPT !.at = "upload", !.n = Least(n, put[w].size)])
          ELSE Fails(w)
    /\ UNCHANGED <<blob, staged, src>>

\* The blob is committed, which drops what was staged; the call goes on with p, or
\* its answer is lost.
Commits(w, p, sum) ==
    /\ blob' = [content |-> Content(p.body, p.n), sum |-> sum]
    /\ staged' = <<>>
    /\ Becomes(w, p) \/ Fails(w)
    /\ UNCHANGED src

\* Mutated form: the upload carries no MD5, and leaves the one that is there.
UploadBufferWithoutSum(w) ==
    /\ put[w].at = "upload"
    /\ Commits(w, [put[w] EXCEPT !.at = "done"], blob.sum)

UploadBuffer(w) ==
    /\ put[w].at = "upload"
    /\ Commits(w, [put[w] EXCEPT !.at = "done"], Content(put[w].body, put[w].n))

\* UploadStream commits its blocks when the body has ended; that takes the MD5 away,
\* unless it was one block, of which the service itself computes it.
UploadStream(w) ==
    /\ put[w].at = "read"
    /\ put[w].streamed
    /\ \E n \in Ends(w) : \E sum \in {NoSum, Content(put[w].body, n)} :
          Commits(w, [put[w] EXCEPT !.at = "sum", !.n = n], sum)

\* Best effort: the blob may be gone, or the call fails.
SetHTTPHeaders(w) ==
    /\ put[w].at = "sum"
    /\ \/ UNCHANGED blob
       \/ blob # NoBlob /\ blob' = [blob EXCEPT !.sum = Content(put[w].body, put[w].n)]
    /\ Becomes(w, [put[w] EXCEPT !.at = "done"])
    /\ UNCHANGED <<staged, src>>

\* The body breaks off or a call fails: the blob is as it was.
Fail(w) ==
    /\ put[w].at \in {"open", "read", "upload"}
    /\ Fails(w)
    /\ UNCHANGED <<blob, staged, src>>

\* DeleteObject; a blob that is not there is success, and its staged blocks may stay.
Delete ==
    /\ blob' = NoBlob
    /\ staged' \in {<<>>, staged}
    /\ put' = [w \in Requests |-> [put[w] EXCEPT !.alone = @ /\ ~Busy(w)]]
    /\ UNCHANGED src

PutStep(w) ==
    \/ Open(w) \/ ReadFull(w) \/ UploadBuffer(w) \/ UploadStream(w)
    \/ SetHTTPHeaders(w) \/ Fail(w)

-----------------------------------------------------------------------------
\* A call has a body once it is being read, holds no more of it than there is, and
\* uploads a buffer only when it is full.
PutTypeOK ==
    /\ src \in Bodies
    /\ put \in [Requests ->
                  [at : {"idle", "open", "read", "upload", "sum", "done", "failed"},
                   copy : BOOLEAN, streamed : BOOLEAN, size : Nat,
                   body : Bodies \cup {NoBody}, n : Nat, alone : BOOLEAN]]
    /\ \A w \in Requests :
          /\ put[w].at \in {"read", "upload", "sum"} =>
                put[w].body \in Bodies /\ put[w].n <= Size(put[w].body)
          /\ put[w].at = "upload" => put[w].n = put[w].size /\ ~put[w].streamed

\* A call that met no other, nor a completed upload, leaves its body, up to a place
\* where it could end, and no ETag but that of what the blob holds; whatever calls
\* that failed, overlapped or lost their answer left there before.  In memory the
\* body is all of it.
AloneIsExact ==
    [][\A w \in Requests :
          put'[w].at = "done" /\ put[w].at # "done" /\ put[w].alone =>
              LET p == put'[w] IN
                  /\ blob'.content = Content(p.body, p.n)
                  /\ blob'.sum \in {blob'.content, NoSum}
                  /\ p.n \in CleanEnds(p.body)
                  /\ ~p.streamed => p.n = Size(p.body)]_objectVars

=============================================================================
