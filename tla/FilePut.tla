------------------------------ MODULE FilePut -------------------------------
(***************************************************************************)
(* PutObject on Azure Files (internal/backend/azurefile/client.go), by     *)
(* several callers that write one file: PUT requests, and completions of   *)
(* multipart uploads (module FileMultipart, which has the initial states   *)
(* and the runs).  The file is first created, which makes it all zeros,    *)
(* and then filled range by range, in any order; the MD5 that later reads  *)
(* show as the ETag is set with the creation when the body is in memory,   *)
(* and afterwards, if that succeeds, when it is streamed.                  *)
(*                                                                         *)
(* A body is the sequence of its ranges, as far as it comes.  The size with *)
(* which PutObject is called is not always its length.                     *)
(***************************************************************************)
EXTENDS Integers, Sequences, FiniteSets

CONSTANTS
    Requests,       \* calls in flight
    Zero, NoSum     \* an unwritten range; no Content-MD5

VARIABLES
    file,       \* the ranges of the file; <<>> also when there is none
    md5,        \* its Content-MD5: the body it is of, or NoSum
    put         \* the calls: where they are, their size and body, and what is left to send

fileVars == <<file, md5, put>>

-----------------------------------------------------------------------------
NoPut == [at |-> "idle", streamed |-> FALSE, size |-> 0, body |-> <<>>, left |-> {},
          alone |-> TRUE]

\* The file as Create makes it.
Blank(size) == [i \in 1..size |-> Zero]

Busy(w) == put[w].at \in {"create", "send", "sum"}
Others(w) == {v \in Requests \ {w} : Busy(v)}

\* No file yet.
PutInit ==
    /\ file = <<>>
    /\ md5 = NoSum
    /\ put = [w \in Requests |-> NoPut]

\* What is uploaded of a body.  A small one is read into memory, unless a bandwidth
\* limiter is in use, and no further than its size; one that is shorter fails.
Taken(body, size, streamed) == IF streamed THEN body ELSE SubSeq(body, 1, size)
CanTake(body, size, streamed) == streamed \/ size \in 1..Len(body)

\* PutObject is called; the parent directories are there.
Enter(w, body, size) ==
    /\ ~Busy(w)
    /\ \E streamed \in BOOLEAN :
          LET taken == Taken(body, size, streamed) IN
          /\ CanTake(body, size, streamed)
          /\ put' = [v \in Requests |->
              IF v = w THEN [at |-> "create", streamed |-> streamed, size |-> size, body |-> taken,
                             left |-> DOMAIN taken, alone |-> Others(w) = {}]
              ELSE IF v \in Others(w) THEN [put[v] EXCEPT !.alone = FALSE]
              ELSE put[v]]
    /\ UNCHANGED <<file, md5>>

\* Mutated form: the file is not created anew, and keeps what it held.
CreateKeeps(w) ==
    /\ put[w].at = "create"
    /\ file' = [i \in 1..put[w].size |-> IF i \in DOMAIN file THEN file[i] ELSE Zero]
    /\ md5' = IF put[w].streamed THEN md5 ELSE put[w].body
    /\ put' = [put EXCEPT ![w].at = "send"]

Create(w) ==
    /\ put[w].at = "create"
    /\ file' = Blank(put[w].size)
    /\ md5' = IF put[w].streamed THEN NoSum ELSE put[w].body
    /\ put' = [put EXCEPT ![w].at = "send"]

\* One of the ranges that UploadBuffer or UploadStream sends at the same time.  A
\* range outside of the file is refused, which a call does not survive.
Send(w) ==
    /\ put[w].at = "send"
    /\ \E i \in put[w].left \cap DOMAIN file :
          /\ file' = [file EXCEPT ![i] = put[w].body[i]]
          /\ put' = [put EXCEPT ![w].left = @ \ {i}]
    /\ UNCHANGED md5

AllSent(w) == put[w].at = "send" /\ put[w].left = {}

Answer(w) == put' = [put EXCEPT ![w].at = "done"]

\* The body was in memory: the call is answered with its MD5.
Sent(w) ==
    /\ AllSent(w)
    /\ ~put[w].streamed
    /\ Answer(w)
    /\ UNCHANGED <<file, md5>>

\* It was streamed: its MD5 is known by now ...
Summed(w) ==
    /\ AllSent(w)
    /\ put[w].streamed
    /\ put' = [put EXCEPT ![w].at = "sum"]
    /\ UNCHANGED <<file, md5>>

\* ... and is stored, or not: SetHTTPHeaders is best effort.
SetHTTPHeaders(w) ==
    /\ put[w].at = "sum"
    /\ md5' \in {md5, put[w].body}
    /\ Answer(w)
    /\ UNCHANGED file

\* A body that cannot be read, or a call that fails: the file stays as it is.
Fail(w) ==
    /\ put[w].at \in {"create", "send"}
    /\ put' = [put EXCEPT ![w] = [NoPut EXCEPT !.at = "failed"]]
    /\ UNCHANGED <<file, md5>>

\* The caller has its answer.
Leave(w) == put' = [put EXCEPT ![w] = NoPut]

\* DeleteObject.
Delete ==
    /\ file' = <<>>
    /\ md5' = NoSum
    /\ put' = [w \in Requests |-> [put[w] EXCEPT !.alone = @ /\ ~Busy(w)]]

PutStep(w) ==
    \/ Create(w) \/ Send(w) \/ Sent(w) \/ Summed(w) \/ SetHTTPHeaders(w) \/ Fail(w)

-----------------------------------------------------------------------------
PutTypeOK ==
    \A w \in Requests :
        /\ put[w].at \in {"idle", "create", "send", "sum", "done", "failed"}
        /\ put[w].left \subseteq DOMAIN put[w].body
        /\ put[w].at \in {"sum", "done"} => put[w].left = {}

\* A call that met no other leaves exactly its body, and zeros where it ended before
\* its size was reached, whatever failed or overlapping calls have left in the file
\* before, and no ETag but its own; a body longer than its size is not answered as
\* written.
AloneIsExact ==
    [][\A w \in Requests :
          put'[w].at = "done" /\ put[w].at # "done" /\ put[w].alone =>
              LET body == put[w].body IN
                  /\ Len(body) <= put[w].size
                  /\ file' = body \o [i \in 1..(put[w].size - Len(body)) |-> Zero]
                  /\ md5' \in {body, NoSum}]_fileVars

=============================================================================
