--------------------------- MODULE BlobMultipart ----------------------------
(***************************************************************************)
(* Multipart uploads on Azure Blob Storage: InitiateMultipartUpload,       *)
(* UploadPart, CompleteMultipartUpload and AbortMultipartUpload of         *)
(* internal/backend/azureblob/client.go behind their handlers, beside the  *)
(* PUTs, copies and deletes of the same blob (module BlobObject).  An      *)
(* upload is metadata in the proxy's memory and blocks in the store; a     *)
(* block id is made from the part number alone, so all uploads of a key    *)
(* share it.                                                               *)
(*                                                                         *)
(* The store is Azure's: a block is staged under its id until a commit or  *)
(* an overwrite of the blob drops what is staged, and a commit takes each  *)
(* id from the staged blocks or, failing that, from those committed.       *)
(***************************************************************************)
EXTENDS BlobObject, SequencesExt, Orders

CONSTANTS
    Uploads,    \* upload ids of the key, each initiated once
    Parts,      \* part numbers
    MaxWrites   \* bounds the uploads, PUTs and copies that are ever begun

ASSUME MultipartAssumption ==
    /\ Parts \subseteq 1..10000
    /\ IsFiniteSet(Parts)
    /\ MaxWrites \in Nat

VARIABLES
    used,       \* the upload ids that have been initiated
    singles,    \* how many PUTs and copies have been begun
    live,       \* multipartUploads
    sums,       \* PartMD5ByPart of each upload: the body a digest is of
    req,        \* the calls in flight
    acked,      \* the parts of each upload that were answered; no code reads it
    apart       \* the uploads that met no other one; no code reads it

uploads == <<used, live, sums>>
history == <<singles, acked, apart>>
vars == <<objectVars, uploads, req, history>>

-----------------------------------------------------------------------------
None == <<>>

ASSUME UploadAssumption == None \notin Uploads

NoSums == [p \in Parts |-> None]

\* A part that is sent again has the same body.
Block(u, p) == <<u, p, 0>>

IdleReq == [at |-> "idle", up |-> None, part |-> 0, sums |-> <<>>, before |-> {}]

Init ==
    /\ ObjectInit
    /\ used = {}
    /\ singles = 0
    /\ live = {}
    /\ sums = [u \in Uploads |-> NoSums]
    /\ req = [r \in Requests |-> IdleReq]
    /\ acked = [u \in Uploads |-> {}]
    /\ apart = {}

Done(r) == req' = [req EXCEPT ![r] = IdleReq]
Idle(r) == req[r].at = "idle"

InFlight == {req[r].up : r \in {q \in Requests : req[q].up # None}}

\* The upload u, which is in use no more, is forgotten.
Forget(u) ==
    /\ live' = live \ {u}
    /\ IF \E r \in Requests : req'[r].up = u THEN UNCHANGED <<sums, acked>>
       ELSE sums' = [sums EXCEPT ![u] = NoSums] /\ acked' = [acked EXCEPT ![u] = {}]
    /\ UNCHANGED <<used, singles, apart>>

MayWrite == Cardinality(used) + singles < MaxWrites

\* InitiateMultipartUpload: an id nobody has used.
InitiateMultipartUpload(u) ==
    /\ u \notin used
    /\ MayWrite
    /\ used' = used \cup {u}
    /\ live' = live \cup {u}
    /\ apart' = IF live \cup InFlight = {} THEN apart \cup {u} ELSE apart \ (live \cup InFlight)
    /\ UNCHANGED <<objectVars, sums, req, singles, acked>>

-----------------------------------------------------------------------------
\* Mutated form: the digest is recorded before the block is staged.
UploadPartRecordsFirst(r) ==
    /\ Idle(r)
    /\ \E u \in live, p \in Parts :
          /\ req' = [req EXCEPT ![r] = [IdleReq EXCEPT !.at = "stage", !.up = u, !.part = p]]
          /\ sums' = [sums EXCEPT ![u][p] = Block(u, p)]
    /\ UNCHANGED <<objectVars, used, live, history>>

\* UploadPart finds the upload and reads the body; if it finds none, it fails.
UploadPart(r) ==
    /\ Idle(r)
    /\ \E u \in live, p \in Parts :
          req' = [req EXCEPT ![r] = [IdleReq EXCEPT !.at = "stage", !.up = u, !.part = p]]
    /\ UNCHANGED <<objectVars, uploads, history>>

\* The store keeps the block, in place of one with the same id.
Stage(r) ==
    LET p == req[r].part IN
    staged' = [q \in DOMAIN staged \cup {p} |->
                  IF q = p THEN Block(req[r].up, p) ELSE staged[q]]

\* StageBlock, outside of any lock.
StageBlock(r) ==
    /\ req[r].at = "stage"
    /\ Stage(r)
    /\ req' = [req EXCEPT ![r].at = "record"]
    /\ UNCHANGED <<blob, src, put, uploads, history>>

\* The body cannot be read, the call fails, or it is done and its answer is lost.
StageBlockFails(r) ==
    /\ req[r].at = "stage"
    /\ Stage(r) \/ UNCHANGED staged
    /\ Done(r)
    /\ UNCHANGED <<blob, src, put, uploads, history>>

\* Under the upload's mutex the digest is recorded; the part is answered.
RecordPart(r) ==
    /\ req[r].at = "record"
    /\ LET u == req[r].up
           p == req[r].part
       IN  /\ sums' = [sums EXCEPT ![u][p] = Block(u, p)]
           /\ acked' = [acked EXCEPT ![u] = @ \cup {p}]
    /\ Done(r)
    /\ UNCHANGED <<objectVars, used, live, singles, apart>>

-----------------------------------------------------------------------------
\* CompleteMultipartUpload finds the upload.  It ignores the client's list of parts.
CompleteMultipartUpload(r) ==
    /\ Idle(r)
    /\ \E u \in live :
          req' = [req EXCEPT ![r] =
                     [IdleReq EXCEPT !.at = "commit", !.up = u, !.before = acked[u]]]
    /\ UNCHANGED <<objectVars, uploads, history>>

Recorded(u) == {p \in Parts : sums[u][p] # None}

\* Mutated form: the order is the wrong way round.
InOrderDescending(S) ==
    [i \in 1..Cardinality(S) |-> CHOOSE p \in S : Cardinality({q \in S : q > p}) = i - 1]

\* The part numbers, each after all the smaller ones.
InOrder(S) == FromSmallest(S)

\* What CommitBlockList can take for a block id: the staged block, or else the
\* committed one.
Stored(p) ==
    IF p \in DOMAIN staged THEN {staged[p]} ELSE {b \in ToSet(blob.content) : b[2] = p}

CanCommit(r) ==
    /\ req[r].at = "commit"
    /\ Recorded(req[r].up) # {}
    /\ \A p \in Recorded(req[r].up) : Stored(p) # {}

\* The blob becomes these blocks, and has no Content-MD5.
CommitBlockList(r, parts) ==
    /\ blob' = [content |-> [i \in DOMAIN parts |-> CHOOSE b \in Stored(parts[i]) : TRUE],
                sum |-> NoSum]
    /\ staged' = <<>>
    /\ put' = Met(r)

\* Under the upload's mutex the recorded parts are committed in order.  Nothing of
\* the upload can change meanwhile, so this is one step.
Commit(r) ==
    /\ CanCommit(r)
    /\ LET u == req[r].up
           parts == InOrder(Recorded(u))
       IN  /\ CommitBlockList(r, parts)
           /\ req' = [req EXCEPT ![r].at = "drop",
                         ![r].sums = [i \in DOMAIN parts |-> sums[u][parts[i]]]]
    /\ UNCHANGED <<src, uploads, history>>

\* The commit is done but its answer is lost: an error, and the upload stays.
CommitUnanswered(r) ==
    /\ CanCommit(r)
    /\ CommitBlockList(r, InOrder(Recorded(req[r].up)))
    /\ Done(r)
    /\ UNCHANGED <<src, uploads, history>>

\* No parts, a block the store has not got, or a call that failed.
CommitFails(r) ==
    /\ req[r].at = "commit"
    /\ Done(r)
    /\ UNCHANGED <<objectVars, uploads, history>>

\* The metadata is dropped, and the ETag answered is made of the recorded digests.
DropUpload(r) ==
    /\ req[r].at = "drop"
    /\ Done(r)
    /\ Forget(req[r].up)
    /\ UNCHANGED objectVars

\* AbortMultipartUpload: the blocks stay in the store.
AbortMultipartUpload(u) ==
    /\ u \in live
    /\ UNCHANGED <<objectVars, req>>
    /\ Forget(u)

-----------------------------------------------------------------------------
\* Another request of the key is a PUT or the copy of an object to it ...
PutObject(r) ==
    /\ Idle(r)
    /\ Start(r) \/ StartCopy(r)
    /\ MayWrite
    /\ singles' = singles + 1
    /\ req' = [req EXCEPT ![r] = [IdleReq EXCEPT !.at = "single"]]
    /\ UNCHANGED <<uploads, acked, apart>>

\* ... and is answered.
PutAnswered(r) ==
    /\ put[r].at \in {"done", "failed"}
    /\ Done(r)
    /\ Becomes(r, NoPut)
    /\ UNCHANGED <<blob, staged, src, uploads, history>>

\* The proxy restarts: the uploads were in memory only.
Restart ==
    /\ live' = {}
    /\ req' = [r \in Requests |-> IdleReq]
    /\ put' = [r \in Requests |-> NoPut]
    /\ sums' = [u \in Uploads |-> NoSums]
    /\ acked' = [u \in Uploads |-> {}]
    /\ UNCHANGED <<blob, staged, src, used, singles, apart>>

Next ==
    \/ \E u \in Uploads : InitiateMultipartUpload(u) \/ AbortMultipartUpload(u)
    \/ \E r \in Requests :
          \/ UploadPart(r) \/ StageBlock(r) \/ StageBlockFails(r) \/ RecordPart(r)
          \/ CompleteMultipartUpload(r) \/ Commit(r) \/ CommitUnanswered(r)
          \/ CommitFails(r) \/ DropUpload(r) \/ PutObject(r) \/ PutAnswered(r)
    \/ /\ Overwrite \/ Delete \/ \E r \in Requests : PutStep(r)
       /\ UNCHANGED <<uploads, req, history>>
    \/ Restart

Spec == Init /\ [][Next]_vars

-----------------------------------------------------------------------------
Blocks == {Block(u, p) : u \in Uploads, p \in Parts}
    \cup {<<b, 0, n>> : b \in Bodies, n \in UNION {0..Size(c) : c \in Bodies}}

\* Every variable keeps its type; only initiated uploads are live or called, and an
\* answered part is recorded.
TypeOK ==
    /\ PutTypeOK
    /\ blob \in [content : Seq(Blocks), sum : Seq(Blocks)]
    /\ DOMAIN staged \subseteq Parts
    /\ \A p \in DOMAIN staged : staged[p] \in {Block(u, p) : u \in used}
    /\ singles \in 0..MaxWrites
    /\ used \subseteq Uploads /\ live \subseteq used /\ apart \subseteq used
    /\ sums \in [Uploads -> [Parts -> Blocks \cup {None}]]
    /\ acked \in [Uploads -> SUBSET Parts]
    /\ \A u \in Uploads : acked[u] \subseteq Recorded(u)
    /\ req \in [Requests ->
                  [at : {"idle", "stage", "record", "commit", "drop", "single"},
                   up : Uploads \cup {None}, part : Parts \cup {0},
                   sums : Seq(Blocks), before : SUBSET Parts]]
    /\ \A r \in Requests :
          /\ req[r].up \in IF req[r].at \in {"idle", "single"} THEN {None} ELSE used
          /\ req[r].at \in {"stage", "record"} => req[r].part \in Parts

Committing(r) == req'[r].at = "drop" /\ req[r].at # "drop"

\* An upload that no other upload of the key overlapped, when it is completed,
\* becomes what its ETag will say: the recorded body of every part, and nothing that
\* an earlier upload, a PUT, a copy or a call that failed has left in the store.
EtagIsOfTheBody ==
    [][\A r \in Requests :
          Committing(r) /\ req[r].up \in apart => blob'.content = req'[r].sums]_vars

\* A completed upload has every part that had been answered before the call came, in
\* the order of the part numbers, whatever was retried, lost or raced meanwhile.
CompletedWhole ==
    [][\A r \in Requests : Committing(r) =>
          LET parts == [i \in DOMAIN blob'.content |-> blob'.content[i][2]]
          IN  /\ req[r].before \subseteq ToSet(parts)
              /\ \A i, j \in DOMAIN parts : i < j => parts[i] < parts[j]]_vars

=============================================================================
