--------------------------- MODULE FileMultipart ----------------------------
(***************************************************************************)
(* A multipart upload on Azure Files (internal/backend/azurefile/          *)
(* client.go), which has none: the parts are kept in the proxy's memory    *)
(* until CompleteMultipartUpload puts them together and writes the file    *)
(* with PutObject, while PUT requests and deletes of the same file go on   *)
(* (module FilePut).  A part is its size and its content, and a range of   *)
(* the file that it becomes.                                               *)
(***************************************************************************)
EXTENDS FilePut, FiniteSetsExt, SequencesExt, Orders

CONSTANTS
    Parts,          \* part numbers
    Sizes,          \* of parts
    Contents,       \* what a part can hold
    maxPartSize, maxMultipartUploadSize

ASSUME BufferAssumption ==
    /\ IsFiniteSet(Parts) /\ Parts \subseteq 1..10000
    /\ IsFiniteSet(Requests)
    /\ maxPartSize \in Nat /\ maxMultipartUploadSize \in Nat
    /\ Sizes \subseteq Nat

VARIABLES
    live,       \* whether the upload is in multipartUploads
    buffered,   \* upload.Parts
    order,      \* upload.PartOrder
    req,        \* the calls in flight
    acked       \* the part numbers that have been answered; no code reads it

upload == <<live, buffered, order>>
vars == <<fileVars, upload, req, acked>>

-----------------------------------------------------------------------------
PartData(n, content) == [size |-> n, content |-> content]
NoPart == [size |-> 0]
IdleReq == [at |-> "idle", part |-> 0, data |-> NoPart, before |-> {}]

\* InitiateMultipartUpload has made the upload.
Init ==
    /\ PutInit
    /\ live = TRUE
    /\ buffered = <<>>
    /\ order = <<>>
    /\ req = [r \in Requests |-> IdleReq]
    /\ acked = {}

Done(r) == req' = [req EXCEPT ![r] = IdleReq]
BufferedSize == MapThenSumSet(LAMBDA p : buffered[p].size, DOMAIN buffered)

\* Mutated form: the total is not checked.
FitsAlways(known) == TRUE

\* A size that is not known counts as none.
Fits(known) == BufferedSize + known <= maxMultipartUploadSize

\* UploadPart: the upload is there, the part's size is allowed and, with what is
\* buffered by now, so is the total.
UploadPart(r) ==
    /\ req[r].at = "idle"
    /\ live
    /\ \E p \in Parts, n \in Sizes, content \in Contents, known \in BOOLEAN :
          /\ n <= maxPartSize
          /\ Fits(IF known THEN n ELSE 0)
          /\ req' = [req EXCEPT ![r] = [IdleReq EXCEPT
                        !.at = "read", !.part = p, !.data = PartData(n, content)]]
    /\ UNCHANGED <<fileVars, upload, acked>>

\* The body is not all read: the part fails.
ReadFails(r) ==
    /\ req[r].at = "read"
    /\ Done(r)
    /\ UNCHANGED <<fileVars, upload, acked>>

Kept(p) == p \in DOMAIN buffered

\* PartOrder is extended by a new part only.
Ordered(p) == IF Kept(p) THEN order ELSE Append(order, p)

\* Under the upload's mutex the part is kept, in place of an earlier one.
StorePart(r) ==
    /\ req[r].at = "read"
    /\ LET p == req[r].part IN
          /\ buffered' = [q \in DOMAIN buffered \cup {p} |->
                             IF q = p THEN req[r].data ELSE buffered[q]]
          /\ order' = Ordered(p)
          /\ acked' = acked \cup {p}
    /\ Done(r)
    /\ UNCHANGED <<fileVars, live>>

\* CompleteMultipartUpload finds the upload ...
CompleteMultipartUpload(r) ==
    /\ req[r].at = "idle"
    /\ live
    /\ req' = [req EXCEPT ![r] = [IdleReq EXCEPT !.at = "assemble", !.before = acked]]
    /\ UNCHANGED <<fileVars, upload, acked>>

\* Mutated form: the parts are put together as they came.
AscendingNot(S) == order

\* The part numbers, each after all the smaller ones.
Ascending(S) == FromSmallest(S)

\* ... and under its mutex puts the parts together, in the order of their numbers;
\* PutObject is called with them.
Assemble(r) ==
    /\ req[r].at = "assemble"
    /\ LET parts == Ascending(DOMAIN buffered)
           whole == [i \in DOMAIN parts |-> [part |-> parts[i], data |-> buffered[parts[i]]]]
       IN  IF parts = <<>> THEN Done(r) /\ UNCHANGED fileVars
           ELSE Enter(r, whole, Len(whole)) /\ req' = [req EXCEPT ![r].at = "put"]
    /\ UNCHANGED <<upload, acked>>

\* It fails: the upload stays.
PutFails(r) ==
    /\ req[r].at = "put"
    /\ put[r].at = "failed"
    /\ Leave(r)
    /\ Done(r)
    /\ UNCHANGED <<file, md5, upload, acked>>

\* The file is written: the upload is dropped and the call answered.
DropUpload(r) ==
    /\ req[r].at = "put"
    /\ put[r].at = "done"
    /\ live' = FALSE
    /\ Leave(r)
    /\ Done(r)
    /\ UNCHANGED <<file, md5, buffered, order, acked>>

\* Another request of the file is written by one PutObject, with a body of one range
\* or two ...
Single(r, n, size) ==
    /\ req[r].at = "idle"
    /\ Enter(r, [i \in 1..n |-> r], size)
    /\ req' = [req EXCEPT ![r] = [IdleReq EXCEPT !.at = "single"]]
    /\ UNCHANGED <<upload, acked>>

\* ... a PUT, of which the length is known or, for an aws-chunked body, may be zero,
\* and where such a body may end between two chunks ...
PutObject(r) == \E size \in 0..2 : Single(r, 1, size)

\* ... or the copy of another file, which is measured before it is opened and can have
\* grown by then; if it has become shorter, that is as the body that ends early ...
CopyObject(r) == \E n \in 1..2 : Single(r, n, 1)

\* ... and is answered.
PutAnswered(r) ==
    /\ req[r].at = "single"
    /\ put[r].at \in {"done", "failed"}
    /\ Leave(r)
    /\ Done(r)
    /\ UNCHANGED <<file, md5, upload, acked>>

\* AbortMultipartUpload, or a restart but for the calls in flight.
AbortMultipartUpload ==
    /\ live
    /\ live' = FALSE
    /\ UNCHANGED <<fileVars, buffered, order, req, acked>>

\* ListParts, which takes the upload's mutex.
ListParts == [i \in DOMAIN order |-> [part |-> order[i], size |-> buffered[order[i]].size]]

Next ==
    \/ \E r \in Requests :
          \/ UploadPart(r) \/ ReadFails(r) \/ StorePart(r)
          \/ CompleteMultipartUpload(r) \/ Assemble(r) \/ PutFails(r) \/ DropUpload(r)
          \/ PutObject(r) \/ CopyObject(r) \/ PutAnswered(r)
    \/ AbortMultipartUpload
    \/ /\ Delete \/ \E r \in Requests : PutStep(r)
       /\ UNCHANGED <<upload, req, acked>>

Spec == Init /\ [][Next]_vars

-----------------------------------------------------------------------------
\* Every variable keeps its type.
TypeOK ==
    /\ PutTypeOK
    /\ live \in BOOLEAN
    /\ DOMAIN buffered \subseteq Parts
    /\ \A p \in DOMAIN buffered : buffered[p] \in [size : Sizes, content : Contents]
    /\ order \in Seq(Parts)
    /\ acked \subseteq DOMAIN buffered
    /\ \A r \in Requests :
          /\ req[r].at \in {"idle", "read", "assemble", "put", "single"}
          /\ req[r].at = "read" => /\ req[r].part \in Parts
                                   /\ req[r].data \in [size : Sizes, content : Contents]
                                   /\ req[r].data.size <= maxPartSize

\* ListParts, which follows PartOrder, shows each buffered part once.
ListedOnce ==
    /\ TypeOK
    /\ Len(ListParts) = Cardinality(DOMAIN buffered)
    /\ \A p \in DOMAIN buffered : \E i \in DOMAIN ListParts :
          ListParts[i] = [part |-> p, size |-> buffered[p].size]

Reading == {r \in Requests : req[r].at = "read"}

\* The memory an upload takes, with the parts that are being read for it, exceeds
\* its limit by no more than a part for every call that can be in flight, however
\* parts of known and unknown size race, are sent again and fail.
OvershootBounded ==
    BufferedSize + MapThenSumSet(LAMBDA r : req[r].data.size, Reading)
        <= maxMultipartUploadSize + Cardinality(Requests) * maxPartSize

\* What is listed is what is buffered, and a Complete that is to be answered has written
\* every part that had been answered before it came, each once and in the order of the
\* part numbers.
CompletedWhole ==
    /\ ListedOnce
    /\ \A r \in Requests : req[r].at = "put" /\ put[r].at = "done" =>
            LET parts == [i \in DOMAIN put[r].body |-> put[r].body[i].part]
            IN  /\ req[r].before \subseteq ToSet(parts)
                /\ \A i, j \in DOMAIN parts : i < j => parts[i] < parts[j]

=============================================================================
