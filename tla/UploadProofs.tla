----------------------------- MODULE UploadProofs -----------------------------
(***************************************************************************)
(* Proofs about the two ways of a body to its backend: FileMultipart, the  *)
(* writes and multipart uploads to Azure Files, for every set of requests, *)
(* parts, sizes and contents, and all limits; and ThrottledUpload, the cap *)
(* under which a body is read, for all bodies, buffers, rates and streams. *)
(*                                                                         *)
(* Of the writes the invariant says that one which met no other is the     *)
(* only one in flight, and that the file is what it has made of it so far: *)
(* as long as its size, with the ranges that were sent and zeros after the *)
(* body.  Of the upload it says that PartOrder lists the buffered parts,   *)
(* each once, that an answered part stays buffered, and that what a        *)
(* completion writes has the parts that were answered before it came.  Of  *)
(* the memory it says that what the parts hold is counted, and that each   *)
(* part which passed the test together with others adds at most itself.    *)
(*                                                                         *)
(* Of the decoder it says where on the wire a reader without an error      *)
(* stands: before or within a chunk, with what comes before it handed out, *)
(* and the rest of what was sent, up to the cut, still to come.            *)
(*                                                                         *)
(* The bucket refines the meter: its level is what a refill would bring it *)
(* to, so that looking at it is no step and a tick raises it by the rate.  *)
(***************************************************************************)
EXTENDS FileMultipart, ThrottledUpload, Counting, SequenceTheorems

-----------------------------------------------------------------------------
(* The writes.                                                             *)

PartType == [size : Sizes, content : Contents]

\* What the ranges of a body are of: a part, or the request of a single write.
Ranges == [part : Parts, data : PartType] \cup Requests
Cells == Ranges \cup {Zero}

Calls == [at : {"idle", "create", "send", "sum", "done", "failed"}, streamed : BOOLEAN,
          size : Nat, body : Seq(Ranges), left : SUBSET Nat, alone : BOOLEAN]

BusyCall(p) == p.at \in {"create", "send", "sum"}

CallOK(p) ==
    /\ p \in Calls
    /\ p.left \subseteq DOMAIN p.body
    /\ p.at = "create" => p.left = DOMAIN p.body
    /\ p.at \in {"sum", "done"} => p.left = {}

\* A call in the state p that met no other has made f of the file, and m its MD5.
Exact(p, f, m) ==
    p.at \in {"send", "sum"} =>
        /\ Len(f) = p.size
        /\ \A i \in DOMAIN p.body \ p.left : i \in DOMAIN f /\ f[i] = p.body[i]
        /\ \A i \in DOMAIN f \ DOMAIN p.body : f[i] = Zero
        /\ m \in {p.body, NoSum}

PutInv ==
    /\ file \in Seq(Cells)
    /\ put \in [Requests -> Calls]
    /\ \A w \in Requests : CallOK(put[w])
    /\ \A w \in Requests : BusyCall(put[w]) /\ put[w].alone =>
          /\ \A v \in Requests : BusyCall(put[v]) => v = w
          /\ Exact(put[w], file, md5)

LEMMA PutInvType == PutInv => PutTypeOK
  BY SMT DEF PutInv, PutTypeOK, CallOK, Calls

LEMMA BusyIs == \A w \in Requests : Busy(w) <=> BusyCall(put[w])
  BY DEF Busy, BusyCall

LEMMA NoPutOK == CallOK(NoPut) /\ NoPut \in Calls /\ ~BusyCall(NoPut)
<1>1. <<>> \in Seq(Ranges)
  OBVIOUS
<1> QED BY <1>1 DEF CallOK, NoPut, Calls, BusyCall

LEMMA AloneOnly ==
    ASSUME NEW p \in Calls, NEW a \in BOOLEAN, CallOK(p)
    PROVE  /\ CallOK([p EXCEPT !.alone = a])
           /\ [p EXCEPT !.alone = a].at = p.at /\ [p EXCEPT !.alone = a].alone = a
<1> DEFINE q == [p EXCEPT !.alone = a]
<1>1. /\ q \in Calls /\ q.at = p.at /\ q.left = p.left /\ q.body = p.body /\ q.alone = a
  BY DEF Calls
<1> HIDE DEF q
<1>2. CallOK(q)
  BY <1>1 DEF CallOK
<1> QED BY <1>1, <1>2 DEF q

\* The call w goes on with p: if it was not in flight it does not begin to be, nor
\* does it change the file.
LEMMA Moves ==
    ASSUME PutInv, NEW w \in Requests, NEW p, CallOK(p),
           put' = [put EXCEPT ![w] = p], file' \in Seq(Cells),
           BusyCall(put[w]) \/ (~BusyCall(p) /\ file' = file /\ md5' = md5),
           BusyCall(p) /\ p.alone => put[w].alone /\ Exact(p, file', md5')
    PROVE  PutInv'
<1> USE DEF PutInv
<1>1. put' \in [Requests -> Calls] /\ \A v \in Requests : CallOK(put'[v])
  BY DEF CallOK
<1>2. ASSUME NEW v \in Requests, BusyCall(put'[v]), put'[v].alone
      PROVE  /\ \A x \in Requests : BusyCall(put'[x]) => x = v
             /\ Exact(put'[v], file', md5')
  <2>1. CASE v = w
    <3>1. put'[v] = p /\ BusyCall(put[w]) /\ put[w].alone /\ Exact(p, file', md5')
      BY <1>2, <2>1
    <3>2. \A x \in Requests : BusyCall(put[x]) => x = w
      BY <3>1
    <3>3. \A x \in Requests : x # w => put'[x] = put[x]
      OBVIOUS
    <3> QED BY <2>1, <3>1, <3>2, <3>3
  <2>2. CASE v # w
    <3>1. put'[v] = put[v] /\ BusyCall(put[v]) /\ put[v].alone
      BY <1>2, <2>2
    <3>2. /\ \A x \in Requests : BusyCall(put[x]) => x = v
          /\ Exact(put[v], file, md5)
      BY <3>1
    <3>3. ~BusyCall(put[w]) /\ ~BusyCall(p) /\ file' = file /\ md5' = md5
      BY <2>2, <3>2
    <3>4. \A x \in Requests : BusyCall(put'[x]) => x # w /\ put'[x] = put[x]
      BY <3>3
    <3> QED BY <3>1, <3>2, <3>3, <3>4
  <2> QED BY <2>1, <2>2
<1> QED BY <1>1, <1>2

\* A call begins; it is alone if nobody else is in flight, and then nobody else is.
LEMMA EntersKeeps ==
    ASSUME PutInv, NEW w \in Requests, NEW p, CallOK(p), p.at = "create",
           p.alone <=> Others(w) = {},
           put' = [v \in Requests |-> IF v = w THEN p
                                      ELSE IF v \in Others(w) THEN [put[v] EXCEPT !.alone = FALSE]
                                      ELSE put[v]],
           UNCHANGED <<file, md5>>
    PROVE  PutInv'
<1> USE DEF PutInv
<1>1. \A v \in Requests : CallOK(put'[v])
  <2> SUFFICES ASSUME NEW v \in Requests PROVE CallOK(put'[v])
    OBVIOUS
  <2>1. CallOK(put[v]) /\ put[v] \in Calls
    OBVIOUS
  <2>2. CallOK([put[v] EXCEPT !.alone = FALSE])
    BY <2>1, AloneOnly
  <2> QED BY <2>1, <2>2
<1>2. put' \in [Requests -> Calls]
  BY <1>1 DEF CallOK
<1>3. \A v \in Requests : v # w /\ BusyCall(put'[v]) => v \in Others(w) /\ ~put'[v].alone
  <2> SUFFICES ASSUME NEW v \in Requests, v # w, BusyCall(put'[v])
               PROVE  v \in Others(w) /\ ~put'[v].alone
    OBVIOUS
  <2>1. v \in Others(w)
    BY BusyIs DEF Others
  <2>2. put'[v] = [put[v] EXCEPT !.alone = FALSE] /\ put[v] \in Calls
    BY <2>1
  <2> QED BY <2>1, <2>2, AloneOnly
<1>4. put'[w] = p
  OBVIOUS
<1> QED BY <1>1, <1>2, <1>3, <1>4 DEF Exact

LEMMA EnterKeeps ==
    ASSUME PutInv, NEW w \in Requests, NEW sent \in Seq(Ranges), NEW size \in Nat,
           Enter(w, sent, size)
    PROVE  /\ PutInv' /\ ~Busy(w) /\ put'[w].at = "create"
           /\ size = Len(sent) => put'[w].body = sent
           /\ \A v \in Requests : v # w => /\ put'[v].at = put[v].at
                                           /\ put'[v].body = put[v].body
<1>1. PICK streamed \in BOOLEAN :
         /\ CanTake(sent, size, streamed)
         /\ put' = [v \in Requests |->
              IF v = w THEN [at |-> "create", streamed |-> streamed, size |-> size,
                             body |-> Taken(sent, size, streamed),
                             left |-> DOMAIN Taken(sent, size, streamed),
                             alone |-> Others(w) = {}]
              ELSE IF v \in Others(w) THEN [put[v] EXCEPT !.alone = FALSE]
              ELSE put[v]]
  BY DEF Enter
<1> DEFINE taken == Taken(sent, size, streamed)
           p == [at |-> "create", streamed |-> streamed, size |-> size, body |-> taken,
                 left |-> DOMAIN taken, alone |-> Others(w) = {}]
<1>2. taken \in Seq(Ranges) /\ (size = Len(sent) => taken = sent)
  <2>1. CASE streamed
    BY <2>1 DEF Taken
  <2>2. CASE ~streamed
    <3>1. taken = SubSeq(sent, 1, size) /\ size \in 1..Len(sent)
      BY <1>1, <2>2 DEF Taken, CanTake
    <3>2. taken \in Seq(Ranges) /\ Len(taken) = size /\ \A i \in 1..size : taken[i] = sent[i]
      BY <3>1
    <3> HIDE DEF taken
    <3>3. size = Len(sent) => taken = sent
      BY <3>2, SeqEqual
    <3> QED BY <3>2, <3>3
  <2> QED BY <2>1, <2>2
<1> HIDE DEF taken
<1>3. DOMAIN taken \in SUBSET Nat
  BY <1>2
<1>4. CallOK(p) /\ p.at = "create" /\ (p.alone <=> Others(w) = {}) /\ p.body = taken
  BY <1>2, <1>3 DEF CallOK, Calls
<1>5. put' = [v \in Requests |-> IF v = w THEN p
                                 ELSE IF v \in Others(w) THEN [put[v] EXCEPT !.alone = FALSE]
                                 ELSE put[v]]
  BY <1>1 DEF taken
<1> HIDE DEF p
<1>6. PutInv'
  BY <1>4, <1>5, EntersKeeps DEF Enter
<1>7. put'[w] = p
  BY <1>5
<1>8. \A v \in Requests : v # w => put'[v].at = put[v].at /\ put'[v].body = put[v].body
  BY <1>5 DEF PutInv, Calls
<1> QED BY <1>2, <1>4, <1>6, <1>7, <1>8 DEF Enter

LEMMA CreateStep ==
    ASSUME PutInv, NEW w \in Requests, Create(w)
    PROVE  PutInv'
<1> DEFINE p == [put[w] EXCEPT !.at = "send"]
<1>1. /\ put[w].at = "create" /\ file' = Blank(put[w].size)
      /\ md5' = IF put[w].streamed THEN NoSum ELSE put[w].body
      /\ put' = [put EXCEPT ![w] = p]
  BY DEF Create, PutInv
<1>2. put[w] \in Calls /\ CallOK(put[w]) /\ BusyCall(put[w])
  BY <1>1 DEF PutInv, BusyCall
<1>3. /\ p \in Calls /\ p.at = "send" /\ p.size = put[w].size /\ p.body = put[w].body
      /\ p.left = put[w].left /\ p.alone = put[w].alone
  BY <1>2 DEF Calls
<1> HIDE DEF p
<1>4. CallOK(p)
  BY <1>2, <1>3 DEF CallOK
<1>5. file' \in Seq(Cells) /\ Len(file') = p.size /\ \A i \in DOMAIN file' : file'[i] = Zero
  BY <1>1, <1>2, <1>3 DEF Blank, Cells, Calls
<1>6. Exact(p, file', md5')
  BY <1>1, <1>2, <1>3, <1>5 DEF Exact, CallOK
<1>7. p.alone => put[w].alone
  BY <1>3
<1> QED BY <1>1, <1>2, <1>4, <1>5, <1>6, <1>7, Moves

LEMMA SendStep ==
    ASSUME PutInv, NEW w \in Requests, Send(w)
    PROVE  PutInv'
<1>1. PICK i \in put[w].left \cap DOMAIN file :
         /\ file' = [file EXCEPT ![i] = put[w].body[i]]
         /\ put' = [put EXCEPT ![w].left = @ \ {i}]
  BY DEF Send
<1> DEFINE p == [put[w] EXCEPT !.left = put[w].left \ {i}]
<1>2. put[w].at = "send" /\ md5' = md5
  BY DEF Send
<1>3. put[w] \in Calls /\ CallOK(put[w]) /\ BusyCall(put[w]) /\ file \in Seq(Cells)
  BY <1>2 DEF PutInv, BusyCall
<1>4. put' = [put EXCEPT ![w] = p]
  BY <1>1 DEF PutInv
<1>5. /\ p \in Calls /\ p.at = "send" /\ p.size = put[w].size /\ p.body = put[w].body
      /\ p.left = put[w].left \ {i} /\ p.alone = put[w].alone
  BY <1>2, <1>3 DEF Calls
<1> HIDE DEF p
<1>6. CallOK(p)
  BY <1>3, <1>5 DEF CallOK
<1>7. i \in DOMAIN put[w].body /\ put[w].body[i] \in Cells
  <2>1. put[w].body \in Seq(Ranges) /\ i \in DOMAIN put[w].body
    BY <1>3 DEF Calls, CallOK
  <2> QED BY <2>1 DEF Cells
<1>8. file' \in Seq(Cells) /\ Len(file') = Len(file) /\ DOMAIN file' = DOMAIN file
  BY <1>1, <1>3, <1>7
<1>9. \A j \in DOMAIN file : file'[j] = IF j = i THEN put[w].body[i] ELSE file[j]
  BY <1>1
<1>10. p.alone => Exact(p, file', md5')
  <2> SUFFICES ASSUME put[w].alone PROVE Exact(p, file', md5')
    BY <1>5
  <2>1. Exact(put[w], file, md5)
    BY <1>3 DEF PutInv
  <2> QED BY <1>2, <1>5, <1>7, <1>8, <1>9, <2>1 DEF Exact
<1> QED BY <1>3, <1>4, <1>5, <1>6, <1>8, <1>10, Moves

LEMMA SummedStep ==
    ASSUME PutInv, NEW w \in Requests, Summed(w)
    PROVE  PutInv'
<1> DEFINE p == [put[w] EXCEPT !.at = "sum"]
<1>1. put[w].at = "send" /\ put[w].left = {} /\ put' = [put EXCEPT ![w] = p] /\ UNCHANGED <<file, md5>>
  BY DEF Summed, AllSent, PutInv
<1>2. put[w] \in Calls /\ CallOK(put[w]) /\ BusyCall(put[w]) /\ file \in Seq(Cells)
  BY <1>1 DEF PutInv, BusyCall
<1>3. /\ p \in Calls /\ p.at = "sum" /\ p.size = put[w].size /\ p.body = put[w].body
      /\ p.left = put[w].left /\ p.alone = put[w].alone
  BY <1>2 DEF Calls
<1> HIDE DEF p
<1>4. CallOK(p)
  BY <1>1, <1>2, <1>3 DEF CallOK
<1>5. p.alone => Exact(p, file', md5')
  BY <1>1, <1>2, <1>3 DEF PutInv, Exact
<1> QED BY <1>1, <1>2, <1>3, <1>4, <1>5, Moves

\* The steps after which a call is no longer in flight.
LEMMA RestsKeeps ==
    ASSUME PutInv, NEW w \in Requests, NEW p, CallOK(p), ~BusyCall(p),
           put' = [put EXCEPT ![w] = p], file' = file,
           BusyCall(put[w]) \/ md5' = md5
    PROVE  PutInv'
  BY Moves DEF PutInv

LEMMA EndStep ==
    ASSUME PutInv, NEW w \in Requests, Sent(w) \/ SetHTTPHeaders(w) \/ Fail(w)
    PROVE  PutInv'
<1>1. BusyCall(put[w]) /\ file' = file /\ put[w] \in Calls /\ CallOK(put[w])
  BY DEF Sent, SetHTTPHeaders, Fail, AllSent, BusyCall, PutInv
<1>2. CASE Fail(w)
  <2> DEFINE p == [NoPut EXCEPT !.at = "failed"]
  <2>1. CallOK(p) /\ ~BusyCall(p)
    BY NoPutOK DEF NoPut, Calls, CallOK, BusyCall
  <2>2. put' = [put EXCEPT ![w] = p]
    BY <1>2 DEF Fail
  <2> HIDE DEF p
  <2> QED BY <1>1, <2>1, <2>2, RestsKeeps
<1>3. CASE Sent(w) \/ SetHTTPHeaders(w)
  <2> DEFINE p == [put[w] EXCEPT !.at = "done"]
  <2>1. put[w].left = {} /\ put' = [put EXCEPT ![w] = p]
    BY <1>1, <1>3 DEF Sent, SetHTTPHeaders, AllSent, Answer, CallOK, PutInv
  <2>2. CallOK(p) /\ ~BusyCall(p)
    <3>1. p \in Calls /\ p.at = "done" /\ p.left = {} /\ p.body = put[w].body
      BY <1>1, <2>1 DEF Calls
    <3> HIDE DEF p
    <3> QED BY <3>1 DEF CallOK, BusyCall
  <2> HIDE DEF p
  <2> QED BY <1>1, <2>1, <2>2, RestsKeeps
<1> QED BY <1>2, <1>3

LEMMA PutStepKeeps ==
    ASSUME PutInv, NEW w \in Requests, PutStep(w)
    PROVE  PutInv'
  BY CreateStep, SendStep, SummedStep, EndStep DEF PutStep

LEMMA LeaveKeeps ==
    ASSUME PutInv, NEW w \in Requests, Leave(w), UNCHANGED <<file, md5>>
    PROVE  PutInv'
  BY NoPutOK, RestsKeeps DEF Leave

LEMMA DeleteKeeps ==
    ASSUME PutInv, Delete
    PROVE  PutInv'
<1>1. /\ file' = <<>>
      /\ put' = [w \in Requests |-> [put[w] EXCEPT !.alone = put[w].alone /\ ~Busy(w)]]
  BY DEF Delete
<1>2. ASSUME NEW w \in Requests
      PROVE  /\ CallOK(put'[w]) /\ (BusyCall(put'[w]) <=> BusyCall(put[w]))
             /\ BusyCall(put[w]) => ~put'[w].alone
  <2> DEFINE a == put[w].alone /\ ~Busy(w)
  <2>1. put[w] \in Calls /\ CallOK(put[w]) /\ a \in BOOLEAN /\ (BusyCall(put[w]) => a = FALSE)
    BY BusyIs DEF PutInv
  <2>2. put'[w] = [put[w] EXCEPT !.alone = a]
    BY <1>1
  <2> HIDE DEF a
  <2> QED BY <2>1, <2>2, AloneOnly DEF BusyCall
<1>3. put' \in [Requests -> Calls]
  BY <1>1, <1>2 DEF CallOK
<1>4. file' \in Seq(Cells)
  BY <1>1
<1> QED BY <1>2, <1>3, <1>4 DEF PutInv

LEMMA PutSame ==
    ASSUME PutInv, UNCHANGED fileVars
    PROVE  PutInv'
  BY DEF PutInv, fileVars

\* A write keeps its body, unless it fails.
LEMMA StepBodies ==
    ASSUME PutInv, NEW w \in Requests, PutStep(w)
    PROVE  \A v \in Requests : put'[v].at # "failed" =>
               put[v].at # "failed" /\ put'[v].body = put[v].body
<1> SUFFICES ASSUME NEW v \in Requests, put'[v].at # "failed"
             PROVE  put[v].at # "failed" /\ put'[v].body = put[v].body
  OBVIOUS
<1>1. put[v] \in Calls /\ put[w] \in Calls /\ DOMAIN put = Requests
  BY DEF PutInv
<1>2. CASE v # w
  BY <1>1, <1>2 DEF PutStep, Create, Send, Sent, Summed, SetHTTPHeaders, Answer, Fail
<1>3. CASE v = w
  <2>1. put[w].at \in {"create", "send", "sum"}
    BY DEF PutStep, Create, Send, Sent, Summed, SetHTTPHeaders, AllSent, Fail
  <2>2. CASE Fail(w)
    <3> DEFINE p == [NoPut EXCEPT !.at = "failed"]
    <3>1. p.at = "failed"
      BY DEF NoPut
    <3>2. put' = [put EXCEPT ![w] = p]
      BY <2>2 DEF Fail
    <3> HIDE DEF p
    <3> QED BY <1>1, <1>3, <3>1, <3>2
  <2>3. CASE Send(w)
    <3>1. PICK i \in put[w].left \cap DOMAIN file : put' = [put EXCEPT ![w].left = @ \ {i}]
      BY <2>3 DEF Send
    <3> QED BY <1>1, <1>3, <2>1, <3>1 DEF Calls
  <2>4. CASE Create(w) \/ Sent(w) \/ Summed(w) \/ SetHTTPHeaders(w)
    <3>1. put'[w].body = put[w].body
      BY <1>1, <2>4 DEF Create, Sent, Summed, SetHTTPHeaders, Answer, Calls
    <3> QED BY <1>3, <2>1, <3>1
  <2> QED BY <2>2, <2>3, <2>4 DEF PutStep
<1> QED BY <1>2, <1>3

-----------------------------------------------------------------------------
(* The upload.                                                             *)

ReqType == [at : {"idle", "read", "assemble", "put", "single"}, part : Parts \cup {0},
            data : PartType \cup {NoPart}, before : SUBSET Parts]

\* q is the state of a call, when the parts in answered have been answered.
ReqOK(q, answered) ==
    /\ q \in ReqType
    /\ q.at = "read" => q.part \in Parts /\ q.data \in PartType /\ q.data.size <= maxPartSize
    /\ q.at = "assemble" => q.before \subseteq answered

BufferInv ==
    /\ live \in BOOLEAN
    /\ DOMAIN buffered \subseteq Parts
    /\ \A p \in DOMAIN buffered : buffered[p] \in PartType
    /\ order \in Seq(Parts)
    /\ \A i, j \in DOMAIN order : order[i] = order[j] => i = j
    /\ \A i \in DOMAIN order : order[i] \in DOMAIN buffered
    /\ \A p \in DOMAIN buffered : \E i \in DOMAIN order : order[i] = p
    /\ acked \subseteq DOMAIN buffered

ReqInv ==
    /\ req \in [Requests -> ReqType]
    /\ \A r \in Requests : ReqOK(req[r], acked)

\* A body that a completion is to write has the parts in before, and has them in order.
WholeBody(sent, before) ==
    /\ \A p \in before : \E i \in DOMAIN sent : sent[i].part = p
    /\ \A i, j \in DOMAIN sent : i < j => sent[i].part < sent[j].part

WholeInv ==
    \A r \in Requests : req[r].at = "put" /\ put[r].at # "failed" =>
        WholeBody(put[r].body, req[r].before)

FileInv == PutInv /\ BufferInv /\ ReqInv /\ WholeInv

LEMMA FileInvType == FileInv => TypeOK
  BY PutInvType DEF FileInv, BufferInv, ReqInv, ReqOK, ReqType, PartType, TypeOK

LEMMA IdleReqOK == \A S : ReqOK(IdleReq, S) /\ IdleReq.at = "idle"
  BY DEF ReqOK, IdleReq, ReqType

LEMMA FileInvInit == Init => FileInv
<1> SUFFICES ASSUME Init PROVE FileInv
  OBVIOUS
<1>1. PutInv
  BY NoPutOK DEF Init, PutInit, PutInv
<1>2. BufferInv
  BY DEF Init, BufferInv
<1>3. ReqInv /\ WholeInv
  BY IdleReqOK DEF Init, ReqInv, WholeInv, ReqOK
<1> QED BY <1>1, <1>2, <1>3 DEF FileInv

\* The call r goes on with q, and what it writes is whole if it is a completion that
\* did not write before.
LEMMA ReqGoesOn ==
    ASSUME FileInv, NEW r \in Requests, NEW q, ReqOK(q, acked'), acked \subseteq acked',
           req' = [req EXCEPT ![r] = q],
           \A v \in Requests : v # r /\ put'[v].at # "failed" =>
               put[v].at # "failed" /\ put'[v].body = put[v].body,
           q.at = "put" => WholeBody(put'[r].body, q.before)
    PROVE  ReqInv' /\ WholeInv'
<1>1. \A v \in Requests : ReqOK(req'[v], acked')
  BY DEF FileInv, ReqInv, ReqOK
<1>2. ReqInv'
  BY <1>1 DEF FileInv, ReqInv, ReqOK
<1>3. WholeInv'
  <2> SUFFICES ASSUME NEW v \in Requests, req'[v].at = "put", put'[v].at # "failed"
               PROVE  WholeBody(put'[v].body, req'[v].before)
    BY DEF WholeInv, WholeBody
  <2>1. CASE v = r
    BY <2>1 DEF FileInv, ReqInv
  <2>2. CASE v # r
    <3>1. req'[v] = req[v] /\ put[v].at # "failed" /\ put'[v].body = put[v].body
      BY <2>2 DEF FileInv, ReqInv
    <3> QED BY <3>1 DEF FileInv, WholeInv
  <2> QED BY <2>1, <2>2
<1> QED BY <1>2, <1>3

LEMMA BufferSame ==
    ASSUME BufferInv, UNCHANGED <<upload, acked>>
    PROVE  BufferInv'
  BY DEF BufferInv, upload

LEMMA LeaveBodies ==
    ASSUME PutInv, NEW r \in Requests, Leave(r)
    PROVE  \A v \in Requests : v # r => put'[v] = put[v]
  BY DEF PutInv, Leave

-----------------------------------------------------------------------------
(* The steps.                                                              *)

LEMMA UploadPartKeeps ==
    ASSUME FileInv, NEW r \in Requests, UploadPart(r)
    PROVE  FileInv'
<1>1. PICK p \in Parts, n \in Sizes, content \in Contents :
         /\ n <= maxPartSize
         /\ req' = [req EXCEPT ![r] = [IdleReq EXCEPT !.at = "read", !.part = p,
                                                      !.data = PartData(n, content)]]
  BY DEF UploadPart
<1> DEFINE q == [IdleReq EXCEPT !.at = "read", !.part = p, !.data = PartData(n, content)]
<1>2. UNCHANGED <<fileVars, upload, acked>>
  BY DEF UploadPart
<1>3. q.at = "read" /\ ReqOK(q, acked)
  BY <1>1 DEF ReqOK, ReqType, IdleReq, PartData, PartType
<1>4. req' = [req EXCEPT ![r] = q]
  BY <1>1
<1> HIDE DEF q
<1>5. ReqInv' /\ WholeInv'
  BY <1>2, <1>3, <1>4, ReqGoesOn DEF fileVars
<1> QED BY <1>2, <1>5, PutSame, BufferSame DEF FileInv

LEMMA ReadFailsKeeps ==
    ASSUME FileInv, NEW r \in Requests, ReadFails(r)
    PROVE  FileInv'
<1>1. req' = [req EXCEPT ![r] = IdleReq] /\ UNCHANGED <<fileVars, upload, acked>>
  BY DEF ReadFails, Done
<1>2. ReqInv' /\ WholeInv'
  BY <1>1, IdleReqOK, ReqGoesOn DEF fileVars
<1> QED BY <1>1, <1>2, PutSame, BufferSame DEF FileInv

LEMMA StorePartKeeps ==
    ASSUME FileInv, NEW r \in Requests, StorePart(r)
    PROVE  FileInv'
<1> DEFINE p == req[r].part
<1>1. /\ buffered' = [q \in DOMAIN buffered \cup {p} |->
                         IF q = p THEN req[r].data ELSE buffered[q]]
      /\ order' = IF p \in DOMAIN buffered THEN order ELSE Append(order, p)
      /\ acked' = acked \cup {p} /\ req' = [req EXCEPT ![r] = IdleReq]
      /\ UNCHANGED <<fileVars, live>>
  BY DEF StorePart, Done, Ordered, Kept
<1>2. p \in Parts /\ req[r].data \in PartType
  BY DEF StorePart, FileInv, ReqInv, ReqOK
<1> HIDE DEF p
<1>3. BufferInv'
  <2> USE DEF FileInv, BufferInv
  <2>1. /\ DOMAIN buffered' = DOMAIN buffered \cup {p}
        /\ \A q \in DOMAIN buffered' : buffered'[q] \in PartType
    BY <1>1, <1>2
  <2>2. CASE p \in DOMAIN buffered
    <3>1. order' = order
      BY <1>1, <2>2
    <3>2. DOMAIN buffered' = DOMAIN buffered
      BY <2>1, <2>2
    <3> QED BY Zenon, <1>1, <2>1, <3>1, <3>2
  <2>3. CASE p \notin DOMAIN buffered
    <3>1. /\ order' \in Seq(Parts) /\ DOMAIN order' = DOMAIN order \cup {Len(order) + 1}
          /\ \A i \in DOMAIN order : order'[i] = order[i]
          /\ order'[Len(order) + 1] = p /\ Len(order) + 1 \notin DOMAIN order
      BY <1>1, <1>2, <2>3, AppendProperties
    <3>2. \A i, j \in DOMAIN order' : order'[i] = order'[j] => i = j
      BY Zenon, <2>3, <3>1
    <3>3. /\ \A i \in DOMAIN order' : order'[i] \in DOMAIN buffered'
          /\ \A q \in DOMAIN buffered' : \E i \in DOMAIN order' : order'[i] = q
      BY Zenon, <2>1, <3>1
    <3>4. DOMAIN buffered' \subseteq Parts /\ acked' \subseteq DOMAIN buffered' /\ live' \in BOOLEAN
      <4>1. DOMAIN buffered \subseteq Parts /\ acked \subseteq DOMAIN buffered
        OBVIOUS
      <4> QED BY <1>1, <1>2, <2>1, <4>1
    <3> QED BY Zenon, <2>1, <3>1, <3>2, <3>3, <3>4
  <2> QED BY <2>2, <2>3
<1>4. ReqInv' /\ WholeInv'
  BY <1>1, IdleReqOK, ReqGoesOn DEF fileVars
<1> QED BY <1>1, <1>3, <1>4, PutSame DEF FileInv

LEMMA CompleteKeeps ==
    ASSUME FileInv, NEW r \in Requests, CompleteMultipartUpload(r)
    PROVE  FileInv'
<1> DEFINE q == [IdleReq EXCEPT !.at = "assemble", !.before = acked]
<1>1. req' = [req EXCEPT ![r] = q] /\ UNCHANGED <<fileVars, upload, acked>>
  BY DEF CompleteMultipartUpload
<1>2. q.at = "assemble" /\ ReqOK(q, acked)
  <2>1. acked \subseteq Parts
    BY DEF FileInv, BufferInv
  <2> QED BY <2>1 DEF ReqOK, ReqType, IdleReq
<1> HIDE DEF q
<1>3. ReqInv' /\ WholeInv'
  BY <1>1, <1>2, ReqGoesOn DEF fileVars
<1> QED BY <1>1, <1>3, PutSame, BufferSame DEF FileInv

\* What a completion puts together has every buffered part, in order.
LEMMA AssembledWhole ==
    ASSUME BufferInv, NEW before \in SUBSET acked
    PROVE  LET parts == Ascending(DOMAIN buffered)
               whole == [i \in DOMAIN parts |-> [part |-> parts[i], data |-> buffered[parts[i]]]]
           IN  whole \in Seq(Ranges) /\ WholeBody(whole, before)
<1> DEFINE S == DOMAIN buffered
           n == Cardinality(S)
           parts == Ascending(S)
           whole == [i \in DOMAIN parts |-> [part |-> parts[i], data |-> buffered[parts[i]]]]
<1>1. S \in SUBSET Parts /\ S \in SUBSET Nat
  <2>1. S \subseteq Parts
    BY DEF BufferInv
  <2>2. Parts \subseteq Nat
    BY BufferAssumption
  <2> QED BY Zenon, <2>1, <2>2
<1>2. IsFiniteSet(S)
  BY <1>1, BufferAssumption, FS_Subset
<1>3. /\ n \in Nat /\ DOMAIN parts = 1..n /\ parts \in Seq(S)
      /\ \A i, j \in 1..n : i < j => parts[i] < parts[j]
      /\ \A p \in S : \E i \in 1..n : parts[i] = p
  BY <1>1, <1>2, FromSmallestFacts DEF Ascending
<1>4. \A i \in 1..n : parts[i] \in S
  BY <1>3
<1>5. \A p \in S : p \in Parts /\ buffered[p] \in PartType
  BY DEF BufferInv
<1>6. before \in SUBSET S
  BY DEF BufferInv
<1> HIDE DEF S, n, parts
<1>7. DOMAIN whole = 1..n /\ \A i \in 1..n : whole[i] \in Ranges /\ whole[i].part = parts[i]
  <2>1. \A i \in 1..n : whole[i] = [part |-> parts[i], data |-> buffered[parts[i]]]
    BY <1>3
  <2>2. ASSUME NEW i \in 1..n PROVE whole[i] \in [part : Parts, data : PartType]
    <3>1. parts[i] \in Parts /\ buffered[parts[i]] \in PartType
      BY <1>4, <1>5
    <3>2. whole[i] = [part |-> parts[i], data |-> buffered[parts[i]]]
      BY <2>1
    <3> HIDE DEF whole
    <3> QED BY <3>1, <3>2
  <2> QED BY <1>3, <2>1, <2>2 DEF Ranges
<1>8. whole \in Seq(Ranges)
  <2>1. whole \in [1..n -> Ranges]
    BY <1>3, <1>7
  <2> QED BY <1>3, <2>1
<1> HIDE DEF whole
<1>9. WholeBody(whole, before)
  BY <1>3, <1>6, <1>7 DEF WholeBody
<1> QED BY <1>8, <1>9 DEF S, n, parts, whole

LEMMA AssembleKeeps ==
    ASSUME FileInv, NEW r \in Requests, Assemble(r)
    PROVE  FileInv'
<1> DEFINE parts == Ascending(DOMAIN buffered)
           whole == [i \in DOMAIN parts |-> [part |-> parts[i], data |-> buffered[parts[i]]]]
<1>1. /\ req[r].at = "assemble" /\ UNCHANGED <<upload, acked>>
      /\ \/ Done(r) /\ UNCHANGED fileVars
         \/ Enter(r, whole, Len(whole)) /\ req' = [req EXCEPT ![r].at = "put"]
  BY DEF Assemble
<1>2. req[r].before \in SUBSET acked /\ req[r] \in ReqType
  BY <1>1 DEF FileInv, ReqInv, ReqOK
<1>3. whole \in Seq(Ranges) /\ WholeBody(whole, req[r].before)
  BY <1>2, AssembledWhole DEF FileInv
<1> HIDE DEF whole
<1>4. CASE Done(r) /\ UNCHANGED fileVars
  <2>1. ReqInv' /\ WholeInv'
    BY <1>1, <1>4, IdleReqOK, ReqGoesOn DEF fileVars, Done
  <2> QED BY <1>1, <1>4, <2>1, PutSame, BufferSame DEF FileInv
<1>5. CASE Enter(r, whole, Len(whole)) /\ req' = [req EXCEPT ![r].at = "put"]
  <2> DEFINE q == [req[r] EXCEPT !.at = "put"]
  <2>1. Len(whole) \in Nat
    BY <1>3
  <2>2. /\ PutInv' /\ put'[r].body = whole
        /\ \A v \in Requests : v # r => put'[v].at = put[v].at /\ put'[v].body = put[v].body
    BY <1>3, <1>5, <2>1, EnterKeeps DEF FileInv
  <2>3. q \in ReqType /\ q.at = "put" /\ q.before = req[r].before
    BY <1>2 DEF ReqType
  <2>4. req' = [req EXCEPT ![r] = q]
    BY <1>5 DEF FileInv, ReqInv
  <2> HIDE DEF q
  <2>5. ReqOK(q, acked) /\ acked' = acked
    BY <1>1, <2>3 DEF ReqOK
  <2>6. ReqInv' /\ WholeInv'
    BY <1>3, <2>2, <2>3, <2>4, <2>5, ReqGoesOn
  <2> QED BY <1>1, <2>2, <2>6, BufferSame DEF FileInv
<1> QED BY <1>1, <1>4, <1>5

\* A write has its answer, and so has the call that made it.
LEMMA AnswerKeeps ==
    ASSUME FileInv, NEW r \in Requests, Leave(r), Done(r), UNCHANGED <<file, md5, acked>>,
           BufferInv'
    PROVE  FileInv'
<1>1. req' = [req EXCEPT ![r] = IdleReq] /\ acked' = acked
  BY DEF Done
<1>2. \A v \in Requests : v # r => put'[v] = put[v]
  BY LeaveBodies DEF FileInv
<1>3. ReqInv' /\ WholeInv'
  BY <1>1, <1>2, IdleReqOK, ReqGoesOn
<1> QED BY <1>3, LeaveKeeps DEF FileInv

LEMMA PutEndsKeeps ==
    ASSUME FileInv, NEW r \in Requests, PutFails(r) \/ DropUpload(r) \/ PutAnswered(r)
    PROVE  FileInv'
<1>1. Leave(r) /\ Done(r) /\ UNCHANGED <<file, md5, acked, buffered, order>> /\ live' \in {live, FALSE}
  BY DEF PutFails, DropUpload, PutAnswered, upload
<1>2. BufferInv'
  BY <1>1 DEF FileInv, BufferInv
<1> QED BY <1>1, <1>2, AnswerKeeps

LEMMA SingleKeeps ==
    ASSUME FileInv, NEW r \in Requests, NEW n \in Nat, NEW size \in Nat, Single(r, n, size)
    PROVE  FileInv'
<1> DEFINE sent == [i \in 1..n |-> r]
           q == [IdleReq EXCEPT !.at = "single"]
<1>1. Enter(r, sent, size) /\ req' = [req EXCEPT ![r] = q] /\ UNCHANGED <<upload, acked>>
  BY DEF Single
<1>2. sent \in Seq(Ranges)
  BY DEF Ranges
<1>3. q.at = "single" /\ ReqOK(q, acked)
  BY DEF ReqOK, ReqType, IdleReq
<1> HIDE DEF sent, q
<1>4. /\ PutInv'
      /\ \A v \in Requests : v # r => put'[v].at = put[v].at /\ put'[v].body = put[v].body
  BY <1>1, <1>2, EnterKeeps DEF FileInv
<1>5. ReqInv' /\ WholeInv'
  BY <1>1, <1>3, <1>4, ReqGoesOn
<1> QED BY <1>1, <1>4, <1>5, BufferSame DEF FileInv

LEMMA AbortKeeps ==
    ASSUME FileInv, AbortMultipartUpload
    PROVE  FileInv'
<1>1. BufferInv'
  BY DEF FileInv, BufferInv, AbortMultipartUpload
<1>2. ReqInv' /\ WholeInv'
  BY DEF FileInv, ReqInv, WholeInv, AbortMultipartUpload, fileVars
<1> QED BY <1>1, <1>2, PutSame DEF FileInv, AbortMultipartUpload

\* The file's own steps, and its deletion.
LEMMA FileStepKeeps ==
    ASSUME FileInv, UNCHANGED <<upload, req, acked>>,
           Delete \/ \E r \in Requests : PutStep(r)
    PROVE  FileInv'
<1>1. PutInv'
  BY DeleteKeeps, PutStepKeeps DEF FileInv
<1>2. BufferInv' /\ ReqInv'
  BY BufferSame DEF FileInv, ReqInv
<1>3. \A v \in Requests : put'[v].at # "failed" =>
          put[v].at # "failed" /\ put'[v].body = put[v].body
  <2>1. CASE Delete
    <3>1. \A v \in Requests : put'[v] = [put[v] EXCEPT !.alone = put[v].alone /\ ~Busy(v)]
      BY <2>1 DEF Delete
    <3>2. \A v \in Requests : put[v] \in Calls
      BY DEF FileInv, PutInv
    <3> QED BY <3>1, <3>2 DEF Calls
  <2>2. CASE \E r \in Requests : PutStep(r)
    BY <2>2, StepBodies DEF FileInv
  <2> QED BY <2>1, <2>2
<1>4. WholeInv'
  BY <1>3 DEF FileInv, WholeInv
<1> QED BY <1>1, <1>2, <1>4 DEF FileInv

LEMMA FileInvStep == FileInv /\ [Next]_vars => FileInv'
<1> SUFFICES ASSUME FileInv, [Next]_vars PROVE FileInv'
  OBVIOUS
<1>1. ASSUME NEW r \in Requests,
             \/ UploadPart(r) \/ ReadFails(r) \/ StorePart(r)
             \/ CompleteMultipartUpload(r) \/ Assemble(r) \/ PutFails(r) \/ DropUpload(r)
             \/ PutObject(r) \/ CopyObject(r) \/ PutAnswered(r)
      PROVE  FileInv'
  <2>1. CASE PutObject(r) \/ CopyObject(r)
    <3>1. \E n \in Nat, size \in Nat : Single(r, n, size)
      BY <2>1 DEF PutObject, CopyObject
    <3> QED BY <3>1, SingleKeeps
  <2>2. CASE PutFails(r) \/ DropUpload(r) \/ PutAnswered(r)
    BY <2>2, PutEndsKeeps
  <2> QED BY <1>1, <2>1, <2>2, UploadPartKeeps, ReadFailsKeeps, StorePartKeeps, CompleteKeeps,
             AssembleKeeps
<1>2. CASE AbortMultipartUpload
  BY <1>2, AbortKeeps
<1>3. CASE (Delete \/ \E r \in Requests : PutStep(r)) /\ UNCHANGED <<upload, req, acked>>
  BY <1>3, FileStepKeeps
<1>4. CASE UNCHANGED vars
  BY <1>4, PutSame, BufferSame DEF vars, FileInv, ReqInv, WholeInv, fileVars
<1> QED BY <1>1, <1>2, <1>3, <1>4 DEF Next

LEMMA Inductive == Spec => []FileInv
  BY FileInvInit, FileInvStep, PTL DEF Spec

-----------------------------------------------------------------------------
(* What holds of the writes and of the upload.                             *)

\* TypeOK is an invariant, and so are its parts that are not about types: an answered
\* part stays buffered (UploadPart, AbortMultipartUpload).
THEOREM FileTypeCorrect == Spec => []TypeOK
  BY Inductive, FileInvType, PTL

\* PartOrder has as many entries as there are buffered parts.
LEMMA OrderCounts ==
    ASSUME BufferInv
    PROVE  Len(order) = Cardinality(DOMAIN buffered)
<1> DEFINE n == Len(order)
           S == DOMAIN buffered
<1>1. n \in Nat /\ DOMAIN order = 1..n /\ order \in [1..n -> Parts]
  BY DEF BufferInv
<1>2. order \in [1..n -> S]
  BY <1>1 DEF BufferInv
<1>3. order \in Bijection(1..n, S)
  BY <1>1, <1>2 DEF BufferInv, Bijection, Injection, Surjection, IsInjective
<1>4. ExistsBijection(1..n, S)
  BY <1>3 DEF ExistsBijection
<1>5. IsFiniteSet(1..n) /\ Cardinality(1..n) = n
  <2>1. 1 \in Int /\ n \in Int
    BY <1>1
  <2>2. IsFiniteSet(1..n) /\ Cardinality(1..n) = IF 1 > n THEN 0 ELSE n - 1 + 1
    BY <2>1, FS_Interval
  <2> QED BY <1>1, <2>2
<1> HIDE DEF n, S
<1>6. Cardinality(S) = n
  BY <1>4, <1>5, FS_Bijection
<1> QED BY <1>6 DEF n, S

LEMMA Listed == FileInv => ListedOnce
<1> SUFFICES ASSUME FileInv PROVE ListedOnce
  OBVIOUS
<1>1. order \in Seq(Parts) /\ BufferInv
  BY DEF FileInv, BufferInv
<1>2. /\ Len(ListParts) = Len(order) /\ DOMAIN ListParts = DOMAIN order
      /\ \A i \in DOMAIN order :
            ListParts[i] = [part |-> order[i], size |-> buffered[order[i]].size]
  BY <1>1 DEF ListParts
<1>3. \A p \in DOMAIN buffered : \E i \in DOMAIN order : order[i] = p
  BY <1>1 DEF BufferInv
<1>4. \A p \in DOMAIN buffered : \E i \in DOMAIN ListParts :
          ListParts[i] = [part |-> p, size |-> buffered[p].size]
  <2> SUFFICES ASSUME NEW p \in DOMAIN buffered
               PROVE  \E i \in DOMAIN ListParts :
                          ListParts[i] = [part |-> p, size |-> buffered[p].size]
    OBVIOUS
  <2>1. PICK i \in DOMAIN order : order[i] = p
    BY <1>3
  <2>2. i \in DOMAIN ListParts /\ ListParts[i] = [part |-> order[i], size |-> buffered[order[i]].size]
    BY <1>2
  <2> QED BY <2>1, <2>2
<1> QED BY <1>1, <1>2, <1>4, OrderCounts, FileInvType DEF ListedOnce

\* CompleteMultipartUpload, whatever parts are sent at the same time: a write that it
\* is to answer has every part that was answered before it came, once and in order;
\* and ListParts lists each buffered part once.
THEOREM FileWholeInOrder == Spec => []CompletedWhole
<1>1. FileInv => CompletedWhole
  <2> SUFFICES ASSUME FileInv PROVE CompletedWhole
    OBVIOUS
  <2>1. ASSUME NEW r \in Requests, req[r].at = "put", put[r].at = "done"
        PROVE  LET parts == [i \in DOMAIN put[r].body |-> put[r].body[i].part]
               IN  /\ req[r].before \subseteq ToSet(parts)
                   /\ \A i, j \in DOMAIN parts : i < j => parts[i] < parts[j]
    <3> DEFINE parts == [i \in DOMAIN put[r].body |-> put[r].body[i].part]
    <3>1. WholeBody(put[r].body, req[r].before)
      BY <2>1 DEF FileInv, WholeInv
    <3>2. \A i, j \in DOMAIN parts : i < j => parts[i] < parts[j]
      BY <3>1 DEF WholeBody
    <3>3. \A p \in req[r].before : \E i \in DOMAIN parts : parts[i] = p
      BY <3>1 DEF WholeBody
    <3> HIDE DEF parts
    <3>4. req[r].before \subseteq ToSet(parts)
      BY <3>3 DEF ToSet
    <3> QED BY <3>2, <3>4 DEF parts
  <2> QED BY <2>1, Listed DEF CompletedWhole
<1> QED BY <1>1, Inductive, PTL

\* Only the steps that answer a write make it done.
LEMMA Finishing ==
    ASSUME FileInv, [Next]_vars, NEW w \in Requests, put'[w].at = "done", put[w].at # "done"
    PROVE  Sent(w) \/ SetHTTPHeaders(w)
<1>1. PutInv /\ DOMAIN put = Requests /\ \A v \in Requests : put[v] \in Calls
  BY DEF FileInv, PutInv
<1>2. put' # put
  OBVIOUS
<1>3. \A r \in Requests : ~Leave(r)
  BY <1>1 DEF Leave, NoPut
<1>4. ASSUME NEW r \in Requests, NEW sent \in Seq(Ranges), NEW size \in Nat,
             Enter(r, sent, size)
      PROVE  FALSE
  BY <1>1, <1>4, EnterKeeps
<1>5. \A r \in Requests : ~Assemble(r)
  <2> SUFFICES ASSUME NEW r \in Requests, Assemble(r) PROVE FALSE
    OBVIOUS
  <2> DEFINE parts == Ascending(DOMAIN buffered)
             whole == [i \in DOMAIN parts |-> [part |-> parts[i], data |-> buffered[parts[i]]]]
  <2>1. Enter(r, whole, Len(whole))
    BY <1>2 DEF Assemble, fileVars
  <2>2. whole \in Seq(Ranges)
    <3>1. {} \in SUBSET acked /\ BufferInv
      BY DEF FileInv
    <3> HIDE DEF whole
    <3> QED BY <3>1, AssembledWhole DEF whole
  <2> HIDE DEF whole
  <2>3. Len(whole) \in Nat
    BY <2>2
  <2> QED BY <1>4, <2>1, <2>2, <2>3
<1>6. \A r \in Requests, n \in Nat, size \in Nat : ~Single(r, n, size)
  <2> SUFFICES ASSUME NEW r \in Requests, NEW n \in Nat, NEW size \in Nat, Single(r, n, size)
               PROVE  FALSE
    OBVIOUS
  <2> DEFINE sent == [i \in 1..n |-> r]
  <2>1. Enter(r, sent, size)
    BY DEF Single
  <2>2. sent \in Seq(Ranges)
    BY DEF Ranges
  <2> HIDE DEF sent
  <2> QED BY <1>4, <2>1, <2>2
<1>7. ~Delete
  <2> SUFFICES ASSUME Delete PROVE FALSE
    OBVIOUS
  <2>1. put'[w] = [put[w] EXCEPT !.alone = put[w].alone /\ ~Busy(w)]
    BY DEF Delete
  <2> QED BY <1>1, <2>1 DEF Calls
<1>8. PICK v \in Requests : PutStep(v)
  <2>1. \A r \in Requests : ~PutObject(r) /\ ~CopyObject(r)
    BY <1>6 DEF PutObject, CopyObject
  <2> QED BY <1>2, <1>3, <1>5, <1>7, <2>1
          DEF Next, vars, fileVars, UploadPart, ReadFails, StorePart, CompleteMultipartUpload,
              PutFails, DropUpload, PutAnswered, AbortMultipartUpload
<1>9. v = w
  BY <1>1, <1>8 DEF PutStep, Create, Send, Sent, Summed, SetHTTPHeaders, Answer, Fail
<1>10. ~Create(w) /\ ~Summed(w) /\ ~Send(w)
  BY <1>1 DEF Create, Summed, Send, Calls
<1>11. ~Fail(w)
  BY <1>1 DEF Fail, NoPut
<1> QED BY <1>8, <1>9, <1>10, <1>11 DEF PutStep

\* What a sequence is that has a body and zeros after it.
LEMMA BodyAndZeros ==
    ASSUME NEW f \in Seq(Cells), NEW sent \in Seq(Ranges), Len(sent) <= Len(f),
           \A i \in DOMAIN sent : f[i] = sent[i],
           \A i \in DOMAIN f \ DOMAIN sent : f[i] = Zero
    PROVE  f = sent \o [i \in 1..(Len(f) - Len(sent)) |-> Zero]
<1> DEFINE m == Len(f) - Len(sent)
           zeros == [i \in 1..m |-> Zero]
           g == sent \o zeros
<1>1. m \in Nat /\ Len(f) \in Nat /\ Len(sent) \in Nat
  OBVIOUS
<1>2. sent \in Seq(Cells) /\ zeros \in Seq(Cells) /\ Len(zeros) = m
  BY <1>1 DEF Cells
<1>3. \A i \in 1..m : zeros[i] = Zero
  OBVIOUS
<1> HIDE DEF zeros
<1>4. /\ g \in Seq(Cells) /\ Len(g) = Len(sent) + m
      /\ \A i \in 1..(Len(sent) + m) :
            g[i] = IF i <= Len(sent) THEN sent[i] ELSE zeros[i - Len(sent)]
  BY <1>1, <1>2, ConcatProperties
<1> HIDE DEF g
<1>5. Len(g) = Len(f)
  BY <1>1, <1>4
<1>6. ASSUME NEW i \in 1..Len(f) PROVE g[i] = f[i]
  <2>1. CASE i <= Len(sent)
    BY <1>1, <1>4, <2>1
  <2>2. CASE i > Len(sent)
    <3>1. i - Len(sent) \in 1..m /\ g[i] = zeros[i - Len(sent)]
      BY <1>1, <1>4, <2>2
    <3>2. i \in DOMAIN f \ DOMAIN sent
      BY <1>1, <2>2
    <3> QED BY <1>3, <3>1, <3>2
  <2> QED BY <1>1, <2>1, <2>2
<1>7. f = g
  BY <1>4, <1>5, <1>6, SeqEqual
<1> QED BY <1>7 DEF g, zeros

\* PutObject: whatever failed or overlapping calls have left in the file, a write that
\* meets no other leaves its body in it, zeros up to the size it was called with, and
\* no Content-MD5 but its own.
THEOREM FileAloneExact == Spec => AloneIsExact
<1>1. ASSUME FileInv, [Next]_vars, NEW w \in Requests, put'[w].at = "done", put[w].at # "done",
             put[w].alone
      PROVE  /\ Len(put[w].body) <= put[w].size
             /\ file' = put[w].body \o [i \in 1..(put[w].size - Len(put[w].body)) |-> Zero]
             /\ md5' \in {put[w].body, NoSum}
  <2> DEFINE sent == put[w].body
  <2>1. Sent(w) \/ SetHTTPHeaders(w)
    BY <1>1, Finishing
  <2>2. /\ put[w].at \in {"send", "sum"} /\ put[w].left = {} /\ file' = file
        /\ md5' \in {md5, put[w].body} /\ BusyCall(put[w])
    BY <1>1, <2>1 DEF FileInv, PutInv, CallOK, Sent, SetHTTPHeaders, AllSent, BusyCall
  <2>3. Exact(put[w], file, md5) /\ put[w] \in Calls /\ file \in Seq(Cells)
    BY <1>1, <2>2 DEF FileInv, PutInv
  <2>4. /\ sent \in Seq(Ranges) /\ Len(file) = put[w].size
        /\ \A i \in DOMAIN sent : i \in DOMAIN file /\ file[i] = sent[i]
        /\ \A i \in DOMAIN file \ DOMAIN sent : file[i] = Zero
        /\ md5 \in {sent, NoSum}
    BY <2>2, <2>3 DEF Exact, Calls
  <2> HIDE DEF sent
  <2>5. Len(sent) <= Len(file)
    <3>1. Len(sent) \in Nat /\ Len(file) \in Nat
      BY <2>3, <2>4
    <3>2. CASE Len(sent) = 0
      BY <3>1, <3>2
    <3>3. CASE Len(sent) # 0
      <4>1. Len(sent) \in DOMAIN sent
        BY <2>4, <3>1, <3>3
      <4> QED BY <2>3, <2>4, <4>1
    <3> QED BY <3>2, <3>3
  <2>6. file = sent \o [i \in 1..(put[w].size - Len(sent)) |-> Zero]
    BY <2>3, <2>4, <2>5, BodyAndZeros
  <2> QED BY <2>2, <2>4, <2>5, <2>6 DEF sent
<1>2. FileInv /\ [Next]_vars =>
        [\A w \in Requests :
            put'[w].at = "done" /\ put[w].at # "done" /\ put[w].alone =>
                LET sent == put[w].body IN
                    /\ Len(sent) <= put[w].size
                    /\ file' = sent \o [i \in 1..(put[w].size - Len(sent)) |-> Zero]
                    /\ md5' \in {sent, NoSum}]_fileVars
  BY <1>1
<1> QED BY <1>2, Inductive, PTL DEF Spec, AloneIsExact

-----------------------------------------------------------------------------
(* The memory of an upload.                                                *)

\* What the parts in b take, and what the calls in q are reading.
SizesOf(b) == [p \in DOMAIN b |-> b[p].size]
Held(b) == Tally(SizesOf(b), DOMAIN b)

ReadingIn(q) == {r \in Requests : q[r].at = "read"}
ReadSizes(q) == [r \in ReadingIn(q) |-> q[r].data.size]
BeingRead(q) == Tally(ReadSizes(q), ReadingIn(q))

MemoryInv == Held(buffered) + BeingRead(req)
                 <= maxMultipartUploadSize + Cardinality(Requests) * maxPartSize

LEMMA PartSize == maxPartSize \in Nat /\ \A data \in PartType : data.size \in Nat
<1>1. Sizes \subseteq Nat /\ maxPartSize \in Nat
  BY BufferAssumption
<1>2. \A data \in PartType : data.size \in Sizes
  BY DEF PartType
<1> QED BY <1>1, <1>2

LEMMA BufferedIsHeld ==
    ASSUME BufferInv
    PROVE  Held(buffered) \in Nat /\ BufferedSize = Held(buffered)
<1> DEFINE S == DOMAIN buffered
           f == SizesOf(buffered)
           Iterates(it) ==
               it = [s \in SUBSET S |-> IF s = {} THEN 0
                                        ELSE buffered[Chosen(s)].size + it[s \ {Chosen(s)}]]
           it0 == CHOOSE it : Iterates(it)
<1>1. IsFiniteSet(S)
  <2>1. S \in SUBSET Parts /\ IsFiniteSet(Parts)
    BY BufferAssumption DEF BufferInv
  <2> QED BY <2>1, FS_Subset
<1>2. \A p \in S : f[p] = buffered[p].size /\ f[p] \in Nat
  <2>1. \A p \in S : buffered[p] \in PartType
    BY DEF BufferInv
  <2> QED BY <2>1, PartSize DEF SizesOf
<1>3. BufferedSize = it0[S]
  BY DEF BufferedSize, MapThenSumSet, MapThenFoldSet, Chosen
<1> HIDE DEF f
<1>4. \A it : Iterates(it) <=> SumsUp(it, f, S)
  <2>1. \A s \in SUBSET S : s # {} => f[Chosen(s)] = buffered[Chosen(s)].size
    BY <1>2 DEF Chosen
  <2>2. ASSUME NEW it
        PROVE  [s \in SUBSET S |-> IF s = {} THEN 0
                                   ELSE buffered[Chosen(s)].size + it[s \ {Chosen(s)}]]
             = [s \in SUBSET S |-> IF s = {} THEN 0 ELSE f[Chosen(s)] + it[s \ {Chosen(s)}]]
    BY <2>1
  <2> QED BY Zenon, <2>2 DEF SumsUp
<1>5. \E it : SumsUp(it, f, S)
  BY <1>1, <1>2, SumsUpExists
<1>6. SumsUp(it0, f, S)
  <2> HIDE DEF Iterates
  <2> QED BY Zenon, <1>4, <1>5
<1> HIDE DEF it0, S
<1>7. it0[S] = Tally(f, S) /\ Tally(f, S) \in Nat
  BY <1>1, <1>2, <1>6, SumsUpIsTally, TallyFinite
<1> QED BY <1>3, <1>7 DEF Held, S, f

LEMMA ReadingFacts ==
    ASSUME NEW q, NEW answered, \A r \in Requests : ReqOK(q[r], answered)
    PROVE  /\ IsFiniteSet(ReadingIn(q)) /\ BeingRead(q) \in Nat
           /\ \A r \in ReadingIn(q) : /\ ReadSizes(q)[r] = q[r].data.size
                                      /\ ReadSizes(q)[r] \in 0..maxPartSize
<1>1. ReadingIn(q) \in SUBSET Requests /\ IsFiniteSet(Requests)
  BY BufferAssumption DEF ReadingIn
<1>2. IsFiniteSet(ReadingIn(q))
  BY <1>1, FS_Subset
<1>3. ASSUME NEW r \in ReadingIn(q)
      PROVE  ReadSizes(q)[r] = q[r].data.size /\ ReadSizes(q)[r] \in 0..maxPartSize
  <2>1. q[r].data \in PartType /\ q[r].data.size <= maxPartSize
    BY <1>3 DEF ReadingIn, ReqOK
  <2>2. q[r].data.size \in 0..maxPartSize
    BY <2>1, PartSize
  <2> QED BY <2>2 DEF ReadSizes
<1>4. BeingRead(q) \in Nat
  <2>1. \A r \in ReadingIn(q) : ReadSizes(q)[r] \in Nat
    BY <1>3
  <2> QED BY <1>2, <2>1, TallyFinite DEF BeingRead
<1> QED BY <1>2, <1>3, <1>4

LEMMA BeingReadIs == ReqInv => MapThenSumSet(LAMBDA r : req[r].data.size, Reading) = BeingRead(req)
<1> SUFFICES ASSUME ReqInv
             PROVE  MapThenSumSet(LAMBDA r : req[r].data.size, Reading) = BeingRead(req)
  OBVIOUS
<1> DEFINE S == Reading
           f == ReadSizes(req)
           Iterates(it) ==
               it = [s \in SUBSET S |-> IF s = {} THEN 0
                                        ELSE req[Chosen(s)].data.size + it[s \ {Chosen(s)}]]
           it0 == CHOOSE it : Iterates(it)
<1>1. S = ReadingIn(req)
  BY DEF Reading, ReadingIn
<1>2. IsFiniteSet(S) /\ \A r \in S : f[r] = req[r].data.size /\ f[r] \in Nat
  <2>1. /\ IsFiniteSet(ReadingIn(req))
        /\ \A r \in ReadingIn(req) : f[r] = req[r].data.size /\ f[r] \in 0..maxPartSize
    BY ReadingFacts DEF ReqInv
  <2> QED BY <1>1, <2>1
<1>3. MapThenSumSet(LAMBDA r : req[r].data.size, S) = it0[S]
  BY DEF MapThenSumSet, MapThenFoldSet, Chosen
<1> HIDE DEF f, S
<1>4. \A it : Iterates(it) <=> SumsUp(it, f, S)
  <2>1. \A s \in SUBSET S : s # {} => f[Chosen(s)] = req[Chosen(s)].data.size
    BY <1>2 DEF Chosen
  <2>2. ASSUME NEW it
        PROVE  [s \in SUBSET S |-> IF s = {} THEN 0
                                   ELSE req[Chosen(s)].data.size + it[s \ {Chosen(s)}]]
             = [s \in SUBSET S |-> IF s = {} THEN 0 ELSE f[Chosen(s)] + it[s \ {Chosen(s)}]]
    BY <2>1
  <2> QED BY Zenon, <2>2 DEF SumsUp
<1>5. \E it : SumsUp(it, f, S)
  BY <1>2, SumsUpExists
<1>6. SumsUp(it0, f, S)
  <2> HIDE DEF Iterates
  <2> QED BY Zenon, <1>4, <1>5
<1> HIDE DEF it0
<1>7. it0[S] = Tally(f, S)
  BY <1>2, <1>6, SumsUpIsTally
<1> QED BY <1>1, <1>3, <1>7 DEF BeingRead, S, f

\* A call that no longer reads, or did not, gives back what it was reading.
LEMMA ReadingLess ==
    ASSUME NEW q \in [Requests -> ReqType], NEW answered, \A v \in Requests : ReqOK(q[v], answered),
           NEW r \in Requests, NEW x, x.at # "read"
    PROVE  BeingRead([q EXCEPT ![r] = x]) + (IF q[r].at = "read" THEN q[r].data.size ELSE 0)
               = BeingRead(q)
<1> DEFINE q2 == [q EXCEPT ![r] = x]
           f == ReadSizes(q)
           S == ReadingIn(q) \ {r}
<1>1. ReadingIn(q2) = S /\ r \notin S
  BY DEF ReadingIn
<1>2. \A v \in S : ReadSizes(q2)[v] = f[v]
  BY <1>1 DEF ReadSizes, ReadingIn
<1>3. BeingRead(q2) = Tally(f, S)
  BY <1>1, <1>2, TallySame DEF BeingRead
<1>4. /\ IsFiniteSet(ReadingIn(q)) /\ BeingRead(q) \in Nat
      /\ \A v \in ReadingIn(q) : f[v] = q[v].data.size /\ f[v] \in 0..maxPartSize
  BY ReadingFacts
<1>5. CASE q[r].at # "read"
  <2>1. r \notin ReadingIn(q)
    BY <1>5 DEF ReadingIn
  <2>2. S = ReadingIn(q)
    BY Zenon, <2>1
  <2> HIDE DEF S
  <2> QED BY <1>3, <1>4, <1>5, <2>2 DEF BeingRead
<1>6. CASE q[r].at = "read"
  <2>1. r \in ReadingIn(q) /\ S \cup {r} = ReadingIn(q) /\ S \in SUBSET ReadingIn(q)
    BY <1>6 DEF ReadingIn
  <2>2. IsFiniteSet(S)
    BY <1>4, <2>1, FS_Subset
  <2>3. f[r] = q[r].data.size /\ f[r] \in Nat /\ \A v \in S : f[v] \in Nat
    <3>1. \A v \in ReadingIn(q) : f[v] \in Nat /\ f[v] = q[v].data.size
      BY <1>4, PartSize
    <3> HIDE DEF f
    <3> QED BY Zenon, <2>1, <3>1
  <2> HIDE DEF S, f, q2
  <2>4. IsFiniteSet(Units(f, S)) /\ Tally(f, S) \in Nat
    BY <2>2, <2>3, TallyFinite
  <2>5. Tally(f, S \cup {r}) = Tally(f, S) + f[r]
    BY <1>1, <2>3, <2>4, TallyAdd
  <2> QED BY <1>3, <1>6, <2>1, <2>3, <2>5 DEF BeingRead, f, q2
<1> QED BY <1>5, <1>6

\* A part that is stored takes its size, and no more.
LEMMA HeldMore ==
    ASSUME BufferInv, NEW p \in Parts, NEW data \in PartType
    PROVE  LET b == [x \in DOMAIN buffered \cup {p} |-> IF x = p THEN data ELSE buffered[x]]
           IN  Held(b) \in Nat /\ Held(b) <= Held(buffered) + data.size
<1> DEFINE D == DOMAIN buffered
           b == [x \in D \cup {p} |-> IF x = p THEN data ELSE buffered[x]]
           f == SizesOf(buffered)
           g == SizesOf(b)
           S == D \ {p}
<1>1. DOMAIN b = S \cup {p} /\ p \notin S /\ S \subseteq D
  OBVIOUS
<1>2. /\ IsFiniteSet(D) /\ IsFiniteSet(S)
      /\ \A x \in D : buffered[x] \in PartType
  <2>1. D \in SUBSET Parts /\ IsFiniteSet(Parts)
    BY BufferAssumption DEF BufferInv
  <2>2. IsFiniteSet(D)
    BY <2>1, FS_Subset
  <2>3. S \in SUBSET D
    OBVIOUS
  <2> QED BY <2>2, <2>3, FS_Subset DEF BufferInv
<1>3. \A x \in D : f[x] \in Nat
  BY <1>2, PartSize DEF SizesOf
<1>4. g[p] = data.size /\ g[p] \in Nat /\ \A x \in S : g[x] = f[x]
  BY <1>1, PartSize DEF SizesOf
<1> HIDE DEF f, g
<1>5. IsFiniteSet(Units(f, S)) /\ Tally(f, S) \in Nat
  <2>1. \A x \in S : f[x] \in Nat
    BY <1>3
  <2> HIDE DEF S
  <2> QED BY <1>2, <2>1, TallyFinite
<1>6. IsFiniteSet(Units(g, S)) /\ Tally(g, S) = Tally(f, S)
  <2>1. Tally(g, S) = Tally(f, S)
    BY <1>4, TallySame
  <2>2. \A x \in S : g[x] \in Nat
    BY <1>3, <1>4
  <2> HIDE DEF S
  <2> QED BY <1>2, <2>1, <2>2, TallyFinite
<1>7. Held(b) = Tally(f, S) + data.size
  <2>1. Tally(g, S \cup {p}) = Tally(g, S) + g[p]
    <3> HIDE DEF S
    <3> QED BY <1>1, <1>4, <1>6, TallyAdd
  <2> QED BY <1>1, <1>4, <1>6, <2>1 DEF Held, g
<1>8. Held(buffered) >= Tally(f, S)
  <2>1. CASE p \in D
    <3>1. S \cup {p} = D /\ f[p] \in Nat
      BY <1>3, <2>1
    <3>2. Tally(f, S \cup {p}) = Tally(f, S) + f[p]
      <4> HIDE DEF S
      <4> QED BY <1>1, <1>5, <3>1, TallyAdd
    <3> QED BY <1>5, <3>1, <3>2 DEF Held, f
  <2>2. CASE p \notin D
    <3>1. S = D
      BY <2>2
    <3> QED BY <1>5, <3>1 DEF Held, f
  <2> QED BY <2>1, <2>2
<1>9. Held(buffered) \in Nat
  BY BufferedIsHeld
<1> HIDE DEF b, S
<1>10. Held(b) \in Nat /\ Held(b) <= Held(buffered) + data.size
  BY <1>4, <1>5, <1>7, <1>8, <1>9
<1> QED BY <1>10 DEF b

\* A call moves on to something else than reading, and the buffer stays.
LEMMA MemoryLess ==
    ASSUME FileInv, MemoryInv, NEW r \in Requests, NEW x, x.at # "read",
           req' = [req EXCEPT ![r] = x], buffered' = buffered, FileInv'
    PROVE  MemoryInv'
<1>1. BeingRead(req') + (IF req[r].at = "read" THEN req[r].data.size ELSE 0) = BeingRead(req)
  BY ReadingLess DEF FileInv, ReqInv
<1>2. req[r].at = "read" => req[r].data.size \in Nat
  BY PartSize DEF FileInv, ReqInv, ReqOK
<1>3. BeingRead(req) \in Nat /\ BeingRead(req') \in Nat
  BY ReadingFacts DEF FileInv, ReqInv
<1>4. Held(buffered) \in Nat
  BY BufferedIsHeld DEF FileInv
<1>5. IsFiniteSet(Requests) /\ maxPartSize \in Nat /\ maxMultipartUploadSize \in Nat
  BY BufferAssumption
<1>6. Cardinality(Requests) * maxPartSize \in Nat
  BY <1>5, FS_CardinalityType
<1>7. Held(buffered) + BeingRead(req) <= maxMultipartUploadSize + Cardinality(Requests) * maxPartSize
  BY DEF MemoryInv
<1>8. BeingRead(req') <= BeingRead(req)
  BY <1>1, <1>2, <1>3
<1>9. Held(buffered') + BeingRead(req') <= maxMultipartUploadSize + Cardinality(Requests) * maxPartSize
  BY <1>3, <1>4, <1>5, <1>6, <1>7, <1>8
<1> QED BY <1>9 DEF MemoryInv

\* What the calls read is a part each, at most.
LEMMA ReadingBounded ==
    ASSUME NEW q, NEW answered, \A r \in Requests : ReqOK(q[r], answered)
    PROVE  /\ BeingRead(q) \in Nat /\ Cardinality(Requests) * maxPartSize \in Nat
           /\ BeingRead(q) <= Cardinality(Requests) * maxPartSize
<1> DEFINE S == ReadingIn(q)
           n == Cardinality(S)
           m == Cardinality(Requests)
<1>1. /\ IsFiniteSet(S) /\ BeingRead(q) \in Nat
      /\ \A v \in S : ReadSizes(q)[v] \in 0..maxPartSize
  BY ReadingFacts
<1>2. maxPartSize \in Nat
  BY PartSize
<1>3. n \in Nat /\ m \in Nat /\ n <= m
  <2>1. S \in SUBSET Requests /\ IsFiniteSet(Requests)
    BY BufferAssumption DEF ReadingIn
  <2> QED BY <2>1, FS_Subset, FS_CardinalityType
<1>4. BeingRead(q) <= n * maxPartSize
  <2> HIDE DEF S
  <2>1. Tally(ReadSizes(q), S) <= Cardinality(S) * maxPartSize
    BY <1>1, <1>2, TallyBounded
  <2> QED BY <2>1 DEF BeingRead, S
<1> HIDE DEF n, m
<1>5. n * maxPartSize <= m * maxPartSize /\ n * maxPartSize \in Nat /\ m * maxPartSize \in Nat
  <2>1. \A a, b, c \in Nat : a <= b => a * c <= b * c
    OBVIOUS
  <2>2. \A a, c \in Nat : a * c \in Nat
    OBVIOUS
  <2> QED BY <1>2, <1>3, <2>1, <2>2
<1>6. BeingRead(q) <= m * maxPartSize
  BY <1>1, <1>4, <1>5
<1> QED BY <1>1, <1>5, <1>6 DEF m

\* UploadPart: with what is buffered the limit is not passed, and what is read is a part
\* for every call.
LEMMA UploadPartMemory ==
    ASSUME FileInv, FileInv', NEW r \in Requests, UploadPart(r)
    PROVE  MemoryInv'
<1>1. PICK n \in Sizes, known \in BOOLEAN :
          BufferedSize + (IF known THEN n ELSE 0) <= maxMultipartUploadSize
  BY DEF UploadPart, Fits
<1>2. n \in Nat /\ maxMultipartUploadSize \in Nat
  BY BufferAssumption
<1>3. Held(buffered) \in Nat /\ BufferedSize = Held(buffered)
  BY BufferedIsHeld DEF FileInv
<1>4. Held(buffered) <= maxMultipartUploadSize /\ buffered' = buffered
  BY <1>1, <1>2, <1>3 DEF UploadPart, upload
<1>5. /\ BeingRead(req') \in Nat /\ Cardinality(Requests) * maxPartSize \in Nat
      /\ BeingRead(req') <= Cardinality(Requests) * maxPartSize
  <2>1. \A v \in Requests : ReqOK(req'[v], acked')
    BY DEF FileInv, ReqInv
  <2> QED BY <2>1, ReadingBounded
<1>6. Held(buffered') + BeingRead(req') <= maxMultipartUploadSize + Cardinality(Requests) * maxPartSize
  BY <1>2, <1>3, <1>4, <1>5
<1> QED BY <1>6 DEF MemoryInv

\* StorePart: what was being read is buffered.
LEMMA StorePartMemory ==
    ASSUME FileInv, FileInv', MemoryInv, NEW r \in Requests, StorePart(r)
    PROVE  MemoryInv'
<1> DEFINE p == req[r].part
           data == req[r].data
           b == [x \in DOMAIN buffered \cup {p} |-> IF x = p THEN data ELSE buffered[x]]
           room == maxMultipartUploadSize + Cardinality(Requests) * maxPartSize
<1>1. req[r].at = "read" /\ buffered' = b /\ req' = [req EXCEPT ![r] = IdleReq]
  BY DEF StorePart, Done
<1>2. p \in Parts /\ data \in PartType /\ data.size \in Nat
  BY <1>1, PartSize DEF FileInv, ReqInv, ReqOK
<1>3. Held(b) \in Nat /\ Held(b) <= Held(buffered) + data.size
  <2> HIDE DEF p, data
  <2> QED BY <1>2, HeldMore DEF FileInv
<1>4. Held(buffered) \in Nat
  BY BufferedIsHeld DEF FileInv
<1>5. BeingRead(req') + data.size = BeingRead(req)
  <2>1. IdleReq.at # "read"
    BY DEF IdleReq
  <2>2. BeingRead([req EXCEPT ![r] = IdleReq])
            + (IF req[r].at = "read" THEN req[r].data.size ELSE 0) = BeingRead(req)
    BY <2>1, ReadingLess DEF FileInv, ReqInv
  <2> QED BY <1>1, <2>2
<1>6. BeingRead(req) \in Nat /\ BeingRead(req') \in Nat
  BY ReadingFacts DEF FileInv, ReqInv
<1>7. Held(buffered) + BeingRead(req) <= room
  BY DEF MemoryInv
<1>8. room \in Nat
  <2>1. maxMultipartUploadSize \in Nat
    BY BufferAssumption
  <2> QED BY <2>1, ReadingBounded DEF FileInv, ReqInv
<1>9. Held(buffered') + BeingRead(req') <= room
  <2> HIDE DEF room, b, data
  <2> QED BY <1>1, <1>2, <1>3, <1>4, <1>5, <1>6, <1>7, <1>8
<1> QED BY <1>9 DEF MemoryInv

LEMMA MemoryInit == Init => MemoryInv
<1> SUFFICES ASSUME Init PROVE MemoryInv
  OBVIOUS
<1>1. ReqInv
  BY FileInvInit DEF FileInv
<1>2. DOMAIN buffered = {} /\ ReadingIn(req) = {}
  BY DEF Init, ReadingIn, IdleReq
<1>3. Held(buffered) = 0
  BY <1>2, TallyEmpty DEF Held
<1>4. BeingRead(req) \in Nat /\ Cardinality(Requests) * maxPartSize \in Nat
      /\ BeingRead(req) <= Cardinality(Requests) * maxPartSize
  BY <1>1, ReadingBounded DEF ReqInv
<1>5. maxMultipartUploadSize \in Nat
  BY BufferAssumption
<1> QED BY <1>3, <1>4, <1>5 DEF MemoryInv

LEMMA MemoryStep == FileInv /\ FileInv' /\ MemoryInv /\ [Next]_vars => MemoryInv'
<1> SUFFICES ASSUME FileInv, FileInv', MemoryInv, [Next]_vars PROVE MemoryInv'
  OBVIOUS
<1>1. ASSUME NEW r \in Requests,
             \/ UploadPart(r) \/ ReadFails(r) \/ StorePart(r)
             \/ CompleteMultipartUpload(r) \/ Assemble(r) \/ PutFails(r) \/ DropUpload(r)
             \/ PutObject(r) \/ CopyObject(r) \/ PutAnswered(r)
      PROVE  MemoryInv'
  <2>1. CASE UploadPart(r)
    BY <2>1, UploadPartMemory
  <2>2. CASE StorePart(r)
    BY <2>2, StorePartMemory
  <2>3. CASE ReadFails(r) \/ PutFails(r) \/ DropUpload(r) \/ PutAnswered(r)
    <3>1. req' = [req EXCEPT ![r] = IdleReq] /\ buffered' = buffered /\ IdleReq.at # "read"
      BY <2>3 DEF ReadFails, PutFails, DropUpload, PutAnswered, Done, upload, IdleReq
    <3> QED BY <3>1, MemoryLess
  <2>4. CASE CompleteMultipartUpload(r)
    <3> DEFINE x == [IdleReq EXCEPT !.at = "assemble", !.before = acked]
    <3>1. req' = [req EXCEPT ![r] = x] /\ buffered' = buffered /\ x.at # "read"
      BY <2>4 DEF CompleteMultipartUpload, upload, IdleReq
    <3> HIDE DEF x
    <3> QED BY <3>1, MemoryLess
  <2>5. CASE Assemble(r)
    <3>1. /\ req' = [req EXCEPT ![r] = IdleReq] \/ req' = [req EXCEPT ![r].at = "put"]
          /\ buffered' = buffered
      BY <2>5 DEF Assemble, Done, upload
    <3> DEFINE x == [req[r] EXCEPT !.at = "put"]
    <3>2. req[r] \in ReqType
      BY DEF FileInv, ReqInv
    <3>3. x.at = "put" /\ IdleReq.at = "idle"
      BY <3>2 DEF IdleReq, ReqType
    <3>4. req' = [req EXCEPT ![r] = IdleReq] \/ req' = [req EXCEPT ![r] = x]
      BY <3>1
    <3> HIDE DEF x
    <3> QED BY <3>1, <3>3, <3>4, MemoryLess
  <2>6. CASE PutObject(r) \/ CopyObject(r)
    <3> DEFINE x == [IdleReq EXCEPT !.at = "single"]
    <3>1. req' = [req EXCEPT ![r] = x] /\ buffered' = buffered /\ x.at # "read"
      BY <2>6 DEF PutObject, CopyObject, Single, upload, IdleReq
    <3> HIDE DEF x
    <3> QED BY <3>1, MemoryLess
  <2> QED BY <1>1, <2>1, <2>2, <2>3, <2>4, <2>5, <2>6
<1>2. ASSUME UNCHANGED <<buffered, req>> PROVE MemoryInv'
  BY <1>2 DEF MemoryInv
<1> QED BY <1>1, <1>2 DEF Next, AbortMultipartUpload, vars, upload

\* The parts an upload holds and the ones that are being read for it take no more than
\* the limit and a part for every call: of the calls that passed the check together each
\* holds or reads one part more than was counted.
THEOREM FileOvershootBounded == Spec => []OvershootBounded
<1>1. FileInv /\ MemoryInv => OvershootBounded
  <2> SUFFICES ASSUME FileInv, MemoryInv PROVE OvershootBounded
    OBVIOUS
  <2>1. BufferedSize = Held(buffered)
    BY BufferedIsHeld DEF FileInv
  <2>2. MapThenSumSet(LAMBDA r : req[r].data.size, Reading) = BeingRead(req)
    BY BeingReadIs DEF FileInv
  <2> QED BY <2>1, <2>2 DEF OvershootBounded, MemoryInv
<1> QED BY <1>1, Inductive, MemoryInit, MemoryStep, PTL DEF Spec

-----------------------------------------------------------------------------
(* The body on the wire.                                                   *)

Junk == [junk |-> "zz"]

\* What the client may send.
Sendable(b) == {Encoded(b)} \cup Garbled(b)

\* A body in its chunks.
LEMMA BodyFacts ==
    ASSUME NEW b \in Bodies
    PROVE  /\ Len(b) \in Nat
           /\ \A k \in 0..Len(b) : Before(b, k) \in Nat
           /\ \A j, k \in 0..Len(b) : j <= k => Before(b, j) <= Before(b, k)
           /\ \A k \in 1..Len(b) : /\ Size(b, k) \in Nat \ {0}
                                   /\ Before(b, k) = Before(b, k - 1) + Size(b, k)
           /\ Size(b, Len(b) + 1) = 0
<1>1. b \in Seq(Nat \ {0}) /\ \A i, j \in DOMAIN b : i < j => b[i] < b[j]
  BY ChunkedAssumption
<1>2. /\ Len(b) \in Nat /\ DOMAIN b = 1..Len(b)
      /\ \A i \in 1..Len(b) : b[i] \in Nat \ {0}
  BY <1>1
<1>3. \A k \in 0..Len(b) : /\ k = 0 => Before(b, k) = 0
                           /\ k # 0 => Before(b, k) = b[k]
  BY DEF Before
<1>4. \A k \in 0..Len(b) : Before(b, k) \in Nat
  BY <1>2, <1>3
<1>5. \A j, k \in 0..Len(b) : j < k => Before(b, j) < Before(b, k)
  BY <1>1, <1>2, <1>3
<1>6. \A j, k \in 0..Len(b) : j <= k => Before(b, j) <= Before(b, k)
  BY <1>2, <1>4, <1>5
<1>7. \A k \in 1..Len(b) : /\ Size(b, k) \in Nat \ {0}
                           /\ Before(b, k) = Before(b, k - 1) + Size(b, k)
  <2> SUFFICES ASSUME NEW k \in 1..Len(b)
               PROVE  /\ Size(b, k) \in Nat \ {0}
                      /\ Before(b, k) = Before(b, k - 1) + Size(b, k)
    OBVIOUS
  <2>1. k - 1 \in 0..Len(b) /\ k \in 0..Len(b) /\ k - 1 < k /\ k # 0 /\ ~(k > Len(b))
    BY <1>2
  <2>2. Size(b, k) = Before(b, k) - Before(b, k - 1)
    BY <1>3, <2>1 DEF Size
  <2> QED BY <1>4, <1>5, <2>1, <2>2
<1>8. Size(b, Len(b) + 1) = 0
  BY <1>2 DEF Size
<1> QED BY <1>2, <1>4, <1>6, <1>7, <1>8

\* The places of the chunks on the wire.
LEMMA PlaceFacts ==
    ASSUME NEW b \in Bodies
    PROVE  /\ \A k \in 1..Len(b) + 1 : Start(b, k) \in Nat /\ Size(b, k) \in Nat
           /\ \A k \in 1..Len(b) : Start(b, k + 1) = Start(b, k) + Size(b, k) + 3
           /\ \A j, k \in 1..Len(b) + 1 : j < k => Start(b, j) + Size(b, j) + 3 <= Start(b, k)
<1> DEFINE n == Len(b)
<1>1. n \in Nat
  BY BodyFacts
<1>2. \A k \in 1..n + 1 : k - 1 \in 0..n /\ Before(b, k - 1) \in Nat
  BY <1>1, BodyFacts
<1>3. \A k \in 1..n + 1 : Start(b, k) \in Nat
  BY <1>1, <1>2 DEF Start
<1>4. \A k \in 1..n + 1 : Size(b, k) \in Nat
  <2> SUFFICES ASSUME NEW k \in 1..n + 1 PROVE Size(b, k) \in Nat
    OBVIOUS
  <2>1. k \in 1..n \/ k = n + 1
    BY <1>1
  <2> QED BY <2>1, BodyFacts
<1>5. ASSUME NEW k \in 1..n
      PROVE  Start(b, k) + Size(b, k) + 3 = Before(b, k) + 3 * k
  <2>1. Before(b, k) = Before(b, k - 1) + Size(b, k) /\ k \in 1..n + 1 /\ k \in 0..n
    BY <1>1, BodyFacts
  <2>2. Before(b, k - 1) \in Nat /\ Size(b, k) \in Nat
    BY <1>2, <1>4, <2>1
  <2> DEFINE e == Before(b, k - 1)
  <2>3. Start(b, k) = e + 3 * (k - 1)
    BY DEF Start
  <2> HIDE DEF e
  <2>4. e \in Nat /\ Before(b, k) = e + Size(b, k)
    BY <2>1, <2>2 DEF e
  <2> QED BY <1>1, <2>2, <2>3, <2>4
<1>6. ASSUME NEW k \in 1..n + 1 PROVE Start(b, k) = Before(b, k - 1) + 3 * (k - 1)
  BY DEF Start
<1>7. ASSUME NEW k \in 1..n PROVE Start(b, k + 1) = Start(b, k) + Size(b, k) + 3
  <2>1. k + 1 \in 1..n + 1 /\ (k + 1) - 1 = k
    BY <1>1
  <2>2. Start(b, k + 1) = Before(b, k) + 3 * k
    BY <1>6, <2>1
  <2> QED BY <1>5, <2>2
<1>8. ASSUME NEW j \in 1..n + 1, NEW k \in 1..n + 1, j < k
      PROVE  Start(b, j) + Size(b, j) + 3 <= Start(b, k)
  <2>1. j \in 1..n /\ j \in 0..n /\ k - 1 \in 0..n /\ j <= k - 1
    BY <1>1, <1>8
  <2> DEFINE e == Before(b, k - 1)
             d == Before(b, j)
  <2>2. d \in Nat /\ e \in Nat /\ d <= e
    BY <2>1, BodyFacts
  <2>3. Start(b, j) + Size(b, j) + 3 = d + 3 * j /\ Start(b, k) = e + 3 * (k - 1)
    BY <1>5, <1>6, <2>1
  <2> HIDE DEF d, e
  <2> QED BY <1>1, <2>1, <2>2, <2>3
<1> QED BY <1>3, <1>4, <1>7, <1>8

Total(b) == Start(b, Len(b) + 1) + 3

\* What is where on the wire.
LEMMA EncodedFacts ==
    ASSUME NEW b \in Bodies
    PROVE  /\ Total(b) \in Nat /\ DOMAIN Encoded(b) = 1..Total(b)
           /\ \A k \in 1..Len(b) + 1 : \A i \in 0..Size(b, k) + 2 :
                 LET p == Start(b, k) + 1 + i
                 IN  /\ p \in 1..Total(b)
                     /\ Encoded(b)[p] = IF i = 0 THEN Header(Size(b, k))
                                        ELSE IF i <= Size(b, k) THEN Byte(Before(b, k - 1) + i)
                                        ELSE [end |-> i - Size(b, k)]
<1> DEFINE n == Len(b)
<1>1. n \in Nat
  BY BodyFacts
<1>2. Total(b) \in Nat /\ DOMAIN Encoded(b) = 1..Total(b)
  <2>1. n + 1 \in 1..n + 1
    BY <1>1
  <2> QED BY <2>1, PlaceFacts DEF Total, Encoded
<1>3. ASSUME NEW k \in 1..n + 1, NEW i \in 0..Size(b, k) + 2
      PROVE  LET p == Start(b, k) + 1 + i
             IN  /\ p \in 1..Total(b)
                 /\ Encoded(b)[p] = IF i = 0 THEN Header(Size(b, k))
                                    ELSE IF i <= Size(b, k) THEN Byte(Before(b, k - 1) + i)
                                    ELSE [end |-> i - Size(b, k)]
  <2> DEFINE p == Start(b, k) + 1 + i
  <2>1. Start(b, k) \in Nat /\ Size(b, k) \in Nat
    BY PlaceFacts
  <2>2. p \in Nat \ {0} /\ p - Start(b, k) - 1 = i /\ p - Start(b, k) \in 1..Size(b, k) + 3
    <3> DEFINE z == Size(b, k)
               f == Start(b, k)
    <3>1. z \in Nat /\ f \in Nat /\ i \in 0..z + 2
      BY <2>1
    <3> HIDE DEF z, f
    <3>2. LET q == f + 1 + i IN q \in Nat \ {0} /\ q - f - 1 = i /\ q - f \in 1..z + 3
      BY <3>1
    <3> QED BY <3>2 DEF z, f
  <2>3. p <= Total(b)
    <3>1. CASE k = n + 1
      <4>1. Size(b, k) = 0 /\ Total(b) = Start(b, k) + 3
        BY <3>1, BodyFacts DEF Total
      <4>2. i \in 0..2
        BY <4>1
      <4> DEFINE f == Start(b, k)
      <4>3. f \in Nat /\ Total(b) = f + 3
        BY <2>1, <4>1
      <4> HIDE DEF f
      <4>4. f + 1 + i <= Total(b)
        BY <4>2, <4>3
      <4> QED BY <4>4 DEF f
    <3>2. CASE k # n + 1
      <4>0. k < n + 1 /\ n + 1 \in 1..n + 1
        <5> HIDE DEF n
        <5> QED BY <1>1, <3>2
      <4>1. k < n + 1 /\ n + 1 \in 1..n + 1 /\ Start(b, n + 1) \in Nat
        BY <4>0, PlaceFacts
      <4>2. Start(b, k) + Size(b, k) + 3 <= Start(b, n + 1)
        BY <4>1, PlaceFacts
      <4> QED BY <2>1, <4>1, <4>2 DEF Total
    <3> QED BY <3>1, <3>2
  <2>4. ASSUME NEW j \in 1..n + 1, p - Start(b, j) \in 1..Size(b, j) + 3
        PROVE  j = k
    <3>1. Start(b, j) \in Nat /\ Size(b, j) \in Nat
      BY PlaceFacts
    <3>2. j < k => Start(b, j) + Size(b, j) + 3 <= Start(b, k)
      BY PlaceFacts
    <3>3. k < j => Start(b, k) + Size(b, k) + 3 <= Start(b, j)
      BY PlaceFacts
    <3>4. ~(j < k)
      BY <2>1, <2>4, <3>1, <3>2
    <3>5. ~(k < j)
      BY <2>1, <2>4, <3>1, <3>3
    <3> QED BY <1>1, <3>4, <3>5
  <2>5. k = CHOOSE j \in 1..n + 1 : p - Start(b, j) \in 1..Size(b, j) + 3
    BY <2>2, <2>4
  <2>6. Item(b, p) = IF i = 0 THEN Header(Size(b, k))
                     ELSE IF i <= Size(b, k) THEN Byte(Before(b, k - 1) + i)
                     ELSE [end |-> i - Size(b, k)]
    BY <2>2, <2>5 DEF Item
  <2>7. p \in 1..Total(b)
    BY <1>2, <2>2, <2>3
  <2>8. Encoded(b)[p] = Item(b, p)
    BY <2>7 DEF Encoded, Total
  <2> QED BY <2>6, <2>7, <2>8
<1> QED BY <1>2, <1>3

\* What arrives is what was meant, but for one header at most.
LEMMA SentFacts ==
    ASSUME NEW b \in Bodies, NEW s \in Sendable(b)
    PROVE  /\ DOMAIN s = 1..Total(b) /\ Total(b) \in Nat
           /\ \A k \in 1..Len(b) + 1 :
                 /\ Start(b, k) + 1 \in 1..Total(b)
                 /\ s[Start(b, k) + 1] \in {Header(Size(b, k)), Junk}
           /\ \A k \in 1..Len(b) + 1 : \A i \in 1..Size(b, k) :
                 /\ Start(b, k) + 1 + i \in 1..Total(b)
                 /\ s[Start(b, k) + 1 + i] = Byte(Before(b, k - 1) + i)
<1> DEFINE e == Encoded(b)
<1>1. DOMAIN e = 1..Total(b) /\ Total(b) \in Nat
  BY EncodedFacts
<1>2. DOMAIN s = 1..Total(b)
  BY <1>1 DEF Sendable, Garbled, ReplaceAt
<1>3. \A p \in 1..Total(b) : /\ s[p] \in {e[p], Junk}
                             /\ ~IsHeader(e[p]) => s[p] = e[p]
  <2> HIDE DEF e
  <2>1. s = e \/ \E j \in 1..Total(b) : IsHeader(e[j]) /\ s = [e EXCEPT ![j] = Junk]
    BY <1>1 DEF Sendable, Garbled, ReplaceAt, Junk, e
  <2> QED BY <1>1, <2>1
<1>4. ASSUME NEW k \in 1..Len(b) + 1
      PROVE  /\ Start(b, k) + 1 \in 1..Total(b)
             /\ s[Start(b, k) + 1] \in {Header(Size(b, k)), Junk}
  <2>1. Size(b, k) \in Nat /\ Start(b, k) \in Nat
    BY PlaceFacts
  <2>2. 0 \in 0..Size(b, k) + 2 /\ Start(b, k) + 1 + 0 = Start(b, k) + 1
    BY <2>1
  <2>3. /\ Start(b, k) + 1 \in 1..Total(b)
        /\ e[Start(b, k) + 1] = Header(Size(b, k))
    BY <2>2, EncodedFacts
  <2> QED BY <1>3, <2>3
<1>5. ASSUME NEW k \in 1..Len(b) + 1, NEW i \in 1..Size(b, k)
      PROVE  /\ Start(b, k) + 1 + i \in 1..Total(b)
             /\ s[Start(b, k) + 1 + i] = Byte(Before(b, k - 1) + i)
  <2>1. Size(b, k) \in Nat
    BY PlaceFacts
  <2>2. i \in 0..Size(b, k) + 2 /\ i # 0 /\ i <= Size(b, k)
    BY <2>1
  <2>3. /\ Start(b, k) + 1 + i \in 1..Total(b)
        /\ e[Start(b, k) + 1 + i] = Byte(Before(b, k - 1) + i)
    BY <2>2, EncodedFacts
  <2>4. ~IsHeader(Byte(Before(b, k - 1) + i))
    BY DEF IsHeader, Byte
  <2> QED BY <1>3, <2>3, <2>4
<1> QED BY <1>1, <1>2, <1>4, <1>5

-----------------------------------------------------------------------------
(* What has been handed out of it.                                         *)

\* A piece of a sequence.
LEMMA Piece ==
    ASSUME NEW T, NEW s \in Seq(T), NEW m \in 1..Len(s) + 1, NEW n \in m - 1..Len(s)
    PROVE  /\ SubSeq(s, m, n) \in Seq(T) /\ Len(SubSeq(s, m, n)) = n - m + 1
           /\ \A i \in 1..n - m + 1 : SubSeq(s, m, n)[i] = s[m - 1 + i]
<1>1. Len(s) \in Nat /\ m \in Int /\ n \in Int
  OBVIOUS
<1>2. m \in 1..Len(s) + 1 /\ n \in m - 1..Len(s)
  OBVIOUS
<1> QED BY <1>1, <1>2, SubSeqProperties

\* A prefix, place by place.
LEMMA PrefixOf ==
    ASSUME NEW T, NEW s \in Seq(T), NEW t \in Seq(T), Len(s) <= Len(t),
           \A i \in 1..Len(s) : s[i] = t[i]
    PROVE  IsPrefix(s, t)
<1> DEFINE n == Len(s)
           a == SubSeq(s, 1, n)
           c == SubSeq(t, 1, n)
<1>1. n \in Nat /\ Len(t) \in Nat /\ n - 1 + 1 = n
  OBVIOUS
<1>2. 1 \in 1..Len(s) + 1 /\ n \in 1 - 1..Len(s) /\ 1 \in 1..Len(t) + 1 /\ n \in 1 - 1..Len(t)
  BY <1>1
<1>3. /\ a \in Seq(T) /\ Len(a) = n /\ \A i \in 1..n : a[i] = s[1 - 1 + i]
      /\ c \in Seq(T) /\ Len(c) = n /\ \A i \in 1..n : c[i] = t[1 - 1 + i]
  BY <1>1, <1>2, Piece
<1>4. \A i \in 1..n : 1 - 1 + i = i
  BY <1>1
<1> HIDE DEF a, c, n
<1>5. a = c
  BY <1>3, <1>4, SeqEqual DEF n
<1> QED BY <1>5 DEF IsPrefix, a, c, n

\* The wire has what lies between place p and the cut.
Between(s, p, cut) ==
    /\ wire \in Seq({s[i] : i \in DOMAIN s})
    /\ Len(wire) = cut - p
    /\ \A i \in 1..Len(wire) : wire[i] = s[p + i]

\* How much of the payload has been handed out where the reader stands in or before
\* chunk k, and at which place of the wire.
Handed(k) == IF left = 0 THEN Before(body, k - 1) ELSE Before(body, k) - left
Place(k) == IF left = 0 THEN Start(body, k) ELSE Start(body, k) + 1 + Size(body, k) - left

\* A reader without an error stands before or within a chunk.
Stands ==
    \E k \in 1..Len(body) + 1 : \E s \in Sendable(body) : \E cut \in 0..Total(body) :
        /\ left # 0 => k <= Len(body) /\ left \in 1..Size(body, k)
        /\ Len(got) = Handed(k)
        /\ Place(k) \in 0..cut
        /\ Between(s, Place(k), cut)

DecoderInv ==
    /\ body \in Bodies
    /\ ending \in {"EOF", "broken"}
    /\ err \in {"none", "EOF", "unexpected EOF", "broken", "malformed"}
    /\ left \in 0..Before(body, Len(body))
    /\ got \in Seq([byte : Nat])
    /\ Len(got) <= Before(body, Len(body))
    /\ \A i \in 1..Len(got) : got[i] = Byte(i)
    /\ err = "none" => Stands
    /\ CleanEndIsWhole

LEMMA BodyEnds ==
    ASSUME DecoderInv
    PROVE  body \in Bodies /\ Len(body) \in Nat /\ Before(body, Len(body)) \in Nat
<1>1. body \in Bodies /\ Len(body) \in Nat
  BY BodyFacts DEF DecoderInv
<1>2. Len(body) \in 0..Len(body)
  BY <1>1
<1> QED BY <1>1, <1>2, BodyFacts

\* Some of the wire has been read.
LEMMA Advance ==
    ASSUME NEW s, NEW p \in Nat, NEW cut \in Nat, Between(s, p, cut), NEW n \in 0..Len(wire),
           wire' \in Seq({s[i] : i \in DOMAIN s}), Len(wire') = Len(wire) - n,
           \A i \in 1..Len(wire') : wire'[i] = wire[n + i]
    PROVE  Between(s, p + n, cut)' /\ p + n \in 0..cut
<1>1. /\ Len(wire) \in Nat /\ Len(wire) = cut - p /\ n \in Nat /\ n <= Len(wire)
      /\ \A i \in 1..Len(wire) : wire[i] = s[p + i]
  BY DEF Between
<1>2. Len(wire') = cut - (p + n) /\ p + n \in 0..cut
  BY <1>1
<1>3. \A i \in 1..Len(wire') : wire'[i] = s[(p + n) + i]
  <2> SUFFICES ASSUME NEW i \in 1..Len(wire') PROVE wire'[i] = s[(p + n) + i]
    OBVIOUS
  <2>1. n + i \in 1..Len(wire) /\ p + (n + i) = (p + n) + i
    BY <1>1, <1>2
  <2>2. wire'[i] = wire[n + i] /\ wire[n + i] = s[p + (n + i)]
    BY <1>1, <2>1
  <2> QED BY <2>1, <2>2
<1> QED BY <1>2, <1>3 DEF Between

LEMMA DecoderInvHolds ==
    ASSUME DecoderInv
    PROVE  DecoderTypeOK /\ DecodedIsPrefix
<1>1. body \in Bodies /\ Before(body, Len(body)) \in Nat
  BY BodyEnds
<1>2. ASSUME left = 0, err = "none", wire # <<>>
      PROVE  IsHeader(Head(wire)) \/ "junk" \in DOMAIN Head(wire)
  <2>1. PICK k \in 1..Len(body) + 1, s \in Sendable(body), cut \in 0..Total(body) :
            Start(body, k) \in 0..cut /\ Between(s, Start(body, k), cut)
    BY <1>2 DEF DecoderInv, Stands, Place
  <2>2. wire \in Seq({s[i] : i \in DOMAIN s}) /\ Head(wire) = wire[1] /\ 1 \in 1..Len(wire)
    BY <1>2, <2>1 DEF Between
  <2>3. Head(wire) \in {Header(Size(body, k)), Junk}
    BY <1>1, <2>1, <2>2, SentFacts DEF Between
  <2> QED BY <2>3 DEF IsHeader, Header, Junk
<1>3. DecodedIsPrefix
  <2> DEFINE q == Payload(body)
           m == Before(body, Len(body))
  <2>1. q \in Seq([byte : Nat]) /\ Len(q) = m /\ \A i \in 1..m : q[i] = Byte(i)
    <3>1. m \in Nat /\ q = [i \in 1..m |-> Byte(i)] /\ \A i \in 1..m : Byte(i) \in [byte : Nat]
      BY <1>1 DEF Payload, Byte
    <3> HIDE DEF m, q
    <3> QED BY <3>1
  <2> HIDE DEF q
  <2>2. Len(got) \in Nat /\ Len(got) <= Len(q) /\ m \in Nat
    <3>1. got \in Seq([byte : Nat]) /\ Len(got) <= m /\ m \in Nat
      BY <1>1 DEF DecoderInv
    <3> HIDE DEF m
    <3> QED BY <2>1, <3>1
  <2>3. \A i \in 1..Len(got) : i \in 1..m
    BY <2>1, <2>2
  <2>4. IsPrefix(got, q)
    BY <2>1, <2>2, <2>3, PrefixOf DEF DecoderInv
  <2> QED BY <2>4 DEF DecodedIsPrefix, q
<1> QED BY <1>2, <1>3 DEF DecoderInv, DecoderTypeOK

LEMMA Within == ASSUME NEW m \in Nat, NEW x \in 0..m, NEW y \in {0, x} PROVE y \in 0..m
  OBVIOUS

\* A read that gives nothing but an error.
LEMMA ErrorKeeps ==
    ASSUME DecoderInv, body' = body, ending' = ending, got' = got, left' \in {0, left},
           err' \in {"EOF", "unexpected EOF", "broken", "malformed"}, CleanEndIsWhole'
    PROVE  DecoderInv'
<1>1. /\ body' \in Bodies /\ ending' \in {"EOF", "broken"}
      /\ got' \in Seq([byte : Nat]) /\ Len(got') <= Before(body', Len(body'))
      /\ \A i \in 1..Len(got') : got'[i] = Byte(i)
  BY DEF DecoderInv
<1>2. left' \in 0..Before(body', Len(body'))
  <2> DEFINE m == Before(body, Len(body))
  <2>1. m \in Nat /\ left \in 0..m
    BY BodyEnds DEF DecoderInv
  <2> HIDE DEF m
  <2>3. left' \in 0..m
    BY <2>1, Within
  <2> QED BY <2>3 DEF m
<1>3. err' # "none" /\ err' \in {"none", "EOF", "unexpected EOF", "broken", "malformed"}
  OBVIOUS
<1> QED BY <1>1, <1>2, <1>3, Zenon DEF DecoderInv

\* Where the reader stands, and what is next on the wire.
LEMMA AtHeader ==
    ASSUME DecoderInv, err = "none", left = 0
    PROVE  \E k \in 1..Len(body) + 1, s \in Sendable(body), cut \in 0..Total(body) :
              /\ Len(got) = Before(body, k - 1)
              /\ Len(got) \in Boundaries(body)
              /\ Start(body, k) \in 0..cut
              /\ Between(s, Start(body, k), cut)
              /\ wire # <<>> /\ IsHeader(Head(wire)) => Head(wire) = Header(Size(body, k))
<1>1. PICK k \in 1..Len(body) + 1, s \in Sendable(body), cut \in 0..Total(body) :
          /\ Len(got) = Before(body, k - 1)
          /\ Start(body, k) \in 0..cut
          /\ Between(s, Start(body, k), cut)
  BY DEF DecoderInv, Stands, Place, Handed
<1>2. body \in Bodies /\ Len(body) \in Nat
  BY BodyFacts DEF DecoderInv
<1>3. k - 1 \in 0..Len(body)
  BY <1>2
<1>4. ASSUME wire # <<>> PROVE Head(wire) \in {Header(Size(body, k)), Junk}
  <2>1. wire \in Seq({s[i] : i \in DOMAIN s}) /\ Head(wire) = wire[1] /\ 1 \in 1..Len(wire)
    BY <1>1, <1>4 DEF Between
  <2> QED BY <1>1, <1>2, <2>1, SentFacts DEF Between
<1>5. ~IsHeader(Junk)
  BY DEF IsHeader, Junk
<1>6. wire # <<>> /\ IsHeader(Head(wire)) => Head(wire) = Header(Size(body, k))
  BY <1>4, <1>5
<1> QED BY <1>1, <1>3, <1>6 DEF Boundaries

LEMMA ReadHeaderKeeps ==
    ASSUME DecoderInv, err = "none", ReadHeader, body' = body, ending' = ending
    PROVE  DecoderInv' /\ got' = got
<1>1. /\ left = 0 /\ got' = got /\ body \in Bodies /\ Len(body) \in Nat
      /\ ending \in {"EOF", "broken"}
  BY BodyFacts DEF ReadHeader, DecoderInv
<1>2. PICK k \in 1..Len(body) + 1, s \in Sendable(body), cut \in 0..Total(body) :
          /\ Len(got) = Before(body, k - 1)
          /\ Len(got) \in Boundaries(body)
          /\ Start(body, k) \in 0..cut
          /\ Between(s, Start(body, k), cut)
          /\ wire # <<>> /\ IsHeader(Head(wire)) => Head(wire) = Header(Size(body, k))
  BY <1>1, AtHeader
<1>3. CASE wire = <<>>
  <2>1. err' = ending /\ left' = left
    BY <1>3 DEF ReadHeader
  <2>2. CleanEndIsWhole'
    BY <1>1, <1>2, <2>1 DEF CleanEndIsWhole
  <2> QED BY <1>1, <2>1, <2>2, ErrorKeeps
<1>4. CASE wire # <<>> /\ ~IsHeader(Head(wire))
  <2>1. err' = "malformed" /\ left' = left
    BY <1>4 DEF ReadHeader
  <2> QED BY <1>1, <2>1, ErrorKeeps DEF CleanEndIsWhole
<1>5. CASE wire # <<>> /\ IsHeader(Head(wire))
  <2>1. /\ wire' = Tail(wire) /\ left' = Size(body, k)
        /\ err' = IF Size(body, k) = 0 THEN "EOF" ELSE "none"
    BY <1>2, <1>5 DEF ReadHeader, Header
  <2>2. CASE k = Len(body) + 1
    <3>1. Size(body, k) = 0 /\ k - 1 = Len(body)
      BY <1>1, <2>2, BodyFacts
    <3>2. Len(got) = Before(body, Len(body))
      BY <1>2, <3>1
    <3>3. CleanEndIsWhole'
      BY <1>1, <1>2, <3>2 DEF CleanEndIsWhole
    <3> QED BY <1>1, <2>1, <3>1, <3>3, ErrorKeeps
  <2>3. CASE k \in 1..Len(body)
    <3>1. /\ Size(body, k) \in Nat \ {0}
          /\ Before(body, k) = Before(body, k - 1) + Size(body, k)
          /\ Before(body, k) \in Nat /\ Before(body, k - 1) \in Nat
          /\ Before(body, k) <= Before(body, Len(body)) /\ Before(body, Len(body)) \in Nat
      <4>1. k \in 0..Len(body) /\ k - 1 \in 0..Len(body) /\ Len(body) \in 0..Len(body) /\ k <= Len(body)
        BY <1>1, <2>3
      <4> QED BY <1>1, <2>3, <4>1, BodyFacts
    <3>2. err' = "none" /\ left' \in 0..Before(body, Len(body)) /\ left' # 0
      BY <2>1, <3>1
    <3>3. Between(s, Start(body, k) + 1, cut)' /\ Start(body, k) + 1 \in 0..cut
      <4>1. Between(s, Start(body, k), cut) /\ Start(body, k) \in Nat /\ cut \in Nat
        BY <1>2, SentFacts
      <4>2. wire \in Seq({s[i] : i \in DOMAIN s}) /\ wire # <<>> /\ 1 \in 0..Len(wire)
        BY <1>5, <4>1 DEF Between
      <4>3. /\ Tail(wire) \in Seq({s[i] : i \in DOMAIN s}) /\ Len(Tail(wire)) = Len(wire) - 1
            /\ \A i \in 1..Len(wire) - 1 : Tail(wire)[i] = wire[i + 1]
        BY <4>2, HeadTailProperties
      <4>4. \A i \in 1..Len(wire') : wire'[i] = wire[1 + i]
        BY <2>1, <4>2, <4>3
      <4> QED BY <2>1, <4>1, <4>2, <4>3, <4>4, Advance
    <3>4. Stands'
      <4>1. Handed(k)' = Len(got)' /\ Place(k)' = Start(body, k) + 1
        <5> DEFINE z == Size(body, k)
                   e == Before(body, k - 1)
                   f == Start(body, k)
        <5>1. z \in Nat /\ e \in Nat /\ f \in Nat /\ left' = z /\ left' # 0
          <6>1. z \in Nat /\ e \in Nat /\ left' = z /\ left' # 0
            BY <2>1, <3>1, <3>2
          <6>2. f \in Nat
            BY <1>1, <1>2, PlaceFacts
          <6> QED BY <6>1, <6>2
        <5>2. Handed(k)' = e + z - z /\ Place(k)' = f + 1 + z - z /\ Len(got)' = e
          BY <1>1, <1>2, <2>1, <3>1, <3>2 DEF Handed, Place
        <5> HIDE DEF z, e, f
        <5>3. Handed(k)' = Len(got)' /\ Place(k)' = f + 1
          BY <5>1, <5>2
        <5> QED BY <5>3 DEF f
      <4>2. k <= Len(body) /\ left' \in 1..Size(body, k)
        BY <1>1, <2>1, <2>3, <3>1
      <4> QED BY <1>1, <3>3, <4>1, <4>2 DEF Stands
    <3> QED BY <1>1, <3>2, <3>4 DEF DecoderInv, CleanEndIsWhole
  <2> QED BY <1>1, <2>2, <2>3
<1> QED BY <1>1, <1>3, <1>4, <1>5

\* A read within a chunk.
LEMMA ReadDataKeeps ==
    ASSUME DecoderInv, err = "none", ReadData, body' = body, ending' = ending
    PROVE  DecoderInv' /\ Len(got') - Len(got) \in 0..MaxRead
<1>1. /\ left > 0 /\ body \in Bodies /\ Len(body) \in Nat /\ ending \in {"EOF", "broken"}
      /\ MaxRead \in Nat \ {0} /\ left \in Nat \ {0} /\ Len(got) \in Nat
      /\ got \in Seq([byte : Nat]) /\ \A i \in 1..Len(got) : got[i] = Byte(i)
  BY BodyEnds, ChunkedAssumption DEF ReadData, DecoderInv
<1>2. PICK k \in 1..Len(body), s \in Sendable(body), cut \in 0..Total(body) :
          /\ left \in 1..Size(body, k)
          /\ Len(got) = Before(body, k) - left
          /\ Start(body, k) + 1 + Size(body, k) - left \in 0..cut
          /\ Between(s, Start(body, k) + 1 + Size(body, k) - left, cut)
  <2>1. PICK k \in 1..Len(body) + 1 : \E s \in Sendable(body) : \E cut \in 0..Total(body) :
            /\ left # 0 => k <= Len(body) /\ left \in 1..Size(body, k)
            /\ Len(got) = Handed(k)
            /\ Place(k) \in 0..cut
            /\ Between(s, Place(k), cut)
    BY DEF DecoderInv, Stands
  <2>2. k \in 1..Len(body) /\ left # 0
    BY <1>1, <2>1
  <2> QED BY <2>1, <2>2 DEF Place, Handed
<1> DEFINE z == Size(body, k)
           f == Start(body, k)
           e == Before(body, k - 1)
           m == Before(body, Len(body))
<1>3. /\ z \in Nat \ {0} /\ e \in Nat /\ Before(body, k) = e + z
      /\ e + z <= m /\ m \in Nat
      /\ f \in Nat /\ Start(body, k + 1) = f + z + 3 /\ k + 1 \in 1..Len(body) + 1
      /\ k \in 0..Len(body) /\ (k + 1) - 1 = k
  <2>1. /\ k \in 0..Len(body) /\ k - 1 \in 0..Len(body) /\ Len(body) \in 0..Len(body)
        /\ k <= Len(body) /\ k \in 1..Len(body) + 1 /\ k + 1 \in 1..Len(body) + 1 /\ (k + 1) - 1 = k
    BY <1>1, <1>2
  <2>2. z \in Nat \ {0} /\ Before(body, k) = e + z /\ e \in Nat
    BY <1>1, <1>2, <2>1, BodyFacts
  <2>3. Before(body, k) <= m /\ m \in Nat
    BY <1>1, <2>1, BodyFacts
  <2>4. f \in Nat /\ Start(body, k + 1) = f + z + 3
    BY <1>1, <1>2, <2>1, PlaceFacts
  <2> QED BY <2>1, <2>2, <2>3, <2>4
<1>4. /\ left \in 1..z /\ Len(got) = e + z - left /\ cut \in Nat
      /\ f + 1 + z - left \in 0..cut /\ Between(s, f + 1 + z - left, cut)
  BY <1>1, <1>2, <1>3, SentFacts
<1> HIDE DEF z, f, e, m
<1>7. PICK p \in 0..cut : p = f + 1 + z - left /\ Between(s, p, cut)
  BY <1>4
<1>5. CASE wire = <<>>
  <2>1. err' = EndWithinChunk /\ left' = left /\ got' = got
    BY <1>5 DEF ReadData
  <2>2. err' \in {"unexpected EOF", "broken"}
    BY <1>1, <2>1 DEF EndWithinChunk
  <2>3. CleanEndIsWhole'
    BY <2>2 DEF CleanEndIsWhole
  <2>4. DecoderInv'
    BY <1>1, <2>1, <2>2, <2>3, ErrorKeeps
  <2> QED BY <1>1, <2>1, <2>4
<1>6. CASE wire # <<>>
  <2> DEFINE rest(n) == SubSeq(wire, n + 1, Len(wire))
  <2>0. PICK size \in 1..MaxRead : \E n \in 1..Most(size) :
            /\ n <= Len(wire)
            /\ got' = got \o SubSeq(wire, 1, n)
            /\ left' = left - n
            /\ left' = 0 => wire' = DiscardLineEnd(rest(n)).wire /\ err' = DiscardLineEnd(rest(n)).err
            /\ left' # 0 => wire' = rest(n) /\ err' = "none"
    BY <1>6 DEF ReadData
  <2>1. PICK n \in 1..Most(size) :
            /\ n <= Len(wire)
            /\ got' = got \o SubSeq(wire, 1, n)
            /\ left' = left - n
            /\ left' = 0 => wire' = DiscardLineEnd(rest(n)).wire /\ err' = DiscardLineEnd(rest(n)).err
            /\ left' # 0 => wire' = rest(n) /\ err' = "none"
    BY <2>0
  <2>2. n \in 1..MaxRead /\ n \in 1..left
    BY <1>1, <2>1 DEF Most
  <2>3. /\ wire \in Seq({s[i] : i \in DOMAIN s}) /\ Len(wire) \in Nat
        /\ \A i \in 1..Len(wire) : wire[i] = s[p + i]
    BY <1>7 DEF Between
  <2>4. ASSUME NEW i \in 1..n PROVE wire[i] = Byte(Len(got) + i) /\ wire[i] \in [byte : Nat]
    <3> DEFINE j == z - left + i
    <3>1. j \in 1..z /\ e + j = Len(got) + i /\ i \in 1..Len(wire)
      BY <1>1, <1>3, <1>4, <2>1, <2>2, <2>3
    <3>2. f + 1 + j = p + i
      BY <1>1, <1>3, <1>7, <2>2
    <3>3. k \in 1..Len(body) + 1
      BY <1>1
    <3>4. s[f + 1 + j] = Byte(e + j)
      BY <1>1, <3>1, <3>3, SentFacts DEF z, f, e
    <3>5. wire[i] = Byte(Len(got) + i)
      BY <2>3, <3>1, <3>2, <3>4
    <3> QED BY <1>1, <2>2, <3>5 DEF Byte
  <2> DEFINE piece == SubSeq(wire, 1, n)
  <2>5. /\ piece \in Seq([byte : Nat]) /\ Len(piece) = n
        /\ \A i \in 1..n : piece[i] = wire[i]
    <3>1. 1 \in Int /\ n \in Int /\ 1 <= n /\ n - 1 + 1 = n /\ \A i \in 1..n : 1 + i - 1 = i
      BY <2>2
    <3> QED BY <2>4, <3>1, SubSeqProperties
  <2> HIDE DEF piece
  <2>6. /\ got' \in Seq([byte : Nat]) /\ Len(got') = Len(got) + n
        /\ \A i \in 1..Len(got') : got'[i] = Byte(i)
    <3>1. got' = got \o piece
      BY <2>1 DEF piece
    <3>2. /\ got' \in Seq([byte : Nat]) /\ Len(got') = Len(got) + n
          /\ \A i \in 1..Len(got') : got'[i] = IF i <= Len(got) THEN got[i] ELSE piece[i - Len(got)]
      <4>1. /\ got \o piece \in Seq([byte : Nat]) /\ Len(got \o piece) = Len(got) + n
            /\ \A i \in 1..Len(got) + n :
                  (got \o piece)[i] = IF i <= Len(got) THEN got[i] ELSE piece[i - Len(got)]
        BY <1>1, <2>5, ConcatProperties
      <4> QED BY <3>1, <4>1
    <3>3. ASSUME NEW i \in 1..Len(got') PROVE got'[i] = Byte(i)
      <4>1. CASE i <= Len(got)
        <5>1. i \in 1..Len(got)
          BY <1>1, <2>2, <3>2, <4>1
        <5> QED BY <1>1, <3>2, <4>1, <5>1
      <4>2. CASE i > Len(got)
        <5>1. i - Len(got) \in 1..n /\ Len(got) + (i - Len(got)) = i /\ ~(i <= Len(got))
          BY <1>1, <2>2, <3>2, <4>2
        <5> QED BY <2>4, <2>5, <3>2, <5>1
      <4> QED BY <1>1, <2>2, <3>2, <4>1, <4>2
    <3> QED BY <3>2, <3>3
  <2>7. Len(got') - Len(got) \in 0..MaxRead
    BY <1>1, <2>2, <2>6
  <2>8. /\ left' \in 0..m /\ left' \in 0..z /\ Len(got') = e + z - left' /\ Len(got') <= m
    BY <1>1, <1>3, <1>4, <2>1, <2>2, <2>6
  <2>9. (err' = "none" => Stands') /\ CleanEndIsWhole' /\ err' \in {"none", "EOF", "broken"}
    <3> DEFINE r == rest(n)
               c == Len(wire)
               a == n + 1
    <3>0. r = SubSeq(wire, a, c)
      OBVIOUS
    <3> HIDE DEF r, rest
    <3>1. /\ r \in Seq({s[i] : i \in DOMAIN s}) /\ Len(r) = Len(wire) - n
          /\ \A i \in 1..Len(r) : r[i] = wire[n + i]
      <4>1. a \in 1..Len(wire) + 1 /\ c \in a - 1..Len(wire) /\ c - a + 1 = Len(wire) - n /\ a - 1 = n
        BY <1>1, <2>1, <2>2, <2>3
      <4> HIDE DEF a, c
      <4>2. /\ SubSeq(wire, a, c) \in Seq({s[i] : i \in DOMAIN s}) /\ Len(SubSeq(wire, a, c)) = c - a + 1
            /\ \A i \in 1..c - a + 1 : SubSeq(wire, a, c)[i] = wire[a - 1 + i]
        BY <2>3, <4>1, Piece
      <4> QED BY <3>0, <4>1, <4>2
    <3>2. CASE left' # 0
      <4>1. wire' = r /\ err' = "none" /\ n \in 0..Len(wire)
        BY <1>1, <2>1, <2>2, <2>3, <3>2 DEF r
      <4>2. Between(s, p + n, cut)' /\ p + n \in 0..cut
        <5>1. p \in Nat /\ cut \in Nat /\ Between(s, p, cut) /\ n \in 0..Len(wire)
          BY <1>4, <1>7, <4>1
        <5>2. /\ wire' \in Seq({s[i] : i \in DOMAIN s}) /\ Len(wire') = Len(wire) - n
              /\ \A i \in 1..Len(wire') : wire'[i] = wire[n + i]
          BY <3>1, <4>1
        <5> QED BY <5>1, <5>2, Advance
      <4>3. Place(k)' = p + n /\ Handed(k)' = Len(got') /\ left' \in 1..z
        <5>1. Place(k)' = f + 1 + z - left' /\ Handed(k)' = e + z - left'
          <6>1. Place(k)' = f + 1 + z - left'
            BY <3>2 DEF Place, f, z
          <6>2. Handed(k)' = Before(body, k) - left'
            BY <3>2 DEF Handed
          <6>3. /\ Before(body, k) = e + z /\ e \in Nat /\ z \in Nat /\ f \in Nat
                /\ left' \in Nat
            BY <1>3, <2>8
          <6> QED BY <6>1, <6>2, <6>3
        <5> QED BY <1>1, <1>3, <1>4, <1>7, <2>1, <2>2, <2>8, <3>2, <5>1
      <4>4. k \in 1..Len(body) + 1 /\ k <= Len(body) /\ left' \in 1..Size(body, k)
        BY <1>1, <4>3 DEF z
      <4>5. Stands'
        BY <1>1, <4>2, <4>3, <4>4 DEF Stands
      <4> QED BY <4>1, <4>5 DEF CleanEndIsWhole
    <3>3. CASE left' = 0 /\ Len(r) >= 2
      <4>1. wire' = SubSeq(r, 3, Len(r)) /\ err' = "none" /\ n + 2 \in 0..Len(wire)
        <5>1. DiscardLineEnd(r) = [wire |-> SubSeq(r, 3, Len(r)), err |-> "none"]
          BY <3>3 DEF DiscardLineEnd
        <5>2. wire' = DiscardLineEnd(r).wire /\ err' = DiscardLineEnd(r).err
          BY <2>1, <3>3 DEF r
        <5>3. n + 2 \in 0..Len(wire)
          BY <2>2, <2>3, <3>1, <3>3
        <5> QED BY <5>1, <5>2, <5>3
      <4>2. Between(s, p + (n + 2), cut)' /\ p + (n + 2) \in 0..cut
        <5>1. p \in Nat /\ n \in Nat /\ Len(r) \in Nat
          BY <1>7, <2>2, <3>1
        <5>2. 3 \in 1..Len(r) + 1 /\ Len(r) \in 3 - 1..Len(r) /\ 3 - 1 = 2
          BY <3>3, <5>1
        <5>3. /\ wire' \in Seq({s[i] : i \in DOMAIN s}) /\ Len(wire') = Len(r) - 3 + 1
              /\ \A i \in 1..Len(r) - 3 + 1 : wire'[i] = r[3 - 1 + i]
          <6>1. /\ SubSeq(r, 3, Len(r)) \in Seq({s[i] : i \in DOMAIN s})
                /\ Len(SubSeq(r, 3, Len(r))) = Len(r) - 3 + 1
                /\ \A i \in 1..Len(r) - 3 + 1 : SubSeq(r, 3, Len(r))[i] = r[3 - 1 + i]
            BY <3>1, <5>2, Piece
          <6> QED BY <4>1, <6>1
        <5>4. Len(wire') = Len(wire) - (n + 2)
          BY <2>3, <3>1, <5>1, <5>3
        <5>5. \A i \in 1..Len(wire') : wire'[i] = wire[(n + 2) + i]
          <6> SUFFICES ASSUME NEW i \in 1..Len(wire') PROVE wire'[i] = wire[(n + 2) + i]
            OBVIOUS
          <6>1. /\ i \in 1..Len(r) - 3 + 1 /\ 2 + i \in 1..Len(r) /\ n + (2 + i) = (n + 2) + i
                /\ 3 - 1 + i = 2 + i
            BY <5>1, <5>3
          <6> QED BY <3>1, <5>3, <6>1
        <5>6. p \in Nat /\ cut \in Nat /\ Between(s, p, cut)
          BY <1>4, <1>7
        <5>7. PICK w \in 0..Len(wire) : w = n + 2
          BY <4>1
        <5>8. /\ wire' \in Seq({s[i] : i \in DOMAIN s}) /\ Len(wire') = Len(wire) - w
              /\ \A i \in 1..Len(wire') : wire'[i] = wire[w + i]
          BY <5>3, <5>4, <5>5, <5>7
        <5>9. Between(s, p + w, cut)' /\ p + w \in 0..cut
          BY <5>6, <5>8, Advance
        <5> QED BY <5>7, <5>9
      <4>3. Place(k + 1)' = p + (n + 2) /\ Handed(k + 1)' = Len(got')
        <5>1. Place(k + 1)' = Start(body, k + 1) /\ Handed(k + 1)' = Before(body, k)
          <6>1. (k + 1) - 1 = k
            BY <1>3
          <6> QED BY <3>3, <6>1 DEF Place, Handed
        <5>2. left = n
          BY <1>1, <2>1, <2>2, <3>3
        <5>3. f + z + 3 = p + (n + 2) /\ e + z = Len(got')
          BY <1>3, <1>7, <2>2, <2>8, <3>3, <5>2
        <5>4. Start(body, k + 1) = f + z + 3 /\ Before(body, k) = e + z
          BY <1>3
        <5> QED BY <5>1, <5>3, <5>4
      <4>4. Stands'
        BY <1>1, <1>3, <3>3, <4>2, <4>3 DEF Stands
      <4> QED BY <4>1, <4>4 DEF CleanEndIsWhole
    <3>4. CASE left' = 0 /\ ~(Len(r) >= 2)
      <4>1. err' = ending
        <5>1. DiscardLineEnd(r) = [wire |-> <<>>, err |-> ending]
          BY <3>4 DEF DiscardLineEnd
        <5>2. err' = DiscardLineEnd(r).err
          BY <2>1, <3>4 DEF r
        <5> QED BY <5>1, <5>2
      <4>2. Len(got') \in Boundaries(body)
        BY <1>3, <2>8, <3>4 DEF Boundaries
      <4> QED BY <1>1, <4>1, <4>2 DEF CleanEndIsWhole
    <3> QED BY <3>2, <3>3, <3>4
  <2>10. DecoderInv'
    BY <1>1, <2>6, <2>8, <2>9, Zenon DEF DecoderInv, m
  <2> QED BY <2>7, <2>10
<1> QED BY <1>5, <1>6

\* Nothing has been read.
LEMMA DecoderStarts ==
    ASSUME DecoderInit
    PROVE  DecoderInv
<1>1. /\ body \in Bodies /\ left = 0 /\ err = "none" /\ got = <<>>
      /\ ending \in {"EOF", "broken"}
  BY DEF DecoderInit
<1>2. PICK cut \in 0..Len(Encoded(body)), s \in Sendable(body) : wire = SubSeq(s, 1, cut)
  BY DEF DecoderInit, Sendable
<1>3. /\ Len(body) \in Nat /\ Before(body, Len(body)) \in Nat /\ Before(body, 0) = 0
      /\ Start(body, 1) = 0 /\ Total(body) \in Nat
  <2>1. Len(body) \in Nat
    BY <1>1, BodyFacts
  <2>2. Len(body) \in 0..Len(body) /\ 1 - 1 = 0
    BY <2>1
  <2> QED BY <1>1, <2>1, <2>2, BodyFacts, EncodedFacts DEF Before, Start
<1>4. Len(Encoded(body)) = Total(body) /\ cut \in 0..Total(body)
  <2>1. DOMAIN Encoded(body) = 1..Total(body)
    BY <1>1, EncodedFacts
  <2>2. Encoded(body) = [i \in 1..Total(body) |-> Encoded(body)[i]]
    BY <2>1 DEF Encoded
  <2>3. Len(Encoded(body)) = Total(body)
    BY <1>3, <2>2
  <2> QED BY <1>2, <2>3
<1>5. Between(s, 0, cut)
  <2> DEFINE T == {s[i] : i \in DOMAIN s}
  <2>1. 1 \in Int /\ cut \in Int /\ \A i \in 1..cut : s[i] \in T
    BY <1>1, <1>3, <1>4, SentFacts
  <2> HIDE DEF T
  <2>2. /\ SubSeq(s, 1, cut) \in Seq(T)
        /\ Len(SubSeq(s, 1, cut)) = IF 1 <= cut THEN cut - 1 + 1 ELSE 0
        /\ \A i \in 1..cut - 1 + 1 : SubSeq(s, 1, cut)[i] = s[1 + i - 1]
    BY <2>1, SubSeqProperties
  <2>3. cut - 1 + 1 = cut /\ cut - 0 = cut /\ (~(1 <= cut) => cut = 0) /\ \A i \in 1..cut : 1 + i - 1 = 0 + i
    BY <1>4
  <2>4. wire \in Seq(T) /\ Len(wire) = cut - 0 /\ \A i \in 1..cut - 0 : wire[i] = s[0 + i]
    BY <1>2, <2>2, <2>3
  <2> QED BY <2>4 DEF Between, T
<1>6. Stands
  <2>1. Place(1) = 0 /\ Handed(1) = 0 /\ Len(got) = 0 /\ 1 \in 1..Len(body) + 1
    BY <1>1, <1>3 DEF Place, Handed
  <2>2. 0 \in 0..cut
    BY <1>4
  <2> QED BY <1>1, <1>4, <1>5, <2>1, <2>2 DEF Stands
<1>7. /\ got \in Seq([byte : Nat]) /\ Len(got) = 0 /\ Len(got) <= Before(body, Len(body))
      /\ left \in 0..Before(body, Len(body))
  BY <1>1, <1>3
<1> QED BY <1>1, <1>6, <1>7 DEF DecoderInv, CleanEndIsWhole

LEMMA ReadKeeps ==
    ASSUME DecoderInv, Read
    PROVE  DecoderInv' /\ Len(got') - Len(got) \in 0..MaxRead
<1>1. err = "none" /\ body' = body /\ ending' = ending
  BY DEF Read
<1>2. CASE ReadHeader
  <2>1. DecoderInv' /\ got' = got
    BY <1>1, <1>2, ReadHeaderKeeps
  <2>2. Len(got) \in Nat /\ MaxRead \in Nat
    <3>1. got \in Seq([byte : Nat])
      BY DEF DecoderInv
    <3> QED BY <3>1, ChunkedAssumption
  <2> QED BY <2>1, <2>2
<1>3. CASE ReadData
  BY <1>1, <1>3, ReadDataKeeps
<1> QED BY <1>2, <1>3 DEF Read

-----------------------------------------------------------------------------
(* The cap on uploads.                                                     *)

\* A stream that does not take wants nothing.
BucketInv ==
    /\ BucketTypeOK
    /\ \A t \in Takers : taker[t].at = "idle" <=> taker[t].n = 0

TakerType == [at : {"idle", "try", "sleep"}, n : Chunks \cup {0}, wait : Nat]

LEMMA TakerTyped ==
    ASSUME BucketInv
    PROVE  /\ taker \in [Takers -> TakerType]
           /\ \A t \in Takers : /\ taker[t] \in TakerType /\ taker[t].n \in Nat
                                /\ taker[t].at = "idle" <=> taker[t].n = 0
<1>1. taker \in [Takers -> TakerType]
  BY DEF BucketInv, BucketTypeOK, TakerType
<1>2. \A t \in Takers : taker[t] \in TakerType
  BY <1>1
<1>3. \A t \in Takers : taker[t].n \in Nat
  <2>1. Chunks \cup {0} \subseteq Nat
    BY BucketAssumption
  <2>2. \A x \in TakerType : x.n \in Chunks \cup {0}
    BY DEF TakerType
  <2> QED BY <1>2, <2>1, <2>2
<1> QED BY <1>1, <1>2, <1>3 DEF BucketInv

\* The bucket as it is when somebody looks.
LEMMA LevelFacts ==
    ASSUME BucketInv, fillRate # Off
    PROVE  /\ fillRate \in Nat \ {0} /\ Capacity \in Nat /\ fillRate * age \in Nat
           /\ tokens \in Nat /\ tokens <= Capacity
           /\ Refilled \in Nat /\ Refilled <= Capacity /\ Refilled <= tokens + fillRate * age
           /\ Refilled \in {Capacity, tokens + fillRate * age}
<1>1. /\ fillRate \in Nat \ {0} /\ Second \in Nat /\ age \in Nat
      /\ tokens \in Nat /\ tokens <= Capacity
  BY BucketAssumption DEF BucketInv, BucketTypeOK
<1>2. Capacity \in Nat /\ fillRate * age \in Nat
  BY <1>1 DEF Capacity
<1> DEFINE c == Capacity
           g == fillRate * age
<1>3. c \in Nat /\ g \in Nat /\ Refilled = Least(c, tokens + g)
  BY <1>2 DEF Refilled
<1> HIDE DEF c, g
<1>4. Refilled \in Nat /\ Refilled <= c /\ Refilled <= tokens + g /\ Refilled \in {c, tokens + g}
  BY <1>1, <1>3 DEF Least
<1> QED BY <1>1, <1>2, <1>4 DEF c, g

\* A bucket that nobody has to refill is at its level.
LEMMA LevelNow ==
    ASSUME NEW c \in Nat, NEW n \in Nat, NEW f \in Nat, n <= c
    PROVE  Least(c, n + f * 0) = n
  BY DEF Least

\* A stream moves.
LEMMA TakerMoves ==
    ASSUME BucketInv, NEW t \in Takers, NEW x \in TakerType, x.at = "idle" <=> x.n = 0,
           taker' = [taker EXCEPT ![t] = x]
    PROVE  /\ taker' \in [Takers -> TakerType]
           /\ \A s \in Takers : taker'[s].at = "idle" <=> taker'[s].n = 0
           /\ [s \in Takers |-> taker'[s].n] = [[s \in Takers |-> taker[s].n] EXCEPT ![t] = x.n]
  BY TakerTyped

Level == IF fillRate = Off THEN 0 ELSE Refilled
Want == [t \in Takers |-> taker[t].n]

LEMMA StartTakeMeters ==
    ASSUME BucketInv, NEW t \in Takers, NEW n \in Chunks \cup {0}, StartTake(t, n)
    PROVE  BucketInv' /\ [Meter!Next]_<<Level, fillRate, beat, Want>>
<1> DEFINE x == [at |-> "try", n |-> n, wait |-> 0]
<1>1. taker[t].at = "idle" /\ UNCHANGED <<fillRate, tokens, age, beat>>
  BY DEF StartTake, bucketVars
<1>2. Level' = Level
  BY <1>1 DEF Level, Refilled, Capacity
<1>3. CASE n = 0
  <2>1. taker' = taker
    BY <1>3, TakerTyped DEF StartTake
  <2>2. BucketInv'
    BY <1>1, <2>1 DEF BucketInv, BucketTypeOK, Capacity
  <2> QED BY <1>1, <1>2, <2>1, <2>2 DEF Want
<1>4. CASE n # 0
  <2>1. taker' = [taker EXCEPT ![t] = x]
    BY <1>4 DEF StartTake
  <2>2. x \in TakerType /\ x.n = n /\ (x.at = "idle" <=> x.n = 0)
    BY <1>4 DEF TakerType
  <2> HIDE DEF x
  <2>3. /\ taker' \in [Takers -> TakerType]
        /\ \A s \in Takers : taker'[s].at = "idle" <=> taker'[s].n = 0
        /\ Want' = [Want EXCEPT ![t] = n]
    BY <2>1, <2>2, TakerMoves DEF Want
  <2>4. BucketInv'
    BY <1>1, <2>3 DEF BucketInv, BucketTypeOK, Capacity, TakerType
  <2>5. Want[t] = 0
    BY <1>1, TakerTyped DEF Want
  <2>6. Meter!Ask(t)
    BY <1>1, <1>2, <1>4, <2>3, <2>5 DEF Meter!Ask, Want, Level
  <2> QED BY <2>4, <2>6 DEF Meter!Next
<1> QED BY <1>3, <1>4

LEMMA TakeNowMeters ==
    ASSUME BucketInv, NEW t \in Takers, TakeNow(t)
    PROVE  BucketInv' /\ [Meter!Next]_<<Level, fillRate, beat, Want>>
<1> DEFINE n == taker[t].n
<1>1. /\ taker[t].at = "try" /\ n \in Nat /\ n # 0 /\ Enough(t) /\ Consume(n)
      /\ taker' = [taker EXCEPT ![t] = Idle] /\ beat' = beat /\ fillRate' = fillRate
  BY TakerTyped DEF TakeNow, Consume, bucketVars
<1>2. /\ taker' \in [Takers -> TakerType]
      /\ \A s \in Takers : taker'[s].at = "idle" <=> taker'[s].n = 0
      /\ Want' = [Want EXCEPT ![t] = 0]
  <2>1. Idle \in TakerType /\ Idle.at = "idle" /\ Idle.n = 0
    BY DEF Idle, TakerType
  <2> QED BY <1>1, <2>1, TakerMoves DEF Want
<1>3. CASE fillRate = Off
  <2>1. tokens' = tokens /\ age' = age
    BY <1>1, <1>3 DEF Consume, bucketVars
  <2>2. BucketInv'
    BY <1>1, <1>2, <1>3, <2>1 DEF BucketInv, BucketTypeOK, TakerType
  <2>3. Meter!Take(t)
    BY <1>1, <1>2, <1>3 DEF Meter!Take, Level, Want
  <2> QED BY <2>2, <2>3 DEF Meter!Next
<1>4. CASE fillRate # Off
  <2>1. tokens' = Refilled - n /\ age' = 0 /\ n <= Refilled
    <3>1. Refilled >= n
      BY <1>1, <1>4 DEF Enough
    <3> QED BY <1>1, <1>4, <3>1, LevelFacts DEF Consume
  <2>2. /\ Refilled \in Nat /\ Capacity \in Nat /\ Refilled <= Capacity /\ fillRate \in Nat
        /\ Capacity' = Capacity
    BY <1>1, <1>4, LevelFacts DEF Capacity
  <2>3. Refilled - n \in Nat /\ Refilled - n <= Capacity
    BY <1>1, <2>1, <2>2
  <2>4. Refilled' = Refilled - n
    BY <1>1, <2>1, <2>2, <2>3, LevelNow DEF Refilled
  <2>5. 0 \in 0..Second
    BY BucketAssumption
  <2>6. BucketInv'
    BY <1>1, <1>2, <1>4, <2>1, <2>2, <2>3, <2>5 DEF BucketInv, BucketTypeOK, TakerType
  <2>7. Meter!Take(t)
    BY <1>1, <1>2, <1>4, <2>1, <2>4 DEF Meter!Take, Level, Want
  <2> QED BY <2>6, <2>7 DEF Meter!Next
<1> QED BY <1>3, <1>4

LEMMA SleepOnMeters ==
    ASSUME BucketInv, NEW t \in Takers, SleepOn(t)
    PROVE  BucketInv' /\ UNCHANGED <<Level, fillRate, beat, Want>>
<1> DEFINE n == taker[t].n
           x == [taker[t] EXCEPT !.at = "sleep", !.wait = SleepFor(t)]
<1>1. /\ taker[t] \in TakerType /\ taker[t].at = "try" /\ n \in Nat /\ n # 0 /\ ~Enough(t)
      /\ tokens' = Refilled /\ age' = 0 /\ beat' = beat /\ fillRate' = fillRate
  BY TakerTyped DEF SleepOn
<1>2. /\ fillRate # Off /\ fillRate \in Nat \ {0} /\ Refilled \in Nat /\ Capacity \in Nat
      /\ Refilled <= Capacity /\ Capacity' = Capacity
  BY <1>1, LevelFacts DEF Enough, Capacity
<1>3. SleepFor(t) \in Nat
  <2>1. n > Refilled
    BY <1>1, <1>2 DEF Enough
  <2> DEFINE d == n - Refilled + fillRate - 1
  <2>2. d \in Nat
    BY <1>1, <1>2, <2>1
  <2>3. SleepFor(t) = d \div fillRate
    BY DEF SleepFor
  <2> HIDE DEF d
  <2> QED BY <1>2, <2>2, <2>3
<1>4. taker' = [taker EXCEPT ![t] = x]
  BY TakerTyped DEF SleepOn
<1>5. x \in TakerType /\ x.at = "sleep" /\ x.n = n
  <2> DEFINE w == SleepFor(t)
  <2>1. w \in Nat
    BY <1>3
  <2> HIDE DEF w
  <2>2. [taker[t] EXCEPT !.at = "sleep", !.wait = w] \in TakerType
    BY <1>1, <2>1 DEF TakerType
  <2>3. [taker[t] EXCEPT !.at = "sleep", !.wait = w].at = "sleep"
        /\ [taker[t] EXCEPT !.at = "sleep", !.wait = w].n = n
    BY <1>1 DEF TakerType
  <2> QED BY <2>2, <2>3 DEF w
<1> HIDE DEF x
<1>6. /\ taker' \in [Takers -> TakerType]
      /\ \A s \in Takers : taker'[s].at = "idle" <=> taker'[s].n = 0
      /\ Want' = Want
  BY <1>1, <1>4, <1>5, TakerTyped, TakerMoves DEF Want
<1>7. Refilled' = Refilled
  BY <1>1, <1>2, LevelNow DEF Refilled
<1>8. 0 \in 0..Second
  BY BucketAssumption
<1>9. BucketInv'
  BY <1>1, <1>2, <1>6, <1>8 DEF BucketInv, BucketTypeOK, TakerType
<1> QED BY <1>1, <1>2, <1>6, <1>7, <1>9 DEF Level

LEMMA WakeMeters ==
    ASSUME BucketInv, NEW t \in Takers, Wake(t)
    PROVE  BucketInv' /\ UNCHANGED <<Level, fillRate, beat, Want>>
<1> DEFINE x == [taker[t] EXCEPT !.at = "try"]
<1>1. /\ taker[t] \in TakerType /\ taker[t].at = "sleep" /\ taker[t].n # 0
      /\ UNCHANGED <<fillRate, tokens, age, beat>> /\ taker' = [taker EXCEPT ![t] = x]
  BY TakerTyped DEF Wake, bucketVars
<1>2. x \in TakerType /\ x.at = "try" /\ x.n = taker[t].n
  BY <1>1 DEF TakerType
<1> HIDE DEF x
<1>3. /\ taker' \in [Takers -> TakerType]
      /\ \A s \in Takers : taker'[s].at = "idle" <=> taker'[s].n = 0
      /\ Want' = Want
  BY <1>1, <1>2, TakerTyped, TakerMoves DEF Want
<1>4. BucketInv'
  BY <1>1, <1>3 DEF BucketInv, BucketTypeOK, TakerType, Capacity
<1> QED BY <1>1, <1>3, <1>4 DEF Level, Refilled, Capacity

\* A second fills the bucket, so that older ticks need not be counted.
LEMMA TickLevel ==
    ASSUME NEW f \in Nat, NEW n \in Nat, NEW a \in 0..Second, Second \in Nat
    PROVE  Least(f * Second, n + f * Least(Second, a + 1))
               = Meter!Capped(f, Least(f * Second, n + f * a) + f)
<1> DEFINE c == f * Second
           g == f * a
<1>1. c \in Nat /\ g \in Nat /\ f * (a + 1) = g + f
  OBVIOUS
<1>2. CASE a = Second
  <2>1. Least(Second, a + 1) = Second /\ g = c
    BY <1>2 DEF Least
  <2>2. Least(c, n + c) = c
    BY <1>1 DEF Least
  <2>3. Meter!Capped(f, c + f) = c
    BY <1>1 DEF Meter!Capped
  <2> QED BY <2>1, <2>2, <2>3
<1>3. CASE a # Second
  <2>1. Least(Second, a + 1) = a + 1
    BY <1>3 DEF Least
  <2>2. Meter!Capped(f, Least(c, n + g) + f) = IF Least(c, n + g) + f > c THEN c ELSE Least(c, n + g) + f
    BY DEF Meter!Capped
  <2> HIDE DEF c, g
  <2>3. Least(c, n + (g + f)) = IF Least(c, n + g) + f > c THEN c ELSE Least(c, n + g) + f
    BY <1>1 DEF Least
  <2> QED BY <1>1, <2>1, <2>2, <2>3 DEF c, g
<1> QED BY <1>2, <1>3

LEMMA TickMeters ==
    ASSUME BucketInv, Tick
    PROVE  BucketInv' /\ Meter!Tick
<1>1. /\ UNCHANGED <<fillRate, tokens>> /\ beat' = ~beat
      /\ age' = IF fillRate = Off THEN 0 ELSE Least(Second, age + 1)
      /\ taker' = [t \in Takers |-> [taker[t] EXCEPT !.wait = IF @ = 0 THEN 0 ELSE @ - 1]]
  BY DEF Tick
<1>2. /\ Second \in Nat \ {0} /\ age \in 0..Second /\ tokens \in Nat /\ beat \in BOOLEAN
      /\ fillRate \in Rates \cup {Off}
  BY BucketAssumption DEF BucketInv, BucketTypeOK
<1>3. age' \in 0..Second
  BY <1>1, <1>2 DEF Least
<1>4. ASSUME NEW t \in Takers
      PROVE  /\ taker'[t] \in TakerType /\ taker'[t].n = taker[t].n
             /\ taker'[t].at = taker[t].at
  <2> DEFINE w == IF taker[t].wait = 0 THEN 0 ELSE taker[t].wait - 1
  <2>1. taker[t] \in TakerType /\ taker[t].wait \in Nat
    BY TakerTyped DEF TakerType
  <2>2. w \in Nat
    BY <2>1
  <2>3. taker'[t] = [taker[t] EXCEPT !.wait = w]
    BY <1>1, <2>1
  <2> HIDE DEF w
  <2> QED BY <2>1, <2>2, <2>3 DEF TakerType
<1>5. taker' \in [Takers -> TakerType] /\ Want' = Want
  BY <1>1, <1>4 DEF Want
<1>6. \A t \in Takers : taker'[t].at = "idle" <=> taker'[t].n = 0
  BY <1>4, TakerTyped
<1>7. BucketInv'
  <2>1. beat' \in BOOLEAN
    BY <1>1
  <2> QED BY <1>1, <1>3, <1>5, <1>6, <2>1 DEF BucketInv, BucketTypeOK, TakerType, Capacity
<1>8. Level' = IF fillRate = Off THEN 0 ELSE Meter!Capped(fillRate, Level + fillRate)
  <2>1. CASE fillRate = Off
    BY <1>1, <2>1 DEF Level
  <2>2. CASE fillRate # Off
    <3>1. fillRate \in Nat
      BY <2>2, LevelFacts
    <3>2. Refilled' = Least(fillRate * Second, tokens + fillRate * Least(Second, age + 1))
      BY <1>1, <2>2 DEF Refilled, Capacity
    <3>3. Level = Least(fillRate * Second, tokens + fillRate * age) /\ Level' = Refilled'
      BY <1>1, <2>2 DEF Level, Refilled, Capacity
    <3> QED BY <1>2, <2>2, <3>1, <3>2, <3>3, TickLevel
  <2> QED BY <2>1, <2>2
<1> QED BY <1>1, <1>5, <1>7, <1>8 DEF Meter!Tick, Level, Want

LEMMA RateMeters ==
    ASSUME BucketInv, NEW r \in Rates, updateRate(r)
    PROVE  BucketInv' /\ Meter!SetRate(r)
<1>1. /\ fillRate' = r /\ age' = 0 /\ UNCHANGED <<taker, beat>> /\ r # Off
      /\ tokens' = IF fillRate = Off THEN r * Second ELSE Least(r * Second, Refilled)
  BY BucketAssumption DEF updateRate
<1> DEFINE c == r * Second
<1>2. r \in Nat /\ c \in Nat /\ 0 \in 0..Second /\ Capacity' = c
  BY <1>1, BucketAssumption DEF Capacity
<1>3. tokens' = IF fillRate = Off THEN c ELSE Least(c, Refilled)
  BY <1>1
<1>4. fillRate # Off => Meter!Capped(r, Refilled) = IF Refilled > c THEN c ELSE Refilled
  BY DEF Meter!Capped
<1> HIDE DEF c
<1>5. /\ tokens' \in Nat /\ tokens' <= c
      /\ tokens' = IF fillRate = Off THEN c ELSE Meter!Capped(r, Refilled)
  BY <1>2, <1>3, <1>4, LevelFacts DEF Least
<1>6. Level' = tokens'
  BY <1>1, <1>2, <1>5, LevelNow DEF Level, Refilled
<1>7. BucketInv'
  BY <1>1, <1>2, <1>5 DEF BucketInv, BucketTypeOK
<1>8. Meter!SetRate(r)
  BY <1>1, <1>5, <1>6 DEF Meter!SetRate, Level, Want, c
<1> QED BY <1>7, <1>8

LEMMA DisableMeters ==
    ASSUME BucketInv, disable
    PROVE  BucketInv' /\ Meter!Disable
<1>1. fillRate' = Off /\ tokens' = 0 /\ age' = 0 /\ UNCHANGED <<taker, beat>> /\ 0 \in 0..Second
  BY BucketAssumption DEF disable
<1> QED BY <1>1 DEF BucketInv, BucketTypeOK, Meter!Disable, Level, Want

LEMMA BucketStepMeters ==
    ASSUME BucketInv, BucketStep
    PROVE  BucketInv' /\ [Meter!Next]_<<Level, fillRate, beat, Want>>
  BY TakeNowMeters, SleepOnMeters, WakeMeters, TickMeters, RateMeters, DisableMeters
     DEF BucketStep, Meter!Next

LEMMA BucketStays ==
    ASSUME BucketInv, UNCHANGED takeVars
    PROVE  BucketInv' /\ UNCHANGED <<Level, fillRate, beat, Want>>
<1>1. UNCHANGED <<fillRate, tokens, age, taker, beat>>
  BY DEF takeVars, bucketVars
<1> QED BY <1>1 DEF BucketInv, BucketTypeOK, Capacity, Level, Refilled, Want

LEMMA DecoderStays ==
    ASSUME DecoderInv, UNCHANGED decoderVars
    PROVE  DecoderInv'
<1>1. /\ body' = body /\ wire' = wire /\ ending' = ending /\ left' = left /\ err' = err
      /\ got' = got
  BY DEF decoderVars
<1>2. ASSUME Stands PROVE Stands'
  <2>1. PICK k \in 1..Len(body) + 1, s \in Sendable(body), cut \in 0..Total(body) :
            /\ left # 0 => k <= Len(body) /\ left \in 1..Size(body, k)
            /\ Len(got) = Handed(k)
            /\ Place(k) \in 0..cut
            /\ Between(s, Place(k), cut)
    BY <1>2 DEF Stands
  <2>2. Handed(k)' = Handed(k) /\ Place(k)' = Place(k)
    BY <1>1 DEF Handed, Place
  <2>3. Between(s, Place(k), cut)'
    BY <1>1, <2>1, <2>2 DEF Between
  <2> QED BY <1>1, <2>1, <2>2, <2>3 DEF Stands
<1> QED BY <1>1, <1>2 DEF DecoderInv, CleanEndIsWhole

-----------------------------------------------------------------------------
(* The body under the cap.                                                 *)

UploadInv == BucketInv /\ DecoderInv

LEMMA UploadStarts ==
    ASSUME UploadInit
    PROVE  UploadInv /\ Meter!Init
<1>1. /\ fillRate \in Rates /\ tokens = Capacity /\ age = 0 /\ beat = FALSE
      /\ taker = [t \in Takers |-> Idle] /\ fillRate # Off
  BY BucketAssumption DEF UploadInit, BucketInit
<1>2. fillRate \in Nat /\ Capacity \in Nat /\ 0 \in 0..Second
  BY <1>1, BucketAssumption DEF Capacity
<1>3. taker \in [Takers -> TakerType] /\ \A t \in Takers : taker[t].at = "idle" /\ taker[t].n = 0
  BY <1>1 DEF Idle, TakerType
<1>4. BucketInv
  <2>1. tokens \in Nat /\ tokens <= Capacity /\ age \in 0..Second
    BY <1>1, <1>2
  <2>2. beat \in BOOLEAN
    BY <1>1
  <2> QED BY <1>1, <1>3, <2>1, <2>2 DEF BucketInv, BucketTypeOK, TakerType
<1>5. Refilled = Capacity
  BY <1>1, <1>2, LevelNow DEF Refilled
<1>6. Meter!Init
  BY <1>1, <1>3, <1>5 DEF Meter!Init, Capacity
<1> QED BY <1>4, <1>6, DecoderStarts DEF UploadInv, UploadInit

LEMMA UploadStep ==
    ASSUME UploadInv, [UploadNext]_uploadVars
    PROVE  UploadInv' /\ [Meter!Next]_<<Level, fillRate, beat, Want>>
<1>1. BucketInv /\ DecoderInv
  BY DEF UploadInv
<1>2. CASE ReadUpload
  <2>1. DecoderInv' /\ Len(got') - Len(got) \in 0..MaxRead
    BY <1>1, <1>2, ReadKeeps DEF ReadUpload
  <2>2. 0..MaxRead \subseteq Chunks \cup {0}
    BY UploadAssumption, ChunkedAssumption
  <2>3. PICK n \in Chunks \cup {0} : n = Len(got') - Len(got)
    BY <2>1, <2>2
  <2>4. StartTake(Upload, n)
    BY <1>2, <2>3 DEF ReadUpload
  <2> QED BY <1>1, <2>1, <2>4, UploadAssumption, StartTakeMeters DEF UploadInv
<1>3. ASSUME NEW t \in Takers \ {Upload}, ReadOther(t)
      PROVE  UploadInv' /\ [Meter!Next]_<<Level, fillRate, beat, Want>>
  <2>1. PICK n \in Chunks \cup {0} : StartTake(t, n)
    BY <1>3 DEF ReadOther
  <2>2. DecoderInv'
    BY <1>1, <1>3, DecoderStays DEF ReadOther
  <2> QED BY <1>1, <2>1, <2>2, StartTakeMeters DEF UploadInv
<1>4. CASE BucketStep /\ UNCHANGED decoderVars
  BY <1>1, <1>4, BucketStepMeters, DecoderStays DEF UploadInv
<1>5. CASE UNCHANGED uploadVars
  BY <1>1, <1>5, BucketStays, DecoderStays DEF UploadInv, uploadVars
<1> QED BY <1>2, <1>3, <1>4, <1>5 DEF UploadNext

\* The decoder's part of an upload, whatever the body, the buffers and the place at
\* which the connection ends: the payload is handed out in order (AwsChunkedReader.Read
\* never passes on a header or a line end), and an end without an error stands behind a
\* whole chunk.
THEOREM UploadDecodes == UploadSpec => []DecodedIsExact
<1>1. UploadInit => UploadInv
  BY UploadStarts
<1>2. UploadInv /\ [UploadNext]_uploadVars => UploadInv'
  BY UploadStep
<1>3. UploadInv => DecodedIsExact
  BY DecoderInvHolds DEF UploadInv, BucketInv, DecoderInv, DecodedIsExact, UploadTypeOK
<1> QED BY <1>1, <1>2, <1>3, PTL DEF UploadSpec

\* tokenBucket is a meter that the clock refills: over takes, failed takes, changes of
\* the rate, disabling, and pauses of any length no tick is lost or counted twice, and no
\* stream gets bytes that the level does not have.
THEOREM UploadMetered == UploadSpec => ImplementsMeter
<1>1. UploadInit => UploadInv /\ Meter!Init
  BY UploadStarts
<1>2. UploadInv /\ [UploadNext]_uploadVars
          => /\ UploadInv'
             /\ [Meter!Next]_<<IF fillRate = Off THEN 0 ELSE Refilled, fillRate, beat,
                               [t \in Takers |-> taker[t].n]>>
  BY UploadStep DEF Level, Want
<1> QED BY <1>1, <1>2, PTL DEF UploadSpec, ImplementsMeter, Meter!Spec

=============================================================================
