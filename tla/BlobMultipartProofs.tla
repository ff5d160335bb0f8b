------------------------- MODULE BlobMultipartProofs ------------------------
(***************************************************************************)
(* Proofs about BlobMultipart for every set of uploads, parts, bodies and  *)
(* requests.                                                               *)
(*                                                                         *)
(* The invariant has two halves.  Of the single writes it says that one    *)
(* which met no other is the only one in flight, and that the blob is as   *)
(* it left it.  Of an upload that met no other it says that it is the only *)
(* one in use, and that for a part it has recorded, or is about to, the    *)
(* store can give no block but its own: none that an earlier upload has    *)
(* left.                                                                   *)
(***************************************************************************)
EXTENDS BlobMultipart, Counting

-----------------------------------------------------------------------------
(* The order of the parts.                                                 *)

LEMMA ChooseMember ==
    ASSUME NEW S, S # {}
    PROVE  (CHOOSE b \in S : TRUE) \in S
  OBVIOUS

-----------------------------------------------------------------------------
(* The single writes.                                                      *)

Calls == [at : {"idle", "open", "read", "upload", "sum", "done", "failed"},
          copy : BOOLEAN, streamed : BOOLEAN, size : Nat,
          body : Bodies \cup {NoBody}, n : Nat, alone : BOOLEAN]

BusyCall(p) == p.at \notin {"idle", "done", "failed"}

\* A call in the state p that met no other: the size it goes by is that of its body,
\* and what it has committed is what the blob holds.
Exact(p, source, b) ==
    /\ p.at = "open" => p.size = Size(source)
    /\ p.at \in {"read", "upload"} /\ ~p.streamed => p.size = Size(p.body)
    /\ p.at = "sum" => /\ b.content = Content(p.body, p.n)
                       /\ b.sum \in {NoSum, Content(p.body, p.n)}

CallOK(p) ==
    /\ p \in Calls
    /\ p.at \in {"open", "read"} => p.n = 0
    /\ p.at \in {"read", "upload", "sum"} => p.body \in Bodies /\ p.n <= Size(p.body)
    /\ p.at = "upload" => p.n = p.size /\ ~p.streamed
    /\ p.at = "sum" => p.streamed /\ p.n \in CleanEnds(p.body)

PutInv ==
    /\ src \in Bodies
    /\ put \in [Requests -> Calls]
    /\ \A w \in Requests : CallOK(put[w])
    /\ \A w \in Requests : BusyCall(put[w]) /\ put[w].alone =>
          /\ \A v \in Requests : BusyCall(put[v]) => v = w
          /\ Exact(put[w], src, blob)

LEMMA PutInvType == PutInv => PutTypeOK
  BY SMT DEF PutInv, PutTypeOK, CallOK, Calls

LEMMA NoPutOK == CallOK(NoPut) /\ NoPut \in Calls /\ ~BusyCall(NoPut)
  BY DEF CallOK, NoPut, Calls, BusyCall

\* The call w goes on with p: if it was not in flight it does not begin to be, nor
\* does it change the blob.
LEMMA Moves ==
    ASSUME PutInv, NEW w \in Requests, NEW p, CallOK(p),
           put' = [put EXCEPT ![w] = p], src' = src,
           BusyCall(put[w]) \/ (~BusyCall(p) /\ blob' = blob),
           BusyCall(p) /\ p.alone => put[w].alone /\ Exact(p, src, blob')
    PROVE  PutInv'
<1> USE DEF PutInv
<1>1. put' \in [Requests -> Calls] /\ \A v \in Requests : CallOK(put'[v])
  BY DEF CallOK
<1>2. ASSUME NEW v \in Requests, BusyCall(put'[v]), put'[v].alone
      PROVE  /\ \A x \in Requests : BusyCall(put'[x]) => x = v
             /\ Exact(put'[v], src', blob')
  <2>1. CASE v = w
    <3>1. put'[v] = p /\ BusyCall(put[w]) /\ put[w].alone /\ Exact(p, src, blob')
      BY <1>2, <2>1
    <3>2. \A x \in Requests : BusyCall(put[x]) => x = w
      BY <3>1
    <3>3. \A x \in Requests : x # w => put'[x] = put[x]
      OBVIOUS
    <3> QED BY <2>1, <3>1, <3>2, <3>3
  <2>2. CASE v # w
    <3>1. put'[v] = put[v] /\ BusyCall(put[v]) /\ put[v].alone
      BY <1>2, <2>2
    <3>2. /\ \A x \in Requests : BusyCall(put[x]) => x = v
          /\ Exact(put[v], src, blob)
      BY <3>1
    <3>3. ~BusyCall(put[w]) /\ ~BusyCall(p) /\ blob' = blob
      BY <2>2, <3>2
    <3>4. \A x \in Requests : BusyCall(put'[x]) => x # w /\ put'[x] = put[x]
      BY <3>3
    <3> QED BY <3>1, <3>2, <3>3, <3>4
  <2> QED BY <2>1, <2>2
<1> QED BY <1>1, <1>2

\* The calls lose their claim to be alone, those that go on and all that depend on
\* what has changed.
LEMMA Meets ==
    ASSUME PutInv, src' \in Bodies,
           put' \in [Requests -> Calls],
           \A w \in Requests : \E a \in BOOLEAN :
               /\ put'[w] = [put[w] EXCEPT !.alone = a]
               /\ a /\ BusyCall(put[w]) =>
                     /\ put[w].alone
                     /\ src' = src \/ put[w].at # "open"
                     /\ blob' = blob
    PROVE  PutInv'
<1> USE DEF PutInv
<1>1. \A w \in Requests : BusyCall(put'[w]) <=> BusyCall(put[w])
  BY DEF BusyCall, Calls
<1>2. \A w \in Requests : CallOK(put'[w])
  BY SMT DEF CallOK, Calls
<1>3. ASSUME NEW w \in Requests, BusyCall(put'[w]), put'[w].alone
      PROVE  /\ \A v \in Requests : BusyCall(put'[v]) => v = w
             /\ Exact(put'[w], src', blob')
  <2>1. PICK a \in BOOLEAN : /\ put'[w] = [put[w] EXCEPT !.alone = a]
                             /\ a /\ BusyCall(put[w]) =>
                                   /\ put[w].alone
                                   /\ src' = src \/ put[w].at # "open"
                                   /\ blob' = blob
    OBVIOUS
  <2>2. put[w] \in Calls /\ put'[w].alone = a
    BY <2>1 DEF Calls
  <2>3. BusyCall(put[w]) /\ put[w].alone /\ (src' = src \/ put[w].at # "open") /\ blob' = blob
    BY <1>1, <1>3, <2>1, <2>2
  <2>4. /\ \A v \in Requests : BusyCall(put[v]) => v = w
        /\ Exact(put[w], src, blob)
    BY <2>3
  <2>5. Exact(put'[w], src', blob')
    BY <2>1, <2>2, <2>3, <2>4 DEF Exact, Calls
  <2> QED BY <1>1, <2>4, <2>5
<1> QED BY <1>2, <1>3

LEMMA BusyIs == \A w \in Requests : Busy(w) <=> BusyCall(put[w])
  BY DEF Busy, BusyCall

LEMMA SameCall ==
    ASSUME NEW p \in Calls, NEW a \in BOOLEAN
    PROVE  /\ p = [p EXCEPT !.alone = p.alone] /\ p.alone \in BOOLEAN
           /\ [p EXCEPT !.alone = a] \in Calls
  BY DEF Calls

LEMMA AloneOnly ==
    ASSUME NEW p \in Calls, NEW a \in BOOLEAN, CallOK(p)
    PROVE  CallOK([p EXCEPT !.alone = a])
<1> DEFINE q == [p EXCEPT !.alone = a]
<1>1. /\ q \in Calls /\ q.at = p.at /\ q.streamed = p.streamed /\ q.size = p.size
      /\ q.body = p.body /\ q.n = p.n
  BY DEF Calls
<1> HIDE DEF q
<1>2. CallOK(q)
  BY <1>1 DEF CallOK
<1> QED BY <1>2 DEF q

\* Another writer of the blob commits.
LEMMA MetKeeps ==
    ASSUME PutInv, NEW r \in Requests, ~Busy(r), put' = Met(r), src' = src
    PROVE  PutInv'
<1> SUFFICES ASSUME NEW w \in Requests
             PROVE  \E a \in BOOLEAN :
                      /\ put'[w] = [put[w] EXCEPT !.alone = a]
                      /\ a /\ BusyCall(put[w]) => FALSE
  <2>1. put' \in [Requests -> Calls]
    BY SameCall DEF PutInv, Met
  <2> QED BY <2>1, Meets DEF PutInv
<1>1. put[w] \in Calls
  BY DEF PutInv
<1>2. put'[w] = IF w # r /\ BusyCall(put[w]) THEN [put[w] EXCEPT !.alone = FALSE] ELSE put[w]
  BY BusyIs DEF Met
<1>3. CASE w # r /\ BusyCall(put[w])
  BY <1>2, <1>3
<1>4. CASE ~(w # r /\ BusyCall(put[w]))
  BY <1>1, <1>2, <1>4, BusyIs, SameCall
<1> QED BY <1>3, <1>4

\* A call begins; its claim holds if nobody else is in flight.
LEMMA EntersKeeps ==
    ASSUME PutInv, NEW w \in Requests, NEW p \in Calls, Enters(w, p), ~Busy(w),
           \A a \in BOOLEAN : CallOK([p EXCEPT !.alone = a]),
           p.at \in {"open", "read"}, Exact(p, src, blob), UNCHANGED <<src, blob>>
    PROVE  PutInv'
<1> DEFINE q == [p EXCEPT !.alone = Others(w) = {}]
<1>1. q \in Calls /\ CallOK(q) /\ BusyCall(q) /\ Exact(q, src, blob)
  BY SameCall DEF Calls, Exact, BusyCall
<1>2. q.alone => \A v \in Requests : v # w => ~BusyCall(put[v])
  <2>1. q.alone <=> Others(w) = {}
    BY DEF Calls
  <2> QED BY <2>1, BusyIs DEF Others
<1>3. \A v \in Requests : put'[v] = IF v = w THEN q ELSE
                              IF BusyCall(put[v]) THEN [put[v] EXCEPT !.alone = FALSE] ELSE put[v]
  BY BusyIs DEF Enters, Met, PutInv
<1>4. put' \in [Requests -> Calls]
  <2>1. \A v \in Requests : put'[v] \in Calls
    <3> HIDE DEF q
    <3> SUFFICES ASSUME NEW v \in Requests PROVE put'[v] \in Calls
      OBVIOUS
    <3>1. put[v] \in Calls /\ [put[v] EXCEPT !.alone = FALSE] \in Calls
      BY SameCall DEF PutInv
    <3> QED BY <1>1, <1>3, <3>1
  <2> QED BY <2>1 DEF Enters, Met
<1> HIDE DEF q
<1>5. \A v \in Requests : CallOK(put'[v])
  <2> SUFFICES ASSUME NEW v \in Requests PROVE CallOK(put'[v])
    OBVIOUS
  <2>1. CallOK(put[v]) /\ put[v] \in Calls
    BY DEF PutInv
  <2>2. CallOK([put[v] EXCEPT !.alone = FALSE])
    BY <2>1, AloneOnly
  <2> QED BY <1>1, <1>3, <2>1, <2>2
<1>6. \A v \in Requests : v # w =>
         /\ BusyCall(put'[v]) => BusyCall(put[v]) /\ ~put'[v].alone
         /\ put'[v] \in Calls
  <2> SUFFICES ASSUME NEW v \in Requests, v # w, BusyCall(put'[v])
               PROVE  BusyCall(put[v]) /\ ~put'[v].alone
    BY <1>4
  <2>1. BusyCall(put[v])
    BY <1>3
  <2>2. put'[v] = [put[v] EXCEPT !.alone = FALSE] /\ put[v] \in Calls
    BY <1>3, <2>1 DEF PutInv
  <2> QED BY <2>1, <2>2 DEF Calls
<1> QED BY <1>1, <1>2, <1>3, <1>4, <1>5, <1>6 DEF PutInv

LEMMA StartKeeps ==
    ASSUME PutInv, NEW w \in Requests, ~Busy(w), Start(w) \/ StartCopy(w)
    PROVE  PutInv'
<1> USE BlobAssumption
<1>1. CASE Start(w)
  <2>0. PICK b \in Bodies : \E size \in {Size(b), 0} : \E streamed \in Ways(size) :
           Enters(w, [NoPut EXCEPT !.at = "read", !.streamed = streamed,
                                   !.size = IF streamed THEN 0 ELSE size, !.body = b])
    BY <1>1 DEF Start
  <2>1. PICK size \in {Size(b), 0} : \E streamed \in Ways(size) :
           Enters(w, [NoPut EXCEPT !.at = "read", !.streamed = streamed,
                                   !.size = IF streamed THEN 0 ELSE size, !.body = b])
    BY <2>0
  <2>a. PICK streamed \in Ways(size) :
           Enters(w, [NoPut EXCEPT !.at = "read", !.streamed = streamed,
                                   !.size = IF streamed THEN 0 ELSE size, !.body = b])
    BY <2>1
  <2> DEFINE p == [NoPut EXCEPT !.at = "read", !.streamed = streamed,
                                !.size = IF streamed THEN 0 ELSE size, !.body = b]
  <2>2. streamed \in BOOLEAN /\ size \in Nat /\ (~streamed => size = Size(b)) /\ Size(b) \in Nat
    <3>1. Size(b) \in Nat
      OBVIOUS
    <3>2. CASE size > 0
      BY <2>1, <2>a, <3>1, <3>2 DEF Ways
    <3>3. CASE ~(size > 0)
      <4>1. streamed \in {TRUE}
        BY <2>a, <3>3 DEF Ways
      <4> QED BY <2>1, <3>1, <4>1
    <3> QED BY <3>2, <3>3
  <2>3. /\ p \in Calls /\ p.at = "read" /\ p.streamed = streamed /\ p.body = b /\ p.n = 0
        /\ ~streamed => p.size = size
    BY <2>2, NoPutOK DEF NoPut, Calls
  <2>4. p \in Calls /\ \A a \in BOOLEAN : CallOK([p EXCEPT !.alone = a])
    <3> HIDE DEF p
    <3>1. CallOK(p)
      BY <2>2, <2>3 DEF CallOK
    <3> QED BY <2>3, <3>1, AloneOnly
  <2>5. p.at = "read" /\ Exact(p, src, blob)
    BY <2>2, <2>3 DEF Exact
  <2>6. Enters(w, p) /\ UNCHANGED <<src, blob>>
    BY <1>1, <2>a DEF Start
  <2> HIDE DEF p
  <2> QED BY <2>4, <2>5, <2>6, EntersKeeps
<1>2. CASE StartCopy(w)
  <2> DEFINE p == [NoPut EXCEPT !.at = "open", !.copy = TRUE, !.size = Size(src)]
  <2>2. Size(src) \in Nat
    BY DEF PutInv
  <2>1. p \in Calls /\ p.at = "open" /\ p.size = Size(src) /\ p.n = 0
    BY <2>2, NoPutOK DEF NoPut, Calls
  <2>3. p \in Calls /\ \A a \in BOOLEAN : CallOK([p EXCEPT !.alone = a])
    <3> HIDE DEF p
    <3>1. CallOK(p)
      BY <2>1 DEF CallOK
    <3> QED BY <2>1, <3>1, AloneOnly
  <2>4. p.at = "open" /\ Exact(p, src, blob)
    BY <2>1 DEF Exact
  <2>5. Enters(w, p) /\ UNCHANGED <<src, blob>>
    BY <1>2 DEF StartCopy
  <2> HIDE DEF p
  <2> QED BY <2>3, <2>4, <2>5, EntersKeeps
<1> QED BY <1>1, <1>2

LEMMA FailsKeeps ==
    ASSUME PutInv, NEW w \in Requests, Fails(w), BusyCall(put[w]), src' = src
    PROVE  PutInv'
<1> DEFINE p == [NoPut EXCEPT !.at = "failed"]
<1>1. CallOK(p) /\ ~BusyCall(p)
  BY NoPutOK DEF NoPut, Calls, CallOK, BusyCall
<1>2. put' = [put EXCEPT ![w] = p]
  BY DEF Fails, Becomes
<1> HIDE DEF p
<1> QED BY <1>1, <1>2, Moves

LEMMA EndsFacts ==
    ASSUME PutInv, NEW w \in Requests, put[w].at \in {"read", "upload", "sum"}
    PROVE  /\ put[w].body \in Bodies /\ Size(put[w].body) \in Nat
           /\ Ends(w) \subseteq CleanEnds(put[w].body)
           /\ Size(put[w].body) \in CleanEnds(put[w].body)
           /\ CleanEnds(put[w].body) \subseteq 0..Size(put[w].body)
<1>1. put[w].body \in Bodies
  BY DEF PutInv, CallOK
<1> QED BY <1>1, BlobAssumption DEF Ends

LEMMA OpenKeeps ==
    ASSUME PutInv, NEW w \in Requests, Open(w)
    PROVE  PutInv'
<1>1. PICK streamed \in Ways(put[w].size) :
         Becomes(w, [put[w] EXCEPT !.at = "read", !.streamed = streamed, !.body = src,
                                   !.size = IF streamed THEN 0 ELSE @])
  BY DEF Open
<1> DEFINE p == [put[w] EXCEPT !.at = "read", !.streamed = streamed, !.body = src,
                               !.size = IF streamed THEN 0 ELSE @]
<1>2. put[w] \in Calls /\ put[w].at = "open" /\ CallOK(put[w]) /\ src \in Bodies
  BY DEF Open, PutInv
<1>3. streamed \in BOOLEAN
  BY <1>1 DEF Ways
<1>4. /\ p \in Calls /\ p.at = "read" /\ p.streamed = streamed /\ p.body = src
      /\ p.n = put[w].n /\ p.alone = put[w].alone
      /\ ~streamed => p.size = put[w].size
  BY <1>2, <1>3 DEF Calls
<1>5. put' = [put EXCEPT ![w] = p] /\ src' = src /\ blob' = blob
  BY <1>1 DEF Becomes, Open
<1> HIDE DEF p
<1>6. CallOK(p) /\ BusyCall(p) /\ BusyCall(put[w])
  BY <1>2, <1>4, BlobAssumption DEF CallOK, BusyCall
<1>7. p.alone => Exact(p, src, blob')
  <2>1. p.alone => put[w].size = Size(src)
    BY <1>2, <1>4, <1>6 DEF PutInv, Exact
  <2> QED BY <1>4, <2>1 DEF Exact
<1> QED BY <1>4, <1>5, <1>6, <1>7, Moves

LEMMA ReadFullKeeps ==
    ASSUME PutInv, NEW w \in Requests, ReadFull(w)
    PROVE  PutInv'
<1>1. put[w].at = "read" /\ ~put[w].streamed /\ UNCHANGED <<blob, src>> /\ BusyCall(put[w])
  BY DEF ReadFull, BusyCall
<1>2. PICK n \in Ends(w) :
         IF Filled(w, n)
         THEN Becomes(w, [put[w] EXCEPT !.at = "upload", !.n = Least(n, put[w].size)])
         ELSE Fails(w)
  BY DEF ReadFull
<1>3. CASE ~Filled(w, n)
  BY <1>1, <1>2, <1>3, FailsKeeps
<1>4. CASE Filled(w, n)
  <2> DEFINE p == [put[w] EXCEPT !.at = "upload", !.n = Least(n, put[w].size)]
  <2>1. put[w] \in Calls /\ CallOK(put[w]) /\ put[w].size \in Nat
    BY DEF PutInv, Calls
  <2>2. n \in 0..Size(put[w].body) /\ Size(put[w].body) \in Nat /\ n >= put[w].size
    BY <1>1, <1>2, <1>4, EndsFacts DEF Filled
  <2>3. Least(n, put[w].size) = put[w].size
    BY <2>1, <2>2 DEF Least
  <2>4. /\ p \in Calls /\ p.at = "upload" /\ p.streamed = put[w].streamed
        /\ p.body = put[w].body /\ p.n = put[w].size /\ p.size = put[w].size
        /\ p.alone = put[w].alone
    BY <2>1, <2>3 DEF Calls
  <2>5. put' = [put EXCEPT ![w] = p]
    BY <1>2, <1>4 DEF Becomes
  <2> HIDE DEF p
  <2>6. CallOK(p)
    BY <1>1, <2>1, <2>2, <2>4 DEF CallOK
  <2>7. p.alone => Exact(p, src, blob')
    <3>1. p.alone => put[w].size = Size(put[w].body)
      BY <1>1, <2>4 DEF PutInv, Exact
    <3> QED BY <2>4, <3>1 DEF Exact
  <2> QED BY <1>1, <2>4, <2>5, <2>6, <2>7, Moves
<1> QED BY <1>3, <1>4

LEMMA UploadBufferKeeps ==
    ASSUME PutInv, NEW w \in Requests, UploadBuffer(w)
    PROVE  PutInv'
<1> DEFINE p == [put[w] EXCEPT !.at = "done"]
<1>1. put[w].at = "upload" /\ BusyCall(put[w]) /\ src' = src /\ (Becomes(w, p) \/ Fails(w))
  BY DEF UploadBuffer, Commits, BusyCall
<1>2. CallOK(p) /\ ~BusyCall(p)
  BY DEF PutInv, Calls, CallOK, BusyCall
<1> HIDE DEF p
<1>3. CASE Becomes(w, p)
  BY <1>1, <1>2, <1>3, Moves DEF Becomes
<1> QED BY <1>1, <1>3, FailsKeeps

LEMMA UploadStreamKeeps ==
    ASSUME PutInv, NEW w \in Requests, UploadStream(w)
    PROVE  PutInv'
<1>1. put[w].at = "read" /\ put[w].streamed /\ BusyCall(put[w])
  BY DEF UploadStream, BusyCall
<1>2. PICK n \in Ends(w) : \E sum \in {NoSum, Content(put[w].body, n)} :
         Commits(w, [put[w] EXCEPT !.at = "sum", !.n = n], sum)
  BY DEF UploadStream
<1> DEFINE p == [put[w] EXCEPT !.at = "sum", !.n = n]
<1>3. put[w] \in Calls /\ CallOK(put[w])
  BY DEF PutInv
<1>4. n \in 0..Size(put[w].body) /\ Size(put[w].body) \in Nat /\ n \in CleanEnds(put[w].body)
  BY <1>1, <1>2, EndsFacts
<1>a. n \in Nat
  BY <1>4
<1>5. /\ p \in Calls /\ p.at = "sum" /\ p.streamed = put[w].streamed
      /\ p.body = put[w].body /\ p.n = n /\ p.alone = put[w].alone
  BY <1>3, <1>a DEF Calls
<1>6. PICK sum \in {NoSum, Content(put[w].body, n)} : Commits(w, p, sum)
  BY <1>2
<1> HIDE DEF p
<1>7. /\ blob' = [content |-> Content(p.body, p.n), sum |-> sum]
      /\ src' = src
      /\ Becomes(w, p) \/ Fails(w)
  BY <1>6 DEF Commits
<1>8. CASE Becomes(w, p)
  <2>1. CallOK(p)
    BY <1>1, <1>3, <1>4, <1>5 DEF CallOK
  <2>2. Exact(p, src, blob')
    BY <1>5, <1>6, <1>7 DEF Exact
  <2> QED BY <1>1, <1>5, <1>7, <1>8, <2>1, <2>2, Moves DEF Becomes
<1> QED BY <1>1, <1>7, <1>8, FailsKeeps

LEMMA SetHTTPHeadersKeeps ==
    ASSUME PutInv, NEW w \in Requests, SetHTTPHeaders(w)
    PROVE  PutInv'
<1> DEFINE p == [put[w] EXCEPT !.at = "done"]
<1>1. put[w].at = "sum" /\ BusyCall(put[w]) /\ src' = src /\ put' = [put EXCEPT ![w] = p]
  BY DEF SetHTTPHeaders, Becomes, BusyCall
<1>2. CallOK(p) /\ ~BusyCall(p)
  BY DEF PutInv, Calls, CallOK, BusyCall
<1> HIDE DEF p
<1> QED BY <1>1, <1>2, Moves

LEMMA PutStepKeeps ==
    ASSUME PutInv, NEW w \in Requests, PutStep(w)
    PROVE  PutInv'
<1>1. CASE Fail(w)
  BY <1>1, FailsKeeps DEF Fail, BusyCall
<1> QED BY <1>1, OpenKeeps, ReadFullKeeps, UploadBufferKeeps, UploadStreamKeeps,
           SetHTTPHeadersKeeps DEF PutStep

LEMMA PutAnsweredKeeps ==
    ASSUME PutInv, NEW w \in Requests, PutAnswered(w)
    PROVE  PutInv'
<1>1. put' = [put EXCEPT ![w] = NoPut] /\ src' = src /\ blob' = blob
  BY DEF PutAnswered, Becomes
<1> QED BY <1>1, NoPutOK, Moves

LEMMA OverwriteKeeps ==
    ASSUME PutInv, Overwrite, blob' = blob
    PROVE  PutInv'
<1>1. put' = [w \in Requests |-> [put[w] EXCEPT !.alone = put[w].alone /\ put[w].at # "open"]]
  BY DEF Overwrite
<1>2. src' \in Bodies
  BY DEF Overwrite
<1>3. put' \in [Requests -> Calls]
  BY <1>1, SameCall DEF PutInv
<1>4. ASSUME NEW w \in Requests
      PROVE  \E a \in BOOLEAN :
               /\ put'[w] = [put[w] EXCEPT !.alone = a]
               /\ a => put[w].alone /\ put[w].at # "open"
  <2> DEFINE a == put[w].alone /\ put[w].at # "open"
  <2>1. a \in BOOLEAN
    OBVIOUS
  <2> QED BY <1>1, <2>1
<1> QED BY <1>2, <1>3, <1>4, Meets

LEMMA DeleteKeeps ==
    ASSUME PutInv, Delete
    PROVE  PutInv'
<1>1. put' = [w \in Requests |-> [put[w] EXCEPT !.alone = put[w].alone /\ ~Busy(w)]]
  BY DEF Delete
<1>2. src' \in Bodies
  BY DEF Delete, PutInv
<1>3. put' \in [Requests -> Calls]
  BY <1>1, SameCall DEF PutInv
<1>4. ASSUME NEW w \in Requests
      PROVE  \E a \in BOOLEAN :
               /\ put'[w] = [put[w] EXCEPT !.alone = a]
               /\ a /\ BusyCall(put[w]) => FALSE
  <2> DEFINE a == put[w].alone /\ ~Busy(w)
  <2>1. a \in BOOLEAN
    OBVIOUS
  <2>2. a => ~BusyCall(put[w])
    BY BusyIs
  <2> QED BY <1>1, <2>1, <2>2
<1> QED BY <1>2, <1>3, <1>4, Meets

LEMMA NobodyKeeps ==
    ASSUME put = [r \in Requests |-> NoPut], src \in Bodies
    PROVE  PutInv
  BY NoPutOK DEF PutInv

-----------------------------------------------------------------------------
(* The store.                                                              *)

\* What each part can be committed from.
Held == [p \in Parts |-> Stored(p)]

StoreInv ==
    /\ blob \in [content : Seq(Blocks), sum : Seq(Blocks)]
    /\ DOMAIN staged \subseteq Parts
    /\ \A p \in DOMAIN staged : staged[p] \in {Block(u, p) : u \in used}

LEMMA PartsNat ==
    /\ Parts \in SUBSET Nat /\ 0 \notin Parts
    /\ IsFiniteSet(Parts) /\ \A S \in SUBSET Parts : S \in SUBSET Nat /\ IsFiniteSet(S)
<1>1. Parts \in SUBSET Nat /\ 0 \notin Parts
  BY MultipartAssumption
<1>2. IsFiniteSet(Parts)
  BY MultipartAssumption
<1>3. ASSUME NEW S \in SUBSET Parts PROVE S \in SUBSET Nat /\ IsFiniteSet(S)
  BY <1>1, <1>2, FS_Subset
<1> QED BY <1>1, <1>2, <1>3

LEMMA BlockFacts ==
    ASSUME NEW u \in Uploads, NEW p \in Parts
    PROVE  Block(u, p) \in Blocks /\ Block(u, p) # None /\ Block(u, p)[2] = p
  BY DEF Block, Blocks, None

LEMMA ContentFacts ==
    ASSUME NEW b \in Bodies, NEW n \in 0..Size(b)
    PROVE  /\ Content(b, n) \in Seq(Blocks)
           /\ \A x \in ToSet(Content(b, n)) : x[2] = 0
<1>1. <<b, 0, n>> \in Blocks
  BY DEF Blocks
<1>2. Content(b, n) \in Seq(Blocks)
  BY <1>1 DEF Content
<1>3. \A x \in ToSet(Content(b, n)) : x = <<b, 0, n>>
  BY DEF Content, ToSet
<1> QED BY <1>2, <1>3

LEMMA HeldFacts ==
    ASSUME StoreInv, used \subseteq Uploads, NEW p \in Parts, NEW b \in Stored(p)
    PROVE  b \in Blocks /\ b[2] = p
<1>1. CASE p \in DOMAIN staged
  <2>1. b = staged[p]
    BY <1>1 DEF Stored
  <2>2. PICK u \in Uploads : b = Block(u, p)
    BY <1>1, <2>1 DEF StoreInv
  <2> QED BY <2>2, BlockFacts
<1>2. CASE p \notin DOMAIN staged
  <2>1. b \in ToSet(blob.content) /\ b[2] = p
    BY <1>2 DEF Stored
  <2>2. blob.content \in Seq(Blocks)
    BY DEF StoreInv
  <2> QED BY <2>1, <2>2 DEF ToSet
<1> QED BY <1>1, <1>2

\* A single write leaves nothing that a part could be committed from.
LEMMA ContentStore ==
    ASSUME NEW b \in Bodies, NEW n \in 0..Size(b), NEW sum \in Seq(Blocks),
           blob' = [content |-> Content(b, n), sum |-> sum], staged' = <<>>
    PROVE  StoreInv' /\ \A p \in Parts : Held'[p] = {}
<1>1. StoreInv'
  BY ContentFacts DEF StoreInv
<1>2. ASSUME NEW p \in Parts PROVE Held'[p] = {}
  <2>1. Held'[p] = {x \in ToSet(Content(b, n)) : x[2] = p}
    BY DEF Held, Stored
  <2> QED BY <2>1, ContentFacts, PartsNat
<1> QED BY <1>1, <1>2

\* No single write and no delete adds to what a part can be committed from.
LEMMA ObjectStore ==
    ASSUME PutInv, StoreInv, used' = used,
           Overwrite \/ Delete \/ \E r \in Requests : PutStep(r)
    PROVE  StoreInv' /\ \A p \in Parts : Held'[p] \subseteq Held[p]
<1>1. ASSUME UNCHANGED <<blob, staged>>
      PROVE  StoreInv' /\ \A p \in Parts : Held'[p] \subseteq Held[p]
  BY <1>1 DEF StoreInv, Held, Stored
<1>2. CASE Overwrite
  BY <1>1, <1>2 DEF Overwrite
<1>3. CASE Delete
  <2>1. blob' = NoBlob /\ staged' \in {<<>>, staged}
    BY <1>3 DEF Delete
  <2>2. StoreInv'
    BY <2>1 DEF StoreInv, NoBlob, NoSum
  <2>3. \A p \in Parts : Held'[p] \subseteq Held[p]
    BY <2>1 DEF Held, Stored, NoBlob, ToSet
  <2> QED BY <2>2, <2>3
<1>4. CASE \E r \in Requests : PutStep(r)
  <2> PICK w \in Requests : PutStep(w)
    BY <1>4
  <2>1. CASE Open(w) \/ ReadFull(w) \/ Fail(w)
    BY <1>1, <2>1 DEF Open, ReadFull, Fail
  <2>2. CASE UploadBuffer(w)
    <3>1. /\ put[w].body \in Bodies /\ put[w].n \in 0..Size(put[w].body)
          /\ Content(put[w].body, put[w].n) \in Seq(Blocks)
      BY <2>2, ContentFacts, BlobAssumption DEF UploadBuffer, PutInv, CallOK, Calls
    <3>2. /\ blob' = [content |-> Content(put[w].body, put[w].n),
                      sum |-> Content(put[w].body, put[w].n)]
          /\ staged' = <<>>
      BY <2>2 DEF UploadBuffer, Commits, PutInv, Calls
    <3> QED BY <3>1, <3>2, ContentStore
  <2>3. CASE UploadStream(w)
    <3>1. PICK n \in Ends(w) : \E sum \in {NoSum, Content(put[w].body, n)} :
             Commits(w, [put[w] EXCEPT !.at = "sum", !.n = n], sum)
      BY <2>3 DEF UploadStream
    <3>2. PICK sum \in {NoSum, Content(put[w].body, n)} :
             Commits(w, [put[w] EXCEPT !.at = "sum", !.n = n], sum)
      BY <3>1
    <3>3. put[w].body \in Bodies /\ n \in 0..Size(put[w].body) /\ put[w] \in Calls
      BY <2>3, <3>1, EndsFacts DEF UploadStream, PutInv
    <3>4. sum \in Seq(Blocks)
      <4>1. Content(put[w].body, n) \in Seq(Blocks)
        BY <3>3, ContentFacts
      <4>2. NoSum \in Seq(Blocks)
        BY DEF NoSum
      <4> QED BY <3>2, <4>1, <4>2
    <3>5. blob' = [content |-> Content(put[w].body, n), sum |-> sum] /\ staged' = <<>>
      BY <3>2, <3>3 DEF Commits, Calls
    <3> QED BY <3>3, <3>4, <3>5, ContentStore
  <2>4. CASE SetHTTPHeaders(w)
    <3>1. /\ put[w].body \in Bodies /\ put[w].n \in 0..Size(put[w].body)
          /\ Content(put[w].body, put[w].n) \in Seq(Blocks)
      BY <2>4, ContentFacts, BlobAssumption DEF SetHTTPHeaders, PutInv, CallOK, Calls
    <3>2. /\ blob'.content = blob.content
          /\ blob' \in [content : Seq(Blocks), sum : Seq(Blocks)]
      BY <2>4, <3>1 DEF SetHTTPHeaders, StoreInv
    <3>3. staged' = staged
      BY <2>4 DEF SetHTTPHeaders
    <3> QED BY <3>2, <3>3 DEF StoreInv, Held, Stored
  <2> QED BY <2>1, <2>2, <2>3, <2>4 DEF PutStep
<1> QED BY <1>2, <1>3, <1>4

\* A commit makes the blob of the parts in order, each from what was held of it, and
\* leaves nothing else.
LEMMA CommitStore ==
    ASSUME StoreInv, used \subseteq Uploads, used' = used, NEW r \in Requests,
           NEW S \in SUBSET Parts, \A p \in S : Stored(p) # {},
           CommitBlockList(r, InOrder(S))
    PROVE  /\ StoreInv'
           /\ \A p \in Parts : Held'[p] \subseteq Held[p]
           /\ DOMAIN blob'.content = DOMAIN InOrder(S)
           /\ \A i \in DOMAIN InOrder(S) : /\ blob'.content[i] \in Held[InOrder(S)[i]]
                                           /\ blob'.content[i][2] = InOrder(S)[i]
<1> DEFINE s == InOrder(S)
           c == blob'.content
<1>1. Cardinality(S) \in Nat /\ DOMAIN s = 1..Cardinality(S) /\ s \in Seq(S)
  BY FromSmallestFacts, PartsNat DEF InOrder
<1>2. /\ blob' = [content |-> [i \in DOMAIN s |-> CHOOSE b \in Stored(s[i]) : TRUE],
                  sum |-> NoSum]
      /\ staged' = <<>>
  BY DEF CommitBlockList
<1> HIDE DEF s
<1>3. ASSUME NEW i \in DOMAIN s PROVE s[i] \in S /\ c[i] \in Stored(s[i])
  <2>1. s[i] \in S
    BY <1>1, <1>3
  <2>2. c[i] = CHOOSE b \in Stored(s[i]) : TRUE
    BY <1>2
  <2> QED BY <2>1, <2>2, ChooseMember
<1>4. \A i \in DOMAIN s : c[i] \in Blocks /\ c[i][2] = s[i] /\ c[i] \in Held[s[i]]
  BY <1>3, HeldFacts DEF Held
<1>5. DOMAIN c = DOMAIN s /\ c \in Seq(Blocks)
  <2>1. c = [i \in 1..Cardinality(S) |-> CHOOSE b \in Stored(s[i]) : TRUE]
    BY <1>1, <1>2
  <2>2. c \in [1..Cardinality(S) -> Blocks]
    BY <1>1, <1>4, <2>1
  <2> QED BY <1>1, <2>2
<1>6. StoreInv'
  <2>1. blob' = [content |-> c, sum |-> NoSum] /\ NoSum \in Seq(Blocks)
    BY <1>2 DEF NoSum
  <2> QED BY <1>2, <1>5, <2>1 DEF StoreInv
<1>7. ASSUME NEW p \in Parts PROVE Held'[p] \subseteq Held[p]
  <2>1. Held'[p] = {b \in ToSet(c) : b[2] = p}
    BY <1>2 DEF Held, Stored
  <2> QED BY <1>4, <1>5, <2>1 DEF ToSet
<1> QED BY <1>4, <1>5, <1>6, <1>7 DEF s

-----------------------------------------------------------------------------
(* The uploads.                                                            *)

ReqType == [at : {"idle", "stage", "record", "commit", "drop", "single"},
            up : Uploads \cup {None}, part : Parts \cup {0},
            sums : Seq(Blocks), before : SUBSET Parts]

ReqOK(q) ==
    /\ q \in ReqType
    /\ q.up \in IF q.at \in {"idle", "single"} THEN {None} ELSE used
    /\ q.at \in {"stage", "record"} => q.part \in Parts
    /\ q.at = "commit" => q.before \subseteq acked[q.up]

\* What is kept of the uploads: an answered part is recorded, a recorded part is of
\* its own upload, and nothing is known of an upload before it begins.
BookInv ==
    /\ singles \in 0..MaxWrites
    /\ IsFiniteSet(used) /\ used \subseteq Uploads
    /\ live \subseteq used /\ apart \subseteq used
    /\ sums \in [Uploads -> [Parts -> Blocks \cup {None}]]
    /\ acked \in [Uploads -> SUBSET Parts]
    /\ \A u \in Uploads, p \in Parts :
          /\ sums[u][p] \in {None, Block(u, p)}
          /\ p \in acked[u] => sums[u][p] # None
          /\ u \notin used => sums[u][p] = None
    /\ req \in [Requests -> ReqType]
    /\ \A r \in Requests : ReqOK(req[r])

\* A call of PutObject is in flight only in a request of its own.
PutApart == \A r \in Requests : put[r].at # "idle" => req[r].at = "single"

Calling(u) == \E r \in Requests : req[r].up = u
Recording(u, p) == \E r \in Requests : req[r].at = "record" /\ req[r].up = u /\ req[r].part = p

\* An upload in use that met no other is the only one in use, and what the store holds
\* of a part it has recorded, or is about to, is its own.
ApartInv ==
    \A u \in apart : u \in live \/ Calling(u) =>
        /\ live \subseteq {u}
        /\ \A r \in Requests : req[r].up \in {u, None}
        /\ \A p \in Parts : sums[u][p] # None \/ Recording(u, p) => Held[p] \subseteq {Block(u, p)}

BlobInv == PutInv /\ StoreInv /\ BookInv /\ PutApart /\ ApartInv

LEMMA BlobInvType == BlobInv => TypeOK
<1> SUFFICES ASSUME BlobInv PROVE TypeOK
  OBVIOUS
<1>1. PutTypeOK
  BY PutInvType DEF BlobInv
<1>2. \A u \in Uploads : acked[u] \subseteq Recorded(u)
  BY DEF BlobInv, BookInv, Recorded
<1>3. \A r \in Requests :
          /\ req[r].up \in IF req[r].at \in {"idle", "single"} THEN {None} ELSE used
          /\ req[r].at \in {"stage", "record"} => req[r].part \in Parts
  BY DEF BlobInv, BookInv, ReqOK
<1> QED BY <1>1, <1>2, <1>3 DEF BlobInv, BookInv, StoreInv, ReqType, TypeOK

LEMMA BlobInvInit == Init => BlobInv
<1> SUFFICES ASSUME Init PROVE BlobInv
  OBVIOUS
<1> USE MultipartAssumption DEF Init, ObjectInit
<1>1. PutInv
  BY NobodyKeeps
<1>2. StoreInv
  BY DEF StoreInv, NoBlob, NoSum
<1>3. IdleReq \in ReqType /\ ReqOK(IdleReq)
  BY DEF IdleReq, ReqType, ReqOK
<1>4. BookInv
  <2>1. IsFiniteSet(used)
    BY FS_EmptySet
  <2> QED BY <1>3, <2>1 DEF BookInv, NoSums
<1>5. PutApart
  BY DEF PutApart, NoPut
<1>6. ApartInv
  BY DEF ApartInv
<1> QED BY <1>1, <1>2, <1>4, <1>5, <1>6 DEF BlobInv

\* A step that brings no upload into use, records no part but one that was staged, and
\* adds nothing to what the store holds.
LEMMA ApartLess ==
    ASSUME BookInv, ApartInv, apart' = apart, live' \subseteq live,
           \A r \in Requests : req'[r].up \in {req[r].up, None} \cup live,
           \A r \in Requests : req'[r].at = "record" => req'[r] = req[r],
           \A u \in apart, p \in Parts : sums'[u][p] # None =>
               sums[u][p] # None \/ Recording(u, p),
           \A p \in Parts : Held'[p] \subseteq Held[p]
    PROVE  ApartInv'
<1> SUFFICES ASSUME NEW u \in apart, u \in live' \/ Calling(u)'
             PROVE  /\ live' \subseteq {u}
                    /\ \A r \in Requests : req'[r].up \in {u, None}
                    /\ \A p \in Parts : sums'[u][p] # None \/ Recording(u, p)' =>
                          Held'[p] \subseteq {Block(u, p)}
  BY DEF ApartInv
<1>1. u # None
  BY UploadAssumption DEF BookInv
<1>2. u \in live \/ Calling(u)
  BY <1>1 DEF Calling
<1>3. /\ live \subseteq {u}
      /\ \A r \in Requests : req[r].up \in {u, None}
      /\ \A p \in Parts : sums[u][p] # None \/ Recording(u, p) => Held[p] \subseteq {Block(u, p)}
  BY <1>2 DEF ApartInv
<1>4. \A p \in Parts : Recording(u, p)' => Recording(u, p)
  BY DEF Recording
<1> QED BY <1>3, <1>4

LEMMA ObjectSame ==
    ASSUME PutInv, StoreInv, UNCHANGED objectVars, used \subseteq used'
    PROVE  PutInv' /\ StoreInv' /\ \A p \in Parts : Held'[p] \subseteq Held[p]
<1>1. PutInv'
  BY DEF PutInv, objectVars
<1>2. StoreInv'
  BY DEF StoreInv, objectVars
<1>3. \A p \in Parts : Held'[p] \subseteq Held[p]
  BY DEF Held, Stored, objectVars
<1> QED BY <1>1, <1>2, <1>3

LEMMA IdleReqOK == ReqOK(IdleReq) /\ IdleReq \in ReqType /\ IdleReq.up = None /\ IdleReq.at = "idle"
  BY DEF IdleReq, ReqType, ReqOK

\* One call goes on, and nothing else is touched.
LEMMA BookGoesOn ==
    ASSUME BookInv, NEW r \in Requests, NEW q, ReqOK(q), req' = [req EXCEPT ![r] = q],
           UNCHANGED <<used, live, sums, acked, apart>>, singles' \in 0..MaxWrites
    PROVE  BookInv'
<1>1. \A v \in Requests : req'[v] = IF v = r THEN q ELSE req[v]
  BY DEF BookInv
<1>2. \A v \in Requests : ReqOK(req'[v])
  BY <1>1 DEF BookInv
<1>3. \A v \in Requests : ReqOK(req[v])'
  BY <1>2 DEF ReqOK
<1>4. req' \in [Requests -> ReqType]
  BY DEF BookInv, ReqOK
<1> QED BY <1>3, <1>4 DEF BookInv

\* An upload that is dropped is no longer live, and what is known of it is kept as long
\* as a call of it is in flight.
LEMMA ForgetBook ==
    ASSUME BookInv, NEW u \in Uploads, Forget(u),
           req' \in [Requests -> ReqType],
           \A r \in Requests : req'[r] \in {req[r], IdleReq}
    PROVE  /\ BookInv'
           /\ apart' = apart /\ live' \subseteq live /\ used' = used
           /\ \A v \in Uploads, p \in Parts : sums'[v][p] # None => sums[v][p] # None
<1>1. live' \subseteq live /\ UNCHANGED <<used, singles, apart>>
  BY DEF Forget
<1>2. CASE \E r \in Requests : req'[r].up = u
  <2>1. UNCHANGED <<sums, acked>>
    BY <1>2 DEF Forget
  <2>2. \A r \in Requests : ReqOK(req'[r])
    BY IdleReqOK DEF BookInv
  <2>3. \A r \in Requests : ReqOK(req[r])'
    BY <1>1, <2>1, <2>2 DEF ReqOK
  <2> QED BY <1>1, <2>1, <2>3 DEF BookInv
<1>3. CASE ~\E r \in Requests : req'[r].up = u
  <2>1. sums' = [sums EXCEPT ![u] = NoSums] /\ acked' = [acked EXCEPT ![u] = {}]
    BY <1>3 DEF Forget
  <2>2. \A v \in Uploads : v # u => acked'[v] = acked[v] /\ sums'[v] = sums[v]
    BY <2>1 DEF BookInv
  <2>3. acked'[u] = {} /\ sums'[u] = NoSums
    BY <2>1 DEF BookInv
  <2>4. \A r \in Requests : ReqOK(req'[r]) /\ req'[r].up # u
    BY <1>3, IdleReqOK DEF BookInv
  <2>5. \A r \in Requests : ReqOK(req[r])'
    <3> SUFFICES ASSUME NEW r \in Requests PROVE ReqOK(req[r])'
      OBVIOUS
    <3>1. ReqOK(req'[r]) /\ req'[r].up # u
      BY <2>4
    <3>2. req'[r].at = "commit" => req'[r].up \in Uploads
      BY <3>1 DEF ReqOK, BookInv
    <3> QED BY <1>1, <2>2, <3>1, <3>2 DEF ReqOK
  <2>6. /\ sums' \in [Uploads -> [Parts -> Blocks \cup {None}]]
        /\ acked' \in [Uploads -> SUBSET Parts]
    BY <2>1 DEF BookInv, NoSums
  <2>7. \A p \in Parts : sums'[u][p] = None
    BY <2>3 DEF NoSums
  <2>8. \A v \in Uploads, p \in Parts :
          /\ sums'[v][p] \in {None, Block(v, p)}
          /\ p \in acked'[v] => sums'[v][p] # None
          /\ v \notin used => sums'[v][p] = None
          /\ sums'[v][p] # None => sums[v][p] # None
    BY <2>2, <2>3, <2>7 DEF BookInv
  <2> QED BY <1>1, <2>5, <2>6, <2>8 DEF BookInv
<1> QED BY <1>2, <1>3

LEMMA InitiateKeeps ==
    ASSUME BlobInv, NEW u \in Uploads, InitiateMultipartUpload(u)
    PROVE  BlobInv'
<1> USE DEF BlobInv
<1>1. /\ u \notin used /\ used' = used \cup {u} /\ live' = live \cup {u}
      /\ UNCHANGED <<objectVars, sums, req, singles, acked>>
      /\ apart' = IF live \cup InFlight = {} THEN apart \cup {u} ELSE apart \ (live \cup InFlight)
  BY DEF InitiateMultipartUpload
<1>2. PutInv' /\ StoreInv'
  BY <1>1, ObjectSame
<1>3. BookInv'
  <2>1. IsFiniteSet(used')
    BY <1>1, FS_AddElement DEF BookInv
  <2>2. \A r \in Requests : ReqOK(req[r])'
    BY <1>1 DEF BookInv, ReqOK
  <2> QED BY <1>1, <2>1, <2>2 DEF BookInv
<1>4. PutApart'
  BY <1>1 DEF PutApart, objectVars
<1>5. ASSUME NEW v \in apart', v \in live' \/ Calling(v)'
      PROVE  /\ live' \subseteq {v}
             /\ \A r \in Requests : req'[r].up \in {v, None}
             /\ \A p \in Parts : sums'[v][p] # None \/ Recording(v, p)' =>
                    Held'[p] \subseteq {Block(v, p)}
  <2>1. v \in Uploads /\ v # None
    BY <1>1, <1>5, UploadAssumption DEF BookInv
  <2>2. Calling(v)' => v \in InFlight
    BY <1>1, <2>1 DEF Calling, InFlight
  <2>3. CASE live \cup InFlight = {}
    <3>1. v = u /\ live' = {u}
      BY <1>1, <1>5, <2>2, <2>3
    <3>2. \A r \in Requests : req'[r].up = None
      BY <1>1, <2>3 DEF InFlight
    <3>3. \A p \in Parts : sums'[u][p] = None /\ ~Recording(u, p)'
      BY <1>1, <2>1, <3>1, <3>2 DEF BookInv, Recording
    <3> QED BY <3>1, <3>2, <3>3
  <2>4. CASE live \cup InFlight # {}
    BY <1>1, <1>5, <2>2, <2>4 DEF BookInv
  <2> QED BY <2>3, <2>4
<1>6. ApartInv'
  BY <1>5 DEF ApartInv
<1> QED BY <1>2, <1>3, <1>4, <1>6

LEMMA AbortKeeps ==
    ASSUME BlobInv, NEW u \in Uploads, AbortMultipartUpload(u)
    PROVE  BlobInv'
<1> USE DEF BlobInv
<1>1. UNCHANGED objectVars /\ req' = req /\ Forget(u)
  BY DEF AbortMultipartUpload
<1>2. /\ BookInv' /\ apart' = apart /\ live' \subseteq live /\ used' = used
      /\ \A v \in Uploads, p \in Parts : sums'[v][p] # None => sums[v][p] # None
  BY <1>1, ForgetBook DEF BookInv
<1>3. PutInv' /\ StoreInv' /\ \A p \in Parts : Held'[p] \subseteq Held[p]
  BY <1>1, <1>2, ObjectSame
<1>4. PutApart'
  BY <1>1 DEF PutApart, objectVars
<1>5. apart \subseteq Uploads
  BY DEF BookInv
<1>6. ApartInv'
  BY <1>1, <1>2, <1>3, <1>5, ApartLess
<1> QED BY <1>2, <1>3, <1>4, <1>6

\* A call of an upload goes on, whatever it does to the store.
LEMMA CallGoesOn ==
    ASSUME BlobInv, NEW r \in Requests, NEW q, ReqOK(q), req[r].at # "single",
           req' = [req EXCEPT ![r] = q], q.up \in {req[r].up, None} \cup live,
           q.at # "record", UNCHANGED <<uploads, history>>,
           \A w \in Requests : put'[w].at = put[w].at,
           \A p \in Parts : Held'[p] \subseteq Held[p]
    PROVE  BookInv' /\ PutApart' /\ ApartInv'
<1> USE DEF BlobInv, uploads, history
<1>1. BookInv'
  BY BookGoesOn DEF BookInv
<1>2. \A v \in Requests : req'[v] = IF v = r THEN q ELSE req[v]
  BY DEF BookInv
<1>3. PutApart'
  BY <1>2 DEF PutApart
<1>4. ApartInv'
  BY <1>2, ApartLess
<1> QED BY <1>1, <1>3, <1>4

LEMMA UploadPartKeeps ==
    ASSUME BlobInv, NEW r \in Requests, UploadPart(r)
    PROVE  BlobInv'
<1> USE DEF BlobInv
<1>1. PICK u \in live, p \in Parts :
         req' = [req EXCEPT ![r] = [IdleReq EXCEPT !.at = "stage", !.up = u, !.part = p]]
  BY DEF UploadPart
<1> DEFINE q == [IdleReq EXCEPT !.at = "stage", !.up = u, !.part = p]
<1>2. u \in used /\ u \in Uploads
  BY DEF BookInv
<1>3. q \in ReqType /\ q.at = "stage" /\ q.up = u /\ q.part = p
  BY <1>2, IdleReqOK DEF IdleReq, ReqType
<1>4. req[r].at = "idle" /\ UNCHANGED <<objectVars, uploads, history>> /\ req' = [req EXCEPT ![r] = q]
  BY <1>1 DEF UploadPart, Idle
<1> HIDE DEF q
<1>5. ReqOK(q)
  BY <1>2, <1>3 DEF ReqOK
<1>6. PutInv' /\ StoreInv' /\ \A x \in Parts : Held'[x] \subseteq Held[x]
  BY <1>4, ObjectSame DEF uploads
<1>7. BookInv' /\ PutApart' /\ ApartInv'
  BY <1>3, <1>4, <1>5, <1>6, CallGoesOn DEF objectVars
<1> QED BY <1>6, <1>7

LEMMA CompleteKeeps ==
    ASSUME BlobInv, NEW r \in Requests, CompleteMultipartUpload(r)
    PROVE  BlobInv'
<1> USE DEF BlobInv
<1>1. PICK u \in live :
         req' = [req EXCEPT ![r] = [IdleReq EXCEPT !.at = "commit", !.up = u, !.before = acked[u]]]
  BY DEF CompleteMultipartUpload
<1> DEFINE q == [IdleReq EXCEPT !.at = "commit", !.up = u, !.before = acked[u]]
<1>2. u \in used /\ u \in Uploads /\ acked[u] \in SUBSET Parts
  BY DEF BookInv
<1>3. q \in ReqType /\ q.at = "commit" /\ q.up = u /\ q.before = acked[u]
  BY <1>2, IdleReqOK DEF IdleReq, ReqType
<1>4. req[r].at = "idle" /\ UNCHANGED <<objectVars, uploads, history>> /\ req' = [req EXCEPT ![r] = q]
  BY <1>1 DEF CompleteMultipartUpload, Idle
<1> HIDE DEF q
<1>5. ReqOK(q)
  BY <1>2, <1>3 DEF ReqOK
<1>6. PutInv' /\ StoreInv' /\ \A x \in Parts : Held'[x] \subseteq Held[x]
  BY <1>4, ObjectSame DEF uploads
<1>7. BookInv' /\ PutApart' /\ ApartInv'
  BY <1>3, <1>4, <1>5, <1>6, CallGoesOn DEF objectVars
<1> QED BY <1>6, <1>7

LEMMA CommitFailsKeeps ==
    ASSUME BlobInv, NEW r \in Requests, CommitFails(r)
    PROVE  BlobInv'
<1> USE DEF BlobInv
<1>1. /\ req[r].at = "commit" /\ req' = [req EXCEPT ![r] = IdleReq]
      /\ UNCHANGED <<objectVars, uploads, history>>
  BY DEF CommitFails, Done
<1>2. PutInv' /\ StoreInv' /\ \A x \in Parts : Held'[x] \subseteq Held[x]
  BY <1>1, ObjectSame DEF uploads
<1>3. BookInv' /\ PutApart' /\ ApartInv'
  BY <1>1, <1>2, IdleReqOK, CallGoesOn DEF objectVars
<1> QED BY <1>2, <1>3

\* The block that is staged is all that the store holds of its part.
LEMMA StageStore ==
    ASSUME StoreInv, BookInv, NEW r \in Requests, req[r].at = "stage", Stage(r),
           blob' = blob, used' = used
    PROVE  /\ StoreInv' /\ req[r].part \in Parts /\ req[r].up \in used
           /\ \A p \in Parts : Held'[p] = IF p = req[r].part
                                          THEN {Block(req[r].up, p)} ELSE Held[p]
<1>1. req[r].part \in Parts /\ req[r].up \in used
  BY DEF BookInv, ReqOK
<1>2. staged' = [q \in DOMAIN staged \cup {req[r].part} |->
                    IF q = req[r].part THEN Block(req[r].up, req[r].part) ELSE staged[q]]
  BY DEF Stage
<1>3. StoreInv'
  BY <1>1, <1>2 DEF StoreInv
<1>4. \A p \in Parts : Held'[p] = IF p = req[r].part THEN {Block(req[r].up, p)} ELSE Held[p]
  BY <1>2 DEF Held, Stored
<1> QED BY <1>1, <1>3, <1>4

\* Whoever stages a block while an upload is apart stages one of that upload.
LEMMA StageApart ==
    ASSUME StoreInv, BookInv, ApartInv, NEW r \in Requests, req[r].at = "stage",
           NEW q, req' = [req EXCEPT ![r] = q],
           \/ q = [req[r] EXCEPT !.at = "record"] /\ Stage(r) /\ blob' = blob
           \/ q = IdleReq /\ Stage(r) /\ blob' = blob
           \/ q = IdleReq /\ UNCHANGED <<staged, blob>>,
           UNCHANGED <<uploads, history>>
    PROVE  ApartInv'
<1>1. req[r].part \in Parts /\ req[r].up \in used /\ req[r].up # None
  BY UploadAssumption DEF BookInv, ReqOK
<1>2. q.up \in {req[r].up, None} /\ (q.at = "record" => q.part = req[r].part)
  BY IdleReqOK DEF BookInv, ReqType
<1>3. \A v \in Requests : req'[v] = IF v = r THEN q ELSE req[v]
  BY DEF BookInv
<1>4. \A p \in Parts : Held'[p] \in {Held[p], {Block(req[r].up, p)}}
  <2>1. CASE Stage(r) /\ blob' = blob
    BY <2>1, StageStore DEF uploads
  <2>2. CASE UNCHANGED <<staged, blob>>
    BY <2>2 DEF Held, Stored
  <2> QED BY <2>1, <2>2
<1>5. q.at = "record" => Held'[req[r].part] = {Block(req[r].up, req[r].part)}
  BY <1>1, StageStore, IdleReqOK DEF uploads
<1>6. ASSUME NEW u \in apart, u \in live \/ Calling(u)'
      PROVE  /\ live \subseteq {u}
             /\ \A v \in Requests : req'[v].up \in {u, None}
             /\ \A p \in Parts : sums[u][p] # None \/ Recording(u, p)' =>
                    Held'[p] \subseteq {Block(u, p)}
  <2>1. u # None
    BY UploadAssumption DEF BookInv
  <2>2. u \in live \/ Calling(u)
    BY <1>2, <1>3, <1>6, <2>1 DEF Calling
  <2>3. /\ live \subseteq {u}
        /\ \A v \in Requests : req[v].up \in {u, None}
        /\ \A p \in Parts : sums[u][p] # None \/ Recording(u, p) => Held[p] \subseteq {Block(u, p)}
    BY <2>2 DEF ApartInv
  <2>4. req[r].up = u
    BY <1>1, <2>3
  <2>5. \A v \in Requests : req'[v].up \in {u, None}
    BY <1>2, <1>3, <2>3, <2>4
  <2>6. ASSUME NEW p \in Parts, sums[u][p] # None \/ Recording(u, p)'
        PROVE  Held'[p] \subseteq {Block(u, p)}
    <3>1. CASE Held'[p] = {Block(req[r].up, p)}
      BY <2>4, <3>1
    <3>2. CASE Held'[p] = Held[p] /\ (sums[u][p] # None \/ Recording(u, p))
      BY <2>3, <3>2
    <3>3. CASE Recording(u, p)' /\ ~Recording(u, p)
      <4>1. q.at = "record" /\ q.part = p
        BY <1>3, <3>3 DEF Recording
      <4> QED BY <1>2, <1>5, <2>4, <4>1
    <3> QED BY <1>4, <2>6, <3>1, <3>2, <3>3
  <2> QED BY <2>3, <2>5, <2>6
<1> QED BY <1>6 DEF ApartInv, uploads, history

LEMMA StageKeeps ==
    ASSUME BlobInv, NEW r \in Requests, StageBlock(r) \/ StageBlockFails(r)
    PROVE  BlobInv'
<1> USE DEF BlobInv
<1> DEFINE q == IF StageBlock(r) THEN [req[r] EXCEPT !.at = "record"] ELSE IdleReq
<1>1. /\ req[r].at = "stage" /\ UNCHANGED <<blob, src, put, uploads, history>>
      /\ req' = [req EXCEPT ![r] = q]
      /\ \/ q = [req[r] EXCEPT !.at = "record"] /\ Stage(r)
         \/ q = IdleReq /\ Stage(r)
         \/ q = IdleReq /\ UNCHANGED staged
  BY DEF StageBlock, StageBlockFails, Done, BookInv
<1> HIDE DEF q
<1>2. ReqOK(q)
  <2>1. ReqOK(req[r])
    BY DEF BookInv
  <2>2. CASE q = [req[r] EXCEPT !.at = "record"]
    <3>1. /\ q \in ReqType /\ q.at = "record" /\ q.up = req[r].up /\ q.part = req[r].part
      BY <2>1, <2>2 DEF ReqOK, ReqType
    <3> QED BY <1>1, <2>1, <3>1 DEF ReqOK
  <2> QED BY <1>1, <2>2, IdleReqOK
<1>3. BookInv'
  BY <1>1, <1>2, BookGoesOn DEF BookInv, uploads, history
<1>4. ApartInv'
  BY <1>1, StageApart
<1>5. PutInv'
  BY <1>1 DEF PutInv
<1>6. StoreInv'
  <2>1. CASE Stage(r)
    BY <1>1, <2>1, StageStore DEF uploads
  <2>2. CASE UNCHANGED staged
    BY <1>1, <2>2 DEF StoreInv, uploads
  <2> QED BY <1>1, <2>1, <2>2
<1>7. PutApart'
  <2>1. \A v \in Requests : req'[v] = IF v = r THEN q ELSE req[v]
    BY <1>1 DEF BookInv
  <2> QED BY <1>1, <2>1 DEF PutApart
<1> QED BY <1>3, <1>4, <1>5, <1>6, <1>7

LEMMA RecordKeeps ==
    ASSUME BlobInv, NEW r \in Requests, RecordPart(r)
    PROVE  BlobInv'
<1> USE DEF BlobInv
<1> DEFINE u == req[r].up
           p == req[r].part
<1>1. /\ req[r].at = "record" /\ req' = [req EXCEPT ![r] = IdleReq]
      /\ sums' = [sums EXCEPT ![u][p] = Block(u, p)]
      /\ acked' = [acked EXCEPT ![u] = @ \cup {p}]
      /\ UNCHANGED <<objectVars, used, live, singles, apart>>
  BY DEF RecordPart, Done
<1>2. u \in used /\ u \in Uploads /\ p \in Parts /\ Block(u, p) \in Blocks /\ Block(u, p) # None
  <2>1. u \in used /\ u \in Uploads /\ p \in Parts
    BY <1>1 DEF BookInv, ReqOK
  <2> QED BY <2>1, BlockFacts
<1>3. \A v \in Uploads, x \in Parts :
         sums'[v][x] = IF v = u /\ x = p THEN Block(u, p) ELSE sums[v][x]
  BY <1>1, <1>2 DEF BookInv
<1>4. \A v \in Uploads : acked'[v] = IF v = u THEN acked[u] \cup {p} ELSE acked[v]
  BY <1>1, <1>2 DEF BookInv
<1>5. \A v \in Requests : req'[v] = IF v = r THEN IdleReq ELSE req[v]
  BY <1>1 DEF BookInv
<1>6. /\ sums' \in [Uploads -> [Parts -> Blocks \cup {None}]]
      /\ acked' \in [Uploads -> SUBSET Parts]
      /\ req' \in [Requests -> ReqType]
  BY <1>1, <1>2, IdleReqOK DEF BookInv
<1>7. \A v \in Requests : ReqOK(req[v])'
  <2> SUFFICES ASSUME NEW v \in Requests PROVE ReqOK(req[v])'
    OBVIOUS
  <2>1. ReqOK(req'[v])
    BY <1>5, IdleReqOK DEF BookInv
  <2>2. req'[v].at = "commit" => req'[v].up \in Uploads /\ acked[req'[v].up] \subseteq acked'[req'[v].up]
    BY <1>4, <2>1 DEF ReqOK, BookInv
  <2> QED BY <1>1, <2>1, <2>2 DEF ReqOK
<1> HIDE DEF u, p
<1>8. BookInv'
  <2>1. \A v \in Uploads, x \in Parts :
          /\ sums'[v][x] \in {None, Block(v, x)}
          /\ x \in acked'[v] => sums'[v][x] # None
          /\ v \notin used => sums'[v][x] = None
    BY <1>2, <1>3, <1>4 DEF BookInv
  <2> QED BY <1>1, <1>6, <1>7, <2>1 DEF BookInv
<1>9. PutInv' /\ StoreInv' /\ \A x \in Parts : Held'[x] \subseteq Held[x]
  BY <1>1, ObjectSame
<1>10. PutApart'
  BY <1>1, <1>5 DEF PutApart, objectVars
<1>11. Recording(u, p)
  BY <1>1 DEF Recording, u, p
<1>12. ApartInv'
  <2>1. \A v \in apart, x \in Parts : sums'[v][x] # None => sums[v][x] # None \/ Recording(v, x)
    BY <1>3, <1>11 DEF BookInv
  <2> QED BY <1>1, <1>5, <1>9, <2>1, IdleReqOK, ApartLess
<1> QED BY <1>8, <1>9, <1>10, <1>12

\* What a commit that can be made makes of the blob.
LEMMA CommitFacts ==
    ASSUME BlobInv, NEW r \in Requests, CanCommit(r),
           CommitBlockList(r, InOrder(Recorded(req[r].up))), src' = src, used' = used
    PROVE  /\ req[r].up \in used /\ ~Busy(r)
           /\ Recorded(req[r].up) \in SUBSET Parts
           /\ PutInv' /\ StoreInv'
           /\ \A w \in Requests : put'[w].at = put[w].at
           /\ \A p \in Parts : Held'[p] \subseteq Held[p]
           /\ DOMAIN blob'.content = DOMAIN InOrder(Recorded(req[r].up))
           /\ \A i \in DOMAIN blob'.content :
                 /\ blob'.content[i] \in Held[InOrder(Recorded(req[r].up))[i]]
                 /\ blob'.content[i][2] = InOrder(Recorded(req[r].up))[i]
<1> USE DEF BlobInv
<1> DEFINE S == Recorded(req[r].up)
<1>1. req[r].up \in used
  BY DEF CanCommit, BookInv, ReqOK
<1>2. S \in SUBSET Parts
  BY DEF Recorded
<1>3. \A p \in S : Stored(p) # {}
  BY DEF CanCommit
<1>4. ~Busy(r)
  BY DEF CanCommit, PutApart, Busy
<1>5. put' = Met(r)
  BY DEF CommitBlockList
<1>6. PutInv'
  BY <1>4, <1>5, MetKeeps
<1>7. \A w \in Requests : put'[w].at = put[w].at
  BY <1>5 DEF Met, PutInv, Calls
<1> HIDE DEF S
<1>8. /\ StoreInv'
      /\ \A p \in Parts : Held'[p] \subseteq Held[p]
      /\ DOMAIN blob'.content = DOMAIN InOrder(S)
      /\ \A i \in DOMAIN InOrder(S) : /\ blob'.content[i] \in Held[InOrder(S)[i]]
                                      /\ blob'.content[i][2] = InOrder(S)[i]
  <2>1. CommitBlockList(r, InOrder(S)) /\ used \subseteq Uploads
    BY DEF S, BookInv
  <2> QED BY <1>2, <1>3, <2>1, CommitStore
<1> QED BY <1>1, <1>2, <1>4, <1>6, <1>7, <1>8 DEF S

LEMMA CommitKeeps ==
    ASSUME BlobInv, NEW r \in Requests, Commit(r) \/ CommitUnanswered(r)
    PROVE  BlobInv'
<1> USE DEF BlobInv
<1> DEFINE u == req[r].up
           parts == InOrder(Recorded(u))
           next == [req[r] EXCEPT !.at = "drop", !.sums = [i \in DOMAIN parts |-> sums[u][parts[i]]]]
           q == IF Commit(r) THEN next ELSE IdleReq
<1>1. /\ CanCommit(r) /\ CommitBlockList(r, parts) /\ src' = src
      /\ UNCHANGED <<uploads, history>> /\ req[r].at = "commit"
  BY DEF Commit, CommitUnanswered, CanCommit
<1>2. req' = [req EXCEPT ![r] = q]
  <2>1. CASE Commit(r)
    <3>1. req' = [req EXCEPT ![r].at = "drop", ![r].sums = [i \in DOMAIN parts |-> sums[u][parts[i]]]]
      BY <2>1 DEF Commit
    <3> QED BY <2>1, <3>1 DEF BookInv
  <2>2. CASE ~Commit(r)
    BY <2>2 DEF CommitUnanswered, Done
  <2> QED BY <2>1, <2>2
<1>3. /\ u \in used /\ Recorded(u) \in SUBSET Parts
      /\ PutInv' /\ StoreInv'
      /\ \A w \in Requests : put'[w].at = put[w].at
      /\ \A p \in Parts : Held'[p] \subseteq Held[p]
  BY <1>1, CommitFacts DEF uploads
<1>4. [i \in DOMAIN parts |-> sums[u][parts[i]]] \in Seq(Blocks)
  <2>1. /\ Cardinality(Recorded(u)) \in Nat /\ DOMAIN parts = 1..Cardinality(Recorded(u))
        /\ parts \in Seq(Recorded(u))
    BY <1>3, FromSmallestFacts, PartsNat DEF InOrder
  <2>2. \A i \in DOMAIN parts : parts[i] \in Recorded(u)
    BY <2>1
  <2>3. \A p \in Recorded(u) : sums[u][p] \in Blocks
    BY <1>3 DEF Recorded, BookInv
  <2> QED BY <2>1, <2>2, <2>3
<1>5. ReqOK(q) /\ q.up \in {req[r].up, None} /\ q.at # "record"
  <2>1. ReqOK(req[r])
    BY DEF BookInv
  <2> HIDE DEF parts
  <2>2. next \in ReqType /\ next.at = "drop" /\ next.up = req[r].up
    BY <1>4, <2>1 DEF ReqOK, ReqType
  <2> HIDE DEF next
  <2>3. ReqOK(next)
    BY <1>3, <2>2 DEF ReqOK
  <2> QED BY <2>2, <2>3, IdleReqOK
<1> HIDE DEF q
<1>6. BookInv' /\ PutApart' /\ ApartInv'
  BY <1>1, <1>2, <1>3, <1>5, CallGoesOn
<1> QED BY <1>3, <1>6

LEMMA DropKeeps ==
    ASSUME BlobInv, NEW r \in Requests, DropUpload(r)
    PROVE  BlobInv'
<1> USE DEF BlobInv
<1>1. /\ UNCHANGED objectVars /\ req' = [req EXCEPT ![r] = IdleReq] /\ Forget(req[r].up)
      /\ req[r].at = "drop"
  BY DEF DropUpload, Done
<1>2. req[r].up \in Uploads
  BY <1>1 DEF BookInv, ReqOK
<1>3. \A v \in Requests : req'[v] = IF v = r THEN IdleReq ELSE req[v]
  BY <1>1 DEF BookInv
<1>4. req' \in [Requests -> ReqType]
  BY <1>1, IdleReqOK DEF BookInv
<1>5. /\ BookInv' /\ apart' = apart /\ live' \subseteq live /\ used' = used
      /\ \A v \in Uploads, p \in Parts : sums'[v][p] # None => sums[v][p] # None
  BY <1>1, <1>2, <1>3, <1>4, ForgetBook
<1>6. PutInv' /\ StoreInv' /\ \A p \in Parts : Held'[p] \subseteq Held[p]
  BY <1>1, <1>5, ObjectSame
<1>7. PutApart'
  BY <1>1, <1>3 DEF PutApart, objectVars
<1>8. apart \subseteq Uploads
  BY DEF BookInv
<1>9. ApartInv'
  BY <1>3, <1>5, <1>6, <1>8, IdleReqOK, ApartLess
<1> QED BY <1>5, <1>6, <1>7, <1>9

LEMMA SingleKeeps ==
    ASSUME BlobInv, NEW r \in Requests, PutObject(r) \/ PutAnswered(r)
    PROVE  BlobInv'
<1> USE DEF BlobInv
<1> DEFINE q == IF PutObject(r) THEN [IdleReq EXCEPT !.at = "single"] ELSE IdleReq
<1>1. /\ UNCHANGED <<blob, staged, src, used, live, sums, acked, apart>>
      /\ req' = [req EXCEPT ![r] = q]
  BY DEF PutObject, PutAnswered, Start, StartCopy, uploads, history, Done
<1>2. /\ ReqOK(q) /\ q.up = None /\ q.at \in {"single", "idle"}
      /\ PutObject(r) => q.at = "single"
  BY IdleReqOK DEF ReqOK, ReqType
<1> HIDE DEF q
<1>3. \A v \in Requests : req'[v] = IF v = r THEN q ELSE req[v]
  BY <1>1 DEF BookInv
<1>4. BookInv'
  <2>1. singles' \in 0..MaxWrites
    <3>1. CASE PutObject(r)
      <4>1. Cardinality(used) \in Nat
        BY FS_CardinalityType DEF BookInv
      <4> QED BY <3>1, <4>1, MultipartAssumption DEF PutObject, MayWrite, BookInv
    <3>2. CASE PutAnswered(r)
      BY <3>2 DEF PutAnswered, history, BookInv
    <3> QED BY <3>1, <3>2
  <2> QED BY <1>1, <1>2, <2>1, BookGoesOn
<1>5. StoreInv' /\ \A p \in Parts : Held'[p] \subseteq Held[p]
  BY <1>1 DEF StoreInv, Held, Stored
<1>6. ApartInv'
  BY <1>1, <1>2, <1>3, <1>5, ApartLess
<1>7. PutInv' /\ \A w \in Requests : w # r => put'[w].at = put[w].at
  <2>1. CASE PutObject(r)
    <3>1. ~Busy(r) /\ (Start(r) \/ StartCopy(r))
      BY <2>1 DEF PutObject, PutApart, Idle, Busy
    <3>2. \A w \in Requests : w # r => put'[w].at = put[w].at
      BY <3>1 DEF Start, StartCopy, Enters, Met, PutInv, Calls
    <3> QED BY <3>1, <3>2, StartKeeps
  <2>2. CASE PutAnswered(r)
    BY <2>2, PutAnsweredKeeps DEF PutAnswered, Becomes, PutInv
  <2> QED BY <2>1, <2>2
<1>8. PutApart'
  <2>1. ~PutObject(r) => put'[r].at = "idle"
    BY DEF PutAnswered, Becomes, PutInv, NoPut
  <2> QED BY <1>2, <1>3, <1>7, <2>1 DEF PutApart
<1> QED BY <1>4, <1>5, <1>6, <1>7, <1>8

LEMMA ObjectKeeps ==
    ASSUME BlobInv, Overwrite \/ Delete \/ \E r \in Requests : PutStep(r),
           UNCHANGED <<uploads, req, history>>
    PROVE  BlobInv'
<1> USE DEF BlobInv
<1>1. StoreInv' /\ \A p \in Parts : Held'[p] \subseteq Held[p]
  BY ObjectStore DEF uploads
<1>2. PutInv'
  BY OverwriteKeeps, DeleteKeeps, PutStepKeeps DEF Overwrite
<1>3. BookInv'
  <2>1. \A r \in Requests : ReqOK(req[r])'
    BY DEF ReqOK, BookInv, uploads, history
  <2> QED BY <2>1 DEF BookInv, uploads, history
<1>4. ApartInv'
  BY <1>1, ApartLess DEF uploads, history
<1>5. PutApart'
  <2>1. ASSUME NEW w \in Requests PROVE put'[w].at # "idle" => put[w].at # "idle"
    <3>1. CASE Overwrite
      BY <3>1 DEF Overwrite, PutInv, Calls
    <3>2. CASE Delete
      BY <3>2 DEF Delete, PutInv, Calls
    <3>3. CASE \E r \in Requests : PutStep(r)
      <4>1. PICK r \in Requests : PutStep(r)
        BY <3>3
      <4>2. put[r].at # "idle"
        BY <4>1 DEF PutStep, Open, ReadFull, UploadBuffer, UploadStream, SetHTTPHeaders, Fail
      <4>3. \E p : put' = [put EXCEPT ![r] = p]
        BY <4>1 DEF PutStep, Open, ReadFull, UploadBuffer, UploadStream, SetHTTPHeaders, Fail,
                    Commits, Becomes, Fails
      <4> QED BY <4>2, <4>3 DEF PutInv
    <3> QED BY <3>1, <3>2, <3>3
  <2> QED BY <2>1 DEF PutApart
<1> QED BY <1>1, <1>2, <1>3, <1>4, <1>5

LEMMA RestartKeeps ==
    ASSUME BlobInv, Restart
    PROVE  BlobInv'
<1> USE DEF BlobInv
<1>1. /\ live' = {} /\ req' = [r \in Requests |-> IdleReq] /\ put' = [r \in Requests |-> NoPut]
      /\ sums' = [u \in Uploads |-> NoSums] /\ acked' = [u \in Uploads |-> {}]
      /\ UNCHANGED <<blob, staged, src, used, singles, apart>>
  BY DEF Restart
<1>2. PutInv'
  BY <1>1, NoPutOK DEF PutInv
<1>3. StoreInv'
  BY <1>1 DEF StoreInv
<1>4. BookInv'
  <2>1. \A r \in Requests : ReqOK(req[r])'
    <3>1. \A r \in Requests : ReqOK(req'[r]) /\ req'[r].at # "commit"
      BY <1>1, IdleReqOK
    <3> QED BY <1>1, <3>1 DEF ReqOK
  <2>2. req' \in [Requests -> ReqType]
    BY <1>1, IdleReqOK
  <2> QED BY <1>1, <2>1, <2>2 DEF BookInv, NoSums
<1>5. PutApart'
  BY <1>1 DEF PutApart, NoPut
<1>6. ApartInv'
  <2>1. \A u \in apart : u # None
    BY UploadAssumption DEF BookInv
  <2> QED BY <1>1, <2>1, IdleReqOK DEF ApartInv, Calling
<1> QED BY <1>2, <1>3, <1>4, <1>5, <1>6

LEMMA BlobInvStep == BlobInv /\ [Next]_vars => BlobInv'
<1> SUFFICES ASSUME BlobInv, [Next]_vars PROVE BlobInv'
  OBVIOUS
<1>1. CASE \E u \in Uploads : InitiateMultipartUpload(u) \/ AbortMultipartUpload(u)
  BY <1>1, InitiateKeeps, AbortKeeps
<1>2. CASE \E r \in Requests :
            \/ UploadPart(r) \/ StageBlock(r) \/ StageBlockFails(r) \/ RecordPart(r)
            \/ CompleteMultipartUpload(r) \/ Commit(r) \/ CommitUnanswered(r)
            \/ CommitFails(r) \/ DropUpload(r) \/ PutObject(r) \/ PutAnswered(r)
  BY <1>2, UploadPartKeeps, StageKeeps, RecordKeeps, CompleteKeeps, CommitKeeps,
     CommitFailsKeeps, DropKeeps, SingleKeeps
<1>3. CASE /\ Overwrite \/ Delete \/ \E r \in Requests : PutStep(r)
           /\ UNCHANGED <<uploads, req, history>>
  BY <1>3, ObjectKeeps
<1>4. CASE Restart
  BY <1>4, RestartKeeps
<1>5. CASE UNCHANGED vars
  <2>1. UNCHANGED <<objectVars, req>> /\ UNCHANGED <<uploads, history>>
    BY <1>5 DEF vars
  <2>2. PutInv' /\ StoreInv' /\ \A p \in Parts : Held'[p] \subseteq Held[p]
    BY <2>1, ObjectSame DEF BlobInv, uploads
  <2>3. BookInv'
    <3>1. \A r \in Requests : ReqOK(req[r])'
      BY <2>1 DEF ReqOK, BookInv, BlobInv, uploads, history
    <3> QED BY <2>1, <3>1 DEF BookInv, BlobInv, uploads, history
  <2>4. ApartInv'
    BY <2>1, <2>2, ApartLess DEF BlobInv, uploads, history
  <2>5. PutApart'
    BY <2>1 DEF PutApart, BlobInv, objectVars
  <2> QED BY <2>2, <2>3, <2>4, <2>5 DEF BlobInv
<1> QED BY <1>1, <1>2, <1>3, <1>4, <1>5 DEF Next

-----------------------------------------------------------------------------
(* What follows.                                                           *)

LEMMA Inductive == Spec => []BlobInv
  BY BlobInvInit, BlobInvStep, PTL DEF Spec

\* Every variable keeps its type, and an answered part is recorded.
THEOREM TypeCorrect == Spec => []TypeOK
  BY Inductive, BlobInvType, PTL

LEMMA CommittingIsCommit ==
    ASSUME BlobInv, [Next]_vars, NEW r \in Requests, Committing(r)
    PROVE  Commit(r) /\ req[r].at = "commit"
<1> USE DEF BlobInv
<1>1. req' # req /\ req'[r].at = "drop" /\ req[r].at # "drop"
  BY DEF Committing
<1>2. ~Restart
  BY <1>1, IdleReqOK DEF Restart
<1>3. PICK x \in Requests :
         \/ UploadPart(x) \/ StageBlock(x) \/ StageBlockFails(x) \/ RecordPart(x)
         \/ CompleteMultipartUpload(x) \/ Commit(x) \/ CommitUnanswered(x)
         \/ CommitFails(x) \/ DropUpload(x) \/ PutObject(x) \/ PutAnswered(x)
  BY <1>1, <1>2 DEF Next, vars, InitiateMultipartUpload, AbortMultipartUpload
<1>4. CASE Done(x)
  BY <1>1, <1>4, IdleReqOK DEF Done, BookInv
<1>5. CASE UploadPart(x) \/ CompleteMultipartUpload(x) \/ PutObject(x)
  <2>1. req'[x].at \in {"stage", "commit", "single"} /\ \A v \in Requests : v # x => req'[v] = req[v]
    <3>1. CASE UploadPart(x)
      <4>1. PICK u \in live, p \in Parts :
               req' = [req EXCEPT ![x] = [IdleReq EXCEPT !.at = "stage", !.up = u, !.part = p]]
        BY <3>1 DEF UploadPart
      <4> QED BY <4>1 DEF BookInv, IdleReq
    <3>2. CASE CompleteMultipartUpload(x)
      <4>1. PICK u \in live :
               req' = [req EXCEPT ![x] = [IdleReq EXCEPT !.at = "commit", !.up = u, !.before = acked[u]]]
        BY <3>2 DEF CompleteMultipartUpload
      <4> QED BY <4>1 DEF BookInv, IdleReq
    <3>3. CASE PutObject(x)
      BY <3>3 DEF PutObject, BookInv, IdleReq
    <3> QED BY <1>5, <3>1, <3>2, <3>3
  <2> QED BY <1>1, <2>1
<1>6. CASE StageBlock(x)
  <2>1. req'[x].at = "record" /\ \A v \in Requests : v # x => req'[v] = req[v]
    BY <1>6 DEF StageBlock, BookInv, ReqType
  <2> QED BY <1>1, <2>1
<1>7. CASE Commit(x)
  <2>1. x = r
    BY <1>1, <1>7 DEF Commit, BookInv
  <2> QED BY <1>7, <2>1 DEF Commit, CanCommit
<1> QED BY <1>3, <1>4, <1>5, <1>6, <1>7 DEF StageBlockFails, RecordPart, CommitUnanswered,
           CommitFails, DropUpload, PutAnswered

LEMMA CommitResult ==
    ASSUME BlobInv, NEW r \in Requests, Commit(r)
    PROVE  LET u == req[r].up
               parts == InOrder(Recorded(u))
           IN  /\ u \in used /\ Recorded(u) \in SUBSET Parts
               /\ blob'.content = [i \in DOMAIN parts |-> blob'.content[i]]
               /\ req'[r].sums = [i \in DOMAIN parts |-> sums[u][parts[i]]]
               /\ \A i \in DOMAIN parts :
                     /\ parts[i] \in Recorded(u)
                     /\ blob'.content[i] \in Held[parts[i]]
                     /\ blob'.content[i][2] = parts[i]
<1> DEFINE u == req[r].up
           parts == InOrder(Recorded(u))
<1>1. CanCommit(r) /\ CommitBlockList(r, parts) /\ UNCHANGED <<src, uploads, history>>
  BY DEF Commit
<1>2. /\ u \in used /\ Recorded(u) \in SUBSET Parts
      /\ DOMAIN blob'.content = DOMAIN parts
      /\ \A i \in DOMAIN blob'.content : /\ blob'.content[i] \in Held[parts[i]]
                                         /\ blob'.content[i][2] = parts[i]
  BY <1>1, CommitFacts DEF uploads
<1>3. blob'.content = [i \in DOMAIN parts |-> blob'.content[i]]
  <2>1. blob'.content = [i \in DOMAIN parts |-> CHOOSE b \in Stored(parts[i]) : TRUE]
    BY <1>1 DEF CommitBlockList
  <2> QED BY <2>1
<1>4. req'[r].sums = [i \in DOMAIN parts |-> sums[u][parts[i]]]
  <2>1. req' = [req EXCEPT ![r].at = "drop", ![r].sums = [i \in DOMAIN parts |-> sums[u][parts[i]]]]
    BY DEF Commit
  <2>2. req[r] \in ReqType
    BY DEF BlobInv, BookInv
  <2> HIDE DEF parts
  <2> QED BY <2>1, <2>2 DEF BlobInv, BookInv, ReqType
<1>5. \A i \in DOMAIN parts : parts[i] \in Recorded(u)
  <2>1. parts \in Seq(Recorded(u))
    BY <1>2, FromSmallestFacts, PartsNat DEF InOrder
  <2> QED BY <2>1
<1> QED BY <1>2, <1>3, <1>4, <1>5

\* What an upload that met no other becomes is what its ETag is made of.
THEOREM EtagTrue == Spec => EtagIsOfTheBody
<1>1. ASSUME BlobInv, [Next]_vars, NEW r \in Requests, Committing(r), req[r].up \in apart
      PROVE  blob'.content = req'[r].sums
  <2> DEFINE u == req[r].up
             parts == InOrder(Recorded(u))
  <2>1. Commit(r) /\ req[r].at = "commit"
    BY <1>1, CommittingIsCommit
  <2>2. /\ u \in used /\ Recorded(u) \in SUBSET Parts
        /\ blob'.content = [i \in DOMAIN parts |-> blob'.content[i]]
        /\ req'[r].sums = [i \in DOMAIN parts |-> sums[u][parts[i]]]
        /\ \A i \in DOMAIN parts : parts[i] \in Recorded(u) /\ blob'.content[i] \in Held[parts[i]]
    BY <1>1, <2>1, CommitResult
  <2>3. u \in Uploads /\ Calling(u)
    BY <1>1, <2>2 DEF BlobInv, BookInv, Calling
  <2> HIDE DEF parts
  <2>4. ASSUME NEW p \in Recorded(u)
        PROVE  p \in Parts /\ sums[u][p] = Block(u, p) /\ Held[p] \subseteq {Block(u, p)}
    <3>1. p \in Parts /\ sums[u][p] # None
      BY <2>2 DEF Recorded
    <3>2. sums[u][p] = Block(u, p)
      BY <1>1, <2>3, <3>1 DEF BlobInv, BookInv
    <3>3. Held[p] \subseteq {Block(u, p)}
      BY <1>1, <2>3, <3>1 DEF BlobInv, ApartInv
    <3> QED BY <3>1, <3>2, <3>3
  <2>5. \A i \in DOMAIN parts : blob'.content[i] = sums[u][parts[i]]
    BY <2>2, <2>4
  <2>6. [i \in DOMAIN parts |-> blob'.content[i]] = [i \in DOMAIN parts |-> sums[u][parts[i]]]
    BY <2>5
  <2> QED BY <2>2, <2>6
<1>2. BlobInv /\ [Next]_vars =>
        [\A r \in Requests : Committing(r) /\ req[r].up \in apart =>
            blob'.content = req'[r].sums]_vars
  BY <1>1
<1> QED BY <1>2, Inductive, PTL DEF Spec, EtagIsOfTheBody

\* A completed upload has every part that was answered before, once and in order.
THEOREM WholeInOrder == Spec => CompletedWhole
<1> DEFINE Whole(r) ==
              LET parts == [i \in DOMAIN blob'.content |-> blob'.content[i][2]]
              IN  /\ req[r].before \subseteq ToSet(parts)
                  /\ \A i, j \in DOMAIN parts : i < j => parts[i] < parts[j]
<1>1. ASSUME BlobInv, [Next]_vars, NEW r \in Requests, Committing(r)
      PROVE  Whole(r)
  <2> DEFINE u == req[r].up
             S == Recorded(u)
             s == InOrder(S)
             parts == [i \in DOMAIN blob'.content |-> blob'.content[i][2]]
  <2>1. Commit(r) /\ req[r].at = "commit"
    BY <1>1, CommittingIsCommit
  <2>2. /\ u \in used /\ S \in SUBSET Parts
        /\ blob'.content = [i \in DOMAIN s |-> blob'.content[i]]
        /\ \A i \in DOMAIN s : blob'.content[i][2] = s[i]
    BY <1>1, <2>1, CommitResult
  <2>3. req[r].before \subseteq S
    <3>1. req[r].before \subseteq acked[u] /\ u \in Uploads
      BY <1>1, <2>1, <2>2 DEF BlobInv, BookInv, ReqOK
    <3> QED BY <1>1, <3>1 DEF BlobInv, BookInv, Recorded
  <2> HIDE DEF S
  <2>4. /\ DOMAIN s = 1..Cardinality(S)
        /\ \A i, j \in DOMAIN s : i < j => s[i] < s[j]
        /\ \A p \in S : \E i \in DOMAIN s : s[i] = p
    <3>1. S \in SUBSET Nat /\ IsFiniteSet(S)
      BY <2>2, PartsNat
    <3> QED BY <3>1, FromSmallestFacts DEF InOrder
  <2> HIDE DEF s
  <2>5. DOMAIN parts = DOMAIN s /\ \A i \in DOMAIN s : parts[i] = s[i]
    BY <2>2
  <2> HIDE DEF parts
  <2>6. req[r].before \subseteq ToSet(parts)
    BY <2>3, <2>4, <2>5 DEF ToSet
  <2>7. \A i, j \in DOMAIN parts : i < j => parts[i] < parts[j]
    BY <2>4, <2>5
  <2> QED BY <2>6, <2>7 DEF parts
<1>2. BlobInv /\ [Next]_vars => [\A r \in Requests : Committing(r) => Whole(r)]_vars
  BY <1>1
<1> QED BY <1>2, Inductive, PTL DEF Spec, CompletedWhole

\* A single write that met no other leaves its body and no ETag but that of it.
THEOREM AloneExact == Spec => AloneIsExact
<1> DEFINE Finishes(w) == put'[w].at = "done" /\ put[w].at # "done" /\ put[w].alone
           Left(w) == LET p == put'[w] IN
                        /\ blob'.content = Content(p.body, p.n)
                        /\ blob'.sum \in {blob'.content, NoSum}
                        /\ p.n \in CleanEnds(p.body)
                        /\ ~p.streamed => p.n = Size(p.body)
<1>1. ASSUME BlobInv, [Next]_vars, NEW w \in Requests, Finishes(w)
      PROVE  Left(w)
  <2> USE DEF BlobInv
  <2>1. UploadBuffer(w) \/ SetHTTPHeaders(w)
    <3>1. put' # put /\ put'[w].at = "done" /\ put[w].at # "done"
      BY <1>1
    <3>2. ASSUME NEW x \in Requests, PutStep(x)
          PROVE  UploadBuffer(w) \/ SetHTTPHeaders(w)
      <4>1. CASE Fails(x)
        BY <3>1, <4>1 DEF Fails, Becomes, PutInv, NoPut
      <4>2. CASE Open(x) \/ ReadFull(x) \/ UploadStream(x)
        <5>1. put[x] \in Calls
          BY <1>1 DEF PutInv
        <5>2. CASE Open(x)
          <6>1. PICK streamed \in Ways(put[x].size) :
                   put' = [put EXCEPT ![x] = [put[x] EXCEPT !.at = "read", !.streamed = streamed,
                                     !.body = src, !.size = IF streamed THEN 0 ELSE @]]
            BY <5>2 DEF Open, Becomes
          <6> QED BY <1>1, <3>1, <5>1, <6>1 DEF PutInv, Calls
        <5>3. CASE ReadFull(x)
          <6>1. PICK n \in Ends(x) :
                   \/ put' = [put EXCEPT ![x] =
                                [put[x] EXCEPT !.at = "upload", !.n = Least(n, put[x].size)]]
                   \/ Fails(x)
            BY <5>3 DEF ReadFull, Becomes
          <6> QED BY <1>1, <3>1, <4>1, <5>1, <6>1 DEF PutInv, Calls
        <5>4. CASE UploadStream(x)
          <6>1. PICK n \in Ends(x) :
                   \/ put' = [put EXCEPT ![x] = [put[x] EXCEPT !.at = "sum", !.n = n]]
                   \/ Fails(x)
            BY <5>4 DEF UploadStream, Commits, Becomes
          <6> QED BY <1>1, <3>1, <4>1, <5>1, <6>1 DEF PutInv, Calls
        <5> QED BY <4>2, <5>2, <5>3, <5>4
      <4>3. CASE UploadBuffer(x) \/ SetHTTPHeaders(x)
        <5>1. x = w \/ Fails(x)
          BY <3>1, <4>3, <1>1 DEF UploadBuffer, SetHTTPHeaders, Commits, Becomes, PutInv
        <5> QED BY <4>1, <4>3, <5>1
      <4> QED BY <3>2, <4>1, <4>2, <4>3 DEF PutStep, Fail
    <3>3. ASSUME NEW x \in Requests, PutObject(x) \/ PutAnswered(x) PROVE FALSE
      <4>1. CASE PutAnswered(x)
        BY <1>1, <3>1, <4>1 DEF PutAnswered, Becomes, PutInv, NoPut
      <4>2. CASE PutObject(x)
        <5>1. ASSUME NEW q, Enters(x, q), q.at # "done", q \in Calls PROVE FALSE
          BY <1>1, <3>1, <5>1 DEF Enters, Met, PutInv, Calls
        <5>2. ~StartCopy(x)
          BY <1>1, <5>1, NoPutOK, BlobAssumption DEF StartCopy, NoPut, Calls, PutInv
        <5>3. ~Start(x)
          <6> SUFFICES ASSUME Start(x) PROVE FALSE
            OBVIOUS
          <6>1. PICK b \in Bodies : \E size \in {Size(b), 0} : \E streamed \in Ways(size) :
                   Enters(x, [NoPut EXCEPT !.at = "read", !.streamed = streamed,
                                           !.size = IF streamed THEN 0 ELSE size, !.body = b])
            BY DEF Start
          <6>2. PICK size \in {Size(b), 0} : \E streamed \in Ways(size) :
                   Enters(x, [NoPut EXCEPT !.at = "read", !.streamed = streamed,
                                           !.size = IF streamed THEN 0 ELSE size, !.body = b])
            BY <6>1
          <6>3. PICK streamed \in Ways(size) :
                   Enters(x, [NoPut EXCEPT !.at = "read", !.streamed = streamed,
                                           !.size = IF streamed THEN 0 ELSE size, !.body = b])
            BY <6>2
          <6>4. size \in Nat
            BY <6>2, BlobAssumption
          <6>5. streamed \in BOOLEAN
            BY <6>3, <6>4 DEF Ways
          <6> QED BY <5>1, <6>3, <6>4, <6>5, NoPutOK DEF NoPut, Calls
        <5> QED BY <4>2, <5>2, <5>3 DEF PutObject
      <4> QED BY <3>3, <4>1, <4>2
    <3>4. ~(\E x \in Requests : Commit(x) \/ CommitUnanswered(x))
      BY <1>1, <3>1, CommitFacts DEF Commit, CommitUnanswered, uploads
    <3>5. ~Overwrite /\ ~Delete /\ ~Restart
      BY <1>1, <3>1 DEF Overwrite, Delete, Restart, PutInv, Calls, NoPut
    <3> QED BY <1>1, <3>1, <3>2, <3>3, <3>4, <3>5
            DEF Next, vars, objectVars, InitiateMultipartUpload, AbortMultipartUpload, UploadPart,
                StageBlock, StageBlockFails, RecordPart, CompleteMultipartUpload, CommitFails,
                DropUpload
  <2>2. CallOK(put[w]) /\ put[w] \in Calls
    BY <1>1 DEF PutInv
  <2>3. CASE UploadBuffer(w)
    <3>1. put[w].at = "upload" /\ put[w].n = Size(put[w].body) /\ put[w].body \in Bodies
      BY <1>1, <2>2, <2>3 DEF UploadBuffer, PutInv, Exact, CallOK, BusyCall
    <3>2. put[w].n \in CleanEnds(put[w].body)
      BY <3>1, BlobAssumption
    <3>3. ~Fails(w)
      BY <1>1 DEF Fails, Becomes, PutInv, NoPut
    <3>4. /\ put'[w] = [put[w] EXCEPT !.at = "done"]
          /\ blob' = [content |-> Content(put[w].body, put[w].n),
                      sum |-> Content(put[w].body, put[w].n)]
      BY <1>1, <2>2, <2>3, <3>3 DEF UploadBuffer, Commits, Becomes, PutInv, Calls
    <3> QED BY <2>2, <3>1, <3>2, <3>4 DEF Calls
  <2>4. CASE SetHTTPHeaders(w)
    <3>1. /\ put[w].at = "sum" /\ put[w].streamed /\ put[w].n \in CleanEnds(put[w].body)
          /\ blob.content = Content(put[w].body, put[w].n)
          /\ blob.sum \in {NoSum, Content(put[w].body, put[w].n)}
      BY <1>1, <2>2, <2>4 DEF SetHTTPHeaders, PutInv, Exact, CallOK, BusyCall
    <3>2. /\ put'[w] = [put[w] EXCEPT !.at = "done"]
          /\ blob' = blob \/ blob' = [blob EXCEPT !.sum = Content(put[w].body, put[w].n)]
      BY <1>1, <2>4 DEF SetHTTPHeaders, Becomes, PutInv
    <3>3. blob'.content = blob.content /\ blob'.sum \in {blob.sum, Content(put[w].body, put[w].n)}
      BY <1>1, <3>2 DEF StoreInv
    <3> QED BY <2>2, <3>1, <3>2, <3>3 DEF Calls
  <2> QED BY <2>1, <2>3, <2>4
<1>2. BlobInv /\ [Next]_vars => [\A w \in Requests : Finishes(w) => Left(w)]_objectVars
  BY <1>1
<1> QED BY <1>2, Inductive, PTL DEF Spec, AloneIsExact

=============================================================================
