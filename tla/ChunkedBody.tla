------------------------------ MODULE ChunkedBody ------------------------------
(***************************************************************************)
(* AwsChunkedReader (internal/handler/chunked_reader.go): the decoder of a *)
(* streaming-signature body.  On the wire each chunk is a header line with *)
(* its size, the bytes and a line end, and a chunk of size zero ends the   *)
(* body; the wire may end anywhere, properly or because it broke, and      *)
(* hands out as many bytes at a time as it likes.  What reads it is module *)
(* ThrottledUpload.                                                        *)
(*                                                                         *)
(* A header line is one item of the wire, a byte of the payload is its     *)
(* position, and a line end is two items.                                  *)
(***************************************************************************)
EXTENDS Integers, Sequences, SequencesExt, FiniteSets

CONSTANTS
    Bodies,     \* the payloads: sequences of the places at which their chunks end
    MaxRead     \* the longest buffer that is read into

ASSUME ChunkedAssumption ==
    /\ MaxRead \in Nat \ {0}
    /\ \A b \in Bodies : b \in Seq(Nat \ {0}) /\ \A i, j \in DOMAIN b : i < j => b[i] < b[j]

VARIABLES
    body,       \* what the client means to send
    wire,       \* what arrives of it
    ending,     \* how the wire ends: "EOF" or "broken"
    left,       \* of the reader: bytes left in the current chunk
    err,        \* its sticky error, or "none"
    got         \* the bytes it has handed out

decoderVars == <<body, wire, ending, left, err, got>>

-----------------------------------------------------------------------------
Header(n) == [header |-> n]
Byte(i) == [byte |-> i]

\* How many bytes the first k chunks of a body have, and how many chunk k has: none
\* in the one behind the last, which ends the body.
Before(b, k) == IF k = 0 THEN 0 ELSE b[k]
Size(b, k) == IF k > Len(b) THEN 0 ELSE b[k] - Before(b, k - 1)
Payload(b) == [i \in 1..Before(b, Len(b)) |-> Byte(i)]

\* How many items come before chunk k, and what is at place p of the wire.
Start(b, k) == Before(b, k - 1) + 3 * (k - 1)
Item(b, p) ==
    LET k == CHOOSE k \in 1..Len(b) + 1 : p - Start(b, k) \in 1..Size(b, k) + 3
        i == p - Start(b, k) - 1
    IN  IF i = 0 THEN Header(Size(b, k))
        ELSE IF i <= Size(b, k) THEN Byte(Before(b, k - 1) + i)
        ELSE [end |-> i - Size(b, k)]

Encoded(b) == [p \in 1..Start(b, Len(b) + 1) + 3 |-> Item(b, p)]

IsHeader(item) == "header" \in DOMAIN item

\* A body as it is, or with a header that is no number; one that breaks has lost
\* something.
Garbled(b) ==
    {ReplaceAt(Encoded(b), i, [junk |-> "zz"]) :
        i \in {j \in DOMAIN Encoded(b) : IsHeader(Encoded(b)[j])}}

DecoderInit ==
    /\ body \in Bodies
    /\ \E k \in 0..Len(Encoded(body)), sent \in {Encoded(body)} \cup Garbled(body) :
          /\ wire = SubSeq(sent, 1, k)
          /\ ending \in IF k = Len(Encoded(body)) THEN {"EOF"} ELSE {"EOF", "broken"}
    /\ left = 0
    /\ err = "none"
    /\ got = <<>>

\* The header line at the front of the wire is read, or what is there ends first.
ReadHeader ==
    /\ left = 0
    /\ IF wire = <<>> THEN
           /\ err' = ending
           /\ UNCHANGED <<wire, left>>
       ELSE IF ~IsHeader(Head(wire)) THEN
           /\ wire' = Tail(wire)
           /\ err' = "malformed"
           /\ UNCHANGED left
       ELSE
           /\ wire' = Tail(wire)
           /\ left' = Head(wire).header
           /\ err' = IF Head(wire).header = 0 THEN "EOF" ELSE "none"
    /\ UNCHANGED got

\* The line end behind a chunk; what is there may end before it.
DiscardLineEnd(rest) ==
    IF Len(rest) >= 2 THEN [wire |-> SubSeq(rest, 3, Len(rest)), err |-> "none"]
    ELSE [wire |-> <<>>, err |-> ending]

\* Mutated forms: the end of the wire within a chunk is the end of the body; it
\* is passed over, and the reader asks again.
EndWithin == ending
EndWithinPassed == "none"

EndWithinChunk == IF ending = "EOF" THEN "unexpected EOF" ELSE ending

\* The buffer is cut to the chunk.
Most(size) == IF size > left THEN left ELSE size

\* Bytes of the current chunk, up to as many as fit the buffer.
ReadData ==
    /\ left > 0
    /\ IF wire = <<>> THEN
           /\ err' = EndWithinChunk
           /\ UNCHANGED <<wire, left, got>>
       ELSE \E size \in 1..MaxRead : \E n \in 1..Most(size) :
           /\ n <= Len(wire)
           /\ got' = got \o SubSeq(wire, 1, n)
           /\ left' = left - n
           /\ LET rest == SubSeq(wire, n + 1, Len(wire))
                  discarded == DiscardLineEnd(rest)
              IN  IF left' = 0 THEN wire' = discarded.wire /\ err' = discarded.err
                  ELSE wire' = rest /\ err' = "none"

\* A Read that finds no chunk open reads a header and then, in the same call, bytes;
\* nobody else sees what is between them.  An error is returned for ever.
Read ==
    /\ err = "none"
    /\ ReadHeader \/ ReadData
    /\ UNCHANGED <<body, ending>>

-----------------------------------------------------------------------------
\* Where a body can end without an error: behind any of its chunks.
Boundaries(b) == {Before(b, k) : k \in 0..Len(b)}

\* Every variable keeps its type, and between chunks the reader does not stand at
\* a byte or a line end.
DecoderTypeOK ==
    /\ ending \in {"EOF", "broken"}
    /\ left \in 0..Before(body, Len(body))
    /\ err \in {"none", "EOF", "unexpected EOF", "broken", "malformed"}
    /\ left = 0 /\ err = "none" /\ wire # <<>> =>
          IsHeader(Head(wire)) \/ "junk" \in DOMAIN Head(wire)

\* What has been handed out is the payload in order, never a header or a line end.
DecodedIsPrefix == IsPrefix(got, Payload(body))

\* A proper end stands behind a whole chunk, and a wire that broke is not taken for
\* the end of a body of which something is missing.
CleanEndIsWhole ==
    err = "EOF" =>
        /\ Len(got) \in Boundaries(body)
        /\ ending = "broken" => Len(got) = Before(body, Len(body))

=============================================================================
