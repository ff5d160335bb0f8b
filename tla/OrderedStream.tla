--------------------------- MODULE OrderedStream ----------------------------
(***************************************************************************)
(* What the reader of an object's body sees: its bytes in order, each once, *)
(* and then the end of the stream, an error, or an end that is early        *)
(* because somebody called the download off.                               *)
(***************************************************************************)
EXTENDS Naturals, Sequences

CONSTANT Size

VARIABLES out, end, calledOff

Content == [i \in 1..Size |-> i - 1]

Init == out = <<>> /\ end = "open" /\ calledOff = FALSE

Deliver ==
    /\ end = "open"
    /\ \E n \in Len(out) + 1..Size : out' = SubSeq(Content, 1, n)
    /\ UNCHANGED <<end, calledOff>>

\* An early end calls the rest of the download off.
Finish ==
    /\ end = "open"
    /\ \/ end' = "eof" /\ (out = Content \/ calledOff)
       \/ end' = "error"
    /\ calledOff' \in {calledOff, TRUE}
    /\ UNCHANGED out

CallOff == ~calledOff /\ calledOff' = TRUE /\ UNCHANGED <<out, end>>

Next == Deliver \/ Finish \/ CallOff

Spec ==
    /\ Init /\ [][Next]_<<out, end, calledOff>>
    /\ WF_<<out, end>>(Deliver \/ Finish)

=============================================================================
