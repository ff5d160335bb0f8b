--------------------------- MODULE MCRangeRequest ---------------------------
(* Instances of RangeRequest for TLC: blocks of two bytes and an object of *)
(* two blocks that shrinks inside the second.  One header takes in both    *)
(* blocks, one leaves the second to the prefetch, and one is past the end. *)
EXTENDS RangeRequest, TLC

MCSizeOf == <<4, 3>>
MCHeaders == {Span(1, 2), Span(0, 0), From(4)}

RequestSymmetry == Permutations(Requests)

=============================================================================
