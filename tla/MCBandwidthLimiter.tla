------------------------- MODULE MCBandwidthLimiter -------------------------
(* One admin and two streams. *)
EXTENDS BandwidthLimiter, TLC

Symmetry == Permutations(Streams)

=============================================================================
