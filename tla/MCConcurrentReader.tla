------------------------- MODULE MCConcurrentReader -------------------------
(* Two workers and four chunks, the last of which is short.                *)
EXTENDS ConcurrentReader

=============================================================================
