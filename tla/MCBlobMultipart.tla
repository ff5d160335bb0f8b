-------------------------- MODULE MCBlobMultipart ---------------------------
(* Two uploads of one key, one after the other or at once, and two requests;  *)
(* a PUT or a copy has one or two bytes.                                      *)
EXTENDS BlobMultipart, TLC

CONSTANTS short, long
MCBodies == {short, long}
MCSize(b) == IF b = short THEN 1 ELSE 2
MCCleanEnds(b) == 1..MCSize(b)
Symmetry == Permutations(Requests)

=============================================================================
