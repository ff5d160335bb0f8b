--------------------------- MODULE MCObjectCache ----------------------------
(* Instances of ObjectCache for TLC: the object can be cached, and grows   *)
(* past the threshold when it is overwritten.                              *)
EXTENDS ObjectCache

MCSizeOf == <<1, 2>>

=============================================================================
