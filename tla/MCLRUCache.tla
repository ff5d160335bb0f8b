----------------------------- MODULE MCLRUCache -----------------------------
(* The instance of LRUCache for TLC: three sizes around the limit, and     *)
(* keys whose file names are distinct.                                     *)
EXTENDS LRUCache, TLC

CONSTANTS small, large, huge

MCSizeOf == small :> 1 @@ large :> 2 @@ huge :> 4
MCDistinct == {<<c>> : c \in SafeChars}

=============================================================================
