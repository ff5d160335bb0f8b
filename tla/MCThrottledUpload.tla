-------------------------- MODULE MCThrottledUpload --------------------------
(* An empty payload and one of chunks of 1 and 2 bytes, with every place at which *)
(* they can be cut; another stream that reads more than the smaller rate can hold. *)
EXTENDS ThrottledUpload

MCBodies == {<<>>, <<1, 3>>}

=============================================================================
