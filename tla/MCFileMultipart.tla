-------------------------- MODULE MCFileMultipart ---------------------------
(* Two requests of one file: parts of an upload, completions and PUTs. *)
EXTENDS FileMultipart, TLC

Symmetry == Permutations(Requests)

=============================================================================
