-------------------------------- MODULE Orders --------------------------------
(***************************************************************************)
(* Sorting and filtering, which the code does to parts and to listings.    *)
(* Both are defined by where an element ends up, which is how many others  *)
(* come before it: not by recursion, so that they can be proved about.     *)
(***************************************************************************)
EXTENDS Naturals, FiniteSets

\* The numbers in S, each after all the smaller ones.
FromSmallest(S) ==
    [i \in 1..Cardinality(S) |-> CHOOSE p \in S : Cardinality({q \in S : q < p}) = i - 1]

\* The elements of the sequence s that are in S, in the order they have in s.
Among(s, S) ==
    LET places == FromSmallest({i \in DOMAIN s : s[i] \in S})
    IN  [n \in DOMAIN places |-> s[places[n]]]

===============================================================================
