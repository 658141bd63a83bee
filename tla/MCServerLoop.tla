---------------------------- MODULE MCServerLoop ----------------------------
(* Instances of ServerLoop and its refinement for TLC. *)
EXTENDS ServerRefinement, TLC

CONSTANTS a1, a2, p1, p2, p3

TwoAddresses == {a1, a2}
TwoPointers  == {p1, p2}
ThreePointers == {p1, p2, p3}

\* Addresses and pointers are only compared for equality.
Interchangeable == Permutations(TwoAddresses) \cup Permutations(ThreePointers)
=============================================================================
