--------------------------- MODULE MCGenericQueue ---------------------------
(* Finite instances of GenericQueue. *)
EXTENDS QueueRefinement, TLC

CONSTANTS p1, c1, c2, s1, i1, i2, i3

\* One producer, one consumer, every operation of each, and a third thread that
\* observes or pops, so that two blocked consumers compete for an item.
Threads3 == {p1, c1, s1}
Program3 == (p1 :> Adds) @@ (c1 :> Pops) @@ (s1 :> Status \cup {"pop"})

\* One producer and one consumer that only block.
Threads2 == {p1, c1}
Program2 == (p1 :> {"add"}) @@ (c1 :> {"pop"})

\* A producer and two consumers of which one only polls.
ThreadsLive == {p1, c1, c2}
ProgramLive == (p1 :> {"add", "is_full"}) @@ (c1 :> {"pop"}) @@ (c2 :> {"try_pop"})

\* Items are only stored and compared.
Items2 == {i1, i2}
Items3 == {i1, i2, i3}
ItemSymmetry == Permutations(Items)
=============================================================================
