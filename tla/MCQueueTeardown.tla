--------------------------- MODULE MCQueueTeardown ---------------------------
(* Finite instances of QueueTeardown. *)
EXTENDS QueueTeardown, TLC

CONSTANTS p1, c1, i1, i2, i3

\* A producer and a consumer that block and a capacity of two, so that the
\* nuke meets rings that are empty, partly filled, full and wrapped.
TeardownThreads == {p1, c1}
TeardownProgram == (p1 :> {"add"}) @@ (c1 :> {"pop", "try_pop", "get_size"})
TeardownItems   == {i1, i2, i3}
TeardownSymmetry == Permutations(Items)
=============================================================================
