--------------------------- MODULE MCQueueLifetime ---------------------------
(* Finite instances of QueueLifetime: init with every capacity up to SizeMax, *)
(* and the use and the end of the queue of MCQueueTeardown.                   *)
EXTENDS QueueLifetime, MCQueueTeardown
=============================================================================
