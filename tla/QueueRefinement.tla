--------------------------- MODULE QueueRefinement ---------------------------
(***************************************************************************)
(* The refinement mapping from the queue of generic_queue.c to the atomic  *)
(* queue of AbstractQueue.  A transfer takes effect when size changes, a   *)
(* status function when it reads size, a failure when its code is set.     *)
(***************************************************************************)
EXTENDS GenericQueue

Answered(t) == Committed(t) \/ pc[t] \in {"rdunlock", "return"}

Queue == [k \in 1 .. size |-> At(k - 1)]
Phase == [t \in Threads |-> IF pc[t] = "idle" THEN "idle"
                            ELSE IF Answered(t) THEN "answered" ELSE "called"]
Item  == [t \in Threads |-> IF op[t] \in Pops /\ ~Committed(t) THEN NULL ELSE item[t]]
Ret   == [t \in Threads |-> IF Answered(t) /\ ret[t] = "none" THEN "SUCCESS" ELSE ret[t]]

Abstract == INSTANCE AbstractQueue WITH
    queue <- Queue, phase <- Phase, item <- Item, ret <- Ret, errno <- queue_errno

\* Linearizable: every behaviour of the queue is one of the atomic FIFO queue
\* of AbstractQueue: items leave in the order they entered, try_add fails only
\* on a full queue, try_pop only on an empty one, a timed-out call has no
\* effect, and a status function returns a value that was true during its call.
Linearizable == Abstract!Spec
=============================================================================
