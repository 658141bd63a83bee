---------------------------- MODULE QueueTeardown ----------------------------
(***************************************************************************)
(* The end of a queue: sc_generic_queue_nuke_with_cleanup run by one more  *)
(* thread while the threads of GenericQueue use the queue.                 *)
(*                                                                         *)
(* The nuke drains the ring under rwlock, then UNLOCKS it, then frees the  *)
(* buffer and destroys the locks.  GenericQueue's steps stay enabled all   *)
(* the while, unless the callers themselves keep away (QuietSpec).         *)
(***************************************************************************)
EXTENDS GenericQueue, Sequences

CONSTANT Nuker   \* the thread that destroys the queue

ASSUME NukerAssumption == Nuker \notin Threads \cup {NULL}

VARIABLES
    npc,       \* where the nuke is
    cleaned    \* the items the drain has taken, in order: each is handed to
               \* cleanup_fn, or dropped if the caller gave none

teardownVars == <<vars, npc, cleaned>>

\* From "free_buffer" on the nuke no longer holds rwlock.
NukePCs  == {"idle", "drain", "free_buffer", "destroy", "done"}
Released == {"free_buffer", "destroy", "done"}
Freed    == {"destroy", "done"}

TeardownInit == Init /\ npc = "idle" /\ cleaned = <<>>

NukeLock ==
    /\ npc = "idle" /\ writer = NULL /\ readers = {}
    /\ npc' = "drain" /\ writer' = Nuker
    /\ UNCHANGED <<ring, readers, mutex, pc, local, free, cleaned>>

\* Fault: the drain does not advance head.
NukeDrainSameSlot ==
    /\ npc = "drain" /\ size > 0
    /\ cleaned' = Append(cleaned, buffer[head])
    /\ size' = size - 1
    /\ UNCHANGED <<buffer, head, tail, locks, pc, local, free, npc>>

\* One turn of the drain loop; tail is left where it was.
NukeDrain ==
    /\ npc = "drain" /\ size > 0
    /\ cleaned' = Append(cleaned, buffer[head])
    /\ head' = (head + 1) % Capacity
    /\ size' = size - 1
    /\ UNCHANGED <<buffer, tail, locks, pc, local, free, npc>>

\* Fault: the drain may stop with items left.
NukeUnlockEarly ==
    /\ npc = "drain"
    /\ npc' = "free_buffer" /\ writer' = NULL
    /\ UNCHANGED <<ring, readers, mutex, pc, local, free, cleaned>>

NukeUnlock ==
    /\ npc = "drain" /\ size = 0
    /\ npc' = "free_buffer" /\ writer' = NULL
    /\ UNCHANGED <<ring, readers, mutex, pc, local, free, cleaned>>

NukeFreeBuffer ==
    /\ npc = "free_buffer" /\ npc' = "destroy"
    /\ UNCHANGED <<vars, cleaned>>

\* The locks and condition variables are destroyed and q itself is freed.
NukeDestroy ==
    /\ npc = "destroy" /\ npc' = "done"
    /\ UNCHANGED <<vars, cleaned>>

NukeSteps == NukeLock \/ NukeDrain \/ NukeUnlock \/ NukeFreeBuffer \/ NukeDestroy

\* The threads go on with their calls; what they do to a freed queue is
\* undefined, so the model stops them there.
Use == npc \notin Freed /\ Next /\ UNCHANGED <<npc, cleaned>>

\* The callers stop using the queue before it is nuked.
AllIdle == \A t \in Threads : pc[t] = "idle"

QuietNext == (npc = "idle" /\ Use) \/ ((npc = "idle" => AllIdle) /\ NukeSteps)
QuietSpec == TeardownInit /\ [][QuietNext]_teardownVars

\* The callers rely on the nuke to keep new operations out.
SharedNext == Use \/ NukeSteps
SharedSpec == TeardownInit /\ [][SharedNext]_teardownVars

-----------------------------------------------------------------------------
\* DrainInOrder: cleanup_fn, if there is one, gets the items that were queued
\* when the nuke took the lock, in FIFO order, each exactly once: what is already
\* cleaned followed by what is still queued stays the same sequence until the
\* ring is empty.
Contents == [k \in 1 .. size |-> At(k - 1)]
DrainInOrder == [][npc = "drain" => cleaned' \o Contents' = cleaned \o Contents]_teardownVars

\* CleanedOnce: an item given to cleanup_fn is nobody else's from then on: it is
\* not queued, not in a call and not its caller's, and it is not given again.  Until
\* the ring is freed, no other item is lost or shared.  (One that is added between
\* the nuke's unlock and the free is lost with the ring.)
Cleaned == {cleaned[k] : k \in DOMAIN cleaned}
CleanedOnce ==
    /\ npc \notin Freed => Conserved(Items \ Cleaned)
    /\ \A j, k \in DOMAIN cleaned : cleaned[j] = cleaned[k] => j = k

\* NothingLeft: once the buffer is freed no thread is in a call, blocked or asleep
\* in one included, and the items that are not their callers' again are exactly
\* those that the drain took.
NothingLeft == npc \in Freed => AllIdle /\ Cleaned = Items \ free

\* DrainIsFinal: the comment on the lock, "Lock the queue to prevent any new
\* operations", would have no operation enter the ring once the nuke has it.
DrainIsFinal ==
    [][\A t \in Threads : npc \in Released /\ pc[t] \in {"wrlock", "rdlock"}
                            => pc'[t] = pc[t]]_teardownVars
=============================================================================
