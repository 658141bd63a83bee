---------------------------- MODULE QueueLifetime ----------------------------
(***************************************************************************)
(* A queue from init to its end.  Its one maker calls                      *)
(* sc_generic_queue_init; if that succeeds the threads of GenericQueue use *)
(* the queue, and when they are through with it the maker destroys it,     *)
(* with sc_generic_queue_nuke or sc_generic_queue_nuke_with_cleanup.       *)
(***************************************************************************)
EXTENDS QueueTeardown, QueueLifecycle

lifetimeVars == <<teardownVars, lifeVars>>

LifetimeInit == TeardownInit /\ LifeInit

\* The queue that GenericQueue describes is there.
Live == stage = "live" /\ capacity = Capacity

InUse == Live /\ npc = "idle" /\ Use /\ UNCHANGED lifeVars

\* nuke leaves the items that are still queued to "the caller" (line 190).
EndPlain == npc = "idle" /\ AllIdle /\ Nuke /\ UNCHANGED teardownVars

EndDrain ==
    /\ Live /\ (npc = "idle" => AllIdle)
    /\ NukeLock \/ NukeDrain \/ NukeUnlock
    /\ UNCHANGED lifeVars

EndRelease == (NukeFreeBuffer /\ FreeBuffer) \/ (NukeDestroy /\ DestroyRest)

LifetimeNext ==
    \/ (Make \/ NukeNull) /\ UNCHANGED teardownVars
    \/ InUse \/ EndPlain \/ EndDrain \/ EndRelease

LifetimeSpec == LifetimeInit /\ [][LifetimeNext]_lifetimeVars
=============================================================================
