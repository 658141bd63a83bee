-------------------------- MODULE GenericQueueLive --------------------------
(***************************************************************************)
(* Progress of the queue.  Nothing in the code bounds how often a blocked  *)
(* call is woken and beaten to the item, and every wait starts a new       *)
(* two-second deadline; so progress is claimed for callers that make       *)
(* MaxCalls calls each and for MaxSpurious spurious wake-ups in all.       *)
(***************************************************************************)
EXTENDS MCGenericQueue

CONSTANTS MaxCalls, MaxSpurious

ASSUME BoundsAssumption == MaxCalls \in Nat /\ MaxSpurious \in Nat

VARIABLES left, spurious

liveVars == <<vars, left, spurious>>

LiveInit == Init /\ left = [t \in Threads |-> MaxCalls] /\ spurious = MaxSpurious

BoundedCall(t) ==
    /\ left[t] > 0 /\ left' = [left EXCEPT ![t] = @ - 1]
    /\ Call(t)
    /\ UNCHANGED spurious

BoundedSpurious(t) ==
    /\ spurious > 0 /\ spurious' = spurious - 1
    /\ SpuriousWake(t)
    /\ UNCHANGED left

LiveRun(t)     == Run(t) /\ UNCHANGED <<left, spurious>>
LiveTimeout(t) == Timeout(t) /\ UNCHANGED <<left, spurious>>

LiveNext == \E t \in Threads : \/ BoundedCall(t) \/ BoundedSpurious(t)
                               \/ LiveRun(t) \/ LiveTimeout(t)

\* The scheduler runs every thread that can take a step, and the clock
\* reaches every deadline.  A lock that stays free is eventually taken;
\* no order among the threads that wait for it is assumed.
Fairness == \A t \in Threads : WF_liveVars(LiveRun(t)) /\ WF_liveVars(LiveTimeout(t))

LiveSpec == LiveInit /\ [][LiveNext]_liveVars /\ Fairness

\* EveryCallReturns: no operation, blocking or not, is stuck for ever: not on
\* a lock, not on a signal nobody sends, not on a thread that waits for it.
EveryCallReturns == \A t \in Threads : pc[t] # "idle" ~> pc[t] = "idle"
=============================================================================
