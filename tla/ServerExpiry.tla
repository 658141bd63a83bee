----------------------------- MODULE ServerExpiry -----------------------------
(***************************************************************************)
(* ServerLoop against the clock: how late does check_client_timeouts, which *)
(* runs only after an epoll_wait that has not failed, remove a client?     *)
(*                                                                         *)
(* Seconds pass at any point, while the thread waits and while it runs.    *)
(* The one thing the code relies on is that an epoll_wait that times out   *)
(* has lasted its 1000 ms, in which one second ends.                       *)
(***************************************************************************)
EXTENDS ServerLoop

VARIABLES
    struck,   \* a second has ended in the current epoll_wait
    overdue   \* the epoll_waits with such a second that a session has outlived
              \* its window by; those that failed are not counted

TimedVars == <<vars, struck, overdue>>

TimedInit ==
    /\ Init
    /\ struck = FALSE
    /\ overdue = [p \in Pointers |-> 0]

TimedTick ==
    /\ Tick
    /\ struck' = (struck \/ pc = "epoll")
    /\ UNCHANGED overdue

TimedWorld ==
    /\ Signal \/ \E a \in Addresses, k \in Kinds : Arrive(a, k)
    /\ UNCHANGED <<struck, overdue>>

-----------------------------------------------------------------------------
(* The thread's steps, and what they leave in the history. *)

\* Exact up to the first value ExpiresInTime forbids.
Counted(n) == IF struck /\ n <= CheckPeriod THEN n + 1 ELSE n

Late(p) == p \in g_clients /\ session[p].idle > ClientTimeout

\* What epoll_wait's return leaves in the history, and any other step.
CountWait   == overdue' = [p \in Pointers |-> IF Late(p) THEN Counted(overdue[p]) ELSE 0]
ForgetTimely == overdue' = [p \in Pointers |-> IF Late(p)' THEN overdue[p] ELSE 0]

EpollReturns ==
    /\ EpollEvent \/ (EpollTimeout /\ struck)
    /\ CountWait /\ struck' = FALSE

Elsewhere(step) ==
    /\ step /\ pc' # "check"
    /\ ForgetTimely /\ struck' = FALSE

TimedSteady  == EpollReturns \/ Elsewhere(Steady)
TimedFailure == Elsewhere(Failure)

TimedNext == TimedSteady \/ TimedFailure \/ TimedTick \/ TimedWorld
TimedSpec == TimedInit /\ [][TimedNext]_TimedVars

-----------------------------------------------------------------------------
(* Properties *)

\* ExpiresInTime: the CheckPeriod-th epoll_wait, a second or more each, that a
\* session has outlived its window by is the last: the check that comes right
\* after it removes the session, however many events other clients cause
\* meanwhile.  Seconds of a drain, of a select in it and of a failed epoll_wait
\* (after which there is no check) come on top.
ExpiresInTime == \A p \in g_clients :
    overdue[p] < CheckPeriod \/ (overdue[p] = CheckPeriod /\ pc = "check")
=============================================================================
