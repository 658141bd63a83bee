---------------------------- MODULE ServerLoopLive ----------------------------
(***************************************************************************)
(* ServerLoop, with the clock of ServerExpiry, under the fairness of the   *)
(* process that runs it: the thread is scheduled, seconds pass, epoll_wait *)
(* does not fail for ever, no other progress relies on a call that fails,  *)
(* and clients stop sending at some point (MaxArrivals datagrams in all,   *)
(* which also keeps the graph finite).                                     *)
(***************************************************************************)
EXTENDS ServerExpiry

CONSTANT MaxArrivals

ASSUME ArrivalsAssumption == MaxArrivals \in Nat

VARIABLE arrivals

LiveVars == <<TimedVars, arrivals>>

LiveInit == TimedInit /\ arrivals = 0

LiveWorld ==
    /\ TimedWorld
    /\ arrivals' = IF rcv' = rcv THEN arrivals ELSE arrivals + 1
    /\ arrivals' <= MaxArrivals

LiveSteady  == TimedSteady /\ UNCHANGED arrivals
LiveReturns == EpollReturns /\ UNCHANGED arrivals
LiveFailure == TimedFailure /\ UNCHANGED arrivals
LiveTick    == TimedTick /\ UNCHANGED arrivals

LiveNext == LiveSteady \/ LiveFailure \/ LiveTick \/ LiveWorld

LiveLoop == LiveInit /\ [][LiveNext]_LiveVars

\* The thread goes on while it can.  The clock does, too, and epoll_wait, when
\* it is called again and again, does not fail every time: strong fairness, as
\* a failing epoll_wait disables both over and over.
Fairness == /\ WF_LiveVars(LiveSteady)
            /\ SF_LiveVars(LiveTick) /\ SF_LiveVars(LiveReturns)

LiveSpec == LiveLoop /\ Fairness

\* SilentClientExpires: a client that stops sending, at whatever point of its
\* handshake, loses its session, also when no event ever arrives again.
SilentClientExpires == \A a \in Addresses : Found(a) # {} ~> Found(a) = {}

\* ShutdownCompletes: after SIGINT or SIGTERM the server stops, wherever in
\* the loop or in a DTLS call it was, with every session removed.
ShutdownCompletes == ~g_running ~> (pc = "stopped" /\ DOMAIN session = {})
=============================================================================
