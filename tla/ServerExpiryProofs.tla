-------------------------- MODULE ServerExpiryProofs --------------------------
(***************************************************************************)
(* Theorems about the times of expiry (TimedSpec), for any number of       *)
(* clients, any timeouts, and as many datagrams as the clients send.       *)
(***************************************************************************)
EXTENDS ServerLoopLive, ServerRefinementProofs

(* A second is noted only while epoll_wait waits. *)
StruckOK == struck \in BOOLEAN /\ (struck => pc = "epoll")

(* What is counted lies since the last check, and the check comes before more
   is: a session's waits are at most the seconds the clock has seen, and fewer
   while one that will be counted goes on. *)
OverdueOK ==
    /\ overdue \in [Pointers -> 0 .. CheckPeriod]
    /\ \A p \in g_clients :
         /\ overdue[p] <= since_check
         /\ struck => overdue[p] < since_check
         /\ overdue[p] < CheckPeriod \/ pc = "check"

\* The inductive invariant.
TimedInv == IInv /\ StruckOK /\ OverdueOK

-----------------------------------------------------------------------------
(* The steps. *)

\* A timed step is a second, an arrival or a signal, or one of the thread.
LEMMA TimedSteps ==
    ASSUME [TimedNext]_TimedVars
    PROVE  \/ TimedTick \/ TimedWorld \/ EpollReturns
           \/ Elsewhere(Steady \/ Failure)
           \/ UNCHANGED TimedVars
  BY Zenon DEF TimedNext, TimedSteady, TimedFailure, Elsewhere

\* Every timed step is one of the loop, its thread's or the world's.
LEMMA TimedIsLoop == [TimedNext]_TimedVars => [Next]_vars
  BY TimedSteps, Zenon DEF TimedTick, TimedWorld, EpollReturns, Elsewhere, TimedVars,
     Next, Steady, Outer, World

\* From the point at which the timeouts are looked at there is one way on.
LEMMA OnlyChecks ==
    ASSUME Steady \/ Failure, pc = "check"
    PROVE  CheckTimeouts
<1>1. CASE LoopTest \/ EpollEvent \/ EpollTimeout \/ EpollFails
  BY <1>1 DEF LoopTest, EpollEvent, EpollTimeout, EpollFails, Goto
<1>2. CASE Dtls \/ ReceiveFails \/ SendFlightFails
  <2>1. InDtls
    BY <1>2, Zenon DEF Dtls, ReceiveOwn, ReceiveOther, ReadRest, SelectTimeout, SendFlight,
       ReceiveFails, SendFlightFails, WantsInput
  <2> QED
    BY <2>1 DEF InDtls
<1>3. CASE Peek \/ PeekNewFails \/ PeekFails
  <2>1. pc = "peek"
    BY <1>3, Zenon DEF Peek, PeekEmpty, PeekFails, EndDrain, PeekKnown, PeekNew, PeekNewFails, Goto
  <2> QED
    BY <2>1
<1>4. CASE Handle
  <2>1. pc \in {"shaken", "got", "discard", "remove", "respond"}
    BY <1>4 DEF Handle, HandshakeReturned, ReadReturned, Discard, Remove, Respond, Goto
  <2> QED
    BY <2>1
<1>5. CASE Finish
  BY <1>5 DEF Finish, Stop, ShutdownRemove, Goto
<1> QED
  BY <1>1, <1>2, <1>3, <1>4, <1>5, Zenon DEF Steady, Failure, Outer

\* The clock is reset by the check that removes the expired, and by nothing else.
LEMMA ThreadClock ==
    ASSUME Steady \/ Failure
    PROVE  \/ since_check' = since_check
           \/ since_check >= CheckPeriod /\ RemoveClients(Expired) /\ since_check' = 0
<1>1. CASE CheckTimeouts
  BY <1>1, Zenon DEF CheckTimeouts, clock
<1>2. CASE ~CheckTimeouts
  BY <1>2, Zenon DEF Steady, Failure, Outer, LoopTest, EpollEvent, EpollTimeout, EpollFails,
     Dtls, ReceiveOwn, ReceiveOther, ReadRest, SelectTimeout, SendFlight, ReceiveFails,
     SendFlightFails, Peek, PeekEmpty, PeekFails, EndDrain, PeekKnown, PeekNew, PeekNewFails,
     Handle, HandshakeReturned, ReadReturned, Discard, Remove, Respond, Finish, Stop,
     ShutdownRemove, clock
<1> QED
  BY <1>1, <1>2

(* A session after a step of the thread is new to the second, or as it was. *)
LEMMA ThreadSessions ==
    ASSUME IInv, Steady \/ Failure, NEW p \in g_clients'
    PROVE  \/ session'[p].idle = 0
           \/ p \in g_clients /\ session'[p].addr = session[p].addr /\ SameIdle(p)
<1>1. TypeTable /\ TypeSocket /\ ListOK /\ ListOK' /\ NoUseAfterFree
  BY TypeParts, TableStep, Zenon DEF IInv, Next
<1>2. CASE UNCHANGED table
  BY <1>2 DEF table, SameIdle
<1>3. ASSUME NEW S, RemoveClients(S)
      PROVE  p \in g_clients /\ session'[p].addr = session[p].addr /\ SameIdle(p)
  BY <1>1, <1>3 DEF RemoveClients, ListOK, SameIdle
<1>4. CASE DtlsStep
  BY <1>1, <1>4, DtlsEffect DEF ListOK
<1>5. CASE HandshakeReturned
  BY <1>1, <1>5, NotedEffect DEF ListOK, SameAddrAndSsl
<1>6. ASSUME NEW q \in Pointers, PeekNew(q)
      PROVE  \/ session'[p].idle = 0
             \/ p \in g_clients /\ session'[p].addr = session[p].addr /\ SameIdle(p)
  BY <1>1, <1>6, AddEffect DEF SameAddrAndSsl
<1>7. ASSUME NEW q \in Pointers, PeekKnown(q)
      PROVE  \/ session'[p].idle = 0
             \/ p \in g_clients /\ session'[p].addr = session[p].addr /\ SameIdle(p)
  <2>1. q \in DOMAIN session /\ g_clients' = g_clients /\ p \in DOMAIN session
        /\ session' = [session EXCEPT ![q].idle = 0]
    BY <1>1, <1>7, Zenon DEF PeekKnown, Found, ListOK
  <2> QED
    BY <1>1, <2>1, IdleUpdate, Zenon DEF ListOK, SameAddrAndSsl
<1>8. CASE Outer \/ Finish \/ Remove
  BY <1>2, <1>3, <1>8, Zenon DEF Outer, LoopTest, EpollEvent, EpollTimeout, CheckTimeouts,
     Finish, Stop, ShutdownRemove, Remove, table
<1>9. CASE \/ PeekEmpty \/ ReadReturned \/ Discard
           \/ \E ret \in {"bytes", "WANT_WRITE", "NET_SEND_FAILED"} : Respond(ret)
           \/ EpollFails \/ PeekNewFails \/ PeekFails
  BY <1>2, <1>9, Zenon DEF PeekEmpty, EndDrain, ReadReturned, Discard, Respond,
     EpollFails, PeekNewFails, PeekFails, table
<1> QED
  BY <1>4, <1>5, <1>6, <1>7, <1>8, <1>9, Zenon
     DEF Steady, Failure, Peek, Handle, DtlsStep

-----------------------------------------------------------------------------
(* One lemma for each part of the invariant. *)

\* A step of the thread ends the wait a second was noted in.
LEMMA StruckStep == TimedInv /\ [TimedNext]_TimedVars => StruckOK'
<1> SUFFICES ASSUME TimedInv, [TimedNext]_TimedVars PROVE StruckOK'
  OBVIOUS
<1>1. StruckOK
  BY DEF TimedInv
<1>2. CASE TimedTick
  <2>1. pc' = pc /\ struck' = (struck \/ pc = "epoll")
    BY <1>2, Zenon DEF TimedTick, Tick
  <2> QED
    BY <1>1, <2>1 DEF StruckOK
<1>3. CASE TimedWorld \/ UNCHANGED TimedVars
  <2>1. pc' = pc /\ struck' = struck
    BY <1>3, Zenon DEF TimedWorld, Signal, Arrive, TimedVars, vars
  <2> QED
    BY <1>1, <2>1 DEF StruckOK
<1>4. CASE EpollReturns \/ Elsewhere(Steady \/ Failure)
  BY <1>4 DEF EpollReturns, Elsewhere, StruckOK
<1> QED
  BY <1>2, <1>3, <1>4, TimedSteps, Zenon

(* What a step outside epoll_wait makes of the waits counted so far. *)
LEMMA ForgottenOrKept ==
    ASSUME OverdueOK, ForgetTimely, BoundsAssumption
    PROVE  /\ overdue' \in [Pointers -> 0 .. CheckPeriod]
           /\ \A p \in Pointers : overdue'[p] # 0 =>
                overdue'[p] = overdue[p] /\ session'[p].idle > ClientTimeout
<1> DEFINE late(p) == p \in g_clients' /\ session'[p].idle > ClientTimeout
<1>1. overdue' = [p \in Pointers |-> IF late(p) THEN overdue[p] ELSE 0]
  BY DEF ForgetTimely, Late
<1>2. \A p \in Pointers : late(p) => session'[p].idle > ClientTimeout
  OBVIOUS
<1> HIDE DEF late
<1> QED
  BY <1>1, <1>2, BoundsAssumption DEF OverdueOK

\* A second raises the clock; what is counted waits for epoll_wait's return.
LEMMA TickOverdue ==
    ASSUME TimedInv, TimedTick
    PROVE  OverdueOK'
<1>1. /\ OverdueOK /\ g_clients \in SUBSET Pointers /\ since_check \in 0 .. CheckPeriod
      /\ StruckOK
  BY TypeParts DEF TimedInv, IInv, TypeTable, TypeLocal
<1>2. /\ UNCHANGED <<g_clients, pc, overdue>>
      /\ since_check' = IF since_check < CheckPeriod THEN since_check + 1 ELSE CheckPeriod
      /\ struck' = (struck \/ pc = "epoll")
  BY Zenon DEF TimedTick, Tick
<1>3. ASSUME NEW p \in g_clients
      PROVE  overdue[p] <= since_check' /\ (struck' => overdue[p] < since_check')
  <2>1. /\ overdue[p] \in 0 .. CheckPeriod /\ overdue[p] <= since_check
        /\ overdue[p] < CheckPeriod \/ pc = "check"
    BY <1>1 DEF OverdueOK
  <2>2. struck' => pc = "epoll"
    BY <1>1, <1>2 DEF StruckOK
  <2> QED
    BY <1>1, <1>2, <2>1, <2>2, BoundsAssumption
<1> QED
  BY <1>1, <1>2, <1>3 DEF OverdueOK

\* epoll_wait's return counts the wait, and the check comes next.
LEMMA ReturnOverdue ==
    ASSUME TimedInv, EpollReturns
    PROVE  OverdueOK'
<1>1. /\ OverdueOK /\ g_clients \in SUBSET Pointers /\ since_check \in 0 .. CheckPeriod
  BY TypeParts DEF TimedInv, IInv, TypeTable, TypeLocal
<1>2. /\ pc = "epoll" /\ pc' = "check" /\ UNCHANGED <<g_clients, since_check>>
      /\ struck' = FALSE
      /\ overdue' = [p \in Pointers |-> IF Late(p) THEN Counted(overdue[p]) ELSE 0]
  BY Zenon DEF EpollReturns, EpollEvent, EpollTimeout, CountWait, Goto, clock, table
<1>3. ASSUME NEW p \in Pointers
      PROVE  /\ overdue'[p] \in 0 .. CheckPeriod
             /\ p \in g_clients => overdue'[p] <= since_check
  <2>1. CASE Late(p)
    <3>1. /\ p \in g_clients /\ overdue[p] \in 0 .. CheckPeriod - 1
          /\ overdue[p] <= since_check /\ (struck => overdue[p] < since_check)
      BY <1>1, <1>2, <2>1, BoundsAssumption DEF OverdueOK, Late
    <3>2. overdue'[p] = IF struck THEN overdue[p] + 1 ELSE overdue[p]
      BY <1>2, <2>1, <3>1, BoundsAssumption DEF Counted
    <3> QED
      BY <1>1, <3>1, <3>2, BoundsAssumption
  <2>2. CASE ~Late(p)
    BY <1>1, <1>2, <2>2, BoundsAssumption
  <2> QED
    BY <2>1, <2>2
<1>4. overdue' \in [Pointers -> 0 .. CheckPeriod]
  BY <1>2, <1>3
<1> QED
  BY <1>1, <1>2, <1>3, <1>4 DEF OverdueOK

\* Elsewhere nothing is counted, and the check leaves no session that is due.
LEMMA ElsewhereOverdue ==
    ASSUME TimedInv, [Next]_vars, Elsewhere(Steady \/ Failure)
    PROVE  OverdueOK'
<1>1. /\ IInv /\ OverdueOK /\ g_clients \in SUBSET Pointers /\ since_check \in 0 .. CheckPeriod
  BY TypeParts DEF TimedInv, IInv, TypeTable, TypeLocal
<1>2. g_clients' \in SUBSET Pointers /\ since_check' \in 0 .. CheckPeriod
  BY <1>1, TableStep, LocalStep DEF TypeTable, TypeLocal
<1>3. (Steady \/ Failure) /\ ForgetTimely /\ struck' = FALSE
  BY DEF Elsewhere
<1>4. ASSUME NEW p \in g_clients'
      PROVE  overdue'[p] <= since_check' /\ overdue'[p] < CheckPeriod
  <2>1. CASE overdue'[p] = 0
    BY <1>2, <2>1, BoundsAssumption
  <2>2. CASE overdue'[p] # 0
    <3>1. overdue'[p] = overdue[p] /\ session'[p].idle > ClientTimeout
      BY <1>1, <1>2, <1>3, <2>2, ForgottenOrKept, BoundsAssumption
    <3>2. p \in g_clients /\ SameIdle(p)
      BY <1>1, <1>3, <3>1, ThreadSessions, BoundsAssumption
    <3>3. session[p].idle > ClientTimeout
      BY <3>1, <3>2 DEF SameIdle
    <3>4. ~RemoveClients(Expired)
      BY <1>4, <3>2, <3>3 DEF RemoveClients, Expired
    <3>5. since_check' = since_check
      BY <1>3, <3>4, ThreadClock
    <3>6. overdue[p] \in 0 .. CheckPeriod /\ overdue[p] <= since_check
          /\ (overdue[p] < CheckPeriod \/ pc = "check")
      BY <1>1, <3>2 DEF OverdueOK
    <3>7. pc = "check" => since_check < CheckPeriod
      BY <1>1, <1>3, <3>4, OnlyChecks, BoundsAssumption DEF CheckTimeouts
    <3> QED
      BY <1>1, <3>1, <3>5, <3>6, <3>7, BoundsAssumption
  <2> QED
    BY <2>1, <2>2
<1> QED
  BY <1>1, <1>3, <1>4, ForgottenOrKept, BoundsAssumption DEF OverdueOK

\* No session outlives its window by more waits than fit between two checks.
LEMMA OverdueStep == TimedInv /\ [TimedNext]_TimedVars => OverdueOK'
<1> SUFFICES ASSUME TimedInv, [TimedNext]_TimedVars PROVE OverdueOK'
  OBVIOUS
<1>1. CASE TimedWorld \/ UNCHANGED TimedVars
  <2>1. UNCHANGED <<g_clients, since_check, overdue, struck, pc>>
    BY <1>1, Zenon DEF TimedWorld, Signal, Arrive, TimedVars, vars, clock, table
  <2> QED
    BY <2>1 DEF TimedInv, OverdueOK
<1> QED
  BY <1>1, TimedSteps, TickOverdue, ReturnOverdue, ElsewhereOverdue, TimedIsLoop, Zenon

-----------------------------------------------------------------------------
(* The invariant, and what it implies. *)

LEMMA TimedInitially == TimedInit => TimedInv
<1> SUFFICES ASSUME TimedInit PROVE TimedInv
  OBVIOUS
<1>1. IInv /\ g_clients = {}
  BY Initially, Zenon DEF TimedInit, Init
<1>2. struck = FALSE /\ overdue = [p \in Pointers |-> 0]
  BY Zenon DEF TimedInit
<1>3. StruckOK
  BY <1>2, Zenon DEF StruckOK
<1>4. OverdueOK
  BY <1>1, <1>2, BoundsAssumption DEF OverdueOK
<1> QED
  BY <1>1, <1>3, <1>4 DEF TimedInv

LEMMA TimedInductive == TimedSpec => []TimedInv
<1>1. TimedInv /\ [TimedNext]_TimedVars => TimedInv'
  BY TimedIsLoop, Preserved, StruckStep, OverdueStep, Zenon DEF TimedInv
<1> QED
  BY <1>1, TimedInitially, PTL DEF TimedSpec

\* The clock only restricts the loop: what is proved of Spec holds with it, too.
THEOREM TimedLoopIsLoop == TimedSpec => Spec
<1>1. TimedInit => Init
  BY DEF TimedInit
<1> QED
  BY <1>1, TimedIsLoop, PTL DEF TimedSpec, Spec

\* check_client_timeouts, called after every epoll_wait that has not failed but
\* acting once in CheckPeriod seconds, lets no session outlive its window by
\* more than CheckPeriod such waits of a second or more, wherever else seconds
\* pass and for any number of clients that keep the socket busy.
THEOREM AlwaysExpiresInTime == TimedSpec => []ExpiresInTime
<1>1. ASSUME TimedInv PROVE ExpiresInTime
  <2>1. OverdueOK /\ g_clients \in SUBSET Pointers
    BY <1>1, TypeParts DEF TimedInv, IInv, TypeTable
  <2> QED
    BY <2>1, BoundsAssumption DEF OverdueOK, ExpiresInTime
<1> QED
  BY <1>1, TimedInductive, PTL

\* The process whose liveness is checked is a restriction of this one: it gets
\* finitely many datagrams, and is fair.
THEOREM LiveIsTimed == LiveSpec => TimedSpec
<1>1. LiveInit => TimedInit
  BY DEF LiveInit
<1>2. [LiveNext]_LiveVars => [TimedNext]_TimedVars
  BY Zenon DEF LiveNext, LiveSteady, LiveFailure, LiveTick, LiveWorld, LiveVars, TimedNext
<1>3. LiveSpec => LiveLoop
  BY DEF LiveSpec
<1> QED
  BY <1>1, <1>2, <1>3, PTL DEF TimedSpec, LiveLoop

\* So the process whose liveness is checked expires sessions within that bound
\* and implements the clients' table, whatever the number of datagrams.
THEOREM LiveServerIsSafe == LiveSpec => []ExpiresInTime /\ KeepsTable
  BY LiveIsTimed, TimedLoopIsLoop, AlwaysExpiresInTime, ServerKeepsTable, PTL
=============================================================================
