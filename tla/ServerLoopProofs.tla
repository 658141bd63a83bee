--------------------------- MODULE ServerLoopProofs ---------------------------
(***************************************************************************)
(* Theorems about ServerLoop, for any number of clients, any size of the   *)
(* socket's queue and any timeouts.                                        *)
(***************************************************************************)
EXTENDS ServerLoop, TLAPS

(* Inside a DTLS call, which of the two it is agrees with the session.     *)
CallAgrees == InDtls => (pc = "read" <=> session[client].handshake_complete)

(* What Drained rests on while the loop looks at the clock. *)
DrainedAtCheck ==
    pc = "check" /\ nfds = 0 /\ rcv # <<>> /\ ~edge => peek_errno = "other"

\* The inductive invariant.
IInv == /\ TypeOK /\ ListOK /\ NoUseAfterFree
        /\ PhaseAgrees /\ CallAgrees
        /\ Drained /\ DrainedAtCheck

-----------------------------------------------------------------------------
(* What the library and the wrapper can answer. *)

\* sc_dtls_handshake's switch yields only its own codes.
LEMMA HandshakeCodesTyped ==
    ASSUME NEW ret PROVE HandshakeCode(ret) \in HandshakeCodes
  BY DEF HandshakeCode, HandshakeCodes

\* sc_dtls_read's switch yields only its own codes.
LEMMA ReadCodesTyped ==
    ASSUME NEW ret PROVE ReadCode(ret) \in ReadCodes
  BY DEF ReadCode, ReadCodes

(* Receiving never finishes a handshake: only sending the last flight does. *)
LEMMA ReceivingPhases ==
    ASSUME NEW phase \in Phases, NEW kind \in Kinds, NEW o \in Processed(phase, kind)
    PROVE  /\ o.ssl \in Phases
           /\ o.ssl \in Established <=> phase \in Established
           /\ o.ret # "0"
  BY DEF Phases, Established, Kinds, Processed, Expected, Answers, Outcome

(* Nor does handing over what was received earlier. *)
LEMMA LeftoverPhases ==
    ASSUME NEW o \in Leftover
    PROVE  o.ssl \in Phases /\ o.ssl \in Established /\ o.ret # "0"
  BY DEF Phases, Established, Leftover, Outcome

\* Only 0 makes a handshake OK, and the library's wants become WOULD_BLOCK.
LEMMA CodesMeaning ==
    ASSUME NEW ret
    PROVE  /\ HandshakeCode(ret) = "OK" <=> ret = "0"
           /\ ret \in Wants => HandshakeCode(ret) = "WOULD_BLOCK" /\ ReadCode(ret) = "WOULD_BLOCK"
  BY DEF HandshakeCode, ReadCode, Wants

(* How a DTLS call goes on, or returns. *)
LEMMA ReturnsEffect ==
    ASSUME NEW ret, InDtls, Returns(ret)
    PROVE  \/ ret = "more" /\ pc' = pc /\ result' = result
           \/ /\ ret # "more" /\ pc = "handshake" /\ pc' = "shaken"
              /\ result' \in HandshakeCodes /\ (result' = "OK" <=> ret = "0")
              /\ (ret \in Wants => result' = "WOULD_BLOCK")
           \/ /\ ret # "more" /\ pc = "read" /\ pc' = "got" /\ result' \in ReadCodes
              /\ (ret \in Wants => result' = "WOULD_BLOCK")
<1>1. CASE ret = "more"
  BY <1>1 DEF Returns
<1>2. CASE ret # "more" /\ pc = "handshake"
  BY <1>2, HandshakeCodesTyped, CodesMeaning DEF Returns
<1>3. CASE ret # "more" /\ pc = "read"
  BY <1>3, ReadCodesTyped, CodesMeaning DEF Returns
<1> QED
  BY <1>1, <1>2, <1>3 DEF InDtls

\* Where the loop goes after a read.
LEMMA ReadReturnedMoves ==
    ReadReturned => pc = "got" /\ pc' \in {"respond", "remove", "discard"}
  BY DEF ReadReturned, Goto

-----------------------------------------------------------------------------
(* One field of a session changes; the others and its type do not. *)
LEMMA SessionFields ==
    ASSUME NEW s \in Sessions, NEW x \in Phases, NEW n \in 0 .. ClientTimeout + 1
    PROVE  /\ [s EXCEPT !.ssl = x] \in Sessions
           /\ [s EXCEPT !.ssl = x].addr = s.addr /\ [s EXCEPT !.ssl = x].ssl = x
           /\ [s EXCEPT !.ssl = x].handshake_complete = s.handshake_complete
           /\ [s EXCEPT !.ssl = x].idle = s.idle
           /\ [s EXCEPT !.handshake_complete = TRUE] \in Sessions
           /\ [s EXCEPT !.handshake_complete = TRUE].addr = s.addr
           /\ [s EXCEPT !.handshake_complete = TRUE].ssl = s.ssl
           /\ [s EXCEPT !.handshake_complete = TRUE].handshake_complete = TRUE
           /\ [s EXCEPT !.handshake_complete = TRUE].idle = s.idle
           /\ [s EXCEPT !.idle = n] \in Sessions
           /\ [s EXCEPT !.idle = n].addr = s.addr /\ [s EXCEPT !.idle = n].ssl = s.ssl
           /\ [s EXCEPT !.idle = n].handshake_complete = s.handshake_complete
           /\ [s EXCEPT !.idle = n].idle = n
  BY DEF Sessions

\* add_client's new object is well typed.
LEMMA NewSessionTyped ==
    ASSUME NEW a \in Addresses PROVE NewSession(a) \in Sessions
  BY BoundsAssumption DEF NewSession, Sessions, Phases

\* The conjuncts of TypeOK, grouped.
TypeTable ==
    /\ g_clients \in SUBSET Pointers
    /\ DOMAIN session \in SUBSET Pointers /\ session \in [DOMAIN session -> Sessions]

TypeSocket == rcv \in Seq(Datagrams) /\ Len(rcv) <= SocketBuffer /\ edge \in BOOLEAN

TypeLocal ==
    /\ g_running \in BOOLEAN /\ fresh \in BOOLEAN
    /\ pc \in PCs /\ nfds \in {0, 1}
    /\ since_check \in 0 .. CheckPeriod
    /\ client \in Pointers \cup {NULL}
    /\ result \in HandshakeCodes \cup ReadCodes \cup {"none", "ADD_FAILED"}
    /\ peek_errno \in {"none", "EAGAIN", "other"}
    /\ pc = "shaken" => result \in HandshakeCodes
    /\ pc = "got" => result \in ReadCodes

\* TypeOK by the part of the state it speaks of: table, socket, the loop's own.
LEMMA TypeParts == TypeOK <=> TypeTable /\ TypeSocket /\ TypeLocal
  BY DEF TypeOK, TypeTable, TypeSocket, TypeLocal

(* The datagram at the head of the queue, and the queue without it. *)
LEMMA SocketTail ==
    ASSUME TypeSocket, rcv # <<>>
    PROVE  /\ Head(rcv) \in Datagrams
           /\ Head(rcv).from \in Addresses /\ Head(rcv).kind \in Kinds
           /\ Tail(rcv) \in Seq(Datagrams) /\ Len(Tail(rcv)) = Len(rcv) - 1
           /\ Len(rcv) \in Nat /\ Len(Tail(rcv)) <= SocketBuffer
<1>1. Head(rcv) \in Datagrams /\ Tail(rcv) \in Seq(Datagrams)
      /\ Len(Tail(rcv)) = Len(rcv) - 1 /\ Len(rcv) \in Nat
  BY DEF TypeSocket
<1>2. Head(rcv).from \in Addresses /\ Head(rcv).kind \in Kinds
  BY <1>1 DEF Datagrams
<1> QED
  BY <1>1, <1>2, BoundsAssumption DEF TypeSocket

\* The socket's queue keeps its type and its bound.
LEMMA SocketStep == TypeSocket /\ [Next]_vars => TypeSocket'
<1> SUFFICES ASSUME TypeSocket, [Next]_vars PROVE TypeSocket'
  OBVIOUS
<1>1. CASE UNCHANGED socket
  BY <1>1 DEF socket, TypeSocket
<1>2. ASSUME rcv # <<>>, rcv' = Tail(rcv), edge' = edge PROVE TypeSocket'
  BY <1>2, SocketTail DEF TypeSocket
<1>3. ASSUME NEW a \in Addresses, NEW k \in Kinds, Arrive(a, k) PROVE TypeSocket'
  <2>1. [from |-> a, kind |-> k] \in Datagrams
    BY DEF Datagrams
  <2> QED
    BY <1>3, <2>1, BoundsAssumption DEF Arrive, TypeSocket
<1>4. CASE EpollEvent
  BY <1>4 DEF EpollEvent, TypeSocket
<1>5. CASE ReceiveOwn \/ ReceiveOther
  BY <1>2, <1>5 DEF ReceiveOwn, ReceiveOther
<1>6. CASE Discard
  BY <1>1, <1>2, <1>6 DEF Discard, socket
<1>7. CASE Stop
  <2> SUFFICES ASSUME rcv' = <<>>, edge' = FALSE PROVE TypeSocket'
    BY <1>7 DEF Stop
  <2>1. rcv' \in Seq(Datagrams) /\ Len(rcv') = 0
    OBVIOUS
  <2>2. edge' \in BOOLEAN
    OBVIOUS
  <2> QED
    BY <2>1, <2>2, BoundsAssumption DEF TypeSocket
<1>8. CASE Tick \/ Signal \/ Failure
  BY <1>1, <1>8 DEF Tick, Signal, Failure, EpollFails, PeekNewFails, PeekFails, EndDrain,
       ReceiveFails, SendFlightFails
<1>9. CASE LoopTest \/ EpollTimeout \/ CheckTimeouts \/ PeekEmpty
  BY <1>1, <1>9 DEF LoopTest, EpollTimeout, CheckTimeouts, PeekEmpty, EndDrain
<1>10. ASSUME NEW p \in Pointers, PeekKnown(p) \/ PeekNew(p) \/ ShutdownRemove(p)
       PROVE  TypeSocket'
  BY <1>1, <1>10 DEF PeekKnown, PeekNew, ShutdownRemove
<1>11. CASE ReadRest \/ SelectTimeout \/ SendFlight \/ HandshakeReturned \/ ReadReturned \/ Remove
  BY <1>1, <1>11 DEF ReadRest, SelectTimeout, SendFlight, HandshakeReturned, ReadReturned, Remove
<1>12. ASSUME NEW ret, Respond(ret) PROVE TypeSocket'
  BY <1>1, <1>12 DEF Respond
<1>13. CASE UNCHANGED vars
  BY <1>1, <1>13 DEF vars
<1> QED
  BY <1>3, <1>4, <1>5, <1>6, <1>7, <1>8, <1>9, <1>10, <1>11, <1>12, <1>13
     DEF Next, Steady, World, Outer, Peek, Dtls, Handle, Finish

-----------------------------------------------------------------------------
(* The table of sessions: how each kind of update changes it, pointwise. *)

\* What an update of the table leaves as it was.
SameAddrAndSsl(p)   == session'[p].addr = session[p].addr /\ session'[p].ssl = session[p].ssl
SameComplete(p)     == session'[p].handshake_complete = session[p].handshake_complete
SameIdle(p)         == session'[p].idle = session[p].idle
SameDomain == DOMAIN session' = DOMAIN session /\ session' \in [DOMAIN session -> Sessions]

\* Replacing one session by a well-typed one.
LEMMA SessionUpdate ==
    ASSUME TypeTable, NEW c \in DOMAIN session, NEW t \in Sessions,
           session' = [session EXCEPT ![c] = t]
    PROVE  /\ SameDomain /\ session'[c] = t
           /\ \A p \in DOMAIN session : p # c => session'[p] = session[p]
  BY DEF TypeTable, SameDomain

\* What moving one session's ssl state does to the table, field by field.
LEMMA SslUpdate ==
    ASSUME TypeTable, NEW c \in DOMAIN session, NEW x \in Phases,
           session' = [session EXCEPT ![c].ssl = x]
    PROVE  /\ SameDomain
           /\ \A p \in DOMAIN session :
                /\ session'[p].addr = session[p].addr /\ SameComplete(p) /\ SameIdle(p)
                /\ session'[p].ssl = IF p = c THEN x ELSE session[p].ssl
<1> DEFINE t == [session[c] EXCEPT !.ssl = x]
<1>1. session[c] \in Sessions /\ 0 \in 0 .. ClientTimeout + 1
  BY BoundsAssumption DEF TypeTable
<1>2. /\ t \in Sessions /\ t.addr = session[c].addr /\ t.ssl = x
      /\ t.handshake_complete = session[c].handshake_complete /\ t.idle = session[c].idle
  BY <1>1, SessionFields, Zenon
<1>3. session' = [session EXCEPT ![c] = t]
  BY Zenon
<1> HIDE DEF t
<1> QED
  BY <1>2, <1>3, SessionUpdate DEF SameComplete, SameIdle

\* What noting one session's handshake as complete does.
LEMMA CompleteUpdate ==
    ASSUME TypeTable, NEW c \in DOMAIN session,
           session' = [session EXCEPT ![c].handshake_complete = TRUE]
    PROVE  /\ SameDomain
           /\ \A p \in DOMAIN session :
                /\ SameAddrAndSsl(p) /\ SameIdle(p)
                /\ IF p = c THEN session'[p].handshake_complete ELSE SameComplete(p)
<1> DEFINE t == [session[c] EXCEPT !.handshake_complete = TRUE]
<1>1. session[c] \in Sessions /\ 0 \in 0 .. ClientTimeout + 1 /\ "over" \in Phases
  BY BoundsAssumption DEF TypeTable, Phases
<1>2. /\ t \in Sessions /\ t.addr = session[c].addr /\ t.ssl = session[c].ssl
      /\ t.handshake_complete = TRUE /\ t.idle = session[c].idle
  BY <1>1, SessionFields, Zenon
<1>3. session' = [session EXCEPT ![c] = t]
  BY Zenon
<1> HIDE DEF t
<1>4. SameDomain /\ session'[c] = t
      /\ \A p \in DOMAIN session : p # c => session'[p] = session[p]
  BY <1>2, <1>3, SessionUpdate
<1> QED
  BY <1>2, <1>4, Zenon DEF SameComplete, SameAddrAndSsl, SameIdle

\* What recording one session's activity does.
LEMMA IdleUpdate ==
    ASSUME TypeTable, NEW c \in DOMAIN session, session' = [session EXCEPT ![c].idle = 0]
    PROVE  /\ SameDomain
           /\ \A p \in DOMAIN session :
                /\ SameAddrAndSsl(p) /\ SameComplete(p)
                /\ IF p = c THEN session'[p].idle = 0 ELSE SameIdle(p)
<1> DEFINE t == [session[c] EXCEPT !.idle = 0]
<1>1. session[c] \in Sessions /\ 0 \in 0 .. ClientTimeout + 1 /\ "over" \in Phases
  BY BoundsAssumption DEF TypeTable, Phases
<1>2. /\ t \in Sessions /\ t.addr = session[c].addr /\ t.ssl = session[c].ssl
      /\ t.handshake_complete = session[c].handshake_complete /\ t.idle = 0
  BY <1>1, SessionFields, Zenon
<1>3. session' = [session EXCEPT ![c] = t]
  BY Zenon
<1> HIDE DEF t
<1>4. SameDomain /\ session'[c] = t
      /\ \A p \in DOMAIN session : p # c => session'[p] = session[p]
  BY <1>2, <1>3, SessionUpdate
<1> QED
  BY <1>2, <1>4, Zenon DEF SameComplete, SameAddrAndSsl, SameIdle

\* What the passing of a second does.
LEMMA TickUpdate ==
    ASSUME TypeTable, Tick
    PROVE  /\ SameDomain
           /\ \A p \in DOMAIN session :
                /\ SameAddrAndSsl(p) /\ SameComplete(p)
                /\ session'[p].idle = IF session[p].idle <= ClientTimeout
                                        THEN session[p].idle + 1 ELSE session[p].idle
<1> DEFINE n(p) == IF session[p].idle <= ClientTimeout THEN session[p].idle + 1
                                                       ELSE session[p].idle
           t(p) == [session[p] EXCEPT !.idle = n(p)]
<1>1. session' = [p \in DOMAIN session |-> t(p)]
  BY Zenon DEF Tick
<1>2. ASSUME NEW p \in DOMAIN session
      PROVE  /\ t(p) \in Sessions /\ t(p).addr = session[p].addr
             /\ t(p).ssl = session[p].ssl
             /\ t(p).handshake_complete = session[p].handshake_complete
             /\ t(p).idle = n(p)
  <2>1. session[p] \in Sessions /\ "over" \in Phases
    BY DEF TypeTable, Phases
  <2>2. n(p) \in 0 .. ClientTimeout + 1
    <3>1. session[p].idle \in 0 .. ClientTimeout + 1
      BY <2>1 DEF Sessions
    <3> QED
      BY <3>1, BoundsAssumption
  <2> HIDE DEF n
  <2> QED
    BY <2>1, <2>2, SessionFields, Zenon
<1> HIDE DEF t
<1> QED
  BY <1>1, <1>2, Zenon DEF SameDomain, SameAddrAndSsl, SameComplete

-----------------------------------------------------------------------------
(* The steps, grouped by what they do to the table. *)

\* A step inside a DTLS call: only the session's ssl state may move, and it is
\* established afterwards exactly when it was before or the call returns 0.
DtlsStep == Dtls \/ ReceiveFails \/ SendFlightFails

\* Inside a DTLS call the client is alive and its session well typed.
LEMMA InDtlsFacts ==
    ASSUME TypeTable, ListOK, NoUseAfterFree, InDtls
    PROVE  /\ client \in DOMAIN session /\ client \in g_clients
           /\ session[client] \in Sessions /\ Ssl \in Phases
           /\ session[client].handshake_complete \in BOOLEAN
<1>1. client \in DOMAIN session /\ client \in g_clients
  BY DEF InDtls, NoUseAfterFree, UsesClient, ListOK
<1>2. session[client] \in Sessions
  BY <1>1 DEF TypeTable
<1> QED
  BY <1>1, <1>2 DEF Sessions, Ssl

\* The effect of any step inside a DTLS call on the table and on the call.
LEMMA DtlsEffect ==
    ASSUME IInv, DtlsStep
    PROVE  /\ InDtls /\ client \in DOMAIN session /\ client \in g_clients
           /\ g_clients' = g_clients /\ client' = client /\ SameDomain
           /\ \A p \in DOMAIN session :
                /\ session'[p].addr = session[p].addr /\ SameComplete(p) /\ SameIdle(p)
                /\ p # client => session'[p].ssl = session[p].ssl
           /\ \E ret : /\ Returns(ret)
                       /\ session'[client].ssl \in Established <=> Ssl \in Established \/ ret = "0"
                       /\ ret = "0" => Ssl \notin Established
<1>1. TypeTable /\ TypeSocket /\ TypeLocal /\ ListOK /\ NoUseAfterFree
  BY TypeParts DEF IInv
<1>2. InDtls /\ g_clients' = g_clients /\ client' = client
  BY Zenon DEF DtlsStep, Dtls, ReceiveOwn, ReceiveOther, ReadRest, SelectTimeout, SendFlight,
     ReceiveFails, SendFlightFails, WantsInput, table
<1>3. client \in DOMAIN session /\ client \in g_clients /\ Ssl \in Phases
  BY <1>1, <1>2, InDtlsFacts
<1>4. ASSUME NEW x \in Phases, NEW ret, Returns(ret),
             session' = [session EXCEPT ![client].ssl = x],
             x \in Established <=> Ssl \in Established \/ ret = "0", ret = "0" => Ssl \notin Established
      PROVE  /\ SameDomain
             /\ \A p \in DOMAIN session :
                  /\ session'[p].addr = session[p].addr /\ SameComplete(p) /\ SameIdle(p)
                  /\ p # client => session'[p].ssl = session[p].ssl
             /\ session'[client].ssl \in Established <=> Ssl \in Established \/ ret = "0"
  <2>1. /\ SameDomain
        /\ \A p \in DOMAIN session :
             /\ session'[p].addr = session[p].addr /\ SameComplete(p) /\ SameIdle(p)
             /\ session'[p].ssl = IF p = client THEN x ELSE session[p].ssl
    BY <1>1, <1>3, <1>4, SslUpdate, Zenon
  <2> QED
    BY <1>3, <1>4, <2>1, Zenon
<1>5. ASSUME NEW ret, Returns(ret), session' = session, ret # "0"
      PROVE  /\ SameDomain
             /\ \A p \in DOMAIN session :
                  /\ session'[p].addr = session[p].addr /\ SameComplete(p) /\ SameIdle(p)
                  /\ p # client => session'[p].ssl = session[p].ssl
             /\ session'[client].ssl \in Established <=> Ssl \in Established \/ ret = "0"
  BY <1>1, <1>5 DEF SameDomain, SameComplete, SameIdle, TypeTable, Ssl
<1>6. CASE ReceiveOwn
  <2>1. rcv # <<>>
    BY <1>6 DEF ReceiveOwn
  <2>2. Head(rcv).kind \in Kinds
    BY <1>1, <2>1, SocketTail
  <2>3. PICK o \in Processed(Ssl, Head(rcv).kind) :
          session' = [session EXCEPT ![client].ssl = o.ssl] /\ Returns(o.ret)
    BY <1>6, Zenon DEF ReceiveOwn
  <2>4. o.ssl \in Phases /\ (o.ssl \in Established <=> Ssl \in Established) /\ o.ret # "0"
    BY <1>3, <2>2, ReceivingPhases
  <2>5. (o.ssl \in Established <=> Ssl \in Established \/ o.ret = "0") /\ (o.ret = "0" => Ssl \notin Established)
    BY <2>4
  <2> QED
    BY <1>2, <1>3, <1>4, <2>3, <2>4, <2>5, Zenon
<1>7. CASE SendFlight
  <2>1. /\ Sent(Ssl) \in Phases /\ Ssl \notin Established /\ Ssl \in Sending
        /\ Sent(Ssl) \in Established <=> Sent(Ssl) = "over"
    BY <1>7 DEF SendFlight, Sent, Sending, Phases, Established
  <2>2. session' = [session EXCEPT ![client].ssl = Sent(Ssl)]
    BY <1>7, Zenon DEF SendFlight, Ssl
  <2>3. PICK ret : Returns(ret) /\ ret = IF Sent(Ssl) = "over" THEN "0" ELSE "more"
    BY <1>7, Zenon DEF SendFlight
  <2> QED
    BY <1>2, <1>3, <1>4, <2>1, <2>2, <2>3, Zenon
<1>8. CASE ReceiveOther \/ SelectTimeout \/ ReceiveFails \/ SendFlightFails
  <2>1. session' = session
    BY <1>8 DEF ReceiveOther, SelectTimeout, ReceiveFails, SendFlightFails, table
  <2>2. \E ret : Returns(ret) /\ ret # "0"
    BY <1>8 DEF ReceiveOther, SelectTimeout, ReceiveFails, SendFlightFails
  <2> QED
    BY <1>2, <1>3, <1>5, <2>1, <2>2, Zenon
<1>9. CASE ReadRest
  <2>1. PICK o \in Leftover :
          session' = [session EXCEPT ![client].ssl = o.ssl] /\ Returns(o.ret)
    BY <1>9, Zenon DEF ReadRest
  <2>2. Ssl \in Established
    BY <1>9 DEF ReadRest, Established
  <2>3. /\ o.ssl \in Phases
        /\ o.ssl \in Established <=> Ssl \in Established \/ o.ret = "0"
        /\ o.ret = "0" => Ssl \notin Established
    BY <2>2, LeftoverPhases
  <2> QED
    BY <1>2, <1>3, <1>4, <2>1, <2>3, Zenon
<1> QED
  BY <1>6, <1>7, <1>8, <1>9, Zenon DEF DtlsStep, Dtls

\* Every other step leaves the sessions' phases alone: it touches nothing but
\* an idle time, or removes sessions, or adds one, or notes a handshake.
Untouched == /\ g_clients' \subseteq g_clients
             /\ DOMAIN session' = DOMAIN session \ (g_clients \ g_clients')
             /\ session' \in [DOMAIN session' -> Sessions]
             /\ \A p \in DOMAIN session' : SameAddrAndSsl(p) /\ SameComplete(p)

\* Steps that leave the table as it is.
LEMMA SameTable == ASSUME TypeTable, UNCHANGED table PROVE Untouched
  BY DEF table, TypeTable, Untouched, SameAddrAndSsl, SameComplete

\* Steps that change nothing but an idle time.
LEMMA SameList ==
    ASSUME TypeTable, UNCHANGED g_clients, SameDomain,
           \A p \in DOMAIN session : SameAddrAndSsl(p) /\ SameComplete(p)
    PROVE  Untouched
  BY DEF Untouched, SameDomain

\* remove_client for any set of listed sessions leaves the others untouched.
LEMMA Removing ==
    ASSUME TypeTable, ListOK, NEW S \in SUBSET g_clients, RemoveClients(S)
    PROVE  Untouched
  BY DEF TypeTable, ListOK, RemoveClients, Untouched, SameAddrAndSsl, SameComplete

\* What the steps outside the DTLS calls that keep the phases do.
QuietStep ==
    \/ Outer \/ Finish \/ World \/ PeekEmpty \/ ReadReturned \/ Discard \/ Remove
    \/ \E ret \in {"bytes", "WANT_WRITE", "NET_SEND_FAILED"} : Respond(ret)
    \/ \E p \in Pointers : PeekKnown(p)
    \/ EpollFails \/ PeekNewFails \/ PeekFails

\* Every step is in one of the groups.
LEMMA StepsGrouped ==
    ASSUME [Next]_vars
    PROVE  \/ DtlsStep \/ QuietStep \/ HandshakeReturned
           \/ \E p \in Pointers : PeekNew(p)
           \/ UNCHANGED vars
  BY Zenon DEF Next, Steady, Failure, Peek, Handle, DtlsStep, QuietStep

\* find_client found it: the loop enters a listed session.
LEMMA KnownEffect ==
    ASSUME TypeTable, ListOK, NEW p \in Pointers, PeekKnown(p)
    PROVE  Untouched /\ client' = p /\ p \in g_clients' /\ Enter(p)
<1>1. p \in g_clients /\ p \in DOMAIN session /\ client' = p /\ g_clients' = g_clients
  BY Zenon DEF PeekKnown, Found, ListOK
<1>2. session' = [session EXCEPT ![p].idle = 0] /\ Enter(p)
  BY Zenon DEF PeekKnown
<1> QED
  BY <1>1, <1>2, IdleUpdate, SameList, Zenon

\* A quiet step leaves every session that stays untouched.
LEMMA QuietTable ==
    ASSUME TypeTable, ListOK, NoUseAfterFree, QuietStep
    PROVE  Untouched
<1>1. CASE UNCHANGED table
  BY <1>1, SameTable
<1>2. ASSUME NEW S \in SUBSET g_clients, RemoveClients(S) PROVE Untouched
  BY <1>2, Removing
<1>3. CASE Outer
  <2>1. Expired \in SUBSET g_clients
    BY DEF Expired
  <2> QED
    BY <1>1, <1>2, <1>3, <2>1, Zenon
       DEF Outer, LoopTest, EpollEvent, EpollTimeout, CheckTimeouts, table, clock
<1>4. CASE Finish
  <2>1. CASE Stop
    BY <1>1, <2>1, Zenon DEF Stop
  <2>2. ASSUME NEW p \in Pointers, ShutdownRemove(p) PROVE Untouched
    <3>1. {p} \in SUBSET g_clients /\ RemoveClients({p})
      BY <2>2, Zenon DEF ShutdownRemove
    <3> QED
      BY <1>2, <3>1
  <2> QED
    BY <1>4, <2>1, <2>2, Zenon DEF Finish
<1>5. CASE World
  <2>1. CASE Tick
    <3>1. UNCHANGED g_clients
      BY <2>1, Zenon DEF Tick
    <3> QED
      BY <2>1, <3>1, TickUpdate, SameList, Zenon
  <2>2. CASE Signal \/ \E a \in Addresses, k \in Kinds : Arrive(a, k)
    BY <1>1, <2>2, Zenon DEF Signal, Arrive
  <2> QED
    BY <1>5, <2>1, <2>2, Zenon DEF World
<1>6. CASE Remove
  <2>1. {client} \in SUBSET g_clients /\ RemoveClients({client})
    BY <1>6 DEF Remove, Goto, NoUseAfterFree, UsesClient
  <2> QED
    BY <1>2, <2>1
<1>7. ASSUME NEW p \in Pointers, PeekKnown(p) PROVE Untouched
  BY <1>7, KnownEffect
<1>8. CASE \/ PeekEmpty \/ ReadReturned \/ Discard
           \/ \E ret \in {"bytes", "WANT_WRITE", "NET_SEND_FAILED"} : Respond(ret)
           \/ EpollFails \/ PeekNewFails \/ PeekFails
  BY <1>1, <1>8, Zenon DEF PeekEmpty, EndDrain, ReadReturned, Discard, Respond,
     EpollFails, PeekNewFails, PeekFails
<1> QED
  BY <1>3, <1>4, <1>5, <1>6, <1>7, <1>8, Zenon DEF QuietStep

\* ... and so the table's type and the list.
LEMMA UntouchedKeeps ==
    ASSUME TypeTable, ListOK, Untouched PROVE TypeTable' /\ ListOK'
  BY DEF TypeTable, ListOK, Untouched, SameAddrAndSsl

\* add_client: the new session is first in its phase and the only one of its address.
LEMMA AddEffect ==
    ASSUME TypeTable, TypeSocket, ListOK, NEW p \in Pointers, PeekNew(p)
    PROVE  /\ TypeTable' /\ ListOK'
           /\ client' = p /\ p \in g_clients' /\ Enter(p)
           /\ session'[p].ssl = "hello" /\ session'[p].handshake_complete = FALSE
           /\ session'[p].addr = Head(rcv).from /\ session'[p].idle = 0
           /\ g_clients' = g_clients \cup {p}
           /\ \A q \in g_clients :
                q # p /\ SameAddrAndSsl(q) /\ SameComplete(q) /\ SameIdle(q)
<1> DEFINE a == Head(rcv).from
           n == NewSession(a)
<1>1. /\ rcv # <<>> /\ p \notin DOMAIN session /\ Found(a) = {}
      /\ g_clients' = g_clients \cup {p} /\ client' = p /\ Enter(p)
      /\ session' = [q \in DOMAIN session \cup {p} |-> IF q = p THEN n ELSE session[q]]
  BY DEF PeekNew, AddClient
<1>2. a \in Addresses
  BY <1>1, SocketTail
<1>3. n \in Sessions
  BY <1>2, NewSessionTyped
<1>4. n.addr = a /\ n.ssl = "hello" /\ n.handshake_complete = FALSE /\ n.idle = 0
  BY DEF NewSession
<1>5. \A q \in g_clients : q # p /\ session[q].addr # a
  BY <1>1 DEF Found, ListOK
<1> HIDE DEF n
<1>6. session'[p] = n /\ \A q \in g_clients : session'[q] = session[q]
  BY <1>1, <1>5 DEF ListOK
<1>7. TypeTable'
  BY <1>1, <1>3 DEF TypeTable
<1>8. ListOK'
  BY <1>1, <1>4, <1>5, <1>6 DEF ListOK
<1> QED
  BY <1>1, <1>4, <1>5, <1>6, <1>7, <1>8 DEF SameAddrAndSsl, SameComplete, SameIdle

\* The loop notes a complete handshake in the session it served, and only there.
LEMMA NotedEffect ==
    ASSUME TypeTable, ListOK, NoUseAfterFree, HandshakeReturned
    PROVE  /\ pc = "shaken" /\ pc' = "discard" /\ client \in g_clients
           /\ g_clients' = g_clients /\ client' = client /\ result' = result /\ SameDomain
           /\ \A p \in DOMAIN session :
                /\ SameAddrAndSsl(p) /\ SameIdle(p)
                /\ IF p = client /\ result = "OK" THEN session'[p].handshake_complete
                                                  ELSE SameComplete(p)
<1>1. /\ pc = "shaken" /\ pc' = "discard" /\ g_clients' = g_clients
      /\ client' = client /\ result' = result
  BY Zenon DEF HandshakeReturned, Goto, local
<1>2. client \in g_clients /\ client \in DOMAIN session
  BY <1>1 DEF NoUseAfterFree, UsesClient, ListOK
<1>3. CASE result = "OK"
  <2>1. session' = [session EXCEPT ![client].handshake_complete = TRUE]
    BY <1>3, Zenon DEF HandshakeReturned
  <2> QED
    BY <1>1, <1>2, <1>3, <2>1, CompleteUpdate, Zenon
<1>4. CASE result # "OK"
  <2>1. session' = session
    BY <1>4, Zenon DEF HandshakeReturned
  <2> QED
    BY <1>1, <1>2, <1>4, <2>1 DEF TypeTable, SameDomain, SameAddrAndSsl, SameComplete, SameIdle
<1> QED
  BY <1>3, <1>4

-----------------------------------------------------------------------------
(* One lemma for each part of the invariant. *)

\* The table's type and ListOK.
LEMMA TableStep == IInv /\ [Next]_vars => TypeTable' /\ ListOK'
<1> SUFFICES ASSUME IInv, [Next]_vars PROVE TypeTable' /\ ListOK'
  OBVIOUS
<1>1. TypeTable /\ TypeSocket /\ ListOK /\ NoUseAfterFree
  BY TypeParts DEF IInv
<1>2. ASSUME g_clients' = g_clients, SameDomain,
             \A p \in DOMAIN session : session'[p].addr = session[p].addr
      PROVE  TypeTable' /\ ListOK'
  BY <1>1, <1>2 DEF TypeTable, ListOK, SameDomain
<1>3. CASE DtlsStep
  BY <1>2, <1>3, DtlsEffect, Zenon
<1>4. CASE QuietStep
  BY <1>1, <1>4, QuietTable, UntouchedKeeps
<1>5. CASE HandshakeReturned
  BY <1>1, <1>2, <1>5, NotedEffect, Zenon DEF SameAddrAndSsl
<1>6. ASSUME NEW p \in Pointers, PeekNew(p) PROVE TypeTable' /\ ListOK'
  BY <1>1, <1>6, AddEffect
<1>7. CASE UNCHANGED vars
  BY <1>1, <1>7 DEF vars, table, TypeTable, ListOK
<1> QED
  BY <1>3, <1>4, <1>5, <1>6, <1>7, StepsGrouped, Zenon

\* Where a DTLS step leaves the loop's own variables.
LEMMA DtlsLocal ==
    ASSUME IInv, DtlsStep
    PROVE  /\ nfds' = nfds /\ client' = client /\ g_running' = g_running
           /\ since_check' = since_check /\ peek_errno' = peek_errno /\ edge' = edge
           /\ fresh' \in {fresh, FALSE}
           /\ pc' \in {pc, "shaken", "got"}
           /\ result' \in HandshakeCodes \cup ReadCodes \cup {result}
           /\ pc' = "shaken" => result' \in HandshakeCodes
           /\ pc' = "got" => result' \in ReadCodes
<1>1. PICK ret : InDtls /\ Returns(ret)
  BY DtlsEffect, Zenon
<1>2. /\ pc' \in {pc, "shaken", "got"}
      /\ result' \in HandshakeCodes \cup ReadCodes \cup {result}
      /\ pc' = "shaken" => result' \in HandshakeCodes
      /\ pc' = "got" => result' \in ReadCodes
  BY <1>1, ReturnsEffect DEF InDtls
<1>3. /\ nfds' = nfds /\ client' = client /\ g_running' = g_running
      /\ since_check' = since_check /\ peek_errno' = peek_errno /\ edge' = edge
      /\ fresh' \in {fresh, FALSE}
  BY Zenon DEF DtlsStep, Dtls, ReceiveOwn, ReceiveOther, ReadRest, SelectTimeout, SendFlight,
     ReceiveFails, SendFlightFails, clock, socket
<1> QED
  BY <1>2, <1>3

\* The types of the loop's own variables.
LEMMA LocalStep == IInv /\ [Next]_vars => TypeLocal'
<1> SUFFICES ASSUME IInv, [Next]_vars PROVE TypeLocal'
  OBVIOUS
<1>1. TypeLocal /\ TypeTable /\ TypeSocket /\ ListOK /\ NoUseAfterFree
  BY TypeParts DEF IInv
<1>2. CASE DtlsStep
  BY <1>1, <1>2, DtlsLocal DEF TypeLocal, PCs
<1>3. CASE HandshakeReturned
  <2>1. /\ pc' = "discard" /\ UNCHANGED <<nfds, client, result, fresh, peek_errno>>
        /\ g_running' = g_running /\ since_check' = since_check
    BY <1>3, Zenon DEF HandshakeReturned, Goto, local, clock
  <2> QED
    BY <1>1, <2>1 DEF TypeLocal, PCs
<1>4. ASSUME NEW p \in Pointers, PeekNew(p) \/ PeekKnown(p) PROVE TypeLocal'
  <2>1. /\ client' = p /\ result' = "none" /\ fresh' = TRUE /\ UNCHANGED <<nfds, peek_errno>>
        /\ g_running' = g_running /\ since_check' = since_check
        /\ pc' \in {"read", "handshake"}
    BY <1>4, Zenon DEF PeekNew, PeekKnown, Enter, clock
  <2> QED
    BY <1>1, <2>1 DEF TypeLocal, PCs
<1>5. CASE Tick
  <2>1. UNCHANGED <<g_running, pc, local>>
        /\ since_check' = IF since_check < CheckPeriod THEN since_check + 1 ELSE CheckPeriod
    BY <1>5, Zenon DEF Tick
  <2> QED
    BY <1>1, <2>1, BoundsAssumption DEF TypeLocal, local
<1>6. CASE Signal \/ \E a \in Addresses, k \in Kinds : Arrive(a, k)
  BY <1>1, <1>6 DEF Signal, Arrive, TypeLocal, local, clock
<1>7. CASE Outer
  BY <1>1, <1>7, BoundsAssumption
     DEF Outer, LoopTest, EpollEvent, EpollTimeout, CheckTimeouts, Goto,
         TypeLocal, PCs, local, clock
<1>8. CASE Finish \/ Remove \/ Discard \/ ReadReturned
  BY <1>1, <1>8, ReadReturnedMoves DEF Finish, Stop, ShutdownRemove, Remove, Discard,
     ReadReturned, Goto, TypeLocal, PCs, local, clock
<1>9. ASSUME NEW ret, Respond(ret) PROVE TypeLocal'
  <2>1. pc' \in {"peek", "remove"} /\ UNCHANGED <<g_running, clock, local>>
    BY <1>9, Zenon DEF Respond, Goto
  <2> QED
    BY <1>1, <2>1 DEF TypeLocal, PCs, local, clock
<1>10. CASE PeekEmpty \/ PeekNewFails \/ PeekFails \/ EpollFails
  BY <1>1, <1>10 DEF PeekEmpty, EndDrain, PeekNewFails, PeekFails, EpollFails, Goto,
     TypeLocal, PCs, local, clock
<1>11. CASE UNCHANGED vars
  BY <1>1, <1>11 DEF vars, local, clock, TypeLocal
<1> QED
  BY <1>2, <1>3, <1>4, <1>5, <1>6, <1>7, <1>8, <1>9, <1>10, <1>11, StepsGrouped, Zenon
     DEF QuietStep, World

\* TypeOK as a whole.
LEMMA TypeStep == IInv /\ [Next]_vars => TypeOK'
<1>1. TypeOK' <=> TypeTable' /\ TypeSocket' /\ TypeLocal'
  BY Zenon DEF TypeOK, TypeTable, TypeSocket, TypeLocal
<1> QED
  BY <1>1, TypeParts, TableStep, SocketStep, LocalStep, Zenon DEF IInv

\* NoUseAfterFree.
LEMMA UseStep == IInv /\ [Next]_vars => NoUseAfterFree'
<1> SUFFICES ASSUME IInv, [Next]_vars PROVE NoUseAfterFree'
  OBVIOUS
<1>1. TypeLocal /\ TypeTable /\ TypeSocket /\ ListOK /\ NoUseAfterFree
  BY TypeParts DEF IInv
<1>2. ASSUME UsesClient' => UsesClient, client' = client, g_clients' = g_clients
      PROVE  NoUseAfterFree'
  BY <1>1, <1>2 DEF NoUseAfterFree
<1>3. CASE DtlsStep
  BY <1>3, DtlsEffect, Zenon DEF NoUseAfterFree
<1>4. CASE HandshakeReturned
  BY <1>1, <1>4, NotedEffect DEF NoUseAfterFree
<1>5. ASSUME NEW p \in Pointers, PeekNew(p) \/ PeekKnown(p) PROVE NoUseAfterFree'
  BY <1>1, <1>5, AddEffect, KnownEffect DEF NoUseAfterFree
<1>6. CASE World \/ ReadReturned \/ Discard \/ EpollFails \/ PeekNewFails
           \/ PeekEmpty \/ PeekFails
  <2>1. CASE World
    <3>1. UNCHANGED <<g_clients, pc, client, result>>
      BY <2>1, Zenon DEF World, Tick, Signal, Arrive, table, local
    <3> QED
      BY <1>2, <3>1 DEF UsesClient
  <2>2. CASE ReadReturned
    <3>1. UNCHANGED <<g_clients, client, result>> /\ pc = "got"
      BY <2>2, Zenon DEF ReadReturned, Goto, table, local
    <3> QED
      BY <1>2, <3>1 DEF UsesClient
  <2>3. CASE Discard
    <3>1. /\ UNCHANGED <<g_clients, client, result>> /\ pc = "discard"
          /\ pc' = IF result \in {"OK", "WOULD_BLOCK", "ADD_FAILED"} THEN "peek" ELSE "remove"
      BY <2>3, Zenon DEF Discard, Goto, table
    <3> QED
      BY <1>2, <3>1 DEF UsesClient
  <2>4. CASE EpollFails \/ PeekNewFails \/ PeekEmpty \/ PeekFails
    BY <2>4 DEF EpollFails, PeekNewFails, PeekEmpty, PeekFails, EndDrain, Goto,
       NoUseAfterFree, UsesClient
  <2> QED
    BY <1>6, <2>1, <2>2, <2>3, <2>4
<1>7. CASE Outer \/ Finish \/ Remove
  <2>1. pc' \in {"epoll", "shutdown", "check", "peek", "loop", "stopped"}
    BY <1>7 DEF Outer, LoopTest, EpollEvent, EpollTimeout, CheckTimeouts,
       Finish, Stop, ShutdownRemove, Remove, Goto
  <2> QED
    BY <2>1 DEF NoUseAfterFree, UsesClient
<1>8. ASSUME NEW ret, Respond(ret) PROVE NoUseAfterFree'
  <2>1. UNCHANGED <<g_clients, client, result>> /\ pc = "respond"
    BY <1>8, Zenon DEF Respond, Goto, table, local
  <2> QED
    BY <1>2, <2>1 DEF UsesClient
<1>9. CASE UNCHANGED vars
  BY <1>2, <1>9 DEF vars, table, local, UsesClient
<1> QED
  BY <1>3, <1>4, <1>5, <1>6, <1>7, <1>8, <1>9, StepsGrouped, Zenon DEF QuietStep

\* A quiet step neither ends a DTLS call nor hides one that has returned.
LEMMA QuietMoves ==
    ASSUME QuietStep
    PROVE  \/ UNCHANGED <<pc, client, result>>
           \/ /\ pc # "shaken" /\ pc' # "shaken"
              /\ \/ pc' \notin {"handshake", "read"}
                 \/ \E p \in Pointers : PeekKnown(p)
<1>1. CASE World
  BY <1>1, Zenon DEF World, Tick, Signal, Arrive, local
<1>2. CASE Outer
  BY <1>2 DEF Outer, LoopTest, EpollEvent, EpollTimeout, CheckTimeouts, Goto
<1>3. CASE Finish
  BY <1>3 DEF Finish, Stop, ShutdownRemove, Goto, local
<1>4. CASE ReadReturned
  BY <1>4, ReadReturnedMoves
<1>5. CASE PeekEmpty \/ Discard \/ Remove \/ EpollFails \/ PeekNewFails \/ PeekFails
  BY <1>5 DEF PeekEmpty, EndDrain, Discard, Remove, EpollFails, PeekNewFails, PeekFails, Goto
<1>6. ASSUME NEW ret, Respond(ret)
      PROVE  pc # "shaken" /\ pc' \in {"peek", "remove"}
  BY <1>6, Zenon DEF Respond, Goto
<1>7. ASSUME NEW p \in Pointers, PeekKnown(p)
      PROVE  pc # "shaken" /\ pc' # "shaken"
  <2>1. pc = "peek" /\ pc' \in {"read", "handshake"}
    BY <1>7, Zenon DEF PeekKnown, Enter
  <2> QED
    BY <2>1
<1> QED
  BY <1>1, <1>2, <1>3, <1>4, <1>5, <1>6, <1>7 DEF QuietStep

\* PhaseAgrees: the flag and the library move together.
LEMMA PhaseStep == IInv /\ [Next]_vars => PhaseAgrees'
<1> SUFFICES ASSUME IInv, [Next]_vars, NEW p \in g_clients'
             PROVE  IF pc' = "shaken" /\ p = client'
                      THEN /\ ~session'[p].handshake_complete
                           /\ session'[p].ssl \in Established <=> result' = "OK"
                      ELSE session'[p].handshake_complete <=> session'[p].ssl \in Established
  BY DEF PhaseAgrees
<1>1. TypeLocal /\ TypeTable /\ TypeSocket /\ ListOK /\ NoUseAfterFree /\ PhaseAgrees
      /\ CallAgrees
  BY TypeParts DEF IInv
<1>2. CASE DtlsStep
  <2>1. PICK ret : /\ Returns(ret)
                   /\ session'[client].ssl \in Established <=> Ssl \in Established \/ ret = "0"
                   /\ ret = "0" => Ssl \notin Established
    BY <1>2, DtlsEffect, Zenon
  <2>2. /\ InDtls /\ client \in g_clients /\ client' = client /\ g_clients' = g_clients
        /\ p \in DOMAIN session /\ SameComplete(p)
        /\ p # client => session'[p].ssl = session[p].ssl
    BY <1>1, <1>2, DtlsEffect DEF ListOK
  <2>3. /\ pc # "shaken"
        /\ session[p].handshake_complete <=> session[p].ssl \in Established
    BY <1>1, <2>2 DEF PhaseAgrees, InDtls
  <2>4. CASE p # client
    BY <2>2, <2>3, <2>4 DEF SameComplete
  <2>5. CASE p = client
    <3>1. pc = "read" <=> Ssl \in Established
      BY <1>1, <2>2, <2>3, <2>5 DEF CallAgrees, Ssl
    <3>2. session'[p].handshake_complete <=> Ssl \in Established
      BY <2>2, <2>3, <2>5 DEF SameComplete, Ssl
    <3>3. CASE pc' = "shaken"
      <4>1. pc = "handshake" /\ (result' = "OK" <=> ret = "0")
        BY <2>1, <2>2, <3>3, ReturnsEffect DEF InDtls
      <4> QED
        BY <2>1, <2>2, <2>5, <3>1, <3>2, <3>3, <4>1
    <3>4. CASE pc' # "shaken"
      <4>1. ret = "0" => pc = "read"
        BY <2>1, <2>2, <3>4, ReturnsEffect
      <4> QED
        BY <2>1, <2>5, <3>1, <3>2, <3>4, <4>1
    <3> QED
      BY <3>3, <3>4
  <2> QED
    BY <2>4, <2>5
<1>3. CASE QuietStep
  <2>1. p \in g_clients /\ SameAddrAndSsl(p) /\ SameComplete(p)
    BY <1>1, <1>3, QuietTable, UntouchedKeeps DEF Untouched, ListOK
  <2>2. \/ UNCHANGED <<pc, client, result>>
        \/ pc # "shaken" /\ pc' # "shaken"
    BY <1>3, QuietMoves
  <2> QED
    BY <1>1, <2>1, <2>2 DEF PhaseAgrees, SameAddrAndSsl, SameComplete
<1>4. CASE HandshakeReturned
  <2>1. /\ pc = "shaken" /\ pc' = "discard" /\ p \in g_clients /\ p \in DOMAIN session
        /\ SameAddrAndSsl(p)
        /\ IF p = client /\ result = "OK" THEN session'[p].handshake_complete
                                          ELSE SameComplete(p)
    BY <1>1, <1>4, NotedEffect DEF ListOK
  <2>2. session'[p].handshake_complete \in BOOLEAN
    <3>1. session'[p] \in Sessions
      BY <1>1, <1>4, <2>1, NotedEffect DEF SameDomain
    <3> QED
      BY <3>1 DEF Sessions
  <2> QED
    BY <1>1, <2>1, <2>2 DEF PhaseAgrees, SameAddrAndSsl, SameComplete
<1>5. ASSUME NEW q \in Pointers, PeekNew(q)
      PROVE  pc' # "shaken" /\ (session'[p].handshake_complete <=> session'[p].ssl \in Established)
  <2>1. pc = "peek" /\ pc' \in {"read", "handshake"}
    BY <1>5, Zenon DEF PeekNew, Enter
  <2>2. CASE p = q
    BY <1>1, <1>5, <2>1, <2>2, AddEffect DEF Established
  <2>3. CASE p # q
    <3>1. p \in g_clients /\ SameAddrAndSsl(p) /\ SameComplete(p)
      BY <1>1, <1>5, <2>3, AddEffect
    <3> QED
      BY <1>1, <2>1, <3>1 DEF PhaseAgrees, SameAddrAndSsl, SameComplete
  <2> QED
    BY <2>2, <2>3
<1>6. CASE UNCHANGED vars
  BY <1>1, <1>6 DEF vars, table, local, PhaseAgrees
<1> QED
  BY <1>2, <1>3, <1>4, <1>5, <1>6, StepsGrouped, Zenon

\* CallAgrees: the loop enters the call its session needs.
LEMMA CallStep == IInv /\ [Next]_vars => CallAgrees'
<1> SUFFICES ASSUME IInv, [Next]_vars, pc' \in {"handshake", "read"}
             PROVE  pc' = "read" <=> session'[client'].handshake_complete
  BY DEF CallAgrees, InDtls
<1>1. TypeLocal /\ TypeTable /\ TypeSocket /\ ListOK /\ NoUseAfterFree /\ CallAgrees
  BY TypeParts DEF IInv
<1>2. CASE DtlsStep
  <2>1. InDtls /\ client' = client /\ SameComplete(client)
    BY <1>2, DtlsEffect, Zenon
  <2>2. pc' = pc
    BY <1>2, DtlsLocal
  <2> QED
    BY <1>1, <2>1, <2>2 DEF CallAgrees, SameComplete
<1>3. ASSUME NEW p \in Pointers, client' = p, Enter(p)
      PROVE  pc' = "read" <=> session'[client'].handshake_complete
  BY <1>3 DEF Enter
<1>4. CASE QuietStep
  <2>1. CASE UNCHANGED <<pc, client, result>>
    <3>1. InDtls /\ InDtls'
      BY <2>1 DEF InDtls
    <3>2. client \in g_clients
      BY <1>1, <3>1, InDtlsFacts
    <3>3. CASE client \in DOMAIN session'
      BY <1>1, <1>4, <2>1, <3>1, <3>3, QuietTable DEF Untouched, SameComplete, CallAgrees
    <3>4. CASE client \notin DOMAIN session'
      <4>1. client' \in g_clients'
        BY <2>1, <3>1, UseStep DEF NoUseAfterFree, UsesClient, InDtls
      <4> QED
        BY <1>1, <1>4, <2>1, <3>4, <4>1, QuietTable, UntouchedKeeps DEF ListOK
    <3> QED
      BY <3>3, <3>4
  <2>2. CASE \E p \in Pointers : PeekKnown(p)
    BY <1>1, <1>3, <2>2, KnownEffect
  <2> QED
    BY <1>4, <2>1, <2>2, QuietMoves
<1>5. CASE HandshakeReturned
  BY <1>1, <1>5, NotedEffect
<1>6. ASSUME NEW p \in Pointers, PeekNew(p)
      PROVE  pc' = "read" <=> session'[client'].handshake_complete
  BY <1>1, <1>3, <1>6, AddEffect
<1>7. CASE UNCHANGED vars
  BY <1>1, <1>7 DEF vars, table, local, CallAgrees, InDtls
<1> QED
  BY <1>2, <1>4, <1>5, <1>6, <1>7, StepsGrouped, Zenon

\* Drained: how the drain ends, and what an event or a timeout makes of it.
LEMMA DrainedStep == IInv /\ [Next]_vars => Drained' /\ DrainedAtCheck'
<1> SUFFICES ASSUME IInv, [Next]_vars PROVE Drained' /\ DrainedAtCheck'
  OBVIOUS
<1>1. TypeLocal /\ Drained /\ DrainedAtCheck
  BY TypeParts DEF IInv
<1>2. ASSUME UNCHANGED <<pc, nfds, rcv, edge, peek_errno>>
      PROVE  Drained' /\ DrainedAtCheck'
  BY <1>1, <1>2 DEF Drained, DrainedAtCheck
<1>3. ASSUME pc' \notin {"loop", "epoll", "check"} PROVE Drained' /\ DrainedAtCheck'
  BY <1>3 DEF Drained, DrainedAtCheck
<1>4. CASE DtlsStep
  <2>1. pc \in {"handshake", "read"} /\ pc' \in {pc, "shaken", "got"}
    BY <1>4, DtlsEffect, DtlsLocal DEF InDtls
  <2> QED
    BY <1>3, <2>1
<1>5. CASE HandshakeReturned \/ ReadReturned \/ Discard \/ Remove \/ PeekNewFails \/ Finish
  <2>1. CASE HandshakeReturned
    BY <1>3, <2>1, Zenon DEF HandshakeReturned, Goto
  <2>2. CASE ReadReturned
    BY <1>3, <2>2, ReadReturnedMoves
  <2>3. CASE Discard \/ Remove \/ PeekNewFails \/ Finish
    BY <1>3, <2>3 DEF Discard, Remove, PeekNewFails, Finish, Stop, ShutdownRemove, Goto
  <2> QED
    BY <1>5, <2>1, <2>2, <2>3
<1>6. ASSUME NEW p \in Pointers, PeekNew(p) \/ PeekKnown(p)
      PROVE  Drained' /\ DrainedAtCheck'
  <2>1. pc' \in {"read", "handshake"}
    BY <1>6, Zenon DEF PeekNew, PeekKnown, Enter
  <2> QED
    BY <1>3, <2>1
<1>7. ASSUME NEW ret, Respond(ret) PROVE Drained' /\ DrainedAtCheck'
  <2>1. pc' \in {"peek", "remove"}
    BY <1>7, Zenon DEF Respond, Goto
  <2> QED
    BY <1>3, <2>1
<1>8. CASE Tick \/ Signal
  BY <1>2, <1>8, Zenon DEF Tick, Signal, socket, local
<1>9. ASSUME NEW a \in Addresses, NEW k \in Kinds, Arrive(a, k)
      PROVE  Drained' /\ DrainedAtCheck'
  BY <1>9 DEF Arrive, Drained, DrainedAtCheck
<1>10. CASE LoopTest \/ EpollEvent \/ EpollTimeout \/ EpollFails
  BY <1>1, <1>10 DEF LoopTest, EpollEvent, EpollTimeout, EpollFails, Goto,
     Drained, DrainedAtCheck, socket, local
<1>11. CASE CheckTimeouts
  <2>1. /\ pc = "check" /\ pc' = IF nfds > 0 THEN "peek" ELSE "loop"
        /\ UNCHANGED <<rcv, edge, peek_errno>>
    BY <1>11, Zenon DEF CheckTimeouts, Goto, socket, local
  <2>2. nfds > 0 \/ nfds = 0
    BY <1>1 DEF TypeLocal
  <2> QED
    BY <1>1, <2>1, <2>2 DEF Drained, DrainedAtCheck
<1>12. CASE PeekEmpty \/ PeekFails
  BY <1>12 DEF PeekEmpty, PeekFails, EndDrain, Goto, Drained, DrainedAtCheck, socket
<1>13. CASE UNCHANGED vars
  BY <1>2, <1>13, Zenon DEF vars, socket, local
<1> QED
  BY <1>4, <1>5, <1>6, <1>7, <1>8, <1>9, <1>10, <1>11, <1>12, <1>13, StepsGrouped, Zenon
     DEF QuietStep, Outer, World

-----------------------------------------------------------------------------
(* The invariant, and what it implies. *)

\* The invariant holds at start-up ...
LEMMA Initially == Init => IInv
<1> SUFFICES ASSUME Init PROVE IInv
  OBVIOUS
<1>1. TypeTable
  BY DEF Init, TypeTable
<1>2. TypeSocket
  <2>1. rcv = <<>> /\ edge = FALSE
    BY DEF Init
  <2>2. rcv \in Seq(Datagrams) /\ Len(rcv) = 0
    BY <2>1
  <2>3. edge \in BOOLEAN
    BY <2>1
  <2> QED
    BY <2>2, <2>3, BoundsAssumption DEF TypeSocket
<1>3. TypeLocal
  <2>1. g_running \in BOOLEAN /\ fresh \in BOOLEAN
    BY Zenon DEF Init
  <2>2. since_check \in 0 .. CheckPeriod /\ nfds \in {0, 1}
    BY BoundsAssumption DEF Init
  <2>3. /\ pc = "loop" /\ pc \in PCs /\ client \in Pointers \cup {NULL}
        /\ result \in HandshakeCodes \cup ReadCodes \cup {"none", "ADD_FAILED"}
        /\ peek_errno \in {"none", "EAGAIN", "other"}
    BY DEF Init, PCs
  <2> QED
    BY <2>1, <2>2, <2>3 DEF TypeLocal
<1>4. ListOK /\ NoUseAfterFree /\ PhaseAgrees /\ CallAgrees
  BY DEF Init, ListOK, NoUseAfterFree, UsesClient, PhaseAgrees, CallAgrees, InDtls
<1>5. Drained /\ DrainedAtCheck
  BY DEF Init, Drained, DrainedAtCheck
<1> QED
  BY <1>1, <1>2, <1>3, <1>4, <1>5, TypeParts DEF IInv

\* ... every step keeps it ...
LEMMA Preserved == IInv /\ [Next]_vars => IInv'
  BY TypeStep, TableStep, UseStep, PhaseStep, CallStep, DrainedStep, Zenon DEF IInv

\* ... and so it always holds.
LEMMA Inductive == Spec => []IInv
  BY Initially, Preserved, PTL DEF Spec

\* Every variable of the loop keeps its type, the socket's queue its bound, and
\* each DTLS call answers only with codes of its own table.
THEOREM ServerTyped == Spec => []TypeOK
<1>1. IInv => TypeOK
  BY DEF IInv
<1> QED
  BY <1>1, Inductive, PTL

\* add_client, remove_client, check_client_timeouts and the shutdown loop keep
\* the list exact: no session leaks, none that is freed stays linked, and no
\* two have one address.
THEOREM ListIsExact == Spec => []ListOK
<1>1. IInv => ListOK
  BY DEF IInv
<1> QED
  BY <1>1, Inductive, PTL

\* The loop's client pointer is never used after remove_client has freed the
\* object, whatever the order of expiries, failures and reused memory.
THEOREM ClientAlive == Spec => []NoUseAfterFree
<1>1. IInv => NoUseAfterFree
  BY DEF IInv
<1> QED
  BY <1>1, Inductive, PTL

\* handshake_complete and the library's own state agree outside a DTLS call.
THEOREM PhasesAgree == Spec => []PhaseAgrees
<1>1. IInv => PhaseAgrees
  BY DEF IInv
<1> QED
  BY <1>1, Inductive, PTL

\* The loop does not go back to sleep on unread data without an event to come,
\* except after a peek that failed for another reason than an empty queue.
THEOREM NeverStranded == Spec => []Drained
<1>1. IInv => Drained
  BY DEF IInv
<1> QED
  BY <1>1, Inductive, PTL

\* udp_recv drops another client's datagram without effect on the session whose
\* call took it.
THEOREM SessionsIsolated == Spec => Isolation
<1> DEFINE P == Len(rcv') < Len(rcv) /\ InDtls /\ Head(rcv).from # session[client].addr =>
                  session' = session /\ result' = "WOULD_BLOCK"
<1>1. ASSUME IInv, [Next]_vars PROVE [P]_vars
  <2> SUFFICES ASSUME Len(rcv') < Len(rcv), InDtls, Head(rcv).from # session[client].addr
               PROVE  session' = session /\ result' = "WOULD_BLOCK"
    BY Zenon
  <2>1. TypeSocket
    BY <1>1, TypeParts DEF IInv
  <2>2. rcv' # rcv
    <3>1. Len(rcv) \in Nat
      BY <2>1 DEF TypeSocket
    <3> QED
      BY <3>1
  <2>3. CASE ReceiveOther
    <3>1. session' = session /\ Returns("WANT_READ")
      BY <2>3 DEF ReceiveOther, table
    <3> QED
      BY <3>1, ReturnsEffect DEF Wants
  <2>4. CASE DtlsStep /\ ~ReceiveOther
    BY <2>2, <2>4, Zenon DEF DtlsStep, Dtls, ReceiveOwn, ReadRest, SelectTimeout, SendFlight,
       ReceiveFails, SendFlightFails, socket
  <2>5. CASE QuietStep
    <3>1. CASE Outer
      BY <2>2, <3>1, Zenon DEF Outer, LoopTest, EpollEvent, EpollTimeout, CheckTimeouts, socket
    <3>2. CASE Finish \/ Discard
      BY <3>2 DEF Finish, Stop, ShutdownRemove, Discard, Goto, InDtls
    <3>3. ASSUME NEW a \in Addresses, NEW k \in Kinds, Arrive(a, k) PROVE FALSE
      <4>1. [from |-> a, kind |-> k] \in Datagrams
        BY DEF Datagrams
      <4>2. Len(rcv') = Len(rcv) + 1 /\ Len(rcv) \in Nat
        BY <2>1, <3>3, <4>1 DEF Arrive, TypeSocket
      <4> QED
        BY <4>2
    <3>4. CASE Tick \/ Signal \/ PeekEmpty \/ ReadReturned \/ Remove
               \/ EpollFails \/ PeekNewFails \/ PeekFails
      BY <2>2, <3>4, Zenon DEF Tick, Signal, PeekEmpty, EndDrain, ReadReturned, Remove,
         EpollFails, PeekNewFails, PeekFails, socket
    <3>5. ASSUME NEW ret, Respond(ret) PROVE FALSE
      BY <2>2, <3>5, Zenon DEF Respond, socket
    <3>6. ASSUME NEW p \in Pointers, PeekKnown(p) PROVE FALSE
      BY <2>2, <3>6, Zenon DEF PeekKnown, socket
    <3> QED
      BY <2>5, <3>1, <3>2, <3>3, <3>4, <3>5, <3>6, Zenon DEF QuietStep, World
  <2>6. ASSUME NEW p \in Pointers, PeekNew(p) PROVE FALSE
    BY <2>2, <2>6, Zenon DEF PeekNew, socket
  <2>7. CASE HandshakeReturned
    BY <2>2, <2>7, Zenon DEF HandshakeReturned, socket
  <2>8. CASE UNCHANGED vars
    BY <2>2, <2>8, Zenon DEF vars, socket
  <2> QED
    BY <1>1, <2>3, <2>4, <2>5, <2>6, <2>7, <2>8, StepsGrouped, Zenon
<1> QED
  BY <1>1, Inductive, PTL DEF Spec, Isolation
=============================================================================
