------------------------------ MODULE ServerLoop ------------------------------
(***************************************************************************)
(* The server's only thread (main of server.c): an edge-triggered epoll    *)
(* loop over one UDP socket that every client shares, the list of client   *)
(* sessions, and the DTLS calls, which read from that same socket.         *)
(*                                                                         *)
(* The loop PEEKS at a datagram to choose the session, and the session's   *)
(* DTLS call then takes whatever is at the head of the socket's queue.     *)
(***************************************************************************)
EXTENDS Integers, Sequences, FiniteSets, DtlsSession

CONSTANTS
    Addresses,      \* the clients' addresses
    Pointers,       \* where calloc puts a client_session_t
    NULL,
    SocketBuffer,   \* how many datagrams the socket's queue holds
    ClientTimeout,  \* CLIENT_TIMEOUT_SECONDS
    CheckPeriod     \* seconds between two calls of check_client_timeouts

ASSUME PointersAssumption == NULL \notin Pointers
ASSUME BoundsAssumption ==
    /\ SocketBuffer \in Nat \ {0}
    /\ ClientTimeout \in Nat
    /\ CheckPeriod \in Nat \ {0}

VARIABLES
    rcv,         \* the socket's receive queue
    edge,        \* epoll has an event the loop has not collected
    g_running,
    pc,
    nfds,        \* what epoll_wait returned
    since_check, \* seconds since last_timeout_check
    g_clients,   \* the sessions in the list
    session,     \* the client_session_t objects that are allocated
    client,      \* the loop's pointer; it dangles after remove_client
    result,      \* what the last DTLS call for that client returned
    fresh,       \* the datagram last peeked at is still in rcv
    peek_errno   \* why the last drain ended; "none" during one

socket == <<rcv, edge>>
clock  == <<since_check>>
table  == <<g_clients, session>>
local  == <<nfds, client, result, fresh, peek_errno>>
vars   == <<socket, g_running, pc, clock, table, local>>

Datagrams == [from : Addresses, kind : Kinds]

\* idle: seconds since last_activity, exact up to the first value that
\* check_client_timeouts treats as expired.
Sessions == [addr : Addresses, ssl : Phases, handshake_complete : BOOLEAN,
             idle : 0 .. ClientTimeout + 1]

PCs == {"loop", "epoll", "check", "peek", "handshake", "shaken", "read", "got",
        "respond", "discard", "remove", "shutdown", "stopped"}

Init ==
    /\ rcv = <<>> /\ edge = FALSE
    /\ g_running = TRUE
    /\ pc = "loop" /\ nfds = 0
    /\ since_check = 0
    /\ g_clients = {} /\ session = [p \in {} |-> NULL]
    /\ client = NULL /\ result = "none" /\ fresh = FALSE
    /\ peek_errno = "none"

Goto(from, to) == pc = from /\ pc' = to

-----------------------------------------------------------------------------
(* The world outside the thread. *)

\* A datagram reaches a socket whose queue has room: a client's message, or a
\* duplicate or late copy of one.  Those that find no room are lost.
Arrive(a, k) ==
    /\ pc # "stopped" /\ Len(rcv) < SocketBuffer
    /\ rcv' = Append(rcv, [from |-> a, kind |-> k])
    /\ edge' = TRUE
    /\ UNCHANGED <<g_running, pc, clock, table, local>>

\* A second passes.
Tick ==
    /\ pc # "stopped"
    /\ since_check' = IF since_check < CheckPeriod THEN since_check + 1 ELSE CheckPeriod
    /\ session' = [p \in DOMAIN session |->
         [session[p] EXCEPT !.idle = IF @ <= ClientTimeout THEN @ + 1 ELSE @]]
    /\ UNCHANGED <<socket, g_running, pc, g_clients, local>>

\* SIGINT or SIGTERM: handle_shutdown.
Signal ==
    /\ g_running /\ g_running' = FALSE
    /\ UNCHANGED <<socket, pc, clock, table, local>>

-----------------------------------------------------------------------------
(* The client list. *)

\* Fault: only finished handshakes are found.
FoundComplete(a) == {p \in g_clients : session[p].addr = a /\ session[p].handshake_complete}

\* find_client: the sessions of address a.
Found(a) == {p \in g_clients : session[p].addr = a}

NewSession(a) == [addr |-> a, ssl |-> "hello", handshake_complete |-> FALSE, idle |-> 0]

\* add_client: a fresh object at p, linked into the list.
AddClient(p, a) ==
    /\ g_clients' = g_clients \cup {p}
    /\ session' = [q \in DOMAIN session \cup {p} |->
                     IF q = p THEN NewSession(a) ELSE session[q]]

\* remove_client for each member of S: unlink it and free it.
RemoveClients(S) ==
    /\ g_clients' = g_clients \ S
    /\ session' = [p \in DOMAIN session \ S |-> session[p]]

-----------------------------------------------------------------------------
(* The outer loop. *)

LoopTest ==
    /\ Goto("loop", IF g_running THEN "epoll" ELSE "shutdown")
    /\ UNCHANGED <<socket, g_running, clock, table, local>>

\* epoll_wait reports the edge, which is then consumed ...
EpollEvent ==
    /\ edge /\ edge' = FALSE
    /\ Goto("epoll", "check") /\ nfds' = 1
    /\ peek_errno' = "none"
    /\ UNCHANGED <<rcv, g_running, clock, table, client, result, fresh>>

\* ... or its second passes without one ...
EpollTimeout ==
    /\ ~edge
    /\ Goto("epoll", "check") /\ nfds' = 0
    /\ UNCHANGED <<socket, g_running, clock, table, client, result, fresh, peek_errno>>

\* ... or it fails, interrupted by the signal handler or with another error; the
\* loop then starts again without a look at the timeouts.
EpollFails ==
    /\ Goto("epoll", "loop")
    /\ UNCHANGED <<socket, g_running, clock, table, local>>

Expired == {p \in g_clients : session[p].idle > ClientTimeout}

\* Fault: clients are checked only when there is an event.
CheckTimeoutsOnEvent ==
    /\ Goto("check", IF nfds > 0 THEN "peek" ELSE "loop")
    /\ IF nfds > 0 /\ since_check >= CheckPeriod
         THEN RemoveClients(Expired) /\ since_check' = 0
         ELSE UNCHANGED <<clock, table>>
    /\ UNCHANGED <<socket, g_running, local>>

CheckTimeouts ==
    /\ Goto("check", IF nfds > 0 THEN "peek" ELSE "loop")
    /\ IF since_check >= CheckPeriod
         THEN RemoveClients(Expired) /\ since_check' = 0
         ELSE UNCHANGED <<clock, table>>
    /\ UNCHANGED <<socket, g_running, local>>

-----------------------------------------------------------------------------
(* Draining the socket: peek, find or add the client, enter its session. *)

Enter(p) == pc' = IF session'[p].handshake_complete THEN "read" ELSE "handshake"

\* Fault: last_activity is set by add_client alone.
PeekKnownUnrecorded(p) ==
    /\ pc = "peek" /\ rcv # <<>>
    /\ p \in Found(Head(rcv).from)
    /\ client' = p /\ result' = "none" /\ fresh' = TRUE
    /\ session' = session
    /\ Enter(p)
    /\ UNCHANGED <<socket, g_running, clock, g_clients, nfds, peek_errno>>

PeekKnown(p) ==
    /\ pc = "peek" /\ rcv # <<>>
    /\ p \in Found(Head(rcv).from)
    /\ client' = p /\ result' = "none" /\ fresh' = TRUE
    /\ session' = [session EXCEPT ![p].idle = 0]
    /\ Enter(p)
    /\ UNCHANGED <<socket, g_running, clock, g_clients, nfds, peek_errno>>

PeekNew(p) ==
    /\ pc = "peek" /\ rcv # <<>>
    /\ Found(Head(rcv).from) = {} /\ p \in Pointers \ DOMAIN session
    /\ AddClient(p, Head(rcv).from)
    /\ client' = p /\ result' = "none" /\ fresh' = TRUE
    /\ Enter(p)
    /\ UNCHANGED <<socket, g_running, clock, nfds, peek_errno>>

\* No memory, or sc_dtls_session_create fails and its half-built object is freed.
PeekNewFails ==
    /\ rcv # <<>> /\ Found(Head(rcv).from) = {}
    /\ Goto("peek", "discard")
    /\ client' = NULL /\ result' = "ADD_FAILED" /\ fresh' = TRUE
    /\ UNCHANGED <<socket, g_running, clock, table, nfds, peek_errno>>

\* The drain is over, and its locals with it.
EndDrain(errno) ==
    /\ Goto("peek", "loop")
    /\ peek_errno' = errno
    /\ client' = NULL /\ result' = "none" /\ fresh' = FALSE
    /\ UNCHANGED <<socket, g_running, clock, table, nfds>>

PeekEmpty == rcv = <<>> /\ EndDrain("EAGAIN")

\* Any other error ends the drain just as an empty queue does.
PeekFails == EndDrain("other")

-----------------------------------------------------------------------------
(* Inside sc_dtls_handshake and sc_dtls_read. *)

InDtls == pc \in {"handshake", "read"}
Ssl    == session[client].ssl

\* The library needs a datagram: udp_recv_timeout, then udp_recv.
WantsInput == InDtls /\ Ssl \notin Sending \cup {"rest"}

\* Fault: sc_dtls_read reports with the handshake's codes.
ReturnsAlike(ret) ==
    IF ret = "more" THEN UNCHANGED <<pc, result>>
    ELSE /\ pc' = IF pc = "handshake" THEN "shaken" ELSE "got"
         /\ result' = HandshakeCode(ret)

\* The call returns, or goes on when the library has more to do.
Returns(ret) ==
    IF ret = "more" THEN UNCHANGED <<pc, result>>
    ELSE IF pc = "handshake" THEN pc' = "shaken" /\ result' = HandshakeCode(ret)
                             ELSE pc' = "got" /\ result' = ReadCode(ret)

\* The head of the queue is this client's: the library processes it.
ReceiveOwn ==
    /\ WantsInput /\ rcv # <<>> /\ Head(rcv).from = session[client].addr
    /\ rcv' = Tail(rcv) /\ fresh' = FALSE
    /\ \E o \in Processed(Ssl, Head(rcv).kind) :
         session' = [session EXCEPT ![client].ssl = o.ssl] /\ Returns(o.ret)
    /\ UNCHANGED <<edge, g_running, clock, g_clients, nfds, client, peek_errno>>

\* Fault: udp_recv does not compare addresses.
ReceiveOtherAsOwn ==
    /\ WantsInput /\ rcv # <<>> /\ Head(rcv).from # session[client].addr
    /\ rcv' = Tail(rcv) /\ fresh' = FALSE
    /\ \E o \in Processed(Ssl, Head(rcv).kind) :
         session' = [session EXCEPT ![client].ssl = o.ssl] /\ Returns(o.ret)
    /\ UNCHANGED <<edge, g_running, clock, g_clients, nfds, client, peek_errno>>

\* It is another client's: udp_recv has taken it and drops it.
ReceiveOther ==
    /\ WantsInput /\ rcv # <<>> /\ Head(rcv).from # session[client].addr
    /\ rcv' = Tail(rcv) /\ fresh' = FALSE
    /\ Returns("WANT_READ")
    /\ UNCHANGED <<edge, g_running, clock, table, nfds, client, peek_errno>>

\* The library still holds a part of what it received earlier: sc_dtls_read
\* returns it, and the datagram peeked at stays in the socket.
ReadRest ==
    /\ InDtls /\ Ssl = "rest"
    /\ \E o \in Leftover :
         session' = [session EXCEPT ![client].ssl = o.ssl] /\ Returns(o.ret)
    /\ UNCHANGED <<socket, g_running, clock, g_clients, nfds, client, fresh, peek_errno>>

\* Fault: the wait has no timeout.
SelectForever == FALSE /\ UNCHANGED vars

\* select waits on the empty queue until the library's timer runs out.  A
\* handshake then resends its flight, until it gives up.
SelectTimeout ==
    /\ WantsInput /\ rcv = <<>>
    /\ \E ret \in IF pc = "handshake" THEN {"WANT_READ", "TIMEOUT"} ELSE {"TIMEOUT"} :
         Returns(ret)
    /\ UNCHANGED <<socket, g_running, clock, table, nfds, client, fresh, peek_errno>>

\* select or recvfrom fails (the signal handler may have interrupted it), or
\* recvfrom finds nothing although select has called the socket readable.
ReceiveFails ==
    /\ WantsInput
    /\ \E ret \in {"NET_RECV_FAILED", "WANT_READ"} : Returns(ret)
    /\ UNCHANGED <<socket, g_running, clock, table, nfds, client, fresh, peek_errno>>

\* The library sends a flight; the last one completes the handshake.
SendFlight ==
    /\ InDtls /\ Ssl \in Sending
    /\ session' = [session EXCEPT ![client].ssl = Sent(@)]
    /\ Returns(IF Sent(Ssl) = "over" THEN "0" ELSE "more")
    /\ UNCHANGED <<socket, g_running, clock, g_clients, nfds, client, fresh, peek_errno>>

SendFlightFails ==
    /\ InDtls /\ Ssl \in Sending
    /\ \E ret \in {"WANT_WRITE", "NET_SEND_FAILED"} : Returns(ret)
    /\ UNCHANGED <<socket, g_running, clock, table, nfds, client, fresh, peek_errno>>

-----------------------------------------------------------------------------
(* What the loop makes of the result. *)

\* Fault: the server does not note that the handshake is complete.
HandshakeReturnedUnnoted ==
    /\ Goto("shaken", "discard")
    /\ UNCHANGED <<socket, g_running, clock, table, local>>

HandshakeReturned ==
    /\ Goto("shaken", "discard")
    /\ session' = IF result = "OK"
                    THEN [session EXCEPT ![client].handshake_complete = TRUE]
                    ELSE session
    /\ UNCHANGED <<socket, g_running, clock, g_clients, local>>

ReadReturned ==
    /\ Goto("got", CASE result = "OK"          -> "respond"
                     [] result = "PEER_CLOSED" -> "remove"
                     [] OTHER                  -> "discard")
    /\ UNCHANGED <<socket, g_running, clock, table, local>>

\* A PONG or an echo; every branch of the dispatch ends in the same write.
Respond(ret) ==
    /\ Goto("respond", IF WriteCode(ret) \in {"OK", "WOULD_BLOCK"} THEN "peek" ELSE "remove")
    /\ UNCHANGED <<socket, g_running, clock, table, local>>

\* The recvfrom that is meant to consume the datagram peeked at.
Discard ==
    /\ Goto("discard", IF result \in {"OK", "WOULD_BLOCK", "ADD_FAILED"}
                         THEN "peek" ELSE "remove")
    /\ rcv' = IF rcv = <<>> THEN rcv ELSE Tail(rcv)
    /\ fresh' = FALSE
    /\ UNCHANGED <<edge, g_running, clock, table, nfds, client, result, peek_errno>>

\* Fault: the drain ends with the client.
RemoveBreaks ==
    /\ Goto("remove", "loop")
    /\ RemoveClients({client})
    /\ UNCHANGED <<socket, g_running, clock, local>>

\* Fault: the datagram is discarded after the client is removed, for the client.
RemoveThenDiscard ==
    /\ Goto("remove", "discard")
    /\ RemoveClients({client})
    /\ UNCHANGED <<socket, g_running, clock, local>>

Remove ==
    /\ Goto("remove", "peek")
    /\ RemoveClients({client})
    /\ UNCHANGED <<socket, g_running, clock, local>>

\* while (g_clients) remove_client(g_clients);
ShutdownRemove(p) ==
    /\ pc = "shutdown" /\ p \in g_clients
    /\ RemoveClients({p})
    /\ UNCHANGED <<socket, g_running, pc, clock, local>>

\* The socket, the epoll instance and the DTLS context are released.
Stop ==
    /\ g_clients = {}
    /\ Goto("shutdown", "stopped")
    /\ rcv' = <<>> /\ edge' = FALSE
    /\ UNCHANGED <<g_running, clock, table, local>>

-----------------------------------------------------------------------------
Outer   == LoopTest \/ EpollEvent \/ EpollTimeout \/ CheckTimeouts
Peek    == PeekEmpty \/ \E p \in Pointers : PeekKnown(p) \/ PeekNew(p)
Dtls    == ReceiveOwn \/ ReceiveOther \/ ReadRest \/ SelectTimeout \/ SendFlight
Handle  == HandshakeReturned \/ ReadReturned \/ Discard \/ Remove
           \/ \E ret \in {"bytes", "WANT_WRITE", "NET_SEND_FAILED"} : Respond(ret)
Finish  == Stop \/ \E p \in Pointers : ShutdownRemove(p)

\* What the thread does when no system call fails, and the failures.
Steady  == Outer \/ Peek \/ Dtls \/ Handle \/ Finish
Failure == EpollFails \/ PeekNewFails \/ PeekFails \/ ReceiveFails \/ SendFlightFails

World   == Tick \/ Signal \/ \E a \in Addresses, k \in Kinds : Arrive(a, k)

Next == Steady \/ Failure \/ World
Spec == Init /\ [][Next]_vars

-----------------------------------------------------------------------------
(* Properties *)

\* TypeOK also says that each DTLS call returns only codes of its own table.
TypeOK ==
    /\ rcv \in Seq(Datagrams) /\ Len(rcv) <= SocketBuffer
    /\ edge \in BOOLEAN /\ g_running \in BOOLEAN /\ fresh \in BOOLEAN
    /\ pc \in PCs /\ nfds \in {0, 1}
    /\ since_check \in 0 .. CheckPeriod
    /\ g_clients \in SUBSET Pointers
    /\ DOMAIN session \in SUBSET Pointers /\ session \in [DOMAIN session -> Sessions]
    /\ client \in Pointers \cup {NULL}
    /\ result \in HandshakeCodes \cup ReadCodes \cup {"none", "ADD_FAILED"}
    /\ peek_errno \in {"none", "EAGAIN", "other"}
    /\ pc = "shaken" => result \in HandshakeCodes
    /\ pc = "got" => result \in ReadCodes

\* ListOK: the list holds exactly the sessions that are allocated (nothing
\* leaks, nothing freed stays linked), one for each address, across every mix
\* of handshakes, failures, expiries and reused memory.
ListOK ==
    /\ g_clients = DOMAIN session
    /\ \A p, q \in g_clients : session[p].addr = session[q].addr => p = q

\* Uses of the pointer after find_client or add_client.
UsesClient ==
    \/ pc \in {"handshake", "shaken", "read", "got", "respond", "remove"}
    \/ pc = "discard" /\ result # "ADD_FAILED"

\* NoUseAfterFree: whenever the loop is about to use its client pointer, in any
\* branch of the datagram handling and after any failure, the object it points
\* to is still in the list, so remove_client has not freed it.
NoUseAfterFree == UsesClient => client \in g_clients

\* PhaseAgrees: the server's own handshake_complete flag and the library's
\* state never drift apart: outside the DTLS call, a session is marked complete
\* exactly when the library has finished its handshake, so sc_dtls_read is
\* never called on an unfinished session nor sc_dtls_handshake on a finished.
PhaseAgrees == \A p \in g_clients :
    IF pc = "shaken" /\ p = client
      THEN ~session[p].handshake_complete /\ (session[p].ssl \in Established <=> result = "OK")
      ELSE session[p].handshake_complete <=> session[p].ssl \in Established

\* Drained: the loop never sleeps on an edge-triggered event it will not get
\* again: data still in the socket means an uncollected edge, or a peek that
\* failed for another reason than an empty queue (line 321 of server.c).
Drained ==
    pc \in {"loop", "epoll"} /\ rcv # <<>> /\ ~edge => peek_errno = "other"

\* Isolation: a datagram of one address, taken inside another client's DTLS
\* call, neither advances nor dooms that client's session.
Isolation ==
    [][Len(rcv') < Len(rcv) /\ InDtls /\ Head(rcv).from # session[client].addr =>
         session' = session /\ result' = "WOULD_BLOCK"]_vars

\* ConsumesTrigger: once a handshake is complete, the recvfrom after it "consume[s]
\* the packet that triggered" it (line 351), the one peeked at, never a later one.
ConsumesTrigger ==
    [][pc = "discard" /\ pc' # pc /\ result = "OK" /\ rcv # <<>> => fresh]_vars
=============================================================================
