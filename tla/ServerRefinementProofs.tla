------------------------ MODULE ServerRefinementProofs ------------------------
(***************************************************************************)
(* The server's loop implements the clients' table, for any addresses, any *)
(* memory, any socket buffer and any timeouts.                             *)
(***************************************************************************)
EXTENDS ServerRefinement, ServerLoopProofs

(* The loop is left, and sessions are evicted, only after a signal. *)
ToldToStop == pc \in {"shutdown", "stopped"} => ~g_running

RInv == IInv /\ ToldToStop

\* Only the outer loop's test of g_running leaves the loop.
LEMMA ToldStep == IInv /\ ToldToStop /\ [Next]_vars => ToldToStop'
<1> SUFFICES ASSUME IInv, ToldToStop, [Next]_vars PROVE ToldToStop'
  OBVIOUS
<1>1. ASSUME pc' \notin {"shutdown", "stopped"} PROVE ToldToStop'
  BY <1>1 DEF ToldToStop
<1>2. ASSUME pc' = pc, g_running' = g_running \/ ~g_running' PROVE ToldToStop'
  BY <1>2 DEF ToldToStop
<1>3. CASE DtlsStep
  <2>1. pc \in {"handshake", "read"} /\ pc' \in {pc, "shaken", "got"}
    BY <1>3, DtlsEffect, DtlsLocal DEF InDtls
  <2> QED
    BY <1>1, <2>1
<1>4. CASE HandshakeReturned
  BY <1>1, <1>4, Zenon DEF HandshakeReturned, Goto
<1>5. ASSUME NEW p \in Pointers, PeekNew(p) \/ PeekKnown(p) PROVE ToldToStop'
  <2>1. pc' \in {"read", "handshake"}
    BY <1>5, Zenon DEF PeekNew, PeekKnown, Enter
  <2> QED
    BY <1>1, <2>1
<1>6. ASSUME NEW ret, Respond(ret) PROVE ToldToStop'
  <2>1. pc' \in {"peek", "remove"}
    BY <1>6, Zenon DEF Respond, Goto
  <2> QED
    BY <1>1, <2>1
<1>7. CASE World
  BY <1>2, <1>7, Zenon DEF World, Tick, Signal, Arrive
<1>8. CASE LoopTest \/ Finish
  BY <1>8 DEF LoopTest, Finish, Stop, ShutdownRemove, Goto, ToldToStop
<1>9. CASE EpollEvent \/ EpollTimeout \/ CheckTimeouts \/ EpollFails
  BY <1>1, <1>9 DEF EpollEvent, EpollTimeout, CheckTimeouts, EpollFails, Goto
<1>10. CASE ReadReturned
  BY <1>1, <1>10, ReadReturnedMoves
<1>11. CASE PeekEmpty \/ Discard \/ Remove \/ PeekNewFails \/ PeekFails
  BY <1>1, <1>11 DEF PeekEmpty, EndDrain, Discard, Remove, PeekNewFails, PeekFails, Goto
<1>12. CASE UNCHANGED vars
  BY <1>2, <1>12, Zenon DEF vars
<1> QED
  BY <1>3, <1>4, <1>5, <1>6, <1>7, <1>8, <1>9, <1>10, <1>11, <1>12, StepsGrouped, Zenon
     DEF QuietStep, Outer

\* Both always hold.
LEMMA RInductive == Spec => []RInv
<1>1. Init => ToldToStop
  BY DEF Init, ToldToStop
<1> QED
  BY <1>1, ToldStep, Inductive, PTL DEF Spec, RInv

-----------------------------------------------------------------------------
(* What the table shows of a session. *)

Shown(p) == IF session[p].handshake_complete THEN "established" ELSE "opening"

\* A listed session is the only one of its address, so the table shows it ...
LEMMA ShownAt ==
    TypeTable /\ ListOK => \A p \in g_clients :
        /\ session[p].addr \in Addresses /\ Found(session[p].addr) = {p}
        /\ Status[session[p].addr] = Shown(p)
        /\ Quiet[session[p].addr] = session[p].idle
<1> SUFFICES ASSUME TypeTable, ListOK, NEW p \in g_clients
             PROVE  /\ session[p].addr \in Addresses /\ Found(session[p].addr) = {p}
                    /\ Status[session[p].addr] = Shown(p)
                    /\ Quiet[session[p].addr] = session[p].idle
  OBVIOUS
<1>1. session[p].addr \in Addresses
  BY DEF TypeTable, ListOK, Sessions
<1>2. Found(session[p].addr) = {p}
  BY DEF Found, ListOK
<1>3. Of(session[p].addr) = p /\ Found(session[p].addr) # {}
  BY <1>2 DEF Of
<1> QED
  BY <1>1, <1>2, <1>3 DEF Status, Quiet, Shown

\* ... and it shows nothing for an address of which none is listed.
LEMMA ShownNone ==
    \A a \in Addresses : (\A p \in g_clients : session[p].addr # a) =>
        Found(a) = {} /\ Status[a] = "absent" /\ Quiet[a] = 0
  BY DEF Found, Status, Quiet

\* Each address is absent or shows the one session it has.
LEMMA Showing ==
    TypeTable /\ ListOK => \A a \in Addresses :
        \/ Status[a] = "absent" /\ Quiet[a] = 0 /\ \A p \in g_clients : session[p].addr # a
        \/ \E p \in g_clients : /\ session[p].addr = a /\ Status[a] = Shown(p)
                                /\ Quiet[a] = session[p].idle /\ Status[a] # "absent"
<1> SUFFICES ASSUME TypeTable, ListOK, NEW a \in Addresses
             PROVE  \/ /\ Status[a] = "absent" /\ Quiet[a] = 0
                       /\ \A p \in g_clients : session[p].addr # a
                    \/ \E p \in g_clients : /\ session[p].addr = a /\ Status[a] = Shown(p)
                                            /\ Quiet[a] = session[p].idle
                                            /\ Status[a] # "absent"
  OBVIOUS
<1>1. CASE \A p \in g_clients : session[p].addr # a
  BY <1>1, ShownNone
<1>2. CASE \E p \in g_clients : session[p].addr = a
  <2>1. PICK p \in g_clients : session[p].addr = a
    BY <1>2
  <2>2. Shown(p) # "absent"
    BY DEF Shown
  <2> QED
    BY <2>1, <2>2, ShownAt
<1> QED
  BY <1>1, <1>2

\* The same after a step.
LEMMA ShownAfter ==
    (TypeTable /\ ListOK => \A p \in g_clients :
        /\ session[p].addr \in Addresses /\ Found(session[p].addr) = {p}
        /\ Status[session[p].addr] = Shown(p)
        /\ Quiet[session[p].addr] = session[p].idle)'
  BY ShownAt, PTL

\* And for an address with no session.
LEMMA NoneAfter ==
    (\A a \in Addresses : (\A p \in g_clients : session[p].addr # a) =>
        Found(a) = {} /\ Status[a] = "absent" /\ Quiet[a] = 0)'
  BY ShownNone, PTL

\* The table is a function of the addresses, before and after a step.
LEMMA TableShape ==
    /\ Status = [a \in Addresses |-> Status[a]] /\ Quiet = [a \in Addresses |-> Quiet[a]]
    /\ Status' = [a \in Addresses |-> Status'[a]] /\ Quiet' = [a \in Addresses |-> Quiet'[a]]
  BY DEF Status, Quiet

Same(p) == /\ session'[p].addr = session[p].addr /\ SameComplete(p) /\ SameIdle(p)

\* A step that changes neither the list nor what the table shows.
LEMMA TableFrame ==
    ASSUME TypeTable, ListOK, TypeTable', ListOK', g_clients' = g_clients,
           \A p \in g_clients : Same(p)
    PROVE  Status' = Status /\ Quiet' = Quiet
<1>1. ASSUME NEW a \in Addresses PROVE Status'[a] = Status[a] /\ Quiet'[a] = Quiet[a]
  <2>1. CASE \A p \in g_clients : session[p].addr # a
    BY <2>1, ShownNone, NoneAfter DEF Same
  <2>2. CASE \E p \in g_clients : session[p].addr = a
    <3>1. PICK p \in g_clients : session[p].addr = a
      BY <2>2
    <3> QED
      BY <3>1, ShownAt, ShownAfter DEF Same, SameComplete, SameIdle, Shown
  <2> QED
    BY <2>1, <2>2
<1> QED
  BY <1>1, TableShape, Zenon

\* A step that changes what the table shows of one address, whose session is p.
LEMMA TableChange ==
    ASSUME TypeTable, ListOK, TypeTable', ListOK', g_clients' = g_clients,
           NEW p \in g_clients, session'[p].addr = session[p].addr,
           \A q \in g_clients : q # p => Same(q)
    PROVE  /\ Status' = [Status EXCEPT ![session[p].addr] = Shown(p)']
           /\ Quiet' = [Quiet EXCEPT ![session[p].addr] = session'[p].idle]
<1> DEFINE b == session[p].addr
<1>1. /\ b \in Addresses /\ Status'[b] = Shown(p)' /\ Quiet'[b] = session'[p].idle
  BY ShownAt, ShownAfter
<1>2. ASSUME NEW a \in Addresses, a # b PROVE Status'[a] = Status[a] /\ Quiet'[a] = Quiet[a]
  <2>1. CASE \A q \in g_clients : session[q].addr # a
    BY <2>1, ShownNone, NoneAfter DEF Same
  <2>2. CASE \E q \in g_clients : session[q].addr = a
    <3>1. PICK q \in g_clients : session[q].addr = a
      BY <2>2
    <3>2. q # p
      BY <1>2, <3>1
    <3> QED
      BY <3>1, <3>2, ShownAt, ShownAfter DEF Same, SameComplete, SameIdle, Shown
  <2> QED
    BY <2>1, <2>2
<1> HIDE DEF b
<1>3. Status' = [Status EXCEPT ![b] = Shown(p)'] /\ Quiet' = [Quiet EXCEPT ![b] = session'[p].idle]
  BY <1>1, <1>2, TableShape
<1> QED
  BY <1>3 DEF b

\* add_client shows its address, and changes nothing else.
LEMMA TableAdd ==
    ASSUME TypeTable, ListOK, TypeTable', ListOK', NEW p, g_clients' = g_clients \cup {p},
           \A q \in g_clients : q # p /\ Same(q),
           NEW a \in Addresses, \A q \in g_clients : session[q].addr # a,
           session'[p].addr = a, session'[p].idle = 0
    PROVE  /\ Status' = [Status EXCEPT ![a] = Shown(p)'] /\ Quiet' = Quiet
           /\ Status[a] = "absent"
<1>1. Status'[a] = Shown(p)' /\ Quiet'[a] = 0
  BY ShownAfter
<1>2. Status[a] = "absent" /\ Quiet[a] = 0
  BY ShownNone
<1>3. ASSUME NEW b \in Addresses, b # a PROVE Status'[b] = Status[b] /\ Quiet'[b] = Quiet[b]
  <2>1. CASE \A q \in g_clients : session[q].addr # b
    BY <1>3, <2>1, ShownNone, NoneAfter DEF Same
  <2>2. CASE \E q \in g_clients : session[q].addr = b
    <3>1. PICK q \in g_clients : session[q].addr = b
      BY <2>2
    <3> QED
      BY <3>1, ShownAt, ShownAfter DEF Same, SameComplete, SameIdle, Shown
  <2> QED
    BY <2>1, <2>2
<1> QED
  BY <1>1, <1>2, <1>3, TableShape

\* remove_client for a set of sessions: the table forgets their addresses.
LEMMA TableRemove ==
    ASSUME TypeTable, ListOK, TypeTable', ListOK', NEW S \in SUBSET g_clients, RemoveClients(S)
    PROVE  Table!Forget({session[p].addr : p \in S})
<1> DEFINE A == {session[p].addr : p \in S}
<1>1. g_clients' = g_clients \ S /\ \A p \in g_clients' : session'[p] = session[p]
  BY DEF RemoveClients, ListOK
<1>2. ASSUME NEW a \in Addresses
      PROVE  /\ Status'[a] = IF a \in A THEN "absent" ELSE Status[a]
             /\ Quiet'[a] = IF a \in A THEN 0 ELSE Quiet[a]
  <2>1. CASE \A q \in g_clients : session[q].addr # a
    BY <1>1, <2>1, ShownNone, NoneAfter
  <2>2. CASE \E q \in g_clients : session[q].addr = a
    <3>1. PICK q \in g_clients : session[q].addr = a
      BY <2>2
    <3>2. \A r \in g_clients : session[r].addr = a => r = q
      BY <3>1 DEF ListOK
    <3>3. CASE q \in S
      <4>1. \A r \in g_clients' : session'[r].addr # a
        BY <1>1, <3>2, <3>3
      <4> QED
        BY <3>1, <3>3, <4>1, NoneAfter
    <3>4. CASE q \notin S
      <4>1. a \notin A
        BY <3>2, <3>4
      <4>2. q \in g_clients' /\ session'[q] = session[q]
        BY <1>1, <3>4
      <4> QED
        BY <3>1, <4>1, <4>2, ShownAt, ShownAfter DEF Shown
    <3> QED
      BY <3>3, <3>4
  <2> QED
    BY <2>1, <2>2
<1> HIDE DEF A
<1>3. /\ Status' = [a \in Addresses |-> IF a \in A THEN "absent" ELSE Status[a]]
      /\ Quiet' = [a \in Addresses |-> IF a \in A THEN 0 ELSE Quiet[a]]
  BY <1>2, TableShape
<1> QED
  BY <1>3 DEF A, Table!Forget
-----------------------------------------------------------------------------
(* Each step of the loop is a step of the table, or a stutter. *)

\* What the invariant says, before and after a step.
LEMMA Facts ==
    ASSUME RInv, [Next]_vars
    PROVE  /\ TypeTable /\ TypeSocket /\ TypeLocal /\ ListOK /\ NoUseAfterFree /\ PhaseAgrees
           /\ TypeTable' /\ ListOK' /\ NoUseAfterFree'
  BY TypeParts, TableStep, UseStep DEF RInv, IInv

\* Whom the loop serves, in terms of its session.
LEMMA ServedIsListed ==
    ASSUME TypeTable, ListOK, NoUseAfterFree, UsesClient
    PROVE  /\ client \in g_clients /\ Serving = {session[client].addr}
           /\ session[client].addr \in Addresses /\ Status[session[client].addr] = Shown(client)
  BY ShownAt DEF NoUseAfterFree, Serving

\* Serving before and after, when the loop keeps using the same session.
LEMMA ServingFrame ==
    ASSUME ListOK, NoUseAfterFree, client' = client, UsesClient' <=> UsesClient,
           \A p \in g_clients : session'[p].addr = session[p].addr
    PROVE  Serving' = Serving
  BY DEF Serving, NoUseAfterFree

\* Inside sc_dtls_handshake and sc_dtls_read nothing of the table changes.
LEMMA DtlsStutters ==
    ASSUME RInv, [Next]_vars, DtlsStep PROVE UNCHANGED Table!vars
<1>1. IInv
  BY DEF RInv
<1>2. \A p \in g_clients : Same(p)
  BY <1>1, DtlsEffect, Facts DEF Same, ListOK
<1>3. g_clients' = g_clients /\ client' = client /\ InDtls
  BY <1>1, DtlsEffect, Zenon
<1>4. Status' = Status /\ Quiet' = Quiet
  BY <1>2, <1>3, Facts, TableFrame
<1>5. pc \in {"handshake", "read"} /\ pc' \in {pc, "shaken", "got"} /\ g_running' = g_running
  BY <1>1, <1>3, DtlsLocal DEF InDtls
<1>6. Serving' = Serving
  <2>1. UsesClient /\ UsesClient'
    BY <1>5 DEF UsesClient
  <2> QED
    BY <1>2, <1>3, <2>1, Facts, ServingFrame DEF Same
<1>7. Mode' = Mode
  BY <1>5 DEF Mode
<1> QED
  BY <1>4, <1>6, <1>7 DEF Table!vars

\* The loop notes the end of a handshake: the served address is established.
LEMMA HandshakeRefines ==
    ASSUME RInv, [Next]_vars, HandshakeReturned
    PROVE  \/ UNCHANGED Table!vars
           \/ \E a \in Addresses : Table!Establish(a)
<1>1. /\ pc = "shaken" /\ pc' = "discard" /\ client \in g_clients
      /\ g_clients' = g_clients /\ client' = client /\ result' = result
      /\ \A p \in g_clients :
           /\ SameAddrAndSsl(p) /\ SameIdle(p)
           /\ IF p = client /\ result = "OK" THEN session'[p].handshake_complete
                                             ELSE SameComplete(p)
  BY Facts, NotedEffect DEF ListOK
<1>2. result \in HandshakeCodes /\ g_running' = g_running
  BY <1>1, Facts, Zenon DEF TypeLocal, HandshakeReturned
<1>3. UsesClient /\ UsesClient'
  BY <1>1, <1>2 DEF UsesClient, HandshakeCodes
<1>4. Serving' = Serving /\ Mode' = Mode
  BY <1>1, <1>2, <1>3, Facts, ServingFrame DEF SameAddrAndSsl, Mode
<1>5. CASE result # "OK"
  <2>1. \A p \in g_clients : Same(p)
    BY <1>1, <1>5 DEF Same, SameAddrAndSsl
  <2> QED
    BY <1>1, <1>4, <2>1, Facts, TableFrame DEF Table!vars
<1>6. CASE result = "OK"
  <2> DEFINE a == session[client].addr
  <2>1. Serving = {a} /\ a \in Addresses /\ Status[a] = Shown(client)
        /\ Quiet[a] = session[client].idle
    BY <1>1, <1>3, Facts, ServedIsListed, ShownAt
  <2>2. Status[a] = "opening"
    BY <1>1, <2>1, Facts DEF PhaseAgrees, Shown
  <2>3. Shown(client)' = "established" /\ session'[client].idle = session[client].idle
        /\ session'[client].addr = a
    BY <1>1, <1>6 DEF Shown, SameIdle, SameAddrAndSsl
  <2>4. \A q \in g_clients : q # client => Same(q)
    BY <1>1 DEF Same, SameAddrAndSsl
  <2>5. /\ Status' = [Status EXCEPT ![a] = "established"]
        /\ Quiet' = [Quiet EXCEPT ![a] = Quiet[a]]
    BY <1>1, <2>1, <2>3, <2>4, Facts, TableChange
  <2> HIDE DEF a
  <2>6. Quiet' = Quiet
    BY <2>5, TableShape
  <2> QED
    BY <1>4, <2>1, <2>2, <2>5, <2>6 DEF Table!Establish
<1> QED
  BY <1>5, <1>6

\* add_client opens the address of the datagram peeked at.
LEMMA AddRefines ==
    ASSUME RInv, [Next]_vars, NEW p \in Pointers, PeekNew(p)
    PROVE  \E a \in Addresses : Table!Open(a)
<1> DEFINE a == Head(rcv).from
<1>1. rcv # <<>> /\ Found(a) = {} /\ pc = "peek" /\ g_running' = g_running
  BY Zenon DEF PeekNew
<1>2. a \in Addresses
  BY <1>1, Facts, SocketTail
<1>3. /\ client' = p /\ p \in g_clients' /\ Enter(p) /\ session'[p].addr = a
      /\ session'[p].idle = 0 /\ session'[p].handshake_complete = FALSE
      /\ g_clients' = g_clients \cup {p}
      /\ \A q \in g_clients : q # p /\ SameAddrAndSsl(q) /\ SameComplete(q) /\ SameIdle(q)
  BY Facts, AddEffect
<1> HIDE DEF a
<1>4. \A q \in g_clients : session[q].addr # a
  BY <1>1 DEF Found
<1>5. Shown(p)' = "opening"
  BY <1>3 DEF Shown
<1>6. \A q \in g_clients : q # p /\ Same(q)
  BY <1>3 DEF Same, SameAddrAndSsl
<1>7. /\ Status' = [Status EXCEPT ![a] = "opening"] /\ Quiet' = Quiet
      /\ Status[a] = "absent"
  BY <1>2, <1>3, <1>4, <1>5, <1>6, Facts, TableAdd
<1>8. pc' \in {"read", "handshake"}
  BY <1>3 DEF Enter
<1>9. Serving = {} /\ Serving' = {a}
  BY <1>1, <1>3, <1>8 DEF Serving, UsesClient
<1>10. Mode' = Mode /\ Mode # "closing"
  BY <1>1, <1>8 DEF Mode
<1> QED
  BY <1>2, <1>7, <1>9, <1>10 DEF Table!Open

\* find_client has found its session: the address is refreshed.
LEMMA KnownRefines ==
    ASSUME RInv, [Next]_vars, NEW p \in Pointers, PeekKnown(p)
    PROVE  \E a \in Addresses : Table!Refresh(a)
<1>1. /\ p \in g_clients /\ p \in DOMAIN session /\ client' = p /\ g_clients' = g_clients
      /\ pc = "peek" /\ g_running' = g_running
  BY Facts, Zenon DEF PeekKnown, Found, ListOK
<1>2. session' = [session EXCEPT ![p].idle = 0] /\ Enter(p)
  BY Zenon DEF PeekKnown
<1>3. \A q \in DOMAIN session :
        /\ SameAddrAndSsl(q) /\ SameComplete(q)
        /\ IF q = p THEN session'[q].idle = 0 ELSE SameIdle(q)
  BY <1>1, <1>2, Facts, IdleUpdate, Zenon
<1> DEFINE a == session[p].addr
<1>4. a \in Addresses /\ Status[a] = Shown(p)
  BY <1>1, Facts, ShownAt
<1>5. /\ session'[p].addr = a /\ session'[p].idle = 0 /\ Shown(p)' = Shown(p)
      /\ \A q \in g_clients : q # p => Same(q)
  BY <1>1, <1>3, Facts DEF SameAddrAndSsl, SameComplete, Shown, Same, ListOK
<1>6. /\ Status' = [Status EXCEPT ![a] = Status[a]] /\ Quiet' = [Quiet EXCEPT ![a] = 0]
  BY <1>1, <1>4, <1>5, Facts, TableChange
<1> HIDE DEF a
<1>7. Status' = Status /\ Status[a] # "absent"
  BY <1>4, <1>6, TableShape DEF Shown
<1>8. pc' \in {"read", "handshake"}
  BY <1>2 DEF Enter
<1>9. Serving = {} /\ Serving' = {a}
  BY <1>1, <1>5, <1>8 DEF Serving, UsesClient
<1>10. Mode' = Mode /\ Mode # "closing"
  BY <1>1, <1>8 DEF Mode
<1> QED
  BY <1>4, <1>6, <1>7, <1>9, <1>10 DEF Table!Refresh
\* Steps that leave the list and the sessions as they are: the table's phase is
\* Mode, and Serving ends when the pointer is no longer used.
LEMMA QuietRefines ==
    ASSUME RInv, [Next]_vars, UNCHANGED <<table, client>>, Mode' = Mode,
           UsesClient' => UsesClient
    PROVE  Table!Done \/ UNCHANGED Table!vars
<1>1. Status' = Status /\ Quiet' = Quiet
  BY DEF table, Status, Quiet, Found, Of
<1>2. CASE UsesClient' <=> UsesClient
  BY <1>1, <1>2 DEF Serving, table, Table!vars
<1>3. CASE UsesClient /\ ~UsesClient'
  BY <1>1, <1>3 DEF Serving, Table!Done
<1> QED
  BY <1>2, <1>3

\* A second passes for every client.
LEMMA TickRefines == ASSUME RInv, [Next]_vars, Tick PROVE Table!Tick
<1>1. UNCHANGED <<g_clients, client, pc, result, g_running>>
  BY Zenon DEF Tick, local
<1>2. \A p \in g_clients :
        /\ session'[p].addr = session[p].addr /\ SameComplete(p)
        /\ session'[p].idle = IF session[p].idle <= ClientTimeout
                                THEN session[p].idle + 1 ELSE session[p].idle
  BY Facts, TickUpdate DEF SameAddrAndSsl, ListOK
<1>3. ASSUME NEW a \in Addresses
      PROVE  /\ Status'[a] = Status[a]
             /\ Quiet'[a] = IF Status[a] # "absent" /\ Quiet[a] <= ClientTimeout
                              THEN Quiet[a] + 1 ELSE Quiet[a]
  <2>1. CASE \A q \in g_clients : session[q].addr # a
    BY <1>1, <1>2, <2>1, ShownNone, NoneAfter
  <2>2. CASE \E q \in g_clients : session[q].addr = a
    <3>1. PICK q \in g_clients : session[q].addr = a
      BY <2>2
    <3>2. Status[a] = Shown(q) /\ Status[a] # "absent" /\ Quiet[a] = session[q].idle
      BY <3>1, Facts, ShownAt DEF Shown
    <3>3. Status'[a] = Shown(q)' /\ Quiet'[a] = session'[q].idle
      BY <1>1, <1>2, <3>1, Facts, ShownAfter
    <3>4. Shown(q)' = Shown(q)
      BY <1>2, <3>1 DEF Shown, SameComplete
    <3> QED
      BY <1>2, <3>1, <3>2, <3>3, <3>4
  <2> QED
    BY <2>1, <2>2
<1>4. /\ Status' = Status
      /\ Quiet' = [a \in Addresses |-> IF Status[a] # "absent" /\ Quiet[a] <= ClientTimeout
                                          THEN Quiet[a] + 1 ELSE Quiet[a]]
  BY <1>3, TableShape
<1>5. Serving' = Serving
  <2>1. UsesClient' <=> UsesClient
    BY <1>1 DEF UsesClient
  <2> QED
    BY <1>1, <1>2, <2>1, Facts, ServingFrame
<1>6. Mode' = Mode
  BY <1>1 DEF Mode
<1> QED
  BY <1>4, <1>5, <1>6 DEF Table!Tick

\* remove_client in the drain drops the served address and no other.
LEMMA RemoveRefines ==
    ASSUME RInv, [Next]_vars, Remove PROVE \E a \in Addresses : Table!Drop(a)
<1>1. /\ pc = "remove" /\ pc' = "peek" /\ RemoveClients({client}) /\ g_running' = g_running
  BY Zenon DEF Remove, Goto
<1>2. UsesClient /\ ~UsesClient'
  BY <1>1 DEF UsesClient
<1> DEFINE a == session[client].addr
<1>3. client \in g_clients /\ Serving = {a} /\ a \in Addresses /\ Status[a] # "absent"
  BY <1>2, Facts, ServedIsListed DEF Shown
<1>4. Table!Forget({session[p].addr : p \in {client}})
  BY <1>1, <1>3, Facts, TableRemove
<1>5. {session[p].addr : p \in {client}} = {a}
  OBVIOUS
<1> HIDE DEF a
<1>6. Table!Forget({a})
  BY <1>4, <1>5, Zenon
<1>7. Serving' = {} /\ Mode' = Mode
  BY <1>1, <1>2 DEF Serving, Mode
<1> QED
  BY <1>3, <1>6, <1>7 DEF Table!Drop

\* check_client_timeouts removes the sessions of the silent addresses, exactly.
LEMMA CheckRefines ==
    ASSUME RInv, [Next]_vars, CheckTimeouts
    PROVE  Table!Expire \/ UNCHANGED Table!vars
<1>1. pc = "check" /\ pc' \in {"peek", "loop"} /\ UNCHANGED <<g_running, client, result>>
  BY Zenon DEF CheckTimeouts, Goto, local
<1>2. Serving = {} /\ Serving' = {} /\ Mode' = Mode /\ Mode # "closing"
  BY <1>1 DEF Serving, UsesClient, Mode
<1>3. CASE UNCHANGED table
  <2>1. Status' = Status /\ Quiet' = Quiet
    BY <1>3 DEF table, Status, Quiet, Found, Of
  <2> QED
    BY <1>2, <2>1 DEF Table!vars
<1>4. CASE RemoveClients(Expired)
  <2>1. Expired \in SUBSET g_clients
    BY DEF Expired
  <2>2. Table!Forget({session[p].addr : p \in Expired})
    BY <1>4, <2>1, Facts, TableRemove
  <2>3. {session[p].addr : p \in Expired} = Table!Silent
    <3>1. ASSUME NEW p \in Expired PROVE session[p].addr \in Table!Silent
      <4>1. p \in g_clients /\ session[p].idle > ClientTimeout
        BY DEF Expired
      <4> QED
        BY <4>1, Facts, ShownAt DEF Table!Silent, Shown
    <3>2. ASSUME NEW a \in Table!Silent PROVE \E p \in Expired : session[p].addr = a
      <4>1. a \in Addresses /\ Status[a] # "absent" /\ Quiet[a] > ClientTimeout
        BY DEF Table!Silent
      <4>2. PICK p \in g_clients : session[p].addr = a /\ Quiet[a] = session[p].idle
        BY <4>1, Facts, Showing
      <4> QED
        BY <4>1, <4>2 DEF Expired
    <3> QED
      BY <3>1, <3>2
  <2> QED
    BY <1>2, <2>2, <2>3 DEF Table!Expire
<1> QED
  BY <1>3, <1>4, Zenon DEF CheckTimeouts

\* The shutdown loop evicts one address at a time.
LEMMA EvictRefines ==
    ASSUME RInv, [Next]_vars, NEW p \in Pointers, ShutdownRemove(p)
    PROVE  \E a \in Addresses : Table!Evict(a)
<1>1. /\ pc = "shutdown" /\ pc' = pc /\ p \in g_clients /\ RemoveClients({p})
      /\ g_running' = g_running
  BY Zenon DEF ShutdownRemove
<1> DEFINE a == session[p].addr
<1>2. a \in Addresses /\ Status[a] # "absent"
  BY <1>1, Facts, ShownAt DEF Shown
<1>3. Table!Forget({session[q].addr : q \in {p}})
  BY <1>1, Facts, TableRemove
<1>4. {session[q].addr : q \in {p}} = {a}
  OBVIOUS
<1> HIDE DEF a
<1>5. Table!Forget({a})
  BY <1>3, <1>4, Zenon
<1>6. Serving = {} /\ Serving' = {} /\ Mode = "closing" /\ Mode' = Mode
  BY <1>1 DEF Serving, UsesClient, Mode
<1> QED
  BY <1>2, <1>5, <1>6 DEF Table!Evict

\* The empty list is the empty table.
LEMMA InitRefines == Init => Table!Init
<1> SUFFICES ASSUME Init PROVE Table!Init
  OBVIOUS
<1>1. \A a \in Addresses : Status[a] = "absent" /\ Quiet[a] = 0
  BY ShownNone DEF Init
<1>2. Status = [a \in Addresses |-> "absent"] /\ Quiet = [a \in Addresses |-> 0]
  BY <1>1, TableShape
<1>3. Serving = {} /\ Mode = "running"
  BY DEF Init, Serving, UsesClient, Mode
<1> QED
  BY <1>2, <1>3 DEF Table!Init

\* Every step of the thread and of the world.
LEMMA StepRefines == RInv /\ [Next]_vars => [Table!Next]_(Table!vars)
<1> SUFFICES ASSUME RInv, [Next]_vars PROVE Table!Next \/ UNCHANGED Table!vars
  OBVIOUS
<1>1. ASSUME UNCHANGED <<table, client>>, Mode' = Mode, UsesClient' => UsesClient
      PROVE  Table!Next \/ UNCHANGED Table!vars
  BY <1>1, QuietRefines DEF Table!Next
<1>2. CASE DtlsStep
  BY <1>2, DtlsStutters
<1>3. CASE HandshakeReturned
  BY <1>3, HandshakeRefines DEF Table!Next
<1>4. ASSUME NEW p \in Pointers, PeekNew(p) \/ PeekKnown(p) \/ ShutdownRemove(p)
      PROVE  Table!Next
  BY <1>4, AddRefines, KnownRefines, EvictRefines DEF Table!Next
<1>5. CASE Tick \/ Remove \/ CheckTimeouts
  BY <1>5, TickRefines, RemoveRefines, CheckRefines DEF Table!Next
<1>6. CASE Signal
  <2>1. UNCHANGED <<table, client, pc, result>> /\ g_running /\ ~g_running'
    BY <1>6, Zenon DEF Signal, local
  <2>2. pc \notin {"shutdown", "stopped"}
    BY <2>1 DEF RInv, ToldToStop
  <2>3. Mode = "running" /\ Mode' = "told"
    BY <2>1, <2>2 DEF Mode
  <2>4. Status' = Status /\ Quiet' = Quiet /\ Serving' = Serving
    BY <2>1 DEF table, Status, Quiet, Found, Of, Serving, UsesClient
  <2> QED
    BY <2>3, <2>4 DEF Table!Signal, Table!Next
<1>7. ASSUME NEW a \in Addresses, NEW k \in Kinds, Arrive(a, k)
      PROVE  Table!Next \/ UNCHANGED Table!vars
  <2>1. UNCHANGED <<table, client, pc, result, g_running>>
    BY <1>7, Zenon DEF Arrive, local
  <2> QED
    BY <1>1, <2>1 DEF Mode, UsesClient
<1>8. CASE LoopTest
  <2>1. /\ pc = "loop" /\ pc' = IF g_running THEN "epoll" ELSE "shutdown"
        /\ UNCHANGED <<table, client, g_running>>
    BY <1>8, Zenon DEF LoopTest, Goto, local
  <2>2. Status' = Status /\ Quiet' = Quiet /\ Serving = {} /\ Serving' = {}
    BY <2>1 DEF table, Status, Quiet, Found, Of, Serving, UsesClient
  <2> QED
    BY <2>1, <2>2 DEF Mode, Table!Close, Table!Next, Table!vars
<1>9. CASE EpollEvent \/ EpollTimeout \/ EpollFails
  <2>1. /\ pc = "epoll" /\ pc' \in {"check", "loop"}
        /\ UNCHANGED <<table, client, g_running>>
    BY <1>9, Zenon DEF EpollEvent, EpollTimeout, EpollFails, Goto, local
  <2> QED
    BY <1>1, <2>1 DEF Mode, UsesClient
<1>10. CASE Stop
  <2>1. pc = "shutdown" /\ pc' = "stopped" /\ UNCHANGED <<table, client, g_running>>
    BY <1>10, Zenon DEF Stop, Goto, local
  <2> QED
    BY <1>1, <2>1 DEF Mode, UsesClient
<1>11. CASE PeekEmpty \/ PeekFails
  <2>1. pc = "peek" /\ pc' = "loop" /\ UNCHANGED <<table, g_running>>
    BY <1>11, Zenon DEF PeekEmpty, PeekFails, EndDrain, Goto
  <2>2. Status' = Status /\ Quiet' = Quiet /\ Serving = {} /\ Serving' = {} /\ Mode' = Mode
    BY <2>1 DEF table, Status, Quiet, Found, Of, Serving, UsesClient, Mode
  <2> QED
    BY <2>2 DEF Table!vars
<1>12. CASE PeekNewFails
  <2>1. /\ pc = "peek" /\ pc' = "discard" /\ result' = "ADD_FAILED"
        /\ UNCHANGED <<table, g_running>>
    BY <1>12, Zenon DEF PeekNewFails, Goto
  <2>2. Status' = Status /\ Quiet' = Quiet /\ Serving = {} /\ Serving' = {} /\ Mode' = Mode
    BY <2>1 DEF table, Status, Quiet, Found, Of, Serving, UsesClient, Mode
  <2> QED
    BY <2>2 DEF Table!vars
<1>13. CASE ReadReturned
  <2>1. pc = "got" /\ pc' \in {"respond", "remove", "discard"}
    BY <1>13, ReadReturnedMoves
  <2>2. UNCHANGED <<table, client, g_running>>
    BY <1>13, Zenon DEF ReadReturned, local
  <2> QED
    BY <1>1, <2>1, <2>2 DEF Mode, UsesClient
<1>14. CASE Discard
  <2>1. /\ pc = "discard" /\ UNCHANGED <<table, client, g_running, result>>
        /\ pc' = IF result \in {"OK", "WOULD_BLOCK", "ADD_FAILED"} THEN "peek" ELSE "remove"
    BY <1>14, Zenon DEF Discard, Goto
  <2> QED
    BY <1>1, <2>1 DEF Mode, UsesClient
<1>15. ASSUME NEW ret, Respond(ret) PROVE Table!Next \/ UNCHANGED Table!vars
  <2>1. pc = "respond" /\ pc' \in {"peek", "remove"} /\ UNCHANGED <<table, client, g_running>>
    BY <1>15, Zenon DEF Respond, Goto, local
  <2> QED
    BY <1>1, <2>1 DEF Mode, UsesClient
<1>16. CASE UNCHANGED vars
  <2>1. UNCHANGED <<table, client, pc, result, g_running>>
    BY <1>16, Zenon DEF vars, local
  <2> QED
    BY <1>1, <2>1 DEF Mode, UsesClient
<1> QED
  BY <1>2, <1>3, <1>4, <1>5, <1>6, <1>7, <1>8, <1>9, <1>10, <1>11, <1>12, <1>13, <1>14,
     <1>15, <1>16, StepsGrouped, Zenon DEF QuietStep, Outer, Finish, World

\* Whatever the clients send, whichever calls fail and whenever the signal comes,
\* main's loop treats its clients as the table promises: one session each, ended
\* only by their own datagram, by silence, or by the shutdown.
THEOREM ServerKeepsTable == Spec => KeepsTable
<1>1. Spec => Table!Spec
  BY InitRefines, StepRefines, RInductive, PTL DEF Spec, Table!Spec
<1> QED
  BY <1>1 DEF KeepsTable
=============================================================================
