----------------------------- MODULE ClientTable -----------------------------
(***************************************************************************)
(* What the server of server.c promises its clients, without sockets, DTLS *)
(* records or memory: an address has at most one session; only its own     *)
(* datagram opens, refreshes, establishes or ends it; otherwise it is lost *)
(* only to more than ClientTimeout seconds of silence or to the shutdown.  *)
(***************************************************************************)
EXTENDS Integers

CONSTANTS Addresses, ClientTimeout

VARIABLES
    status,    \* of each address: no session, a handshake, a finished one
    quiet,     \* seconds since its last datagram, exact up to ClientTimeout + 1
    serving,   \* the address whose datagram is being handled, if any
    mode       \* running, told to stop, or past the loop

vars == <<status, quiet, serving, mode>>

Init ==
    /\ status = [a \in Addresses |-> "absent"]
    /\ quiet = [a \in Addresses |-> 0]
    /\ serving = {} /\ mode = "running"

\* The sessions of the addresses in S are gone.
Forget(S) ==
    /\ status' = [a \in Addresses |-> IF a \in S THEN "absent" ELSE status[a]]
    /\ quiet' = [a \in Addresses |-> IF a \in S THEN 0 ELSE quiet[a]]

\* A datagram of a stranger ...
Open(a) ==
    /\ mode # "closing" /\ serving = {} /\ status[a] = "absent"
    /\ status' = [status EXCEPT ![a] = "opening"]
    /\ serving' = {a}
    /\ UNCHANGED <<quiet, mode>>

\* ... or of a client.
Refresh(a) ==
    /\ mode # "closing" /\ serving = {} /\ status[a] # "absent"
    /\ quiet' = [quiet EXCEPT ![a] = 0]
    /\ serving' = {a}
    /\ UNCHANGED <<status, mode>>

\* Its handling finishes the handshake, ...
Establish(a) ==
    /\ serving = {a} /\ status[a] = "opening"
    /\ status' = [status EXCEPT ![a] = "established"]
    /\ UNCHANGED <<quiet, serving, mode>>

\* ... ends the session, ...
Drop(a) ==
    /\ serving = {a} /\ status[a] # "absent"
    /\ Forget({a})
    /\ serving' = {}
    /\ UNCHANGED mode

\* ... or is over.
Done ==
    /\ serving # {} /\ serving' = {}
    /\ UNCHANGED <<status, quiet, mode>>

Silent == {a \in Addresses : status[a] # "absent" /\ quiet[a] > ClientTimeout}

Expire ==
    /\ mode # "closing" /\ serving = {}
    /\ Forget(Silent)
    /\ UNCHANGED <<serving, mode>>

Tick ==
    /\ quiet' = [a \in Addresses |-> IF status[a] # "absent" /\ quiet[a] <= ClientTimeout
                                       THEN quiet[a] + 1 ELSE quiet[a]]
    /\ UNCHANGED <<status, serving, mode>>

Signal == mode = "running" /\ mode' = "told" /\ UNCHANGED <<status, quiet, serving>>

Close ==
    /\ mode = "told" /\ serving = {}
    /\ mode' = "closing"
    /\ UNCHANGED <<status, quiet, serving>>

Evict(a) ==
    /\ mode = "closing" /\ status[a] # "absent"
    /\ Forget({a})
    /\ UNCHANGED <<serving, mode>>

Next ==
    \/ Done \/ Expire \/ Tick \/ Signal \/ Close
    \/ \E a \in Addresses : Open(a) \/ Refresh(a) \/ Establish(a) \/ Drop(a) \/ Evict(a)

Spec == Init /\ [][Next]_vars
=============================================================================
