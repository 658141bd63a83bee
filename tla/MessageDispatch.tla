--------------------------- MODULE MessageDispatch ---------------------------
(***************************************************************************)
(* What the server answers to a record of application data: the parsing of *)
(* message_header_t in place, in the one buffer that peeks, reads and      *)
(* replies share, on hosts of either byte order.                           *)
(*                                                                         *)
(* The buffer is cut into cells where the code tells bytes apart: the two   *)
(* bytes of each 16-bit field, the two fields that are only copied, and    *)
(* what follows the header.  A message is a sequence of cells; one that    *)
(* ends before the eighth is shorter than the header.                      *)
(***************************************************************************)
EXTENDS Integers, Sequences

CONSTANT Requests   \* the messages clients send, as sequences of cells

\* Byte   0 1          2 3    4 ...     8 ...      16 17           18 ...
\* Cell   1 2          3 4    5         6          7 8             9
\* Field  version      type   sequence  timestamp  payload_length  payload
HeaderCells == 8
Cells       == 1 .. 9

ASSUME RequestAssumption ==
    \A m \in Requests : /\ m \in Seq(Nat) /\ Len(m) \in Cells
                        /\ \A i \in 1 .. Len(m) : i \in {5, 6, 9} \/ m[i] \in 0 .. 255

SOCKET_BUFFER_SIZE == 4096
HeaderSize         == 18
MSG_PING           == 6
MSG_PONG           == 4101

VARIABLES
    little,     \* the byte order of the host
    buffer,
    request,    \* the record that was read, which takes bytes_read bytes
    reply,      \* what sc_dtls_write was given, <<>> before
    at          \* "peek", "read", "handle"

vars == <<little, buffer, request, reply, at>>

Stale == -1   \* a cell of ciphertext, or one never written

Init ==
    /\ little \in BOOLEAN
    /\ buffer = [i \in Cells |-> Stale] /\ request = <<>> /\ reply = <<>>
    /\ at = "peek"

-----------------------------------------------------------------------------
(* Byte order *)

\* A 16-bit field as the host loads it from cell i, and stores it.
Load(i)  == IF little THEN buffer[i] + 256 * buffer[i + 1] ELSE 256 * buffer[i] + buffer[i + 1]
Store(x) == IF little THEN <<x % 256, x \div 256>> ELSE <<x \div 256, x % 256>>

\* ntohs and htons, which do the same.
Swap(x)  == 256 * (x % 256) + x \div 256
ntohs(x) == IF little THEN Swap(x) ELSE x
htons(x) == ntohs(x)

-----------------------------------------------------------------------------
\* recvfrom puts the ciphertext of a datagram over the start of the buffer.
Recvfrom == \E n \in {1, 9} : buffer' = [i \in Cells |-> IF i <= n THEN Stale ELSE buffer[i]]

Peek ==
    /\ at = "peek" /\ at' = "read"
    /\ Recvfrom /\ reply' = <<>>
    /\ UNCHANGED <<little, request>>

\* sc_dtls_read puts a record there; it may be of a later datagram.
Read(m) ==
    /\ at = "read" /\ at' = "handle"
    /\ buffer' = [i \in Cells |-> IF i <= Len(m) THEN m[i] ELSE buffer[i]]
    /\ request' = m
    /\ UNCHANGED <<little, reply>>

\* sc_dtls_read has nothing for the server, which discards a datagram if there is
\* one and if the client has not closed the session.
ReadNothing ==
    /\ at = "read" /\ at' = "peek"
    /\ Recvfrom \/ UNCHANGED buffer
    /\ UNCHANGED <<little, request, reply>>

\* Fault: the whole buffer goes out.
WriteBuffer == reply' = SubSeq(buffer', 1, 9)

\* sc_dtls_write(session, buffer, bytes_read)
Write == reply' = SubSeq(buffer', 1, Len(request))

Echo == UNCHANGED buffer /\ Write

\* The response, over the header in the buffer: the sequence number, timestamp
\* and payload length are taken from there as they are.
Pong ==
    /\ LET version == Store(htons(1))
           type    == Store(htons(MSG_PONG))
       IN  buffer' = [i \in Cells |-> IF i \in {1, 2} THEN version[i]
                                      ELSE IF i \in {3, 4} THEN type[i - 2]
                                      ELSE buffer[i]]
    /\ Write

\* Fault: the length is compared with the buffer, without the header.
PingOfAnyLength ==
    /\ Len(request) >= HeaderCells
    /\ ntohs(Load(1)) = 1 /\ ntohs(Load(7)) <= SOCKET_BUFFER_SIZE /\ ntohs(Load(3)) = MSG_PING

\* A whole header of this version, a payload that fits the buffer, and a PING.
IsPing ==
    /\ Len(request) >= HeaderCells
    /\ ntohs(Load(1)) = 1
    /\ ntohs(Load(7)) <= SOCKET_BUFFER_SIZE - HeaderSize
    /\ ntohs(Load(3)) = MSG_PING

Handle ==
    /\ at = "handle" /\ at' = "peek"
    /\ IF IsPing THEN Pong ELSE Echo
    /\ UNCHANGED <<little, request>>

Next == Peek \/ (\E m \in Requests : Read(m)) \/ ReadNothing \/ Handle

Spec == Init /\ [][Next]_vars

-----------------------------------------------------------------------------
TypeOK ==
    /\ little \in BOOLEAN
    /\ buffer \in [Cells -> Int]
    /\ request \in Requests \cup {<<>>}
    /\ Len(reply) \in {0, Len(request)}
    /\ at \in {"peek", "read", "handle"}

\* RepliesInKind: on the wire, whatever the host's byte order and whatever was
\* left in the buffer, the reply is the request byte for byte, but that a ping
\* of version 1 whose payload length is at most 4078 comes back as a pong; no
\* byte of the datagram's ciphertext, or of another client's message, goes out.
WirePing(m) ==
    /\ Len(m) >= HeaderCells
    /\ m[1] = 0 /\ m[2] = 1 /\ m[3] = 0 /\ m[4] = 6
    /\ 256 * m[7] + m[8] <= 4078

Answer(m) == IF WirePing(m) THEN <<0, 1, 16, 5>> \o SubSeq(m, 5, Len(m)) ELSE m

RepliesInKind == reply # <<>> => reply = Answer(request)
=============================================================================
