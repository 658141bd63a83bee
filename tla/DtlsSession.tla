----------------------------- MODULE DtlsSession -----------------------------
(***************************************************************************)
(* One server-side DTLS session: what a datagram does to the library's     *)
(* handshake (mbedTLS, external), and the result codes sc_dtls_handshake,  *)
(* sc_dtls_read and sc_dtls_write make of the library's return values.     *)
(***************************************************************************)

\* A datagram is a ClientHello without or with a cookie, the client's last
\* handshake flight, application data, or a close_notify.
Kinds == {"hello", "cookie", "finish", "data", "close"}

\* What the library does next: wait for a ClientHello, send its flight, wait
\* for the client's last flight, send its own Finished, exchange records, hand
\* over the rest of what it has already received (a record longer than the
\* reader's buffer, or a second record of the same datagram).
Phases == {"hello", "reply", "keyx", "flush", "over", "rest"}

Established == {"over", "rest"}

Sending == {"reply", "flush"}

Sent(phase) == IF phase = "reply" THEN "keyx" ELSE "over"

\* "more": no return yet, the library goes on to read or send.
Outcome(phase, ret) == [ssl |-> phase, ret |-> ret]

\* The record each phase expects and what it brings about.  A ClientHello
\* without a cookie is answered with a HelloVerifyRequest, which ends the call
\* with an error.
Answers == {
    [phase |-> "hello", kind |-> "hello",  ssl |-> "hello", ret |-> "HELLO_VERIFY_REQUIRED"],
    [phase |-> "hello", kind |-> "cookie", ssl |-> "reply", ret |-> "more"],
    [phase |-> "keyx",  kind |-> "finish", ssl |-> "flush", ret |-> "more"],
    [phase |-> "over",  kind |-> "data",   ssl |-> "over",  ret |-> "bytes"],
    [phase |-> "over",  kind |-> "data",   ssl |-> "rest",  ret |-> "bytes"],
    [phase |-> "over",  kind |-> "close",  ssl |-> "over",  ret |-> "PEER_CLOSE_NOTIFY"]}

Expected(phase, kind) ==
    {Outcome(a.ssl, a.ret) : a \in {b \in Answers : b.phase = phase /\ b.kind = kind}}

\* Any record may also be silently dropped (a replay, a bad MAC, an old epoch)
\* or be fatal to the session (an alert, an unexpected message).
Processed(phase, kind) ==
    Expected(phase, kind) \cup {Outcome(phase, "more"), Outcome(phase, "FATAL")}

\* What reading the rest gives, without another datagram.  One further piece is
\* modelled: a record of up to two buffers, a datagram of two records.
Leftover == {Outcome("over", ret) : ret \in {"bytes", "PEER_CLOSE_NOTIFY", "more", "FATAL"}}

Wants == {"WANT_READ", "WANT_WRITE"}

HandshakeCode(ret) == CASE ret = "0"       -> "OK"
                        [] ret \in Wants   -> "WOULD_BLOCK"
                        [] ret = "TIMEOUT" -> "HANDSHAKE_TIMEOUT"
                        [] OTHER           -> "ERROR_HANDSHAKE"

ReadCode(ret) == CASE ret = "bytes"             -> "OK"
                   [] ret \in Wants             -> "WOULD_BLOCK"
                   [] ret = "PEER_CLOSE_NOTIFY" -> "PEER_CLOSED"
                   [] OTHER                     -> "ERROR_READ"

WriteCode(ret) == CASE ret = "bytes"   -> "OK"
                    [] ret \in Wants   -> "WOULD_BLOCK"
                    [] OTHER           -> "ERROR_WRITE"

HandshakeCodes == {"OK", "WOULD_BLOCK", "HANDSHAKE_TIMEOUT", "ERROR_HANDSHAKE"}
ReadCodes      == {"OK", "WOULD_BLOCK", "PEER_CLOSED", "ERROR_READ"}
=============================================================================
