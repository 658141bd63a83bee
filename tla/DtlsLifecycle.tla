---------------------------- MODULE DtlsLifecycle ----------------------------
(***************************************************************************)
(* dtls.c apart from its I/O: the initialisation flag, the context that    *)
(* sc_dtls_context_create builds piece by piece, noting each piece in a    *)
(* flag for sc_dtls_context_destroy, the sessions made from it, and the    *)
(* certificate a session accepts.                                          *)
(***************************************************************************)
EXTENDS Integers, Sequences

CONSTANTS
    Sessions,   \* the pointers sc_dtls_session_create may return
    Certs,      \* certificates; SHA-256 is taken to tell them apart
    MaxChain    \* the length of the longest chain a server sends

ASSUME MaxChainAssumption == MaxChain \in Nat \ {0}

\* The arguments of sc_dtls_context_create.  A client may give the hash of the
\* server's certificate, and say that it is 32 bytes long or that it is not.
NoPin == [given |-> FALSE]
Pins  == [given : {TRUE}, hash : Certs, whole : BOOLEAN]
Args  == [role : {"server", "client"}, paths : BOOLEAN, pin : Pins \cup {NoPin}]

VARIABLES
    g_dtls_initialized,
    args,      \* of the create that is running or has returned
    stage,     \* what create does next; "made" and "absent" outside it
    flags,     \* the *_initialized members that are set
    live,      \* what the context owns and has not released
    authmode,
    session,   \* what sc_dtls_session_create does next for each; "open", "free"
    checks     \* the sessions with cert_verify_callback

context == <<g_dtls_initialized, args, stage, flags, live, authmode>>
opened  == <<session, checks>>
vars    == <<context, opened>>

Init ==
    /\ g_dtls_initialized = FALSE /\ stage = "absent" /\ authmode = "none"
    /\ args \in Args /\ flags = {} /\ live = {}
    /\ session = [s \in Sessions |-> "free"] /\ checks = {}

\* sc_dtls_init and sc_dtls_cleanup look at nothing but the flag.
SetInitialized(value) ==
    /\ stage \in {"absent", "made"} /\ g_dtls_initialized' = value
    /\ UNCHANGED <<args, stage, flags, live, authmode, opened>>

LibraryInit    == SetInitialized(TRUE)
LibraryCleanup == SetInitialized(FALSE)

-----------------------------------------------------------------------------
(* sc_dtls_context_create *)

\* Its stages, but for the last, "pin".
Stages == {"seed", "defaults", "paths", "key", "cookie"}

\* What each stage initialises before the call in it that may fail.
Pieces == [seed |-> {"entropy", "ctr_drbg"}, defaults |-> {"conf"}, paths |-> {},
           key |-> {"cert", "pkey"}, cookie |-> {"cookie_ctx"}]

\* Fault: the key shares the flag of the certificate.
FlagsShared == [seed |-> {"rng"}, defaults |-> {"config"}, paths |-> {},
                key |-> {"cert"}, cookie |-> {"cookie"}]

\* The flags it sets for them.
Flags == [seed |-> {"rng"}, defaults |-> {"config"}, paths |-> {},
          key |-> {"cert", "pkey"}, cookie |-> {"cookie"}]

\* The pieces sc_dtls_context_destroy frees for each flag.
Covers == [rng |-> {"entropy", "ctr_drbg"}, config |-> {"conf"}, cert |-> {"cert"},
           pkey |-> {"pkey"}, cookie |-> {"cookie_ctx"}]

\* What destroy would release now: the pieces of the flags, and in any case
\* pinned_cert_hash, which may be NULL, and the struct.
Released == (UNION {Covers[f] : f \in flags}) \cup {"struct"} \cup (live \cap {"pinned_cert_hash"})

\* create is refused before sc_dtls_init, and when calloc fails.
Create(a) ==
    /\ stage = "absent" /\ g_dtls_initialized
    /\ args' = a /\ stage' = "seed" /\ authmode' = "none"
    /\ live' = {"struct"} /\ flags' = {}
    /\ UNCHANGED <<g_dtls_initialized, opened>>

\* Only a server is given certificates.
Following(st) ==
    IF st = "defaults" /\ args.role = "client" THEN "pin"
    ELSE [seed |-> "defaults", defaults |-> "paths", paths |-> "key",
          key |-> "cookie", cookie |-> "pin"][st]

\* The only call of the stage "paths" is the test of the two paths.
MayFail(st)    == st = "paths" => ~ args.paths
MaySucceed(st) == st = "paths" => args.paths

BuildFails(st) ==
    /\ stage = st /\ MayFail(st)
    /\ live' = live \cup Pieces[st] /\ flags' = flags \cup Flags[st]
    /\ stage' = "error"
    /\ UNCHANGED <<g_dtls_initialized, args, authmode, opened>>

Build(st) ==
    /\ stage = st /\ MaySucceed(st)
    /\ live' = live \cup Pieces[st] /\ flags' = flags \cup Flags[st]
    /\ stage' = Following(st)
    /\ UNCHANGED <<g_dtls_initialized, args, authmode, opened>>

\* A hash of another length is left out, and so is verification.
Pinning == args.role = "client" /\ args.pin.given /\ args.pin.whole

\* Fault: the library is to check the chain itself.
PinRequired ==
    /\ stage = "pin" /\ stage' = "made"
    /\ live' = live \cup (IF Pinning THEN {"pinned_cert_hash"} ELSE {})
    /\ authmode' = IF Pinning THEN "required" ELSE "none"
    /\ UNCHANGED <<g_dtls_initialized, args, flags, opened>>

Pin ==
    /\ stage = "pin" /\ stage' = "made"
    /\ live' = live \cup (IF Pinning THEN {"pinned_cert_hash"} ELSE {})
    /\ authmode' = IF Pinning THEN "optional" ELSE "none"
    /\ UNCHANGED <<g_dtls_initialized, args, flags, opened>>

PinFails ==
    /\ stage = "pin" /\ Pinning /\ stage' = "error"
    /\ UNCHANGED <<g_dtls_initialized, args, flags, live, authmode, opened>>

\* sc_dtls_context_destroy, by create's error label or by the caller.
Destroy ==
    /\ stage \in {"error", "made"}
    /\ stage' = "absent" /\ live' = live \ Released /\ flags' = {}
    /\ UNCHANGED <<g_dtls_initialized, args, authmode, opened>>

-----------------------------------------------------------------------------
(* sc_dtls_session_create and _destroy *)

\* calloc and mbedtls_ssl_init, behind the test of ctx and fd; NULL when it fails.
Alloc(s) ==
    /\ stage = "made" /\ session[s] = "free"
    /\ session' = [session EXCEPT ![s] = "setup"]
    /\ UNCHANGED <<checks, context>>

\* mbedtls_ssl_setup and the callbacks.
Setup(s) ==
    /\ session[s] = "setup"
    /\ session' = [session EXCEPT ![s] = "identify"]
    /\ checks' = IF args.role = "client" /\ "pinned_cert_hash" \in live
                   THEN checks \cup {s} ELSE checks
    /\ UNCHANGED context

\* A server sets the transport id; then fcntl makes the socket non-blocking.
Identify(s) ==
    /\ session[s] = "identify"
    /\ session' = [session EXCEPT ![s] = "open"]
    /\ UNCHANGED <<checks, context>>

\* sc_dtls_session_destroy, by create's error exits or by the caller.
DestroySession(s) ==
    /\ session[s] # "free"
    /\ session' = [session EXCEPT ![s] = "free"] /\ checks' = checks \ {s}
    /\ UNCHANGED context

-----------------------------------------------------------------------------
(* The certificate check of a handshake *)

\* sc_dtls_cert_hash of a file that parses: its first certificate.
CertHash(file) == file[1]

\* Fault: the leaf is not told from the rest of the chain.
CallbackOkAny(chain, depth) == chain[depth + 1] = args.pin.hash

\* cert_verify_callback returns 0 for the certificate at this depth.
CallbackOk(chain, depth) ==
    \/ args.role # "client" \/ "pinned_cert_hash" \notin live \/ depth # 0
    \/ chain[depth + 1] = args.pin.hash

\* Its effect on the flags: only the leaf is cleared.
CallbackClears(depth) ==
    args.role = "client" /\ "pinned_cert_hash" \in live /\ depth = 0

\* mbedTLS: no authority is configured, so every certificate comes flagged.  In
\* optional mode only the callback's error stops a handshake; in required mode
\* a flag that is left does too; otherwise nothing is looked at.
Accepts(s, chain) ==
    \/ authmode = "none"
    \/ \A depth \in 0 .. Len(chain) - 1 :
          /\ s \in checks => CallbackOk(chain, depth)
          /\ authmode = "required" => s \in checks /\ CallbackClears(depth)

-----------------------------------------------------------------------------
\* The callers destroy the sessions before their context.
LifeNext ==
    \/ LibraryInit \/ LibraryCleanup
    \/ \E a \in Args : Create(a)
    \/ \E st \in Stages : Build(st) \/ BuildFails(st)
    \/ Pin \/ PinFails
    \/ Destroy /\ \A s \in Sessions : session[s] = "free"
    \/ \E s \in Sessions : Alloc(s) \/ Setup(s) \/ Identify(s) \/ DestroySession(s)

LifeSpec == Init /\ [][LifeNext]_vars

-----------------------------------------------------------------------------
LifeTypeOK ==
    /\ g_dtls_initialized \in BOOLEAN
    /\ args \in Args
    /\ stage \in Stages \cup {"pin", "absent", "error", "made"}
    /\ flags \subseteq DOMAIN Covers
    /\ live \subseteq (UNION {Covers[f] : f \in DOMAIN Covers}) \cup {"struct", "pinned_cert_hash"}
    /\ authmode \in {"none", "optional"}
    /\ session \in [Sessions -> {"free", "setup", "identify", "open"}]
    /\ checks \subseteq Sessions

\* ReleasesExactly: whichever step of sc_dtls_context_create fails, for either
\* role, the flags make sc_dtls_context_destroy release what exists then and
\* nothing that was never initialised; when it is over nothing is left.
ReleasesExactly ==
    /\ stage \in {"error", "made"} => Released = live
    /\ stage = "absent" => live = {}

\* PinDecides: a client session whose context was given a whole hash finishes a
\* handshake exactly with the servers whose own certificate has that hash,
\* wherever their chains lead; that agrees the mode create chose, the callback
\* session_create set and what the callback answers at each depth.  The other
\* sessions check nothing.
Chains == UNION {[1 .. n -> Certs] : n \in 1 .. MaxChain}

PinDecides ==
    \A s \in Sessions, chain \in Chains :
        session[s] = "open" =>
            (Accepts(s, chain) <=> (Pinning => CertHash(chain) = args.pin.hash))
=============================================================================
