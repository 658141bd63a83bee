------------------------- MODULE ServerProcessProofs -------------------------
(***************************************************************************)
(* Theorems about DtlsLifecycle, and about ServerProcess, whose steps are  *)
(* steps of it, for any number of sessions and certificates.               *)
(***************************************************************************)
EXTENDS ServerProcess, TLAPS

(* What the flags promise: from the allocation of the struct to its release  *)
(* the context owns the pieces its flags stand for, and the pinned hash.      *)
FlagsExact ==
    /\ stage # "absent" => Released = live
    /\ stage = "absent" => live = {}

(* A context that is made verifies with the callback exactly when it is       *)
(* pinned, and has no hash before.                                            *)
ModeAgrees ==
    /\ stage = "made" => /\ authmode = IF Pinning THEN "optional" ELSE "none"
                         /\ "pinned_cert_hash" \in live <=> Pinning
    /\ stage \in Stages \cup {"pin"} => "pinned_cert_hash" \notin live

(* Sessions live inside their context, and once set up have the callback       *)
(* exactly when the context is pinned.                                         *)
SessionsAgree ==
    \A s \in Sessions :
        /\ session[s] # "free" => stage = "made"
        /\ s \in checks <=> (session[s] \in {"identify", "open"} /\ Pinning)

LifeInv == LifeTypeOK /\ FlagsExact /\ ModeAgrees /\ SessionsAgree

-----------------------------------------------------------------------------
(* The flags a stage sets stand for the pieces it makes. *)
LEMMA FlagsCoverPieces ==
    ASSUME NEW st \in Stages
    PROVE  /\ UNION {Covers[f] : f \in Flags[st]} = Pieces[st]
           /\ Flags[st] \subseteq DOMAIN Covers
           /\ "pinned_cert_hash" \notin Pieces[st]
<1> USE DEF Covers, Flags, Pieces
<1>1. CASE st = "seed"
  BY <1>1
<1>2. CASE st = "defaults"
  BY <1>2
<1>3. CASE st = "paths"
  BY <1>3
<1>4. CASE st = "key"
  BY <1>4
<1>5. CASE st = "cookie"
  BY <1>5
<1> QED
  BY <1>1, <1>2, <1>3, <1>4, <1>5 DEF Stages

(* A step that makes a stage's pieces and sets its flags keeps the two equal, *)
(* whether the call after it fails or not.                                    *)
LEMMA StageKeepsFlags ==
    ASSUME NEW st \in Stages, Released = live,
           live' = live \cup Pieces[st], flags' = flags \cup Flags[st]
    PROVE  Released' = live'
<1>1. UNION {Covers[f] : f \in flags'} = (UNION {Covers[f] : f \in flags}) \cup Pieces[st]
  BY FlagsCoverPieces
<1>2. live' \cap {"pinned_cert_hash"} = live \cap {"pinned_cert_hash"}
  BY FlagsCoverPieces
<1> QED
  BY <1>1, <1>2 DEF Released

(* Following leads to a later stage. *)
LEMMA FollowingStage ==
    ASSUME NEW st \in Stages
    PROVE  Following(st) \in Stages \cup {"pin"}
  BY DEF Following, Stages

-----------------------------------------------------------------------------
(* One lemma for each step. *)

LEMMA CreateStep == ASSUME LifeInv, NEW a \in Args, Create(a) PROVE LifeInv'
<1> USE DEF LifeInv, Create, opened
<1>1. LifeTypeOK'
  BY DEF LifeTypeOK, Stages, Covers
<1>2. Released' = live'
  BY DEF Released
<1>3. \A s \in Sessions : session[s] = "free"
  BY DEF SessionsAgree
<1> QED
  BY <1>1, <1>2, <1>3 DEF FlagsExact, ModeAgrees, SessionsAgree, Stages

LEMMA StageStep ==
    ASSUME LifeInv, NEW st \in Stages, BuildFails(st) \/ Build(st)
    PROVE  LifeInv'
<1> USE DEF LifeInv
<1>0. stage = st /\ stage' \in Stages \cup {"pin", "error"}
      /\ live' = live \cup Pieces[st] /\ flags' = flags \cup Flags[st]
      /\ UNCHANGED <<g_dtls_initialized, args, authmode, session, checks>>
  BY FollowingStage DEF Build, BuildFails, opened
<1>1. Pieces[st] \subseteq UNION {Covers[f] : f \in DOMAIN Covers}
  BY FlagsCoverPieces
<1>2. LifeTypeOK'
  BY <1>0, <1>1, FlagsCoverPieces DEF LifeTypeOK
<1>3. Released' = live'
  BY <1>0, StageKeepsFlags DEF FlagsExact, Stages
<1>4. ModeAgrees'
  BY <1>0, FlagsCoverPieces DEF ModeAgrees, Stages
<1>5. \A s \in Sessions : session[s] = "free"
  BY <1>0 DEF SessionsAgree, Stages
<1> QED
  BY <1>0, <1>2, <1>3, <1>4, <1>5 DEF FlagsExact, SessionsAgree, Stages

LEMMA PinStep == ASSUME LifeInv, Pin \/ PinFails PROVE LifeInv'
<1> USE DEF LifeInv
<1>0. /\ stage = "pin" /\ stage' \in {"made", "error"}
      /\ live' = live \/ live' = live \cup {"pinned_cert_hash"}
      /\ authmode' \in {authmode, "optional", "none"}
      /\ UNCHANGED <<g_dtls_initialized, args, flags, session, checks>>
  BY DEF Pin, PinFails, opened
<1>1. LifeTypeOK'
  BY <1>0 DEF LifeTypeOK
<1>2. Released' = live'
  BY <1>0 DEF FlagsExact, Released
<1>3. ModeAgrees'
  BY <1>0 DEF ModeAgrees, Pin, PinFails, Pinning, Stages
<1>4. \A s \in Sessions : session[s] = "free"
  BY <1>0 DEF SessionsAgree
<1> QED
  BY <1>0, <1>1, <1>2, <1>3, <1>4 DEF FlagsExact, SessionsAgree

LEMMA DestroyStep ==
    ASSUME LifeInv, Destroy, \A s \in Sessions : session[s] = "free"
    PROVE  LifeInv'
<1> USE DEF LifeInv, Destroy, opened
<1>1. live' = {}
  BY DEF FlagsExact
<1>2. LifeTypeOK'
  BY <1>1 DEF LifeTypeOK
<1> QED
  BY <1>1, <1>2 DEF FlagsExact, ModeAgrees, SessionsAgree, Stages

LEMMA LibraryStep == ASSUME LifeInv, NEW v \in BOOLEAN, SetInitialized(v) PROVE LifeInv'
<1> USE DEF LifeInv, SetInitialized, opened
<1>1. LifeTypeOK'
  BY DEF LifeTypeOK
<1>2. Released' = Released /\ Pinning' = Pinning
  BY DEF Released, Pinning
<1> QED
  BY <1>1, <1>2 DEF FlagsExact, ModeAgrees, SessionsAgree

LEMMA SessionStep ==
    ASSUME LifeInv, NEW s \in Sessions, Alloc(s) \/ Setup(s) \/ Identify(s) \/ DestroySession(s)
    PROVE  LifeInv'
<1> USE DEF LifeInv
<1>0. UNCHANGED context
  BY DEF Alloc, Setup, Identify, DestroySession
<1>1. Released' = Released /\ Pinning' = Pinning
  BY <1>0 DEF context, Released, Pinning
<1>2. FlagsExact' /\ ModeAgrees'
  BY <1>0, <1>1 DEF FlagsExact, ModeAgrees, context
<1>3. LifeTypeOK'
  BY <1>0 DEF LifeTypeOK, context, Alloc, Setup, Identify, DestroySession
<1>4. stage = "made" => (Pinning <=> (args.role = "client" /\ "pinned_cert_hash" \in live))
  BY DEF ModeAgrees, Pinning
<1>5. session[s] # "free" => stage = "made"
  BY DEF SessionsAgree
<1>6. stage' = stage /\ live' = live /\ args' = args
  BY <1>0 DEF context
<1>7. SessionsAgree'
  <2> SUFFICES ASSUME NEW t \in Sessions
               PROVE  /\ session'[t] # "free" => stage' = "made"
                      /\ t \in checks' <=> (session'[t] \in {"identify", "open"} /\ Pinning')
    BY DEF SessionsAgree
  <2>1. CASE t # s
    BY <2>1, <1>1, <1>6 DEF SessionsAgree, LifeTypeOK, Alloc, Setup, Identify, DestroySession
  <2>2. CASE t = s
    <3>1. s \in checks' <=> (session'[s] \in {"identify", "open"} /\ Pinning)
      <4>1. CASE Alloc(s)
        BY <4>1 DEF Alloc, LifeTypeOK, SessionsAgree
      <4>2. CASE Setup(s)
        BY <4>2, <1>4, <1>5 DEF Setup, SessionsAgree, LifeTypeOK
      <4>3. CASE Identify(s)
        BY <4>3 DEF Identify, SessionsAgree, LifeTypeOK
      <4>4. CASE DestroySession(s)
        BY <4>4 DEF DestroySession, LifeTypeOK
      <4> QED
        BY <4>1, <4>2, <4>3, <4>4
    <3>2. session'[s] # "free" => stage = "made"
      BY <1>5 DEF LifeTypeOK, Alloc, Setup, Identify, DestroySession
    <3> QED
      BY <2>2, <3>1, <3>2, <1>1, <1>6
  <2> QED
    BY <2>1, <2>2
<1> QED
  BY <1>2, <1>3, <1>7

-----------------------------------------------------------------------------
LEMMA LifeInitially == Init => LifeInv
<1> SUFFICES ASSUME Init PROVE LifeInv
  OBVIOUS
<1>1. LifeTypeOK
  BY DEF Init, LifeTypeOK
<1> QED
  BY <1>1 DEF Init, LifeInv, FlagsExact, ModeAgrees, SessionsAgree, Stages

LEMMA LifeSteps == LifeInv /\ [LifeNext]_vars => LifeInv'
<1> SUFFICES ASSUME LifeInv, [LifeNext]_vars PROVE LifeInv'
  OBVIOUS
<1>1. CASE LibraryInit \/ LibraryCleanup
  BY <1>1, LibraryStep DEF LibraryInit, LibraryCleanup
<1>2. CASE \E a \in Args : Create(a)
  BY <1>2, CreateStep
<1>3. CASE \E st \in Stages : Build(st) \/ BuildFails(st)
  BY <1>3, StageStep
<1>4. CASE Pin \/ PinFails
  BY <1>4, PinStep
<1>5. CASE Destroy /\ \A s \in Sessions : session[s] = "free"
  BY <1>5, DestroyStep
<1>6. CASE \E s \in Sessions : Alloc(s) \/ Setup(s) \/ Identify(s) \/ DestroySession(s)
  BY <1>6, SessionStep
<1>7. CASE UNCHANGED vars
  <2>1. Released' = Released /\ Pinning' = Pinning
    BY <1>7 DEF vars, context, opened, Released, Pinning
  <2> QED
    BY <1>7, <2>1 DEF vars, context, opened, LifeInv, LifeTypeOK, FlagsExact, ModeAgrees, SessionsAgree
<1> QED
  BY <1>1, <1>2, <1>3, <1>4, <1>5, <1>6, <1>7 DEF LifeNext

(* Every open session of a pinned client accepts exactly the pinned leaf. *)
LEMMA PinFollows == LifeInv => PinDecides
<1> SUFFICES ASSUME LifeInv, NEW s \in Sessions, NEW chain \in Chains, session[s] = "open"
             PROVE  Accepts(s, chain) <=> (Pinning => chain[1] = args.pin.hash)
  BY DEF PinDecides, CertHash
<1>1. PICK n \in 1 .. MaxChain : chain \in [1 .. n -> Certs]
  BY DEF Chains
<1>2. n \in Nat \ {0} /\ Len(chain) = n
  BY <1>1, MaxChainAssumption
<1>3. 0 \in 0 .. Len(chain) - 1
  BY <1>2
<1>4. /\ stage = "made" /\ (s \in checks <=> Pinning)
      /\ authmode = IF Pinning THEN "optional" ELSE "none"
      /\ "pinned_cert_hash" \in live <=> Pinning
  BY DEF LifeInv, SessionsAgree, ModeAgrees
<1>5. CASE ~ Pinning
  BY <1>4, <1>5 DEF Accepts
<1>6. CASE Pinning
  <2>1. args.role = "client" /\ s \in checks /\ authmode = "optional" /\ "pinned_cert_hash" \in live
    BY <1>4, <1>6 DEF Pinning
  <2>2. Accepts(s, chain) <=> \A depth \in 0 .. Len(chain) - 1 : CallbackOk(chain, depth)
    BY <2>1 DEF Accepts
  <2>3. \A depth \in 0 .. Len(chain) - 1 :
            CallbackOk(chain, depth) <=> (depth = 0 => chain[1] = args.pin.hash)
    BY <2>1 DEF CallbackOk
  <2> QED
    BY <1>3, <1>6, <2>2, <2>3
<1> QED
  BY <1>5, <1>6

(* LifeTypeOK holds in every reachable state of the calls of dtls.c. *)
THEOREM LifeTyped == LifeSpec => []LifeTypeOK
<1>1. LifeInv => LifeTypeOK
  BY DEF LifeInv
<1> QED
  BY <1>1, LifeInitially, LifeSteps, PTL DEF LifeSpec

(* Whichever of create's calls fails, for either role, the flags have destroy  *)
(* release exactly what was made.                                              *)
THEOREM ReleaseIsExact == LifeSpec => []ReleasesExactly
<1>1. LifeInv => ReleasesExactly
  BY DEF LifeInv, FlagsExact, ReleasesExactly
<1> QED
  BY <1>1, LifeInitially, LifeSteps, PTL DEF LifeSpec

(* For any set of certificates and any bound on the chains, an open client      *)
(* session accepts the chains that start with the pinned certificate, and no     *)
(* other, when a whole hash was given.                                           *)
THEOREM PinAlwaysDecides == LifeSpec => []PinDecides
  BY PinFollows, LifeInitially, LifeSteps, PTL DEF LifeSpec

-----------------------------------------------------------------------------
(* The process *)

Serving == {"loop", "serve", "add", "evict"}
Made    == Serving \cup {"sigaction", "epoll", "socket", "bind", "no_socket",
                         "epoll_ctl", "close", "destroy"}

(* The state of the context at each point of main. *)
ContextPlace ==
    /\ args = ServerArgs
    /\ pc \in {"init", "context", "cleanup"} => stage = "absent"
    /\ pc = "build" => stage \in Stages \cup {"pin", "error"}
    /\ pc \in Made => stage = "made"
    /\ pc \in Made \cup {"context", "build"} => g_dtls_initialized
    /\ pc = "return" => stage = IF g_dtls_initialized THEN "made" ELSE "absent"
    /\ pc = "return" /\ status = 0 => stage = "absent"

(* The descriptors open at each point, and the branch that only failures reach. *)
FdPlace ==
    /\ pc \in Unhandled \cup {"epoll", "destroy", "cleanup", "return"} => fds = {}
    /\ pc \in {"socket", "no_socket"} => fds = {"epoll_fd"}
    /\ pc \in Serving \cup {"bind", "epoll_ctl", "close"} => fds = {"epoll_fd", "sock"}
    /\ pc = "no_socket" => status = 1

(* Clients exist while the server serves, each with a session that is open. *)
ClientPlace ==
    /\ pc \notin Serving => clients = {}
    /\ \A s \in clients : session[s] = "open"

ProcessInv == LifeInv /\ ProcessTypeOK /\ ContextPlace /\ FdPlace /\ ClientPlace /\ NoOrphans

-----------------------------------------------------------------------------
(* The steps that leave the sessions and the list alone. *)
Quiet == UNCHANGED <<session, checks, clients>> /\ pc # "add" /\ pc' # "add"

LEMMA QuietKeepsClients ==
    ASSUME ProcessInv, Quiet, pc' \notin Serving => pc \notin Serving \/ clients = {}
    PROVE  ClientPlace' /\ NoOrphans'
<1>1. Existing' = Existing
  BY DEF Quiet, Existing
<1> QED
  BY <1>1 DEF Quiet, ProcessInv, ClientPlace, NoOrphans

(* Outside the serving stages there is no session. *)
LEMMA NoneOutside == ASSUME ProcessInv, pc \notin Serving
                     PROVE  Existing = {} /\ \A s \in Sessions : session[s] = "free"
  BY DEF ProcessInv, ClientPlace, NoOrphans, Existing, Serving

(* Every step of main leaves what dtls.c keeps alone, or is a call of it that  *)
(* LifeNext allows; only the destruction of the context needs to know where     *)
(* main is: no session is left there.                                           *)
LEMMA StepsAreCalls == ASSUME ProcessInv, [ProcessNext]_processVars PROVE [LifeNext]_vars
<1> USE DEF Goto, Failing, FailingRaw
<1>0. ServerArgs \in Args
  BY DEF ServerArgs, Args
<1>1. CASE InitLibrary \/ CreateContext \/ CreateRefused \/ BuildContext \/ SetHandlers
  BY <1>0, <1>1 DEF InitLibrary, CreateContext, CreateRefused, BuildContext, SetHandlers, LifeNext
<1>2. CASE CreateFails \/ DestroyContext
  <2>1. pc \notin Serving
    BY <1>2 DEF CreateFails, DestroyContext, Serving
  <2>2. \A s \in Sessions : session[s] = "free"
    BY <2>1, NoneOutside
  <2> QED
    BY <1>2, <2>2 DEF CreateFails, DestroyContext, LifeNext
<1>3. CASE \/ EpollCreate \/ Socket \/ Bind \/ NoSocket \/ EpollAdd
           \/ LoopTest \/ Turn \/ AddLinks \/ Evicted \/ Close \/ Killed \/ HandleShutdown
  BY <1>3 DEF EpollCreate, Socket, Bind, NoSocket, EpollAdd, LoopTest, Turn, AddLinks, Evicted,
         Close, Killed, HandleShutdown
<1>4. CASE AddBegins \/ AddGoesOn \/ AddFails
  BY <1>4 DEF AddBegins, AddGoesOn, AddFails, LifeNext
<1>5. CASE Remove \/ Evict
  BY <1>5 DEF Remove, Evict, RemoveClient, LifeNext
<1>6. CASE Cleanup
  BY <1>6 DEF Cleanup, LifeNext
<1>7. CASE UNCHANGED processVars
  BY <1>7 DEF processVars
<1> QED
  BY <1>1, <1>2, <1>3, <1>4, <1>5, <1>6, <1>7 DEF ProcessNext

LEMMA LifeKept == ASSUME ProcessInv, [LifeNext]_vars PROVE LifeInv' /\ LifeTypeOK'
  BY LifeSteps DEF ProcessInv, LifeInv

-----------------------------------------------------------------------------
(* From the first call to the handlers. *)
LEMMA StartSteps ==
    ASSUME ProcessInv,
           InitLibrary \/ CreateContext \/ CreateRefused \/ BuildContext \/ CreateFails \/ SetHandlers
    PROVE  ProcessInv'
<1> USE DEF Goto, Failing, Serving, Unhandled
<1>0. pc \in {"init", "context", "build", "sigaction"}
  BY DEF InitLibrary, CreateContext, CreateRefused, BuildContext, CreateFails, SetHandlers
<1>2. [LifeNext]_vars
  BY StepsAreCalls DEF ProcessNext
<1>3. pc' \notin Serving /\ Quiet
  BY <1>0 DEF InitLibrary, CreateContext, CreateRefused, BuildContext, CreateFails, SetHandlers,
         LibraryInit, SetInitialized, Create, Build, BuildFails, Pin, Destroy, opened, vars, Quiet
<1>4. ClientPlace' /\ NoOrphans'
  BY <1>0, <1>3, QuietKeepsClients
<1>5. LifeInv' /\ LifeTypeOK'
  BY <1>2, LifeKept
<1>6. CASE InitLibrary
  BY <1>4, <1>5, <1>6 DEF InitLibrary, ProcessInv, ProcessTypeOK, ContextPlace, FdPlace,
         LibraryInit, SetInitialized, Made
<1>7. CASE CreateContext
  BY <1>4, <1>5, <1>7 DEF CreateContext, ProcessInv, ProcessTypeOK, ContextPlace, FdPlace,
         Create, Made, Stages
<1>8. CASE CreateRefused
  BY <1>4, <1>5, <1>8 DEF CreateRefused, ProcessInv, ProcessTypeOK, ContextPlace, FdPlace,
         vars, context, Made
<1>9. CASE BuildContext
  <2>1. stage' \in Stages \cup {"pin", "error", "made"} /\ args' = args
    BY <1>9, FollowingStage DEF BuildContext, Build, BuildFails, Pin
  <2>2. g_dtls_initialized' = g_dtls_initialized
    BY <1>9, Zenon DEF BuildContext, Build, BuildFails, Pin
  <2> QED
    BY <1>4, <1>5, <1>9, <2>1, <2>2 DEF BuildContext, ProcessInv, ProcessTypeOK, ContextPlace, FdPlace, Made
<1>10. CASE CreateFails
  BY <1>4, <1>5, <1>10 DEF CreateFails, ProcessInv, ProcessTypeOK, ContextPlace, FdPlace,
         Destroy, Made
<1>11. CASE SetHandlers
  BY <1>4, <1>5, <1>11 DEF SetHandlers, ProcessInv, ProcessTypeOK, ContextPlace, FdPlace,
         vars, context, Made
<1> QED
  BY <1>6, <1>7, <1>8, <1>9, <1>10, <1>11

(* The descriptors, the test of the loop and the signals: the calls of dtls.c  *)
(* are not concerned.                                                          *)
LEMMA PlainSteps ==
    ASSUME ProcessInv,
           \/ EpollCreate \/ Socket \/ Bind \/ NoSocket \/ EpollAdd
           \/ LoopTest \/ Turn \/ Evicted \/ Close \/ Killed
    PROVE  ProcessInv'
<1> USE DEF Goto, Failing, Serving, Unhandled, GivenUp, EpollCreate, Socket, Bind, NoSocket,
            EpollAdd, LoopTest, Turn, Evicted, Close, Killed
<1>1. UNCHANGED vars
  OBVIOUS
<1>2. Quiet
  BY <1>1 DEF vars, opened, Quiet
<1>3. ClientPlace' /\ NoOrphans'
  BY <1>2, QuietKeepsClients
<1>4. LifeInv' /\ LifeTypeOK'
  BY <1>1, LifeKept
<1>5. ProcessTypeOK'
  BY <1>4 DEF ProcessInv, ProcessTypeOK
<1>6. ContextPlace'
  BY <1>1 DEF ProcessInv, ContextPlace, FdPlace, Made, vars, context
<1>7. FdPlace'
  BY DEF ProcessInv, FdPlace
<1> QED
  BY <1>3, <1>4, <1>5, <1>6, <1>7 DEF ProcessInv

LEMMA ShutdownStep == ASSUME ProcessInv, HandleShutdown PROVE ProcessInv'
<1> USE DEF HandleShutdown
<1>1. LifeInv' /\ LifeTypeOK'
  BY LifeKept
<1>2. Existing' = Existing
  BY DEF Existing, vars, opened
<1> QED
  BY <1>1, <1>2 DEF ProcessInv, ProcessTypeOK, ContextPlace, FdPlace, ClientPlace, NoOrphans,
         vars, context, opened

(* The release of the context and the library. *)
LEMMA ReleaseSteps == ASSUME ProcessInv, DestroyContext \/ Cleanup PROVE ProcessInv'
<1> USE DEF Goto, Serving, Unhandled, DestroyContext, Cleanup
<1>1. [LifeNext]_vars
  BY StepsAreCalls DEF ProcessNext
<1>2. Quiet
  BY DEF Quiet, Destroy, LibraryCleanup, SetInitialized, opened
<1>3. ClientPlace' /\ NoOrphans'
  BY <1>2, QuietKeepsClients
<1>4. LifeInv' /\ LifeTypeOK'
  BY <1>1, LifeKept
<1>5. ProcessTypeOK' /\ FdPlace'
  BY <1>4 DEF ProcessInv, ProcessTypeOK, FdPlace
<1>6. ContextPlace'
  BY DEF ProcessInv, ContextPlace, Destroy, LibraryCleanup, SetInitialized, Made
<1> QED
  BY <1>3, <1>4, <1>5, <1>6 DEF ProcessInv

-----------------------------------------------------------------------------
(* What the steps on sessions have in common. *)
LEMMA SessionFrame ==
    ASSUME ProcessInv, [LifeNext]_vars, UNCHANGED <<context, fds, g_running, status>>,
           pc \in Serving, pc' \in Serving, clients' \subseteq Sessions,
           ClientPlace', NoOrphans'
    PROVE  ProcessInv'
<1>1. LifeInv' /\ LifeTypeOK'
  BY LifeKept
<1> QED
  BY <1>1 DEF ProcessInv, ProcessTypeOK, ContextPlace, FdPlace, Serving, Made, Unhandled, context

LEMMA AddSteps == ASSUME ProcessInv, AddBegins \/ AddGoesOn \/ AddLinks \/ AddFails PROVE ProcessInv'
<1> USE DEF Goto
<1>0. /\ clients \subseteq Sessions /\ session \in [Sessions -> {"free", "setup", "identify", "open"}]
      /\ \A s \in clients : session[s] = "open"
      /\ clients \subseteq Existing /\ (pc = "add" => \E s \in Sessions : Existing \ clients = {s})
      /\ (pc # "add" => Existing = clients)
  BY DEF ProcessInv, ProcessTypeOK, ClientPlace, NoOrphans, LifeTypeOK
<1>1. CASE AddBegins
  <2> USE <1>1 DEF AddBegins
  <2>1. PICK s \in Sessions : Alloc(s)
    OBVIOUS
  <2>2. Existing' = Existing \cup {s} /\ s \notin Existing
    BY <1>0, <2>1 DEF Existing, Alloc
  <2>3. ClientPlace'
    BY <1>0, <2>1 DEF ClientPlace, Alloc, Serving
  <2>4. Existing' \ clients' = {s}
    BY <1>0, <2>2
  <2>5. NoOrphans'
    BY <1>0, <2>2, <2>4 DEF NoOrphans
  <2> QED
    BY <1>0, <2>1, <2>3, <2>5, SessionFrame DEF LifeNext, Serving, Alloc
<1>2. CASE AddGoesOn
  <2> USE <1>2 DEF AddGoesOn, process
  <2>1. PICK s \in Sessions : Setup(s) \/ Identify(s)
    OBVIOUS
  <2>2. Existing' = Existing /\ s \notin clients
    BY <1>0, <2>1 DEF Existing, Setup, Identify
  <2>3. ClientPlace'
    BY <1>0, <2>1, <2>2 DEF ClientPlace, Setup, Identify, Serving
  <2>4. NoOrphans'
    BY <1>0, <2>2 DEF NoOrphans
  <2> QED
    BY <1>0, <2>1, <2>3, <2>4, SessionFrame DEF LifeNext, Serving, Setup, Identify
<1>3. CASE AddLinks
  <2> USE <1>3 DEF AddLinks
  <2>1. PICK s \in Sessions \ clients : session[s] = "open" /\ clients' = clients \cup {s}
    OBVIOUS
  <2>2. Existing' = Existing /\ s \in Existing \ clients
    BY <2>1 DEF Existing, vars, opened
  <2>3. PICK t \in Sessions : Existing \ clients = {t}
    BY <1>0
  <2>4. Existing' = clients'
    BY <1>0, <2>1, <2>2, <2>3
  <2>5. ClientPlace'
    BY <1>0, <2>1 DEF ClientPlace, Serving, vars, opened
  <2>6. NoOrphans'
    BY <2>4 DEF NoOrphans
  <2> QED
    BY <1>0, <2>1, <2>5, <2>6, SessionFrame DEF Serving, vars
<1>4. CASE AddFails
  <2> USE <1>4 DEF AddFails
  <2>1. PICK s \in Sessions : session[s] \in {"setup", "identify"} /\ DestroySession(s)
    OBVIOUS
  <2>2. Existing' = Existing \ {s} /\ s \in Existing \ clients
    BY <1>0, <2>1 DEF Existing, DestroySession
  <2>3. PICK t \in Sessions : Existing \ clients = {t}
    BY <1>0
  <2>4. Existing' = clients'
    BY <1>0, <2>2, <2>3
  <2>5. ClientPlace'
    BY <1>0, <2>1, <2>2 DEF ClientPlace, DestroySession, Serving
  <2>6. NoOrphans'
    BY <2>4 DEF NoOrphans
  <2> QED
    BY <1>0, <2>1, <2>5, <2>6, SessionFrame DEF LifeNext, Serving, DestroySession
<1> QED
  BY <1>1, <1>2, <1>3, <1>4

LEMMA RemoveSteps == ASSUME ProcessInv, Remove \/ Evict PROVE ProcessInv'
<1> USE DEF Remove, Evict
<1>1. PICK s \in Sessions : RemoveClient(s)
  OBVIOUS
<1>2. /\ clients \subseteq Sessions /\ session \in [Sessions -> {"free", "setup", "identify", "open"}]
      /\ \A c \in clients : session[c] = "open"
      /\ Existing = clients
  BY DEF ProcessInv, ProcessTypeOK, ClientPlace, NoOrphans, LifeTypeOK
<1>3. Existing' = Existing \ {s}
  BY <1>1, <1>2 DEF RemoveClient, DestroySession, Existing
<1>4. ClientPlace'
  BY <1>1, <1>2 DEF RemoveClient, DestroySession, ClientPlace, Serving
<1>5. NoOrphans'
  BY <1>1, <1>2, <1>3 DEF RemoveClient, NoOrphans
<1> QED
  BY <1>1, <1>2, <1>4, <1>5, SessionFrame DEF RemoveClient, DestroySession, LifeNext, Serving

-----------------------------------------------------------------------------
LEMMA ProcessInitially == ProcessInit => ProcessInv
<1> SUFFICES ASSUME ProcessInit PROVE ProcessInv
  OBVIOUS
<1>1. LifeInv /\ LifeTypeOK
  BY LifeInitially DEF ProcessInit, LifeInv
<1>2. Existing = {}
  BY DEF ProcessInit, Init, Existing
<1> QED
  BY <1>1, <1>2 DEF ProcessInit, Init, ProcessInv, ProcessTypeOK, ContextPlace, FdPlace, ClientPlace,
         NoOrphans, Unhandled, Serving, Made

LEMMA ProcessSteps == ProcessInv /\ [ProcessNext]_processVars => ProcessInv'
<1> SUFFICES ASSUME ProcessInv, [ProcessNext]_processVars PROVE ProcessInv'
  OBVIOUS
<1>1. CASE UNCHANGED processVars
  <2>1. LifeInv' /\ LifeTypeOK'
    BY <1>1, LifeKept DEF processVars
  <2>2. Existing' = Existing
    BY <1>1 DEF processVars, vars, opened, Existing
  <2> QED
    BY <1>1, <2>1, <2>2 DEF processVars, process, vars, context, opened, ProcessInv, ProcessTypeOK,
           ContextPlace, FdPlace, ClientPlace, NoOrphans
<1> QED
  BY <1>1, StartSteps, PlainSteps, ShutdownStep, ReleaseSteps, AddSteps, RemoveSteps DEF ProcessNext

(* ProcessTypeOK holds throughout main. *)
THEOREM ProcessTyped == ProcessSpec => []ProcessTypeOK
<1>1. ProcessInv => ProcessTypeOK
  BY DEF ProcessInv
<1> QED
  BY <1>1, ProcessInitially, ProcessSteps, PTL DEF ProcessSpec

(* A session is never without its context or its socket, from add_client to     *)
(* the eviction of the last client at shutdown.                                 *)
THEOREM SessionsAlwaysInside == ProcessSpec => []SessionsInside
<1>1. ProcessInv => SessionsInside
  <2> SUFFICES ASSUME ProcessInv, Existing # {}
               PROVE  stage = "made" /\ fds = {"epoll_fd", "sock"}
    BY DEF SessionsInside
  <2>1. pc \in Serving
    BY NoneOutside
  <2> QED
    BY <2>1 DEF ProcessInv, ContextPlace, FdPlace, Made
<1> QED
  BY <1>1, ProcessInitially, ProcessSteps, PTL DEF ProcessSpec

(* Every session but the one add_client is making is in g_clients.              *)
THEOREM NothingOrphaned == ProcessSpec => []NoOrphans
<1>1. ProcessInv => NoOrphans
  BY DEF ProcessInv
<1> QED
  BY <1>1, ProcessInitially, ProcessSteps, PTL DEF ProcessSpec

(* main closes every descriptor and destroys every session on each of its       *)
(* returns; the context and the library stay or go together, and go on the      *)
(* return of 0.                                                                 *)
THEOREM ExitAlwaysClosesAll == ProcessSpec => []ExitClosesAll
<1>1. ProcessInv => ExitClosesAll
  <2> SUFFICES ASSUME ProcessInv, pc = "return"
               PROVE  /\ fds = {} /\ Existing = {}
                      /\ live = {} <=> ~ g_dtls_initialized
                      /\ status = 0 => live = {}
    BY DEF ExitClosesAll
  <2>1. Existing = {}
    BY NoneOutside DEF Serving
  <2>2. fds = {} /\ stage = (IF g_dtls_initialized THEN "made" ELSE "absent")
        /\ (status = 0 => stage = "absent")
    BY DEF ProcessInv, FdPlace, ContextPlace
  <2>3. stage = "absent" => live = {}
    BY DEF ProcessInv, LifeInv, FlagsExact
  <2>4. stage = "made" => "struct" \in live
    BY DEF ProcessInv, LifeInv, FlagsExact, Released
  <2> QED
    BY <2>1, <2>2, <2>3, <2>4
<1> QED
  BY <1>1, ProcessInitially, ProcessSteps, PTL DEF ProcessSpec
=============================================================================
