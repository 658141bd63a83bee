---------------------------- MODULE ServerProcess ----------------------------
(***************************************************************************)
(* The life of the server process around ServerLoop: main from sc_dtls_init *)
(* to its return, every early return on the way included, with the context *)
(* and the sessions of DtlsLifecycle.  What the loop does with a session   *)
(* is ServerLoop's subject; here clients only come and go.                 *)
(***************************************************************************)
EXTENDS DtlsLifecycle

VARIABLES
    pc,         \* what main does next
    fds,        \* the descriptors that are open
    g_running,
    clients,    \* the sessions in g_clients
    status      \* what main returns

process     == <<pc, fds, g_running, clients, status>>
processVars == <<vars, process>>

\* main gives paths in any case, and no pin.
ServerArgs == [role |-> "server", paths |-> TRUE, pin |-> NoPin]

ProcessInit ==
    /\ Init /\ args = ServerArgs
    /\ pc = "init" /\ fds = {} /\ g_running = TRUE /\ clients = {} /\ status = 0

Goto(from, to) == pc = from /\ pc' = to

\* Fault: the -1 of the functions main calls.
FailingRaw(from, to) == Goto(from, to) /\ status' = -1

\* return 1 is on the way, or already executed.
Failing(from, to) == Goto(from, to) /\ status' = 1

InitLibrary ==
    /\ Goto("init", "context") /\ LibraryInit
    /\ UNCHANGED <<fds, g_running, clients, status>>

CreateContext ==
    /\ Goto("context", "build") /\ Create(ServerArgs)
    /\ UNCHANGED <<fds, g_running, clients, status>>

\* The calloc in sc_dtls_context_create fails.
CreateRefused ==
    /\ Failing("context", "cleanup")
    /\ UNCHANGED <<vars, fds, g_running, clients>>

BuildContext ==
    /\ pc = "build"
    /\ (\E st \in Stages : Build(st) \/ BuildFails(st)) \/ Pin
    /\ pc' = IF stage' = "made" THEN "sigaction" ELSE "build"
    /\ UNCHANGED <<fds, g_running, clients, status>>

CreateFails ==
    /\ Failing("build", "cleanup") /\ stage = "error" /\ Destroy
    /\ UNCHANGED <<fds, g_running, clients>>

SetHandlers ==
    /\ \/ Goto("sigaction", "epoll") /\ UNCHANGED status
       \/ Failing("sigaction", "destroy")
    /\ UNCHANGED <<vars, fds, g_running, clients>>

-----------------------------------------------------------------------------
(* The descriptors *)

EpollCreate ==
    /\ \/ Goto("epoll", "socket") /\ fds' = {"epoll_fd"} /\ UNCHANGED status
       \/ Failing("epoll", "return") /\ UNCHANGED fds
    /\ UNCHANGED <<vars, g_running, clients>>

\* create_udp_socket begins.
Socket ==
    /\ \/ Goto("socket", "bind") /\ fds' = fds \cup {"sock"} /\ UNCHANGED status
       \/ Failing("socket", "no_socket") /\ UNCHANGED fds
    /\ UNCHANGED <<vars, g_running, clients>>

\* Its other calls: SO_REUSEADDR, inet_pton, bind and set_nonblocking may each
\* fail, and close the socket; a failure to set a buffer's size is ignored.
Bind ==
    /\ \/ Goto("bind", "epoll_ctl") /\ UNCHANGED <<fds, status>>
       \/ Failing("bind", "no_socket") /\ fds' = fds \ {"sock"}
    /\ UNCHANGED <<vars, g_running, clients>>

NoSocket ==
    /\ Goto("no_socket", "return") /\ fds' = fds \ {"epoll_fd"}
    /\ UNCHANGED <<vars, g_running, clients, status>>

\* Fault: a failure closes the socket alone.
EpollAddForgets ==
    /\ \/ Goto("epoll_ctl", "loop") /\ UNCHANGED <<fds, status>>
       \/ Failing("epoll_ctl", "return") /\ fds' = fds \ {"sock"}
    /\ UNCHANGED <<vars, g_running, clients>>

EpollAdd ==
    /\ \/ Goto("epoll_ctl", "loop") /\ UNCHANGED <<fds, status>>
       \/ Failing("epoll_ctl", "return") /\ fds' = fds \ {"sock", "epoll_fd"}
    /\ UNCHANGED <<vars, g_running, clients>>

-----------------------------------------------------------------------------
(* The loop *)

\* Fault: the clients are left to the end of the process.
LoopTestHurries ==
    /\ Goto("loop", IF g_running THEN "serve" ELSE "close")
    /\ UNCHANGED <<vars, fds, g_running, clients, status>>

LoopTest ==
    /\ Goto("loop", IF g_running THEN "serve" ELSE "evict")
    /\ UNCHANGED <<vars, fds, g_running, clients, status>>

Turn ==
    /\ Goto("serve", "loop")
    /\ UNCHANGED <<vars, fds, g_running, clients, status>>

\* add_client; sc_dtls_session_create is under way until the list is changed.
AddBegins ==
    /\ Goto("serve", "add") /\ \E s \in Sessions : Alloc(s)
    /\ UNCHANGED <<fds, g_running, clients, status>>

AddGoesOn ==
    /\ pc = "add"
    /\ \E s \in Sessions : Setup(s) \/ Identify(s)
    /\ UNCHANGED process

AddLinks ==
    /\ Goto("add", "serve")
    /\ \E s \in Sessions \ clients : session[s] = "open" /\ clients' = clients \cup {s}
    /\ UNCHANGED <<vars, fds, g_running, status>>

\* Fault: the exits of sc_dtls_session_create forget the session.
AddFailsLeaking ==
    /\ Goto("add", "serve")
    /\ \E s \in Sessions : session[s] \in {"setup", "identify"}
    /\ UNCHANGED <<vars, fds, g_running, clients, status>>

AddFails ==
    /\ Goto("add", "serve")
    /\ \E s \in Sessions : session[s] \in {"setup", "identify"} /\ DestroySession(s)
    /\ UNCHANGED <<fds, g_running, clients, status>>

\* remove_client: close_notify goes out on the socket, then the session is freed.
RemoveClient(s) ==
    /\ s \in clients /\ clients' = clients \ {s}
    /\ DestroySession(s)

Remove ==
    /\ pc = "serve" /\ \E s \in Sessions : RemoveClient(s)
    /\ UNCHANGED <<pc, fds, g_running, status>>

-----------------------------------------------------------------------------
(* The end *)

Evict ==
    /\ pc = "evict" /\ \E s \in Sessions : RemoveClient(s)
    /\ UNCHANGED <<pc, fds, g_running, status>>

Evicted ==
    /\ Goto("evict", "close") /\ clients = {}
    /\ UNCHANGED <<vars, fds, g_running, clients, status>>

Close ==
    /\ Goto("close", "destroy") /\ fds' = {}
    /\ UNCHANGED <<vars, g_running, clients, status>>

DestroyContext ==
    /\ Goto("destroy", "cleanup") /\ Destroy
    /\ UNCHANGED <<fds, g_running, clients, status>>

Cleanup ==
    /\ Goto("cleanup", "return") /\ LibraryCleanup
    /\ UNCHANGED <<fds, g_running, clients, status>>

\* A signal that finds no handler ends the process at once; where main gives up
\* because it could not set both, either may be missing.
Unhandled == {"init", "context", "build", "sigaction"}
GivenUp   == status = 1 /\ pc \in {"destroy", "cleanup"}

Killed ==
    /\ pc \in Unhandled \/ GivenUp
    /\ pc' = "killed"
    /\ UNCHANGED <<vars, fds, g_running, clients, status>>

HandleShutdown ==
    /\ pc \notin Unhandled \cup {"return", "killed"}
    /\ g_running' = FALSE
    /\ UNCHANGED <<vars, pc, fds, clients, status>>

ProcessNext ==
    \/ InitLibrary \/ CreateContext \/ CreateRefused \/ BuildContext \/ CreateFails
    \/ SetHandlers \/ EpollCreate \/ Socket \/ Bind \/ NoSocket \/ EpollAdd
    \/ LoopTest \/ Turn \/ AddBegins \/ AddGoesOn \/ AddLinks \/ AddFails \/ Remove
    \/ Evict \/ Evicted \/ Close \/ DestroyContext \/ Cleanup
    \/ Killed \/ HandleShutdown

ProcessSpec == ProcessInit /\ [][ProcessNext]_processVars

-----------------------------------------------------------------------------
ProcessTypeOK ==
    /\ LifeTypeOK
    /\ pc \in Unhandled \cup {"epoll", "socket", "bind", "no_socket", "epoll_ctl", "loop",
                "serve", "add", "evict", "close", "destroy", "cleanup", "return", "killed"}
    /\ fds \subseteq {"epoll_fd", "sock"}
    /\ g_running \in BOOLEAN
    /\ clients \subseteq Sessions
    /\ status \in {0, 1}

Existing == {s \in Sessions : session[s] # "free"}

\* SessionsInside: a session lives within its context and its socket: the
\* context it points into is still there, and so is the descriptor its
\* close_notify goes out on, when it is destroyed at the very end, too.
SessionsInside ==
    Existing # {} => stage = "made" /\ fds = {"epoll_fd", "sock"}

\* NoOrphans: but for the one that add_client is making, the sessions that
\* exist are those in g_clients, so that remove_client reaches each of them.
NoOrphans ==
    /\ clients \subseteq Existing
    /\ pc # "add" => Existing = clients
    /\ pc = "add" => \E s \in Sessions : Existing \ clients = {s}

\* ExitClosesAll: wherever main returns, from inside create_udp_socket or after
\* the last client's eviction, every descriptor is closed and every session
\* destroyed, and the context and the library stay or go together: neither is the
\* library cleaned up under a context that lives nor left without one.  A server
\* that was told to stop has released both.
ExitClosesAll == pc = "return" =>
    /\ fds = {} /\ Existing = {}
    /\ live = {} <=> ~ g_dtls_initialized
    /\ status = 0 => live = {}

\* ExitReleasesAll: "no leaks allowed" (PROMPT.md) and sc_dtls_cleanup is called
\* "once at shutdown" (dtls.h): wherever main returns, nothing it made is left.
ExitReleasesAll == pc = "return" =>
    fds = {} /\ Existing = {} /\ live = {} /\ ~ g_dtls_initialized
=============================================================================
