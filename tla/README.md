# Space Captain: formal models

TLA+ models of the C code under `src/`, the TLC runs that check them and the
TLAPS proofs about them. Line numbers below refer to the sources this project
was written from.

## 1. The system

| Component | State | Operations | Meets the others through |
| --- | --- | --- | --- |
| Generic queue (`generic_queue.c`) | ring `buffer/size/head/tail`, `rwlock`, `cond_mutex`, two condition variables; a thread-local `queue_errno` | `init`, `add`, `try_add`, `pop`, `try_pop`, `is_empty`, `is_full`, `get_size`, `nuke`, `nuke_with_cleanup`, `get_error`, `clear_error` | any number of producer and consumer threads |
| Message queue (`message_queue.c`) | none of its own | the same, forwarded one to one | generic queue |
| Server loop (`server.c`) | `g_running`, the list `g_clients`, each client's `last_activity` and `handshake_complete`, one UDP socket, one edge-triggered epoll instance | `main`'s loop, `find_client`, `add_client`, `remove_client`, `check_client_timeouts`, `handle_shutdown` | DTLS calls; the kernel; signals |
| Server process (`server.c`) | descriptors, signal handlers, the DTLS context, what exists of each session | `main` before and after its loop, `create_udp_socket` | DTLS wrapper; signals |
| DTLS wrapper (`dtls.c`) | the library's flag; a context, its `*_initialized` flags and what they stand for; sessions, their certificate callback | init, cleanup, context and session create and destroy, handshake, read, write, close; the library's receive, send and certificate callbacks | called by the server, and in the client role by the tests; reads the *same* socket the server peeks at; mbedTLS is external |
| Message headers (`message.h`, `message.c`) | none of their own; the server parses and answers in its one packet buffer | wire layout, names of types | server's PING/PONG and echo |
| Client (`client.c`) | none | prints a line | nothing |

The worker pool, the 4 Hz game loop and the partitioning that `docs/` describes
have no code yet. The queue is linked into the server (`Makefile`) but not called
by it: it is the part the worker pool is to be built on.

What is hard here:

- **Queue.** Two locks cover one object: `rwlock` the ring, `cond_mutex` the
  condition variables. A blocked call drops the first before it takes the second,
  so its predicate can be stale when it sleeps. Add to that spurious wake-ups,
  deadlines that restart, waits that fail, several sleepers on one condition, and a
  destructor that unlocks before it destroys.
- **Server.** One thread, but one socket for every client: the loop *peeks* at a
  datagram to choose a session, and the session's DTLS call then receives, by
  itself, from the shared socket, once or several times, dropping what belongs to
  others, waiting in `select` when there is nothing. After the call the loop
  receives once more. Datagrams are lost, duplicated and reordered, system calls
  fail, sessions expire, signals arrive, and memory and addresses are reused. What a
  record leaves inside the library is read later without touching the socket.
- **Time.** Clients are expired between `epoll_wait` and the reading of the socket, every
  few turns, by the time their last datagram was *handled*, while the thread may just have
  spent seconds in `select` for somebody else. A second may end anywhere, between a
  datagram's arrival and the check that comes before it is read, too; an `epoll_wait` that
  fails, as under a signal, is followed by no check at all.
- **Contexts and processes.** Creation has one error label for eight calls that may
  fail, in two roles with different stages; `main` has an early return for
  each of its own; a signal may come anywhere; sessions point into the context and
  send on the socket when they are destroyed.
- **Replies.** One buffer holds datagrams, records and replies in turn; a header of
  16-bit fields in network order is read and rewritten in place.

What makes each part correct: the queue is a linearizable bounded FIFO that never
loses or duplicates an item, never nests its locks, and never leaves a call stuck;
creation undoes exactly what it did; the drain hands out every item once. The
server keeps one live session per address, never uses a freed one, dispatches on a
flag that agrees with the library, does not sleep on an event that will not come
again, keeps clients out of each other's sessions, removes a silent client with the check
that follows a bounded number of `epoll_wait`s after its window, and stops when told to; to
its clients it is a table in which only an address's own datagrams and its silence count. A
context releases exactly what its creation made, and a pinned client talks to the owner of the
pinned certificate only. `main` has closed its descriptors and destroyed every session wherever
it returns; the context and the library go with them after a shutdown and on the first early
returns, and stay on three others (section 5). A reply is the message itself or a
ping's pong. `PROJECT.json` lists the hazards line by line.

## 2. The modules

| Module | Models | Proved about in |
| --- | --- | --- |
| `GenericQueue` | every queue operation, one step per lock, unlock, wait, signal, read or write another thread can observe | `GenericQueueProofs` |
| `AbstractQueue` | what the queue promises: a bounded FIFO whose operations take effect at one instant | (specification only) |
| `QueueRefinement` | the mapping from `GenericQueue` to `AbstractQueue` | `GenericQueueProofs` |
| `GenericQueueLive` | the queue with bounded numbers of calls and spurious wake-ups, and fairness | |
| `QueueTeardown` | `nuke_with_cleanup` as one more thread beside `GenericQueue`'s | `QueueTeardownProofs` |
| `QueueLifecycle` | `init`'s six acquisitions and their error branches, `nuke`, the releases of `nuke_with_cleanup`, either of a NULL queue | `QueueLifecycleProofs` |
| `QueueLifetime` | a queue from `init` over its use to either nuke: the two modules before and `GenericQueue` together | `QueueTeardownProofs` |
| `DtlsSession` | the library's side of a session, as an external component, and the result codes `dtls.c` makes of it | |
| `ServerLoop` | `main`'s loop, the client list, the DTLS calls on the shared socket | `ServerLoopProofs` |
| `ClientTable` | what the server promises its clients: a table of sessions that only their own datagrams, silence and the shutdown change | (specification only) |
| `ServerRefinement` | the mapping from `ServerLoop` to `ClientTable` | `ServerRefinementProofs` |
| `ServerExpiry` | `ServerLoop` against a clock whose seconds end at any point | `ServerExpiryProofs` |
| `ServerLoopLive` | the same with a bounded number of datagrams, and fairness | its safety, in `ServerExpiryProofs` |
| `DtlsLifecycle` | `dtls.c` apart from its I/O: the library's flag, contexts of either role, sessions, the certificate callback | `ServerProcessProofs` |
| `ServerProcess` | `main` from its first call to its return, with the contexts and sessions of `DtlsLifecycle` | `ServerProcessProofs` |
| `MessageDispatch` | the server's packet buffer, the header tests and the replies, on hosts of either byte order | `MessageDispatchProofs` |
| `MC...` | constants for TLC | |

### How state and actions correspond to the code

`GenericQueue`: `buffer, size, head, tail` are the struct's fields; `writer`,
`readers` and `mutex` say who holds `rwlock` and `cond_mutex`; `pc[t]` is the place
of thread `t` in its call and `op, item, result, ret, seen` are the call's
arguments and locals; `queue_errno[t]` is the thread-local code; `free` is not in
the code: it is the set of items in their callers' hands, which is how the model
says that a caller adds an item it owns. `add` is `CallAdd`, `WriteLock`, `Test`,
then either `Store`, `AdvanceTail`, `WriteUnlock`, `SigLock`, `SignalWakes` or
`SignalLost`, `Return`, or `UnlockToWait`, `WaitLock`, `Wait`, a wake-up
(`Timeout`, `SpuriousWake`, another thread's `SignalWakes`), `Rewake`, and
`WaitUnlockRetry` (back to `WriteLock`) or `WaitUnlockFail`. `pop` is its mirror
image and shares all but `Take` and `AdvanceHead`. The `try_` forms leave through
`UnlockToFail`. `CallNull` is every call with a NULL argument. What `*item` holds belongs to
the caller between calls, so the model forgets it at `Return`, and `CallNull`, which for a
NULL queue comes back before `*item` is written, may leave any value there.
`pthread_cond_timedwait` releases the mutex and sleeps in one step, wakes for any
reason, and takes the mutex again before it returns; `pthread_cond_signal` wakes one
waiter of its condition or is lost. Failures of the lock calls, which the code does
not look at, are left out.

`QueueLifecycle`: `stage` is the next statement of `init`, `have` the resources
that exist. The error branches are the record `Unwind`, read off the source. `Nuke` releases all
at once; `FreeBuffer` and `DestroyRest` are the two release steps of `nuke_with_cleanup`
("ending" lies between them), which leave `queue_errno` as it was. `NukeNull` is either nuke of
the NULL a failed `init` returned.

`QueueTeardown`: `npc` is the place of the destroying thread, `cleaned` the items its drain
took, which it hands to `cleanup_fn` or, if that is NULL, drops. `QuietSpec`
lets callers leave first; `SharedSpec` does not. What a thread does to freed memory
is undefined, so the model stops the callers at that point. The nuke is one more holder of
`rwlock`, for which `GenericQueue`'s invariant leaves open who the writer may be.

`QueueLifetime`: one maker calls `init` (`Make`); if it succeeds the threads of `GenericQueue`
use the queue (`InUse`), and when they are through with it the maker calls `nuke` (`EndPlain`,
which leaves what is queued to the caller) or `nuke_with_cleanup` (`EndDrain`, `EndRelease`). Each
release is one step of `QueueTeardown` and of `QueueLifecycle` at once. A queue in use has
`GenericQueue`'s capacity; every other capacity is followed through `init` and its failures only.

`ServerLoop`: `rcv` and `edge` are the socket's queue and epoll's pending edge;
`session` is a function whose domain is the set of allocated `client_session_t`
objects and `g_clients` the list that links them, so that a leak or a dangling link
is a state the model can be in; `client` is the loop's pointer and, as in C, keeps
its value after `remove_client`. `PeekKnown`, `PeekNew` and `PeekNewFails` are the
peek with `find_client` and `add_client`; `ReceiveOwn`, `ReceiveOther`,
`SelectTimeout`, `ReceiveFails`, `SendFlight` and `SendFlightFails` are what the
library does through `udp_recv_timeout`, `udp_recv` and `udp_send` inside one call, a
`recvfrom` that finds nothing after `select` said otherwise included;
`EpollFails` is every `epoll_wait` that returns an error, with its `continue`;
`HandshakeReturned`, `ReadReturned`, `Respond`, `Discard` and `Remove` are the
branches after it. `fresh` records whether the datagram the loop peeked at is
still in the socket. Clock values are kept as differences (`idle`, `since_check`),
exact up to the first value the code's comparisons treat as expired.
`ReadRest` is a read that finds something left in the library. `Respond` stands for the
five identical writes the header dispatch (lines 379-454) ends in; which bytes they
write is the subject of `MessageDispatch`.

`ServerRefinement` maps the loop to `ClientTable`: an address is absent, opening or
established as its session in the list is, its silence is the session's `idle`, and it is
being served while the loop may still use its `client` pointer. A datagram's handling is
one `Open` or `Refresh`, perhaps an `Establish`, then `Drop` or `Done`.

`ServerExpiry` adds to `ServerLoop` what time does to it. `TimedTick` ends a second at any
point. `epoll_wait` is asked to wait 1000 ms, so that one which times out (`EpollReturns`)
has seen a second end; `struck` says whether the current one has. `overdue` is history: how many
`epoll_wait`s with such a second a session has outlived its window by, those that failed not
counted. `Elsewhere(step)` is every other step of the thread. `CheckTimeouts` reads the two
`time(NULL)` of lines 299 and 116 as one instant, the later one's.

`DtlsLifecycle`: `stage` is the next part of `sc_dtls_context_create`, `flags` the
`*_initialized` members that are set, `live` the pieces that have been initialised and not
freed. `Pieces` and `Flags` say what each stage makes and notes, `Covers` what
`sc_dtls_context_destroy` frees for each flag; the three are read off different lines, and
that they fit together is a property. `session[s]` is the next part of
`sc_dtls_session_create`, `checks` the sessions that got `cert_verify_callback`.
`Accepts` is what mbedTLS makes of the mode and the callback; that no authority is
configured, so that every chain comes flagged, is how `dtls.c` uses it. A `ReleasesExactly`
that holds means that the error label frees neither too much nor too little.

`ServerProcess` runs `DtlsLifecycle`'s actions from `main`'s program counter `pc`. Each
`Goto` is one statement that can fail or be interrupted; `Failing` is the way to `return 1`.
`status` is what `main` returns. `Turn`, `AddBegins`, `AddGoesOn`, `AddLinks`, `AddFails` and
`Remove` are what the loop does to sessions; when it does so is `ServerLoop`'s subject, so
here it may do so at any time. `HandleShutdown` may come at any point after `sigaction`;
before it, and where `main` gives up because it could not set both handlers, a signal ends
the process (`Killed`). After a failed `epoll_create1`, `create_udp_socket` or `epoll_ctl`
the code returns with its context still there. `ExitClosesAll` says what holds wherever `main`
returns, these three places included: descriptors closed, sessions destroyed, context and library
kept or released together, and both released if the server was told to stop.
`ExitReleasesAll` is what the repository asks for, and is violated.

`MessageDispatch`: the buffer is cut where the code tells bytes apart; a message is a
sequence of such cells and may end anywhere. `Peek` puts ciphertext over any part of the
buffer, `Read` a record over its start, and `Handle` tests the header in place and writes.
`Load` and `Store` are the host's 16-bit accesses in its own byte order, `ntohs` and
`htons` the conversions between them and the wire. `WirePing` and `Answer`, the reference
for the replies, are stated on wire bytes and use none of these.

mbedTLS is not vendored. `DtlsSession` takes from it what `dtls.c` relies on: a
server waits for a ClientHello, answers one without a cookie with an error, sends
its flight for one with a cookie, waits for the client's last flight, sends its own
and is done; after that a record is data or a close. Any record may also be dropped
silently (replays, bad MACs, old epochs) or be fatal. Because the model lets every
kind of datagram arrive from every address at any time, loss, duplication,
reordering and misbehaving clients need no actions of their own. In the phase
"rest" the library holds something it has received and not yet handed over, the
second part of a record longer than the reader's buffer or the second record of a
datagram: the next read returns that, without a look at the socket.

Operators marked `Fault:` are seeded bugs, at least one of which breaks each checked property. No
specification uses them; put in the place of the definition that follows them, TLC
must find the property violated (`mutants` in `PROJECT.json`).

## 3. The runs

| Run | Instance | Shows |
| --- | --- | --- |
| `queue_ops` | 1 producer and 1 consumer with all operations of each, 1 thread that observes and pops; capacity 2; 3 items | the ring, locks, items and codes stay right (`TypeOK`, `LocksOK`, `RingOK`, `ItemsConserved`, `ErrnoOK`), a thread that waits for a lock waits for one that can go on (`NoDeadlock`), only a lone writer changes the ring (`WritersOnly`), and the whole is an atomic FIFO queue (`Linearizable`), also with two sleepers on one condition and wake-ups that are beaten |
| `queue_live` | 1 producer, 1 blocking and 1 polling consumer; capacity 1; 2 calls each, 1 spurious wake-up | every call returns (`EveryCallReturns`) |
| `queue_lifetime` | `SIZE_MAX` 63, pointers of 4 bytes, every capacity for `init`; capacity 2, 2 callers and 3 items in use; either nuke | exact release whichever call fails and whichever nuke ends the queue (`UnwindExact`), no overflow (`BufferFits`), every queued item taken from the ring once, in order and nobody else's (`NothingLeft`, `CleanedOnce`, `DrainInOrder`) |
| `server_loop` | 2 addresses, 3 places for a session, 2 datagrams in the socket, timeout after the first second, a check every other second | `ListOK`, `NoUseAfterFree`, `PhaseAgrees`, `Drained`, `Isolation`, and that a silent client is removed by the check after the second `epoll_wait` it has outlived its window by (`ExpiresInTime`) |
| `server_live` | 2 addresses, 1 datagram in the socket and 3 in all, a check every second | the table of clients is kept (`KeepsTable`), silent clients expire and a signal stops the server (`SilentClientExpires`, `ShutdownCompletes`) |
| `dtls_lifecycle` | contexts of both roles with every argument and failure, 2 sessions, 2 certificates, chains of up to 3 | exact release (`ReleasesExactly`), the pin decides alone (`PinDecides`) |
| `server_process` | 3 sessions, every failure and signal | sessions live within context and socket (`SessionsInside`), none is orphaned (`NoOrphans`), what is closed and released wherever `main` returns (`ExitClosesAll`; three returns keep the context and the library, see `server_exit`) |
| `message_dispatch` | 72 headers with values on both sides of each test, cut at every cell, both byte orders | a reply is the message or its pong (`RepliesInKind`) |
| `queue_lost_wakeup`, `queue_teardown_shared`, `server_consume`, `server_exit` | small | violations, see section 5 |

*Why the bounds are enough.* A capacity of 2 has rings that are empty, partly
filled, full and wrapped, and three items make a slot be used again while another
is still queued; a capacity of 1 makes every add and pop collide. Two producers never
sleep at once in these bounds; `add` mirrors `pop`, and the queue's theorems remove the
bounds altogether. In the server, two addresses are what it takes for one
client's datagram to meet another's call; the two-datagram socket holds one behind the
one peeked at, and more arrive while the first is being handled; three places for two
sessions let memory be reused and would let a duplicate session appear; a timeout of one
second lets a session expire between any two steps; a check every other second makes
`epoll_wait` return between checks, with and without an event. For liveness, one datagram
at a time in the socket still arrives before, during and after every wait; three
in all are enough for a client to open, establish and refresh its session, or for two
to meet in one drain. Removed and returning clients with more datagrams are left to
`server_loop` and, for `KeepsTable`, to its theorem. In `queue_lifetime` the capacities that `init`
refuses lie on both sides of `SC_GENERIC_QUEUE_MAX_CAPACITY` and of `SIZE_MAX / sizeof(void *)`.
Three sessions let one be made, one listed and one
free at once. Chains of three certificates have a leaf, a root and
something between; no property of `server_process` looks at one. Items, addresses and pointers
are interchangeable, which the safety runs use as symmetry; no run
of a liveness property uses symmetry. `CHECK_DEADLOCK FALSE` is set where the
program ends: after `init` has failed or the queue is destroyed, when
all calls of `queue_live` are made, after the server has stopped, after `main` has
returned or was killed. The other runs check deadlock.

*Fairness.* `GenericQueueLive` has weak fairness for each thread's own steps
(the scheduler) and for each thread's deadline (the clock passes it). No order
among waiters for a lock is assumed. Nothing in the code bounds how often a waiter can
be woken and beaten, since each wait starts a new deadline, so the claim is for callers
that make a bounded number of calls. `ServerLoopLive` has weak fairness for the
thread's steps in which no system call fails: while such a step stays possible the kernel takes
it in the end, and `select` has a timeout. It has strong fairness for the end of a second and
for `epoll_wait`'s return: a failing `epoll_wait`, which sends the loop round without a check,
disables both over and over, so weak fairness would let it fail for ever. What is assumed is that
a thread that keeps calling `epoll_wait` sees seconds end there, and at times an answer.
Arrivals are bounded, since under an endless flood the drain loop never returns
to the test of `g_running`; a signal is never assumed.

*Time.* Seconds end anywhere, also between two instructions of the thread. `ExpiresInTime`
counts `epoll_wait`s, which take a second or more each when they time out, up to the
`CheckPeriod`-th since the window ended; with events in between, those in which a second
ended. Not counted, and not bounded by the code, are the seconds of a drain, of a `select` for
another client in it, and of an `epoll_wait` that fails, as under a signal: none of these is
followed by a check. There is no property that a client is not removed too early, because none
holds: `time(NULL)` is read after `epoll_wait` and before the socket, and one second that ends
between a datagram's arrival and that point removes the client whose timely datagram is
still unread.

## 4. The proofs

All proofs are checked by TLAPS with SMT, Zenon and, for temporal steps, LS4. They
hold for every value of the constants that satisfies the named assumptions.

`GenericQueueProofs` (assumes a positive capacity, NULL distinct from items and
threads, and programs made of the queue's operations). None of the properties is
inductive alone. `IInv` adds to `LocksOK`, `RingOK`, `ErrnoOK` and `DataOK` (`TypeOK` but
for the writer) what each program point says of its thread's locals (`LocalsOK`) and what
the write lock makes stable between the test and the unlock (`CriticalOK`): a thread that is
about to transfer still has room or an item, and a thread that is about to move `tail` or
`head` has stored or read just that slot. It does not say that the writer is one of the
threads; `WriterMoves` does, for the steps of the threads, so that `IInv` also holds beside a
nuke. Each conjunct is preserved in a lemma of its own (`DataStep`, `LocksStep`, `LocalsStep`,
`CriticalStep`, `RingStep`, `ErrnoStep`), with the arithmetic of the wrapped index isolated in
`Wrap`, `SlotsApart`, `NextSlot`, `FirstSlot` and its effects on the queue in `StoreEffect`,
`TailEffect`, `HeadEffect`. Theorems:

- `TypeCorrect`, `LocksCorrect`, `RingCorrect`, `ErrnoCorrect`, `OnlyWritersWrite`.
- `NoItemLostOrShared`. `Conserved(S)`, that the items in `S` and no others are here with one
  owner each, is preserved for any `S` (`ConservedStep`, one lemma for each kind of step).
- `NeverDeadlocked`. `Ready` repeats the guards of the five steps that take a lock; that
  nothing else holds a call up is not in the theorem but in `queue_live`, where a label without
  a way on would violate `EveryCallReturns`. The proof is that a holder is at a label that waits
  for nothing (`HolderIsReady`).
- `QueueIsLinearizable`, that is `Spec => Abstract!Spec`. A transfer takes effect when `size`
  changes, a status function when it reads `size`, a failure when its code is set; every other
  step is a stutter of `AbstractQueue`.

`QueueLifecycleProofs`: `LifecycleTyped`, `UnwindIsExact` and `BufferAlwaysFits`,
for every `SIZE_MAX` and pointer size, every failure of `init` and both nukes; the last from the
lemma that a capacity not above `SIZE_MAX / sizeof(void *) / 2` fits, and the invariant that the
capacity was tested before anything was acquired.

`ServerLoopProofs` (assumes a positive socket buffer and check period; the sets of
addresses and pointers are arbitrary). `ServerTyped`, `ListIsExact`, `ClientAlive`,
`PhasesAgree`, `NeverStranded` and, as a property of steps, `SessionsIsolated`. The
conjunction of the five invariants is almost inductive. `CallAgrees` is added because
`PhaseAgrees` across a step inside a call needs to know that the handshake is the call of
an unfinished session and the read that of a finished one, and `DrainedAtCheck`
because `Drained` must survive the clock check between `epoll_wait` and the next test of
the loop. The steps are split in four groups by what they do to the table:
`DtlsEffect` (steps inside a call), `QuietTable` (steps that only refresh or remove),
`AddEffect` and `NotedEffect`; one lemma for each conjunct follows from these.
The proof uses of mbedTLS only what `DtlsSession` says of it, and from that only
`ReceivingPhases`: receiving never finishes a handshake, sending the last flight does.

`ServerRefinementProofs`: `ServerKeepsTable`, that is `Spec => Table!Spec`. The mapping
picks an address's session with CHOOSE; `ListOK` makes it unique, and `RInv` is `IInv`
with `ToldToStop`, that the loop is left only after a signal, without which `Close` would not
be a step of the table. There is one lemma for each kind of change to the list
(one session refreshed, one added, some removed), and one step for each action of the loop.

`ServerExpiryProofs`, for any number of clients and datagrams, any window and check period:
`AlwaysExpiresInTime`. `TimedInv` is `IInv` with two parts. `StruckOK`: a second is on record only
while the thread is in `epoll_wait`. `OverdueOK`: a session has outlived its window by no more
counted `epoll_wait`s than there were seconds since the last check, and by fewer than the check
period unless the check is next. That relation is what makes the bound hold when
other clients' events keep `epoll_wait` from ever timing out: each counted wait has moved the
clock the check looks at. `TimedLoopIsLoop`, `LiveIsTimed` and `LiveServerIsSafe` take this and
`KeepsTable` to the process whose liveness is checked: the clock, the bound on datagrams and
fairness only restrict the loop.

`QueueTeardownProofs`. The theorems about callers that go on come first (`SharedSpec`):
`CleanupOwnsItsItems`, `DrainKeepsOrder` and `NukeDisturbsNothing`. `SharedInv` is the queue's
`IInv` with the writer known (`LockHeld`: the nuke, exactly while it drains) and `Accounted`,
which is `Conserved(Items \ Cleaned)`: what the drain took is nobody's any more, and everything
else has one owner. A caller's step preserves it by the lemmas of
`GenericQueueProofs`; the drain by `DrainEffect`, the arithmetic of one turn, `DrainConserves`
and `DrainIInv`. So up to the moment of the free a nuke of a queue in use does
no harm. `CleanedOnce` stops there: a slot of a freed ring owns nothing, and an item that a
caller adds between the nuke's unlock and the free is lost with it; `queue_teardown_shared` shows a
caller on its way into that ring. `QuietIsShared` makes
callers that leave first a special case; for these `QuietInv` (once the nuke has begun nobody is
in a call, and once it has unlocked nothing is queued) gives `TeardownLeavesNothing`: nobody is in
a call of any kind, and the items that are not their callers' are those the drain took.
`LifetimeIsBoth` splits a whole life into `QuietSpec` and `LifeSpec`, so that all of this holds from
`init` to either nuke (`EveryLifeEndsWell`).

`ServerProcessProofs`, for any sessions and certificates. `LifeInv` is `LifeTypeOK` with
`FlagsExact` (the flags stand for what exists), `ModeAgrees` (a pin, the verification mode and
the arguments fit together in a finished context) and `SessionsAgree` (a session exists only
with its context, and has the callback exactly if it was pinned): `LifeTyped`,
`ReleaseIsExact`, `PinAlwaysDecides`. `ProcessInv` adds where in `main` the context, the
descriptors and clients can exist (`ContextPlace`, `FdPlace`, `ClientPlace`):
`ProcessTyped`, `SessionsAlwaysInside`, `NothingOrphaned`, `ExitAlwaysClosesAll`. Each step of
`main` is a step of `DtlsLifecycle` or leaves it alone (`StepsAreCalls`); that lemma brings
`LifeInv` into the process.

`MessageDispatchProofs`, for any set of messages and either byte order: `DispatchTyped` and
`AlwaysRepliesInKind`. `LoadedIsWire` and `StoredIsWire` say that a converted 16-bit field is
its two wire bytes, on both hosts; `DispatchInv` keeps that the record is at the start of the
buffer when it is handled, from which `PingSeen`: the tests in the code recognise exactly
the wire's pings.

Only model-checked: liveness (`EveryCallReturns`, `SilentClientExpires`,
`ShutdownCompletes`), since fairness and ENABLED are beyond the prover. Every safety property of
a passing run is a theorem.

## 5. Where the code and its words differ

- **A wake-up can be lost** (`queue_lost_wakeup`). The comment of `pop` promises a
  timeout "if the queue remains empty" (`generic_queue.c:305`, `:249` for `add`). The run
  ends with a consumer that times out while an item has been queued during its whole
  wait: the add fell between the consumer's unlock of `rwlock` and its lock of
  `cond_mutex`, its signal found nobody, and after the timeout `size` is not read again.
- **The nuke does not keep operations out** (`queue_teardown_shared`). "Lock the queue to
  prevent any new operations" (`:217`); the lock is released at `:233`, before the buffer
  is freed, and whoever waited for it enters.
- **The wrong datagram is consumed** (`server_consume`). "Consume the packet that
  triggered handshake completion" (`server.c:351`): the DTLS call has already received
  it, so the `recvfrom` at `:352` removes the next one in the socket, unread, when there is
  one. The same call is made after every other handshake step and after a read that
  would block.
- **Three early returns keep the context** (`server_exit`). "Cleanup DTLS library (call once at
  shutdown)" (`dtls.h:35`) and "no leaks allowed" (`PROMPT.md:174`), but the returns at
  `server.c:251`, `:258` and `:271` release neither the context nor the library, as the returns
  before them do.

Two more differences are visible in the models without a run of their own:

- the DTLS calls are "(non-blocking)" (`dtls.h:66`, `:70`), "never blocks on network
  operations" (`docs/main-loop.md:23`), but they receive through `udp_recv_timeout`, which
  waits in `select` (`SelectTimeout`);
- a client is disconnected "if no valid DTLS records are received within a 30-second
  window" (`docs/prd/version-0.1.0.md:147`), but `last_activity` is refreshed by any datagram
  with its address, before the library has looked at it (`PeekKnown`, `server.c:338`).

## 6. What is not modelled, and why

- The client's side of a handshake and of reads: `client.c` has none; `tests/test_server.c`
  calls the wrapper in that role. Its lifecycle and certificate check are in `DtlsLifecycle`;
  its handshake is mbedTLS's and the network's.
- Which certificate files `main` chooses (`server.c:201-216`): data that decides only
  whether `sc_dtls_context_create` succeeds, and both outcomes are modelled.
- Failures of pthread lock calls, which the queue does not look at.
- Accessors, error strings, the debug callback, log lines and the table of message names:
  formatting without state.
- The worker pool, the game loop and partitioning of `docs/`: no code.
- `client.c`, packaging, infrastructure and scripts: no state.
- How the retransmission timer picks the length of a `select`: it may take any number of seconds,
  none included, and time out after any of them; that is what is modelled instead.
