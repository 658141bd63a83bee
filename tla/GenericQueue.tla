---------------------------- MODULE GenericQueue ----------------------------
(***************************************************************************)
(* The bounded multi-producer multi-consumer queue of generic_queue.c, one *)
(* step for each statement another thread can tell from its neighbours.    *)
(*                                                                         *)
(* Two locks protect it: rwlock covers the ring (buffer, size, head, tail) *)
(* and cond_mutex covers the two condition variables.  A blocked operation *)
(* drops rwlock BEFORE it takes cond_mutex and waits, so the predicate it  *)
(* tested may be stale when it goes to sleep.                              *)
(*                                                                         *)
(* sc_message_queue_* (message_queue.c) forwards each call unchanged, so   *)
(* the model is that of the message queue as well.                         *)
(***************************************************************************)
EXTENDS Integers, FiniteSets

CONSTANTS
    Threads,   \* the threads that share the queue
    Items,     \* the pointers callers put into the queue
    Capacity,  \* q->capacity
    NULL,      \* the null pointer; also "no thread" for the two locks
    Program    \* Program[t]: the operations thread t's code calls

Adds     == {"add", "try_add"}
Pops     == {"pop", "try_pop"}
Blocking == {"add", "pop"}
Status   == {"is_empty", "is_full", "get_size"}
Ops      == Adds \cup Pops \cup Status

ASSUME CapacityAssumption == Capacity \in Nat \ {0}
ASSUME NullAssumption     == NULL \notin Items /\ NULL \notin Threads
ASSUME ProgramAssumption  == Program \in [Threads -> SUBSET Ops]

Errors == {"ERR_NULL", "ERR_TIMEOUT", "ERR_THREAD", "ERR_FULL", "ERR_EMPTY"}
Codes  == {"SUCCESS"} \cup Errors

VARIABLES
    buffer, size, head, tail,  \* the ring of sc_generic_queue_t
    writer, readers,           \* holders of q->rwlock
    mutex,                     \* holder of q->cond_mutex
    pc,                        \* where each thread is in its call
    op,                        \* the operation it is executing
    item,                      \* during a call: argument of an add, *item of a pop
    result,                    \* what pthread_cond_timedwait returned
    ret,                       \* the code being returned, "none" before that
    seen,                      \* the value a status function returns
    queue_errno,               \* the thread-local error code
    free                       \* the items that are in their callers' hands

ring  == <<buffer, size, head, tail>>
locks == <<writer, readers, mutex>>
local == <<op, item, result, ret, seen, queue_errno>>
vars  == <<ring, locks, pc, local, free>>

Slots == 0 .. Capacity - 1

\* The labels of pc, in the order of the source lines of add and pop.
WritePC == {"test", "giveup", "transfer", "advance", "unlock"}  \* rwlock written
ReadPC  == {"read", "rdunlock"}                                 \* rwlock read
MutexPC == {"wait", "wait_unlock", "signal"}                    \* cond_mutex held
FreePC  == {"idle", "wrlock", "rdlock", "wait_lock", "waiting",
            "rewake", "sig_lock", "return"}                     \* no lock held
PCs     == WritePC \cup ReadPC \cup MutexPC \cup FreePC

Init ==
    /\ buffer = [s \in Slots |-> NULL]
    /\ size = 0 /\ head = 0 /\ tail = 0
    /\ writer = NULL /\ readers = {} /\ mutex = NULL
    /\ pc = [t \in Threads |-> "idle"]
    /\ op = [t \in Threads |-> "none"]
    /\ item = [t \in Threads |-> NULL]
    /\ result = [t \in Threads |-> "none"]
    /\ ret = [t \in Threads |-> "none"]
    /\ seen = [t \in Threads |-> 0]
    /\ queue_errno = [t \in Threads |-> "SUCCESS"]
    /\ free = Items

Goto(t, from, to) == pc[t] = from /\ pc' = [pc EXCEPT ![t] = to]

-----------------------------------------------------------------------------
(* Entry of a call: the parameter checks and the reset of queue_errno. *)

\* add and try_add with an item the caller owns; the call takes it over.
CallAdd(t, o, i) ==
    /\ o \in Program[t] \cap Adds /\ i \in free
    /\ Goto(t, "idle", "wrlock")
    /\ op' = [op EXCEPT ![t] = o]
    /\ item' = [item EXCEPT ![t] = i]
    /\ queue_errno' = [queue_errno EXCEPT ![t] = "SUCCESS"]
    /\ free' = free \ {i}
    /\ UNCHANGED <<ring, locks, result, ret, seen>>

\* pop and try_pop; *item is set to NULL before anything else.
CallPop(t, o) ==
    /\ o \in Program[t] \cap Pops
    /\ Goto(t, "idle", "wrlock")
    /\ op' = [op EXCEPT ![t] = o]
    /\ item' = [item EXCEPT ![t] = NULL]
    /\ queue_errno' = [queue_errno EXCEPT ![t] = "SUCCESS"]
    /\ UNCHANGED <<ring, locks, result, ret, seen, free>>

CallStatus(t, o) ==
    /\ o \in Program[t] \cap Status
    /\ Goto(t, "idle", "rdlock")
    /\ op' = [op EXCEPT ![t] = o]
    /\ queue_errno' = [queue_errno EXCEPT ![t] = "SUCCESS"]
    /\ UNCHANGED <<ring, locks, item, result, ret, seen, free>>

\* Any operation given a NULL queue (or a NULL item): it touches nothing else,
\* so the caller finds in a pop's *item whatever it left there before the call.
CallNull(t, o) ==
    /\ o \in Program[t]
    /\ Goto(t, "idle", "return")
    /\ op' = [op EXCEPT ![t] = o]
    /\ \E old \in IF o \in Pops THEN Items \cup {NULL} ELSE {NULL} :
         item' = [item EXCEPT ![t] = old]
    /\ ret' = [ret EXCEPT ![t] = "ERR_NULL"]
    /\ queue_errno' = [queue_errno EXCEPT ![t] = "ERR_NULL"]
    /\ UNCHANGED <<ring, locks, result, seen, free>>

-----------------------------------------------------------------------------
(* The critical section of add, try_add, pop and try_pop. *)

\* Fault: add tests for one item too many.
BlockedLate(t) == IF op[t] \in Adds THEN size > Capacity ELSE size = 0

Blocked(t) == IF op[t] \in Adds THEN size = Capacity ELSE size = 0

\* Fault: the write lock does not wait for readers.
WriteLockPastReaders(t) ==
    /\ writer = NULL
    /\ Goto(t, "wrlock", "test")
    /\ writer' = t
    /\ UNCHANGED <<ring, readers, mutex, local, free>>

WriteLock(t) ==
    /\ writer = NULL /\ readers = {}
    /\ Goto(t, "wrlock", "test")
    /\ writer' = t
    /\ UNCHANGED <<ring, readers, mutex, local, free>>

Test(t) ==
    /\ Goto(t, "test", IF Blocked(t) THEN "giveup" ELSE "transfer")
    /\ UNCHANGED <<ring, locks, local, free>>

\* add and pop release rwlock to wait.
UnlockToWait(t) ==
    /\ op[t] \in Blocking
    /\ Goto(t, "giveup", "wait_lock")
    /\ writer' = NULL
    /\ UNCHANGED <<ring, readers, mutex, local, free>>

\* Fault: the error is returned but not recorded.
UnlockToFailSilent(t) ==
    /\ op[t] \notin Blocking
    /\ Goto(t, "giveup", "return")
    /\ writer' = NULL
    /\ ret' = [ret EXCEPT ![t] = IF op[t] = "try_add" THEN "ERR_FULL" ELSE "ERR_EMPTY"]
    /\ UNCHANGED <<ring, readers, mutex, op, item, result, seen, queue_errno, free>>

\* try_add and try_pop release rwlock and fail.
UnlockToFail(t) ==
    LET code == IF op[t] = "try_add" THEN "ERR_FULL" ELSE "ERR_EMPTY" IN
    /\ op[t] \notin Blocking
    /\ Goto(t, "giveup", "return")
    /\ writer' = NULL
    /\ ret' = [ret EXCEPT ![t] = code]
    /\ queue_errno' = [queue_errno EXCEPT ![t] = code]
    /\ UNCHANGED <<ring, readers, mutex, op, item, result, seen, free>>

Store(t) ==
    /\ op[t] \in Adds
    /\ Goto(t, "transfer", "advance")
    /\ buffer' = [buffer EXCEPT ![tail] = item[t]]
    /\ UNCHANGED <<size, head, tail, locks, local, free>>

Take(t) ==
    /\ op[t] \in Pops
    /\ Goto(t, "transfer", "advance")
    /\ item' = [item EXCEPT ![t] = buffer[head]]
    /\ UNCHANGED <<ring, locks, op, result, ret, seen, queue_errno, free>>

\* Fault: tail does not wrap.
AdvanceTailNoWrap(t) ==
    /\ op[t] \in Adds
    /\ Goto(t, "advance", "unlock")
    /\ tail' = tail + 1
    /\ size' = size + 1
    /\ UNCHANGED <<buffer, head, locks, local, free>>

AdvanceTail(t) ==
    /\ op[t] \in Adds
    /\ Goto(t, "advance", "unlock")
    /\ tail' = (tail + 1) % Capacity
    /\ size' = size + 1
    /\ UNCHANGED <<buffer, head, locks, local, free>>

\* Fault: size is not decremented.
AdvanceHeadOnly(t) ==
    /\ op[t] \in Pops
    /\ Goto(t, "advance", "unlock")
    /\ head' = (head + 1) % Capacity
    /\ UNCHANGED <<buffer, size, tail, locks, local, free>>

AdvanceHead(t) ==
    /\ op[t] \in Pops
    /\ Goto(t, "advance", "unlock")
    /\ head' = (head + 1) % Capacity
    /\ size' = size - 1
    /\ UNCHANGED <<buffer, tail, locks, local, free>>

WriteUnlock(t) ==
    /\ Goto(t, "unlock", "sig_lock")
    /\ writer' = NULL
    /\ UNCHANGED <<ring, readers, mutex, local, free>>

-----------------------------------------------------------------------------
(* Waiting: pthread_cond_timedwait on cond_not_full or cond_not_empty. *)

WaitLock(t) ==
    /\ mutex = NULL
    /\ Goto(t, "wait_lock", "wait")
    /\ mutex' = t
    /\ UNCHANGED <<ring, writer, readers, local, free>>

\* The wait releases cond_mutex and sleeps in one step.
Wait(t) ==
    /\ Goto(t, "wait", "waiting")
    /\ mutex' = NULL
    /\ UNCHANGED <<ring, writer, readers, local, free>>

\* The wait fails at once and keeps cond_mutex.
WaitError(t) ==
    /\ Goto(t, "wait", "wait_unlock")
    /\ result' = [result EXCEPT ![t] = "error"]
    /\ UNCHANGED <<ring, locks, op, item, ret, seen, queue_errno, free>>

Wake(t, r) ==
    /\ Goto(t, "waiting", "rewake")
    /\ result' = [result EXCEPT ![t] = r]
    /\ UNCHANGED <<ring, locks, op, item, ret, seen, queue_errno, free>>

\* The deadline of the wait passes, with or without an item in the queue.
Timeout(t) == Wake(t, "timeout")

\* POSIX allows a wait to return without a signal.
SpuriousWake(t) == Wake(t, "ok")

\* The woken thread takes cond_mutex again, inside pthread_cond_timedwait.
Rewake(t) ==
    /\ mutex = NULL
    /\ Goto(t, "rewake", "wait_unlock")
    /\ mutex' = t
    /\ UNCHANGED <<ring, writer, readers, local, free>>

\* Fault: the retry keeps cond_mutex.
WaitUnlockRetryHeld(t) ==
    /\ result[t] = "ok"
    /\ Goto(t, "wait_unlock", "wrlock")
    /\ result' = [result EXCEPT ![t] = "none"]
    /\ UNCHANGED <<ring, locks, op, item, ret, seen, queue_errno, free>>

\* A wait that returned 0 goes back to rwlock and the loop test ...
WaitUnlockRetry(t) ==
    /\ result[t] = "ok"
    /\ Goto(t, "wait_unlock", "wrlock")
    /\ mutex' = NULL
    /\ result' = [result EXCEPT ![t] = "none"]
    /\ UNCHANGED <<ring, writer, readers, op, item, ret, seen, queue_errno, free>>

\* Fault: a pop whose wait expires reports success.
WaitUnlockFailMasked(t) ==
    LET code == IF op[t] = "pop" THEN "SUCCESS" ELSE "ERR_TIMEOUT" IN
    /\ result[t] # "ok"
    /\ Goto(t, "wait_unlock", "return")
    /\ mutex' = NULL
    /\ ret' = [ret EXCEPT ![t] = code]
    /\ queue_errno' = [queue_errno EXCEPT ![t] = code]
    /\ UNCHANGED <<ring, writer, readers, op, item, result, seen, free>>

\* ... and one that did not ends the call, without looking at the queue again.
WaitUnlockFail(t) ==
    LET code == IF result[t] = "timeout" THEN "ERR_TIMEOUT" ELSE "ERR_THREAD" IN
    /\ result[t] # "ok"
    /\ Goto(t, "wait_unlock", "return")
    /\ mutex' = NULL
    /\ ret' = [ret EXCEPT ![t] = code]
    /\ queue_errno' = [queue_errno EXCEPT ![t] = code]
    /\ UNCHANGED <<ring, writer, readers, op, item, result, seen, free>>

-----------------------------------------------------------------------------
(* Signalling the other side after a successful transfer. *)

\* An add signals cond_not_empty, where pops wait; a pop cond_not_full.
Waiters(t) == {w \in Threads : /\ pc[w] = "waiting"
                               /\ op[w] = IF op[t] \in Adds THEN "pop" ELSE "add"}

SigLock(t) ==
    /\ mutex = NULL
    /\ Goto(t, "sig_lock", "signal")
    /\ mutex' = t
    /\ UNCHANGED <<ring, writer, readers, local, free>>

SignalWakes(t, w) ==
    /\ pc[t] = "signal" /\ w \in Waiters(t)
    /\ pc' = [pc EXCEPT ![t] = "return", ![w] = "rewake"]
    /\ result' = [result EXCEPT ![w] = "ok"]
    /\ mutex' = NULL
    /\ ret' = [ret EXCEPT ![t] = "SUCCESS"]
    /\ UNCHANGED <<ring, writer, readers, op, item, seen, queue_errno, free>>

\* Fault: cond_mutex is released only when somebody was woken.
SignalLostHeld(t) ==
    /\ Waiters(t) = {}
    /\ Goto(t, "signal", "return")
    /\ ret' = [ret EXCEPT ![t] = "SUCCESS"]
    /\ UNCHANGED <<ring, locks, op, item, result, seen, queue_errno, free>>

\* A signal with nobody waiting is lost.
SignalLost(t) ==
    /\ Waiters(t) = {}
    /\ Goto(t, "signal", "return")
    /\ mutex' = NULL
    /\ ret' = [ret EXCEPT ![t] = "SUCCESS"]
    /\ UNCHANGED <<ring, writer, readers, op, item, result, seen, queue_errno, free>>

-----------------------------------------------------------------------------
(* The status functions: one read of size under the read lock. *)

ReadLock(t) ==
    /\ writer = NULL
    /\ Goto(t, "rdlock", "read")
    /\ readers' = readers \cup {t}
    /\ UNCHANGED <<ring, writer, mutex, local, free>>

\* C's bool is 0 or 1.
StatusValue(o, n) ==
    CASE o = "get_size" -> n
      [] o = "is_empty" -> IF n = 0 THEN 1 ELSE 0
      [] o = "is_full"  -> IF n = Capacity THEN 1 ELSE 0

Read(t) ==
    /\ Goto(t, "read", "rdunlock")
    /\ seen' = [seen EXCEPT ![t] = StatusValue(op[t], size)]
    /\ UNCHANGED <<ring, locks, op, item, result, ret, queue_errno, free>>

ReadUnlock(t) ==
    /\ Goto(t, "rdunlock", "return")
    /\ readers' = readers \ {t}
    /\ ret' = [ret EXCEPT ![t] = "SUCCESS"]
    /\ UNCHANGED <<ring, writer, mutex, op, item, result, seen, queue_errno, free>>

-----------------------------------------------------------------------------
(* The call returns; its locals are gone and queue_errno stays readable.    *)
(* A popped item, and the item of an add that failed, is the caller's.  The *)
(* variable *item keeps its value, but the model forgets it: a later pop    *)
(* overwrites it, and CallNull, which does not, allows for any value.       *)

Owned(t) == item[t] # NULL /\ (op[t] \in Adds <=> ret[t] # "SUCCESS")

Return(t) ==
    /\ Goto(t, "return", "idle")
    /\ free' = IF Owned(t) THEN free \cup {item[t]} ELSE free
    /\ op' = [op EXCEPT ![t] = "none"]
    /\ item' = [item EXCEPT ![t] = NULL]
    /\ result' = [result EXCEPT ![t] = "none"]
    /\ ret' = [ret EXCEPT ![t] = "none"]
    /\ seen' = [seen EXCEPT ![t] = 0]
    /\ UNCHANGED <<ring, locks, queue_errno>>

\* sc_generic_queue_clear_error, by the thread whose error it is.
ClearError(t) ==
    /\ pc[t] = "idle"
    /\ queue_errno' = [queue_errno EXCEPT ![t] = "SUCCESS"]
    /\ UNCHANGED <<ring, locks, pc, op, item, result, ret, seen, free>>

-----------------------------------------------------------------------------
\* A caller starts an operation, or clears its error.
Call(t) == \E o \in Ops : \/ \E i \in Items : CallAdd(t, o, i)
                          \/ CallPop(t, o)
                          \/ CallStatus(t, o)
                          \/ CallNull(t, o)

Transfer(t) == \/ WriteLock(t) \/ Test(t) \/ UnlockToWait(t) \/ UnlockToFail(t)
               \/ Store(t) \/ Take(t) \/ AdvanceTail(t) \/ AdvanceHead(t)
               \/ WriteUnlock(t)

Sleep(t) == \/ WaitLock(t) \/ Wait(t) \/ WaitError(t) \/ Rewake(t)
            \/ WaitUnlockRetry(t) \/ WaitUnlockFail(t)

Signal(t) == SigLock(t) \/ SignalLost(t) \/ \E w \in Threads : SignalWakes(t, w)

Query(t) == ReadLock(t) \/ Read(t) \/ ReadUnlock(t)

\* What thread t does by itself once it is in a call.
Run(t) == Transfer(t) \/ Sleep(t) \/ Signal(t) \/ Query(t) \/ Return(t)

Next == \E t \in Threads : \/ Call(t) \/ ClearError(t) \/ Run(t)
                           \/ Timeout(t) \/ SpuriousWake(t)

Spec == Init /\ [][Next]_vars

-----------------------------------------------------------------------------
(* Properties *)

DataOK ==
    /\ buffer \in [Slots -> Items \cup {NULL}]
    /\ size \in 0 .. Capacity /\ head \in Slots /\ tail \in Slots
    /\ readers \in SUBSET Threads
    /\ mutex \in Threads \cup {NULL}
    /\ pc \in [Threads -> PCs]
    /\ op \in [Threads -> Ops \cup {"none"}]
    /\ item \in [Threads -> Items \cup {NULL}]
    /\ result \in [Threads -> {"none", "ok", "timeout", "error"}]
    /\ ret \in [Threads -> Codes \cup {"none"}]
    /\ seen \in [Threads -> 0 .. Capacity]
    /\ queue_errno \in [Threads -> Codes]
    /\ free \in SUBSET Items

TypeOK == DataOK /\ writer \in Threads \cup {NULL}

\* The queued items, oldest first: At(0), ..., At(size - 1).
Slot(k) == (head + k) % Capacity
At(k)   == buffer[Slot(k)]
Queued  == {At(k) : k \in 0 .. size - 1}

\* A transfer has taken effect: its thread has moved head or tail.
Committed(t) == \/ pc[t] \in {"unlock", "sig_lock", "signal"}
                \/ pc[t] = "return" /\ ret[t] = "SUCCESS"

\* The item is thread t's: an add's until it commits, a pop's from then on.
Holds(t) == /\ item[t] # NULL
            /\ (op[t] \in Adds <=> ~Committed(t))

\* LocksOK: each lock is held by exactly the threads whose code is between its
\* lock and unlock calls, a writer excludes everyone, and no thread blocks on
\* cond_mutex while it holds rwlock (the unlocks at lines 265, 294, 323, 352
\* of generic_queue.c precede every pthread_mutex_lock).
LocksOK ==
    /\ \A t \in Threads : /\ writer = t <=> pc[t] \in WritePC
                          /\ t \in readers <=> pc[t] \in ReadPC
                          /\ mutex = t <=> pc[t] \in MutexPC
    /\ writer # NULL => readers = {}

\* RingOK: head, tail and size always describe one ring, and every slot they
\* say is queued holds an item, whatever adds and pops overlap.
RingOK ==
    /\ tail = (head + size) % Capacity
    /\ \A k \in 0 .. size - 1 : At(k) # NULL

\* The items in S, and no others, are here, each with one owner: its caller, one
\* add or pop, or one slot of the ring.
Held == {item[t] : t \in {u \in Threads : Holds(u)}}

Conserved(S) ==
    /\ S = free \cup Queued \cup Held
    /\ free \cap Queued = {}
    /\ \A j, k \in 0 .. size - 1 : At(j) = At(k) => j = k
    /\ \A t \in Threads : Holds(t) =>
         /\ item[t] \notin free \cup Queued
         /\ \A u \in Threads \ {t} : Holds(u) => item[u] # item[t]

\* ItemsConserved: an item has one owner at any time: no interleaving of adds,
\* pops, timeouts and failures loses it or hands it to two threads.
ItemsConserved == Conserved(Items)

\* ErrnoOK: what get_error reports is the outcome of the thread's own last
\* operation on the queue, and a pop that had a queue to look at leaves *item
\* NULL if and only if it fails.  (Given a NULL queue it does not touch *item.)
ErrnoOK == \A t \in Threads : pc[t] = "return" =>
    /\ ret[t] = queue_errno[t]
    /\ op[t] \in Pops /\ ret[t] # "ERR_NULL" => (ret[t] = "SUCCESS" <=> item[t] # NULL)

\* The lock a thread waits for is free, if it waits for one: the guards of
\* WriteLock, ReadLock, WaitLock, Rewake and SigLock, nothing else holds a call up.
Ready(t) ==
    /\ pc[t] # "idle"
    /\ pc[t] = "wrlock" => writer = NULL /\ readers = {}
    /\ pc[t] = "rdlock" => writer = NULL
    /\ pc[t] \in {"wait_lock", "rewake", "sig_lock"} => mutex = NULL

\* The threads that have the lock t waits for.
Holders(t) == {h \in Threads :
    \/ pc[t] \in {"wrlock", "rdlock"} /\ h = writer
    \/ pc[t] = "wrlock" /\ h \in readers
    \/ pc[t] \in {"wait_lock", "rewake", "sig_lock"} /\ h = mutex}

\* NoDeadlock: a thread in a call can go on, or waits for a lock that another
\* thread has and that thread can go on: nobody waits for a lock while holding
\* the other one, and nobody leaves a call with a lock, on any path.
NoDeadlock == \A t \in Threads : pc[t] # "idle" =>
    Ready(t) \/ \E h \in Holders(t) \ {t} : Ready(h)

\* A wake-up for the other side is on its way: the signal of a finished
\* transfer, or a waiter it has woken and that has not looked yet.
SignalPending(S, W) == \E t \in Threads :
    \/ op[t] \in S /\ pc[t] \in {"unlock", "sig_lock", "signal"}
    \/ op[t] \in W /\ pc[t] \in {"rewake", "wait_unlock", "wrlock", "test",
                                 "transfer", "advance"}

\* NoLostWakeup: a pop's wait expires only if the queue "remains empty"
\* (comment of sc_generic_queue_pop), or an item has only just come and its
\* wake-up is on its way to some consumer; an add's likewise.
NoLostWakeup ==
    [][\A t \in Threads : Timeout(t) =>
         IF op[t] = "pop" THEN size = 0 \/ SignalPending(Adds, Pops)
                          ELSE size = Capacity \/ SignalPending(Pops, Adds)]_vars

\* WritersOnly: the ring changes only in a step of the thread that holds the
\* write lock, with no reader inside.
WritersOnly == [][ring' # ring => writer # NULL /\ writer' = writer /\ readers = {}]_vars

-----------------------------------------------------------------------------
(* The inductive invariant: what each label of pc says of the thread's own   *)
(* locals, and what holding rwlock lets it rely on.  It does not say who the *)
(* writer may be, since the nuke of QueueTeardown is one, too.               *)

LocalsOK == \A t \in Threads :
    /\ pc[t] \in WritePC \cup {"wrlock", "sig_lock", "signal"} => op[t] \in Adds \cup Pops
    /\ pc[t] \in {"wait_lock", "wait", "waiting", "rewake", "wait_unlock"} => op[t] \in Blocking
    /\ pc[t] \in ReadPC \cup {"rdlock"} => op[t] \in Status
    /\ pc[t] \notin {"idle", "return"} =>
         /\ ret[t] = "none" /\ queue_errno[t] = "SUCCESS"
         /\ op[t] \in Adds => item[t] # NULL
         /\ op[t] \in Pops => (item[t] # NULL <=> Committed(t) \/ pc[t] = "advance")
    /\ pc[t] = "idle" => item[t] = NULL /\ ret[t] = "none"
    /\ pc[t] = "return" /\ ret[t] = "SUCCESS" /\ op[t] \in Adds => item[t] # NULL
    /\ op[t] \notin Adds \cup Pops => item[t] = NULL

\* What the tested predicate and the stored item are worth until the unlock.
CriticalOK == \A t \in Threads :
    /\ pc[t] = "giveup" => Blocked(t)
    /\ pc[t] \in {"transfer", "advance"} => ~Blocked(t)
    /\ pc[t] = "advance" /\ op[t] \in Adds => item[t] = buffer[tail]
    /\ pc[t] = "advance" /\ op[t] \in Pops => item[t] = buffer[head]

IInv == DataOK /\ LocksOK /\ LocalsOK /\ CriticalOK /\ RingOK /\ ErrnoOK
=============================================================================
