---------------------------- MODULE AbstractQueue ----------------------------
(***************************************************************************)
(* What generic_queue.h promises its callers: a bounded FIFO queue on      *)
(* which each operation takes effect at one instant between its call and   *)
(* its return.  No locks, no condition variables, no ring.                 *)
(***************************************************************************)
EXTENDS Sequences, Integers

CONSTANTS Threads, Items, Capacity, NULL

Adds     == {"add", "try_add"}
Pops     == {"pop", "try_pop"}
Blocking == {"add", "pop"}
Status   == {"is_empty", "is_full", "get_size"}
Ops      == Adds \cup Pops \cup Status

VARIABLES
    queue,    \* the items, oldest first
    phase,    \* of each thread: "idle", "called" or "answered"
    op, item, \* the operation and the item it brings or receives
    seen,     \* the answer of a status function
    ret,      \* the code the call answers
    errno     \* the thread's error code

vars == <<queue, phase, op, item, seen, ret, errno>>

Init ==
    /\ queue = <<>>
    /\ phase = [t \in Threads |-> "idle"]
    /\ op = [t \in Threads |-> "none"]
    /\ item = [t \in Threads |-> NULL]
    /\ seen = [t \in Threads |-> 0]
    /\ ret = [t \in Threads |-> "none"]
    /\ errno = [t \in Threads |-> "SUCCESS"]

Invoke(t, o, i) ==
    /\ op' = [op EXCEPT ![t] = o]
    /\ item' = [item EXCEPT ![t] = i]
    /\ errno' = [errno EXCEPT ![t] = "SUCCESS"]
    /\ phase' = [phase EXCEPT ![t] = "called"]
    /\ UNCHANGED <<queue, seen, ret>>

\* The call's outcome is decided: code, and nothing else unless stated.
Answer(t, from, code) ==
    /\ phase[t] = from
    /\ errno' = [errno EXCEPT ![t] = code]
    /\ ret' = [ret EXCEPT ![t] = code]
    /\ phase' = [phase EXCEPT ![t] = "answered"]

RejectNull(t, o) ==
    /\ op' = [op EXCEPT ![t] = o]
    /\ Answer(t, "idle", "ERR_NULL")
    /\ UNCHANGED <<queue, item, seen>>

Enqueue(t) ==
    /\ op[t] \in Adds /\ Len(queue) < Capacity
    /\ Answer(t, "called", "SUCCESS")
    /\ queue' = Append(queue, item[t])
    /\ UNCHANGED <<op, item, seen>>

Dequeue(t) ==
    /\ op[t] \in Pops /\ queue # <<>>
    /\ Answer(t, "called", "SUCCESS")
    /\ item' = [item EXCEPT ![t] = Head(queue)]
    /\ queue' = Tail(queue)
    /\ UNCHANGED <<op, seen>>

\* The non-blocking forms fail only on a queue that is full, or empty.
Refuse(t) ==
    /\ \/ op[t] = "try_add" /\ Len(queue) = Capacity /\ Answer(t, "called", "ERR_FULL")
       \/ op[t] = "try_pop" /\ queue = <<>> /\ Answer(t, "called", "ERR_EMPTY")
    /\ UNCHANGED <<queue, op, item, seen>>

\* The blocking forms may give up, and then have no effect.
GiveUp(t) ==
    /\ op[t] \in Blocking
    /\ \E code \in {"ERR_TIMEOUT", "ERR_THREAD"} : Answer(t, "called", code)
    /\ UNCHANGED <<queue, op, item, seen>>

StatusValue(o) ==
    CASE o = "get_size" -> Len(queue)
      [] o = "is_empty" -> IF queue = <<>> THEN 1 ELSE 0
      [] o = "is_full"  -> IF Len(queue) = Capacity THEN 1 ELSE 0

Observe(t) ==
    /\ op[t] \in Status
    /\ Answer(t, "called", "SUCCESS")
    /\ seen' = [seen EXCEPT ![t] = StatusValue(op[t])]
    /\ UNCHANGED <<queue, op, item>>

Return(t) ==
    /\ phase[t] = "answered"
    /\ op' = [op EXCEPT ![t] = "none"]
    /\ phase' = [phase EXCEPT ![t] = "idle"]
    /\ item' = [item EXCEPT ![t] = NULL]
    /\ seen' = [seen EXCEPT ![t] = 0]
    /\ ret' = [ret EXCEPT ![t] = "none"]
    /\ UNCHANGED <<queue, errno>>

ClearError(t) ==
    /\ phase[t] = "idle"
    /\ errno' = [errno EXCEPT ![t] = "SUCCESS"]
    /\ UNCHANGED <<queue, phase, op, item, seen, ret>>

Call(t) ==
    /\ phase[t] = "idle"
    /\ \E o \in Ops : \/ RejectNull(t, o)
                      \/ \E i \in Items : o \in Adds /\ Invoke(t, o, i)
                      \/ o \notin Adds /\ Invoke(t, o, NULL)

Next == \E t \in Threads :
    \/ Call(t) \/ Enqueue(t) \/ Dequeue(t) \/ Refuse(t) \/ GiveUp(t)
    \/ Observe(t) \/ Return(t) \/ ClearError(t)

Spec == Init /\ [][Next]_vars
=============================================================================
