--------------------------- MODULE QueueLifecycle ---------------------------
(***************************************************************************)
(* sc_generic_queue_init, which acquires six resources one after the other *)
(* and must undo exactly the earlier ones when one fails, and what         *)
(* releases them in the end: sc_generic_queue_nuke, or the last lines of   *)
(* sc_generic_queue_nuke_with_cleanup, whose drain is in QueueTeardown.    *)
(***************************************************************************)
EXTENDS Integers

CONSTANTS
    SizeMax,  \* SIZE_MAX
    PtrSize   \* sizeof(void *)

ASSUME SizeAssumption == SizeMax \in Nat /\ PtrSize \in Nat \ {0}

\* Fault: the limit forgets the size of a pointer.
MaxCapacityBytes == SizeMax

MaxCapacity == (SizeMax \div PtrSize) \div 2   \* SC_GENERIC_QUEUE_MAX_CAPACITY

VARIABLES
    capacity,    \* the argument of init
    stage,       \* what init does next; "live", "ending" and "gone" after it
    have,        \* the resources that exist
    errno        \* queue_errno of the thread that makes and ends the queue

lifeVars == <<capacity, stage, have, errno>>

\* The resources in the order init acquires them.
Order == <<"struct", "buffer", "rwlock", "cond_mutex", "cond_not_empty", "cond_not_full">>
Resources == {Order[k] : k \in 1 .. 6}

\* Fault: the branch of the mutex forgets the rwlock.
UnwindKeepsRwlock ==
          [struct         |-> {},
           buffer         |-> {"struct"},
           rwlock         |-> {"struct", "buffer"},
           cond_mutex     |-> {"struct", "buffer"},
           cond_not_empty |-> {"struct", "buffer", "rwlock", "cond_mutex"},
           cond_not_full  |-> {"struct", "buffer", "rwlock", "cond_mutex", "cond_not_empty"}]

\* The releases written out in init's error branch for each acquisition.
Unwind == [struct         |-> {},
           buffer         |-> {"struct"},
           rwlock         |-> {"struct", "buffer"},
           cond_mutex     |-> {"struct", "buffer", "rwlock"},
           cond_not_empty |-> {"struct", "buffer", "rwlock", "cond_mutex"},
           cond_not_full  |-> {"struct", "buffer", "rwlock", "cond_mutex", "cond_not_empty"}]

\* Fault: the pthread error number is passed on.
FailCodeRaw(r) == IF r \in {"struct", "buffer"} THEN "ERR_MEMORY" ELSE "EAGAIN"

FailCode(r) == IF r \in {"struct", "buffer"} THEN "ERR_MEMORY" ELSE "ERR_THREAD"

LifeInit ==
    /\ capacity \in 0 .. SizeMax
    /\ stage = "check" /\ have = {} /\ errno = "SUCCESS"

Fail(code, released) ==
    /\ stage' = "failed" /\ errno' = code
    /\ have' = have \ released
    /\ UNCHANGED capacity

CheckCapacity ==
    /\ stage = "check"
    /\ \/ capacity = 0 /\ Fail("ERR_INVALID", {})
       \/ capacity > MaxCapacity /\ capacity # 0 /\ Fail("ERR_OVERFLOW", {})
       \/ /\ capacity \in 1 .. MaxCapacity
          /\ stage' = "struct"
          /\ UNCHANGED <<capacity, have, errno>>

\* SC_MUL_OVERFLOW(capacity, sizeof(void *), &buffer_size)
MulOverflows == capacity * PtrSize > SizeMax

CheckProduct ==
    /\ stage = "product"
    /\ IF MulOverflows THEN Fail("ERR_OVERFLOW", {"struct"})
                       ELSE stage' = "buffer" /\ UNCHANGED <<capacity, have, errno>>

NextStage == [struct         |-> "product",
              buffer         |-> "rwlock",
              rwlock         |-> "cond_mutex",
              cond_mutex     |-> "cond_not_empty",
              cond_not_empty |-> "cond_not_full",
              cond_not_full  |-> "live"]

Acquire(r) ==
    /\ stage = r
    /\ have' = have \cup {r}
    /\ stage' = NextStage[r]
    /\ UNCHANGED <<capacity, errno>>

AcquireFails(r) == stage = r /\ Fail(FailCode(r), Unwind[r])

\* pthread_rwlock_destroy may report an error; everything is released anyway.
Nuke ==
    /\ stage = "live" /\ stage' = "gone"
    /\ have' = have \ Resources
    /\ \E code \in {"SUCCESS", "ERR_THREAD"} : errno' = code
    /\ UNCHANGED capacity

\* The releases of nuke_with_cleanup.  It never sets queue_errno to SUCCESS, so
\* what an earlier call of the thread left there stays.
FreeBuffer ==
    /\ stage = "live" /\ stage' = "ending"
    /\ have' = have \ {"buffer"}
    /\ UNCHANGED <<capacity, errno>>

DestroyRest ==
    /\ stage = "ending" /\ stage' = "gone"
    /\ have' = have \ {"rwlock", "cond_mutex", "cond_not_empty", "cond_not_full", "struct"}
    /\ UNCHANGED <<capacity, errno>>

\* nuke or nuke_with_cleanup of a NULL queue: the one a failed init returned.
NukeNull ==
    /\ stage = "failed" /\ stage' = "refused"
    /\ errno' = "ERR_NULL"
    /\ UNCHANGED <<capacity, have>>

Make == \/ CheckCapacity \/ CheckProduct
        \/ \E r \in Resources : Acquire(r) \/ AcquireFails(r)

LifeNext == Make \/ Nuke \/ FreeBuffer \/ DestroyRest \/ NukeNull

LifeSpec == LifeInit /\ [][LifeNext]_lifeVars

-----------------------------------------------------------------------------
Stages == Resources \cup {"check", "product", "live", "ending", "failed", "gone", "refused"}

LifeTypeOK ==
    /\ capacity \in 0 .. SizeMax
    /\ stage \in Stages
    /\ have \in SUBSET Resources
    /\ errno \in {"SUCCESS", "ERR_INVALID", "ERR_OVERFLOW", "ERR_MEMORY",
                        "ERR_THREAD", "ERR_NULL"}

\* UnwindExact: the error branch of each acquisition releases what exists at
\* that point and nothing else: no leak, and no destroy of what was never
\* initialised, whichever call fails and whichever nuke ends the queue.
UnwindExact ==
    /\ stage \in Resources => have = Unwind[stage]
    /\ stage = "live" => have = Resources
    /\ stage \in {"check", "failed", "gone", "refused"} => have = {}
    /\ stage = "product" => have = {"struct"}
    /\ stage = "ending" => have = Resources \ {"buffer"}

\* BufferFits: a queue that exists has room for capacity pointers in size_t,
\* and (tail + 1) and size + 1 cannot wrap; the SC_MUL_OVERFLOW branch behind
\* the test against SC_GENERIC_QUEUE_MAX_CAPACITY is never taken.
BufferFits == stage \in Resources \cup {"product", "live", "ending", "gone"} =>
    /\ capacity # 0
    /\ ~ MulOverflows
    /\ capacity + 1 <= SizeMax
=============================================================================
