------------------------- MODULE QueueTeardownProofs -------------------------
(***************************************************************************)
(* Theorems about the end of a queue, for every set of threads, every      *)
(* capacity and every program: what holds whatever the callers do          *)
(* (SharedSpec), and what holds when they keep away from it (QuietSpec).   *)
(***************************************************************************)
EXTENDS QueueLifetime, GenericQueueProofs, SequenceTheorems

(* The nuke is one more writer: the queue's own invariant holds beside it, with *)
(* the items it has handed to cleanup_fn out of the account.  The model stops   *)
(* the callers when the ring is freed, so the account stays settled after that. *)
Accounted ==
    /\ Conserved(Items \ Cleaned)
    /\ \A j, k \in DOMAIN cleaned : cleaned[j] = cleaned[k] => j = k

LockHeld ==
    /\ npc = "drain" => writer = Nuker
    /\ npc # "drain" => writer \in Threads \cup {NULL}

SharedInv ==
    /\ IInv /\ LockHeld
    /\ npc \in NukePCs
    /\ cleaned \in Seq(Items)
    /\ Accounted

-----------------------------------------------------------------------------
(* What the invariant of the queue says of the items in the ring. *)
LEMMA QueuedAreItems == ASSUME IInv PROVE \A k \in 0 .. size - 1 : At(k) \in Items
<1> SUFFICES ASSUME NEW k \in 0 .. size - 1 PROVE At(k) \in Items
  OBVIOUS
<1>1. Slot(k) \in Slots
  BY CapacityAssumption DEF Slot, Slots, IInv, DataOK
<1> QED
  BY <1>1 DEF IInv, DataOK, RingOK, At

(* The drain moves the oldest item from the ring to the end of cleaned. *)
LEMMA DrainEffect ==
    ASSUME size \in 0 .. Capacity, head \in Slots, NukeDrain
    PROVE  /\ size' = size - 1 /\ size > 0 /\ head' \in Slots
           /\ \A k \in 0 .. size - 2 : At(k)' = At(k + 1)
           /\ cleaned' = Append(cleaned, At(0))
<1> USE CapacityAssumption DEF NukeDrain
<1>1. size > 0 /\ size' = size - 1 /\ head \in Slots /\ size <= Capacity /\ size \in Nat
  OBVIOUS
<1>2. head' \in Slots
  BY <1>1 DEF Slots
<1>3. At(0) = buffer[head]
  BY <1>1, FirstSlot DEF At, Slot
<1>4. ASSUME NEW k \in 0 .. size - 2
      PROVE  At(k)' = At(k + 1)
  <2>1. k \in 0 .. size - 1 /\ size \in 0 .. Capacity
    BY <1>1, <1>4
  <2>2. (head' + k) % Capacity = (head + (k + 1)) % Capacity
    BY <1>1, <2>1, NextSlot
  <2> QED
    BY <2>2 DEF At, Slot
<1> QED
  BY <1>1, <1>2, <1>3, <1>4

(* The items that are nobody's but the queue's are one fewer. *)
LEMMA DrainConserves ==
    ASSUME IInv, NEW S, NEW i, i = At(0), Conserved(S), NukeDrain
    PROVE  i \in S /\ Conserved(S \ {i})'
<1>1. /\ size > 0 /\ size' = size - 1 /\ free' = free /\ size \in 0 .. Capacity
      /\ \A k \in 0 .. size - 2 : At(k)' = At(k + 1)
  BY DrainEffect DEF NukeDrain, IInv, DataOK
<1>2. /\ \A k \in 0 .. size' - 1 : k \in 0 .. size - 2 /\ k + 1 \in 0 .. size - 1
      /\ \A k \in 0 .. size - 1 : k = 0 \/ (k - 1 \in 0 .. size' - 1 /\ (k - 1) + 1 = k)
      /\ 0 \in 0 .. size - 1
  BY <1>1, CapacityAssumption
<1>3. Queued = Queued' \cup {i}
  BY <1>1, <1>2 DEF Queued
<1>4. i \notin Queued'
  BY <1>1, <1>2 DEF Queued, Conserved
<1>5. \A u \in Threads : item'[u] = item[u] /\ (Holds(u)' <=> Holds(u))
  BY DEF NukeDrain, Holds, Committed, local
<1>6. Held' = Held
  BY <1>5 DEF Held
<1>7. \A j, k \in 0 .. size' - 1 : At(j)' = At(k)' => j = k
  BY <1>1, <1>2 DEF Conserved
<1>8. i \notin free /\ i \notin Held
  BY <1>3 DEF Conserved, Held
<1>9. (S \ {i}) = free' \cup Queued' \cup Held' /\ i \in S
  BY <1>1, <1>3, <1>4, <1>6, <1>8 DEF Conserved
<1>10. free' \cap Queued' = {}
  BY <1>1, <1>3 DEF Conserved
<1>11. ASSUME NEW u \in Threads, Holds(u)'
       PROVE  /\ item'[u] \notin free' \cup Queued'
              /\ \A v \in Threads \ {u} : Holds(v)' => item'[v] # item'[u]
  BY <1>1, <1>3, <1>5, <1>11 DEF Conserved
<1> QED
  BY <1>7, <1>9, <1>10, <1>11 DEF Conserved

(* The nuke's own steps keep the queue's invariant: no thread is inside rwlock  *)
(* while it is there.                                                           *)
LEMMA DrainIInv == ASSUME SharedInv, NukeDrain PROVE IInv'
<1> USE DEF NukeDrain, SharedInv, IInv
<1>1. /\ size > 0 /\ size' = size - 1 /\ head' \in Slots /\ size \in 0 .. Capacity
      /\ \A k \in 0 .. size - 2 : At(k)' = At(k + 1)
  BY DrainEffect DEF DataOK
<1>2. size' \in 0 .. Capacity
  BY <1>1, CapacityAssumption
<1>3. UNCHANGED <<buffer, tail, writer, readers, mutex, pc, op, item, result, ret, seen,
                  queue_errno, free>>
  BY DEF locks, local
<1>4. DataOK' /\ LocksOK'
  BY <1>1, <1>2, <1>3 DEF DataOK, LocksOK
<1>5. LocalsOK' /\ ErrnoOK'
  BY <1>3 DEF LocalsOK, ErrnoOK, Committed
<1>6. CriticalOK'
  <2>1. \A t \in Threads : pc[t] \notin WritePC
    BY NukerAssumption DEF LocksOK, LockHeld
  <2> QED
    BY <1>3, <2>1 DEF CriticalOK, WritePC
<1>7. RingOK'
  <2>1. tail = (head' + size') % Capacity
    <3>1. size - 1 \in 0 .. Capacity - 1 /\ (size - 1) + 1 = size
      BY <1>1, CapacityAssumption
    <3>2. head \in Slots
      BY DEF DataOK
    <3>3. (((head + 1) % Capacity) + (size - 1)) % Capacity = (head + size) % Capacity
      BY <3>1, <3>2, NextSlot
    <3> QED
      BY <1>1, <3>3 DEF RingOK
  <2>2. \A k \in 0 .. size' - 1 : At(k)' # NULL
    BY <1>1, <1>2, CapacityAssumption DEF RingOK
  <2> QED
    BY <1>3, <2>1, <2>2 DEF RingOK
<1> QED
  BY <1>4, <1>5, <1>6, <1>7

LEMMA DrainStep == ASSUME SharedInv, NukeDrain PROVE SharedInv'
<1>0. PICK i : i = At(0)
  OBVIOUS
<1>1. PICK S : S = Items \ Cleaned
  OBVIOUS
<1>2. i \in S /\ Conserved(S \ {i})'
  BY <1>0, <1>1, DrainConserves DEF SharedInv, Accounted
<1>3. /\ cleaned' = Append(cleaned, i) /\ cleaned \in Seq(Items)
      /\ i \in Items /\ i \notin Cleaned
  BY <1>0, <1>1, <1>2, DrainEffect DEF SharedInv, IInv, DataOK
<1>4. /\ cleaned' \in Seq(Items) /\ Len(cleaned) \in Nat
      /\ DOMAIN cleaned = 1 .. Len(cleaned) /\ DOMAIN cleaned' = 1 .. Len(cleaned) + 1
      /\ cleaned'[Len(cleaned) + 1] = i
      /\ \A j \in 1 .. Len(cleaned) : cleaned'[j] = cleaned[j]
  BY <1>3
<1>5. Cleaned' = Cleaned \cup {i}
  BY <1>4 DEF Cleaned
<1>6. \A j, k \in DOMAIN cleaned' : cleaned'[j] = cleaned'[k] => j = k
  BY <1>3, <1>4 DEF SharedInv, Accounted, Cleaned
<1>7. Items \ Cleaned' = S \ {i}
  BY <1>1, <1>5
<1>8. Conserved(Items \ Cleaned)'
  BY <1>2, <1>7 DEF Conserved
<1>9. LockHeld' /\ npc' \in NukePCs
  BY DEF NukeDrain, SharedInv, LockHeld, locks
<1> QED
  BY <1>4, <1>6, <1>8, <1>9, DrainIInv DEF SharedInv, Accounted

(* A step that leaves the ring, the callers and cleaned alone. *)
LEMMA SameOnce ==
    ASSUME Accounted, UNCHANGED <<ring, pc, op, item, ret, free, cleaned>>
    PROVE  Accounted'
<1>1. Queued' = Queued /\ Held' = Held /\ Cleaned' = Cleaned /\ \A k : At(k)' = At(k)
  BY DEF Queued, Held, Holds, Committed, Cleaned, At, Slot, ring
<1>2. \A t : Holds(t)' <=> Holds(t)
  BY DEF Holds, Committed
<1> QED
  BY <1>1, <1>2 DEF Accounted, Conserved, ring

(* Taking and releasing the lock moves no item. *)
LEMMA LockStep == ASSUME SharedInv, NukeLock \/ NukeUnlock PROVE SharedInv'
<1> USE DEF NukeLock, NukeUnlock, SharedInv
<1>1. UNCHANGED <<ring, readers, mutex, pc, local, free, cleaned>> /\ npc' \in NukePCs
  BY DEF NukePCs
<1>2. LocksOK'
  <2>1. CASE NukeLock
    BY <2>1, NullAssumption, NukerAssumption DEF IInv, LocksOK
  <2>2. CASE NukeUnlock
    BY <2>2, NullAssumption, NukerAssumption DEF IInv, LocksOK, LockHeld
  <2> QED
    BY <2>1, <2>2
<1>3. \A k : At(k)' = At(k)
  BY <1>1 DEF At, Slot, ring
<1>4. DataOK' /\ RingOK'
  BY <1>1, <1>3 DEF IInv, DataOK, RingOK, ring, local
<1>5. LocalsOK' /\ ErrnoOK'
  BY <1>1 DEF IInv, LocalsOK, ErrnoOK, Committed, local
<1>6. CriticalOK'
  BY <1>1 DEF IInv, CriticalOK, Blocked, ring, local
<1>7. Accounted'
  BY <1>1, SameOnce DEF local
<1>8. LockHeld'
  BY DEF LockHeld
<1> QED
  BY <1>1, <1>2, <1>4, <1>5, <1>6, <1>7, <1>8 DEF IInv

(* A step of a caller, or of nobody. *)
LEMMA UseStep ==
    ASSUME SharedInv, [Next]_vars, UNCHANGED <<npc, cleaned>>
    PROVE  SharedInv'
<1>1. PICK S : S = Items \ Cleaned
  OBVIOUS
<1>2. Conserved(S)' /\ Cleaned' = Cleaned
  BY <1>1, ConservedStep DEF SharedInv, Accounted, Cleaned
<1>3. Accounted'
  BY <1>1, <1>2 DEF SharedInv, Accounted, Conserved
<1>4. LockHeld'
  BY WriterMoves, NukerAssumption, NullAssumption DEF SharedInv, LockHeld
<1> QED
  BY <1>3, <1>4, StepIInv DEF SharedInv

LEMMA SharedInitially == TeardownInit => SharedInv
<1> SUFFICES ASSUME TeardownInit PROVE SharedInv
  OBVIOUS
<1>1. cleaned = <<>> /\ Cleaned = {} /\ Items \ Cleaned = Items
  BY DEF TeardownInit, Cleaned
<1>2. ItemsConserved
  BY InitConserved DEF TeardownInit
<1>3. Accounted
  BY <1>1, <1>2 DEF Accounted, ItemsConserved
<1> QED
  BY <1>1, <1>3, InitIInv DEF TeardownInit, Init, SharedInv, LockHeld, NukePCs

LEMMA SharedSteps == SharedInv /\ [SharedNext]_teardownVars => SharedInv'
<1> SUFFICES ASSUME SharedInv, [SharedNext]_teardownVars PROVE SharedInv'
  OBVIOUS
<1>1. CASE Use
  BY <1>1, UseStep DEF Use
<1>2. CASE NukeLock \/ NukeUnlock
  BY <1>2, LockStep
<1>3. CASE NukeDrain
  BY <1>3, DrainStep
<1>4. CASE NukeFreeBuffer \/ NukeDestroy
  <2>1. npc # "drain" /\ npc' # "drain" /\ npc' \in NukePCs /\ UNCHANGED <<vars, cleaned>>
    BY <1>4 DEF NukeFreeBuffer, NukeDestroy, NukePCs
  <2>2. IInv'
    BY <2>1, StepIInv DEF SharedInv
  <2>3. Accounted'
    BY <2>1, SameOnce DEF SharedInv, vars, local
  <2>4. LockHeld'
    BY <2>1 DEF SharedInv, LockHeld, vars, locks
  <2> QED
    BY <2>1, <2>2, <2>3, <2>4 DEF SharedInv
<1>5. CASE UNCHANGED teardownVars
  BY <1>5, UseStep DEF teardownVars
<1> QED
  BY <1>1, <1>2, <1>3, <1>4, <1>5 DEF SharedNext, NukeSteps

-----------------------------------------------------------------------------
(* Whatever the callers do meanwhile, and from any number of threads: the drain *)
(* never takes an item that somebody else has or will get, and until the ring   *)
(* is freed every other item has exactly one owner.                             *)
THEOREM CleanupOwnsItsItems == SharedSpec => []CleanedOnce
<1>1. SharedInv => CleanedOnce
  BY DEF SharedInv, Accounted, CleanedOnce
<1> QED
  BY <1>1, SharedInitially, SharedSteps, PTL DEF SharedSpec

(* The locks exclude, the ring stays one ring and the error codes stay right    *)
(* while the nuke comes and goes.                                                *)
Undisturbed == LocksOK /\ RingOK /\ ErrnoOK

THEOREM NukeDisturbsNothing == SharedSpec => []Undisturbed
<1>1. SharedInv => Undisturbed
  BY DEF SharedInv, IInv, Undisturbed
<1> QED
  BY <1>1, SharedInitially, SharedSteps, PTL DEF SharedSpec

(* One turn of the drain keeps the sequence of what is cleaned and queued. *)
LEMMA TurnKeepsOrder ==
    ASSUME IInv, cleaned \in Seq(Items), NukeDrain
    PROVE  cleaned' \o Contents' = cleaned \o Contents
<1>1. /\ size' = size - 1 /\ size > 0 /\ size \in Nat
      /\ \A k \in 0 .. size - 2 : At(k)' = At(k + 1)
      /\ cleaned' = Append(cleaned, At(0))
      /\ cleaned \in Seq(Items) /\ Len(cleaned) \in Nat
  BY DrainEffect DEF IInv, DataOK
<1>2. \A k \in 0 .. size - 1 : At(k) \in Items
  BY QueuedAreItems
<1> DEFINE C == Contents
           D == Contents'
<1>3. C \in Seq(Items) /\ Len(C) = size /\ \A k \in 1 .. size : C[k] = At(k - 1)
  <2>1. C = [k \in 1 .. size |-> At(k - 1)]
    BY DEF Contents
  <2>2. \A k \in 1 .. size : At(k - 1) \in Items
    BY <1>1, <1>2
  <2> QED
    BY <1>1, <2>1, <2>2
<1>4. D \in Seq(Items) /\ Len(D) = size - 1 /\ \A k \in 1 .. size - 1 : D[k] = At(k)
  <2>1. D = [k \in 1 .. size - 1 |-> At(k - 1)']
    BY <1>1 DEF Contents
  <2>2. \A k \in 1 .. size - 1 : At(k - 1)' = At(k) /\ At(k) \in Items
    BY <1>1, <1>2
  <2> QED
    BY <1>1, <2>1, <2>2
<1>5. At(0) \in Items
  BY <1>1, <1>2
<1>6. C = <<At(0)>> \o D
  <2>1. <<At(0)>> \in Seq(Items) /\ Len(<<At(0)>>) = 1 /\ <<At(0)>>[1] = At(0)
    BY <1>5
  <2> HIDE DEF C, D
  <2>2. /\ <<At(0)>> \o D \in Seq(Items) /\ Len(<<At(0)>> \o D) = size
        /\ \A k \in 1 .. size : (<<At(0)>> \o D)[k] = IF k = 1 THEN At(0) ELSE D[k - 1]
    BY <1>1, <1>4, <2>1, ConcatProperties
  <2>3. \A k \in 1 .. size : C[k] = (<<At(0)>> \o D)[k]
    BY <1>1, <1>3, <1>4, <2>2
  <2> QED
    BY <1>1, <1>3, <2>2, <2>3
<1>7. cleaned' = cleaned \o <<At(0)>>
  BY <1>1, <1>5, AppendIsConcat
<1> HIDE DEF C, D
<1>8. (cleaned \o <<At(0)>>) \o D = cleaned \o (<<At(0)>> \o D)
  BY <1>1, <1>4, <1>5, ConcatAssociative
<1> QED
  BY <1>6, <1>7, <1>8 DEF C, D

(* While the nuke has the lock nobody else touches the ring. *)
LEMMA LockedOut ==
    ASSUME SharedInv, npc = "drain", Next
    PROVE  UNCHANGED ring
<1>1. \A t \in Threads : pc[t] \notin WritePC
  BY NukerAssumption DEF SharedInv, IInv, LocksOK, LockHeld
<1> QED
  BY <1>1, RingMoves DEF Store, AdvanceTail, AdvanceHead, Goto, WritePC

(* Whatever the other threads do meanwhile, the drain hands the items out in    *)
(* the order in which they were queued, and nobody adds to them or takes one.   *)
THEOREM DrainKeepsOrder == SharedSpec => DrainInOrder
<1>1. SharedInv /\ [SharedNext]_teardownVars
        => [npc = "drain" => cleaned' \o Contents' = cleaned \o Contents]_teardownVars
  <2> SUFFICES ASSUME SharedInv, SharedNext, npc = "drain"
               PROVE  cleaned' \o Contents' = cleaned \o Contents
    OBVIOUS
  <2>1. CASE NukeDrain
    BY <2>1, TurnKeepsOrder DEF SharedInv
  <2>2. CASE NukeUnlock
    BY <2>2 DEF NukeUnlock, Contents, At, Slot, ring
  <2>3. CASE Use
    <3>1. UNCHANGED <<ring, cleaned>>
      BY <2>3, LockedOut DEF Use
    <3> QED
      BY <3>1 DEF Contents, At, Slot, ring
  <2> QED
    BY <2>1, <2>2, <2>3 DEF SharedNext, NukeSteps, NukeLock, NukeFreeBuffer, NukeDestroy
<1> QED
  BY <1>1, SharedInitially, SharedSteps, PTL DEF SharedSpec, DrainInOrder

-----------------------------------------------------------------------------
(* Callers that keep away are a special case, so all of the above holds there.  *)
THEOREM QuietIsShared == QuietSpec => SharedSpec
<1>1. [QuietNext]_teardownVars => [SharedNext]_teardownVars
  BY DEF QuietNext, SharedNext
<1> QED
  BY <1>1, PTL DEF QuietSpec, SharedSpec

(* The drain of a queue whose callers keep away is in order, too.               *)
THEOREM TeardownKeepsOrder == QuietSpec => DrainInOrder
  BY QuietIsShared, DrainKeepsOrder, PTL

(* With callers that keep away, no thread is in a call once the nuke has begun,  *)
(* and nothing is queued again behind its back.                                  *)
QuietInv ==
    /\ npc # "idle" => AllIdle
    /\ npc \in Released => size = 0

LEMMA QuietSteps == QuietInv /\ [QuietNext]_teardownVars => QuietInv'
<1> SUFFICES ASSUME QuietInv, [QuietNext]_teardownVars PROVE QuietInv'
  OBVIOUS
<1> USE DEF QuietInv, AllIdle, Released
<1>1. CASE npc = "idle" /\ Use
  BY <1>1 DEF Use
<1>2. CASE (npc = "idle" => AllIdle) /\ NukeSteps
  BY <1>2 DEF NukeSteps, NukeLock, NukeDrain, NukeUnlock, NukeFreeBuffer, NukeDestroy, vars, ring
<1>3. CASE UNCHANGED teardownVars
  BY <1>3 DEF teardownVars, vars, ring
<1> QED
  BY <1>1, <1>2, <1>3 DEF QuietNext

(* When the buffer is freed no thread is in a call, and the items that are not *)
(* their callers' are exactly those the drain took.                            *)
THEOREM TeardownLeavesNothing == QuietSpec => []NothingLeft
<1>1. SharedInv /\ QuietInv => NothingLeft
  <2> SUFFICES ASSUME SharedInv, QuietInv, npc \in Freed PROVE NothingLeft
    BY DEF NothingLeft
  <2>1. AllIdle /\ size = 0
    BY DEF QuietInv, Freed, Released
  <2>2. \A t \in Threads : ~ Holds(t)
    BY <2>1 DEF AllIdle, SharedInv, IInv, LocalsOK, Holds
  <2>3. Queued = {} /\ Held = {}
    BY <2>1, <2>2 DEF Queued, Held
  <2>4. Items \ Cleaned = free
    BY <2>3 DEF SharedInv, Accounted, Conserved
  <2>5. Cleaned \in SUBSET Items
    BY DEF SharedInv, Cleaned
  <2> QED
    BY <2>1, <2>4, <2>5 DEF NothingLeft
<1>2. TeardownInit => QuietInv
  BY DEF TeardownInit, QuietInv, Released
<1>3. QuietSpec => []SharedInv
  BY QuietIsShared, SharedInitially, SharedSteps, PTL DEF SharedSpec
<1> QED
  BY <1>1, <1>2, <1>3, QuietSteps, PTL DEF QuietSpec

-----------------------------------------------------------------------------
(* A queue's whole life is its making and its end, with the callers' use of it *)
(* in between: what is proved of either part holds of the whole.               *)
THEOREM LifetimeIsBoth == LifetimeSpec => QuietSpec /\ LifeSpec
<1>1. LifetimeInit => TeardownInit /\ LifeInit
  BY DEF LifetimeInit
<1>2. [LifetimeNext]_lifetimeVars => [QuietNext]_teardownVars
  BY DEF LifetimeNext, lifetimeVars, InUse, EndPlain, EndDrain, EndRelease, QuietNext,
         NukeSteps, NukeFreeBuffer, NukeDestroy
<1>3. [LifetimeNext]_lifetimeVars => [LifeNext]_lifeVars
  BY DEF LifetimeNext, lifetimeVars, InUse, EndPlain, EndDrain, EndRelease, LifeNext
<1> QED
  BY <1>1, <1>2, <1>3, PTL DEF LifetimeSpec, QuietSpec, LifeSpec

\* So the queue's end is orderly in the life of every queue that init has made.
THEOREM EveryLifeEndsWell == LifetimeSpec => []NothingLeft /\ []CleanedOnce /\ DrainInOrder
  BY LifetimeIsBoth, QuietIsShared, TeardownLeavesNothing, CleanupOwnsItsItems,
     TeardownKeepsOrder, PTL
=============================================================================
