------------------------- MODULE GenericQueueProofs -------------------------
(***************************************************************************)
(* Theorems about GenericQueue, for every set of threads, every capacity   *)
(* and every program of the threads: its invariants, and that it           *)
(* implements the atomic queue.                                            *)
(***************************************************************************)
EXTENDS QueueRefinement, Sequences, TLAPS

\* At most one turn round the ring: % is a single subtraction.
LEMMA Wrap ==
    \A h \in Slots, k \in 0 .. Capacity :
        (h + k) % Capacity = IF h + k < Capacity THEN h + k ELSE h + k - Capacity
  BY CapacityAssumption DEF Slots

LEMMA InitIInv == Init => IInv
  BY CapacityAssumption, NullAssumption, Wrap
     DEF Init, IInv, DataOK, LocksOK, LocalsOK, CriticalOK, RingOK, ErrnoOK, Slots, At,
         PCs, WritePC, ReadPC, MutexPC, FreePC, Codes, Ops, Slot, Adds, Pops, Status, Blocking

LEMMA DataStep == IInv /\ [Next]_vars => DataOK'
<1> SUFFICES ASSUME IInv, [Next]_vars PROVE DataOK'
  OBVIOUS
<1> USE CapacityAssumption DEF IInv, DataOK, CriticalOK, Blocked, Goto, Slots, Codes, Errors, PCs, WritePC, ReadPC, MutexPC, FreePC, Ops, Adds, Pops, Status, Blocking, ring, locks, local
<1>1. ASSUME NEW t \in Threads, NEW o \in Ops, NEW i \in Items, CallAdd(t, o, i)
     PROVE  DataOK'
  BY <1>1 DEF CallAdd
<1>2. ASSUME NEW t \in Threads, NEW o \in Ops,
            CallPop(t, o) \/ CallStatus(t, o) \/ CallNull(t, o)
     PROVE  DataOK'
  <2>1. CASE CallPop(t, o)
    BY <2>1 DEF CallPop
  <2>2. CASE CallStatus(t, o)
    BY <2>2 DEF CallStatus
  <2>3. CASE CallNull(t, o)
    BY <2>3 DEF CallNull
  <2> QED
    BY <1>2, <2>1, <2>2, <2>3
<1>3. ASSUME NEW t \in Threads, WriteLock(t) \/ Test(t) \/ UnlockToWait(t) \/ WriteUnlock(t)
     PROVE  DataOK'
  BY <1>3 DEF WriteLock, Test, UnlockToWait, WriteUnlock
<1>4. ASSUME NEW t \in Threads, UnlockToFail(t)
     PROVE  DataOK'
  BY <1>4 DEF UnlockToFail
<1>5. ASSUME NEW t \in Threads, Store(t)
     PROVE  DataOK'
  BY <1>5 DEF Store
<1>6. ASSUME NEW t \in Threads, Take(t)
     PROVE  DataOK'
  BY <1>6 DEF Take
<1>7. ASSUME NEW t \in Threads, AdvanceTail(t)
     PROVE  DataOK'
  BY <1>7 DEF AdvanceTail
<1>8. ASSUME NEW t \in Threads, AdvanceHead(t)
     PROVE  DataOK'
  BY <1>8 DEF AdvanceHead
<1>9. ASSUME NEW t \in Threads, WaitLock(t) \/ Wait(t) \/ WaitError(t) \/ Rewake(t) \/ WaitUnlockRetry(t)
     PROVE  DataOK'
  BY <1>9 DEF WaitLock, Wait, WaitError, Rewake, WaitUnlockRetry
<1>10. ASSUME NEW t \in Threads, WaitUnlockFail(t)
     PROVE  DataOK'
  BY <1>10 DEF WaitUnlockFail
<1>11. ASSUME NEW t \in Threads, SigLock(t) \/ SignalLost(t)
     PROVE  DataOK'
  BY <1>11 DEF SigLock, SignalLost
<1>12. ASSUME NEW t \in Threads, NEW w \in Threads, SignalWakes(t, w)
     PROVE  DataOK'
  BY <1>12 DEF SignalWakes, Waiters
<1>13. ASSUME NEW t \in Threads, ReadLock(t) \/ Read(t) \/ ReadUnlock(t)
     PROVE  DataOK'
  <2>1. CASE ReadLock(t) \/ ReadUnlock(t)
    BY <2>1 DEF ReadLock, ReadUnlock
  <2>2. CASE Read(t)
    <3>1. op[t] \in Status
      BY <2>2 DEF Read, LocalsOK, ReadPC
    <3>2. StatusValue(op[t], size) \in 0 .. Capacity
      BY <3>1, CapacityAssumption DEF StatusValue
    <3> QED
      BY <2>2, <3>2 DEF Read
  <2> QED
    BY <1>13, <2>1, <2>2
<1>14. ASSUME NEW t \in Threads, Return(t) \/ ClearError(t)
     PROVE  DataOK'
  <2>1. CASE Return(t)
    <3>1. free' \in SUBSET Items
      BY <2>1 DEF Return, Owned
    <3> QED
      BY <2>1, <3>1, CapacityAssumption DEF Return
  <2>2. CASE ClearError(t)
    BY <2>2 DEF ClearError
  <2> QED
    BY <1>14, <2>1, <2>2
<1>15. ASSUME NEW t \in Threads, Timeout(t) \/ SpuriousWake(t)
     PROVE  DataOK'
  BY <1>15 DEF Timeout, SpuriousWake, Wake
<1>16. ASSUME UNCHANGED vars
     PROVE  DataOK'
  BY <1>16 DEF vars, ring, locks, local
<1> QED
  BY <1>1, <1>2, <1>3, <1>4, <1>5, <1>6, <1>7, <1>8, <1>9, <1>10, <1>11, <1>12, <1>13, <1>14, <1>15, <1>16
     DEF Next, Call, Run, Transfer, Sleep, Signal, Query

LEMMA LocksStep == IInv /\ [Next]_vars => LocksOK'
<1> SUFFICES ASSUME IInv, [Next]_vars PROVE LocksOK'
  OBVIOUS
<1> USE NullAssumption DEF IInv, DataOK, LocksOK, Goto, PCs, WritePC, ReadPC, MutexPC, FreePC, ring, locks, local
<1>1. ASSUME NEW t \in Threads, NEW o \in Ops, NEW i \in Items, CallAdd(t, o, i)
     PROVE  LocksOK'
  BY <1>1 DEF CallAdd
<1>2. ASSUME NEW t \in Threads, NEW o \in Ops,
            CallPop(t, o) \/ CallStatus(t, o) \/ CallNull(t, o)
     PROVE  LocksOK'
  BY <1>2 DEF CallPop, CallStatus, CallNull
<1>3. ASSUME NEW t \in Threads, WriteLock(t) \/ Test(t) \/ UnlockToWait(t) \/ WriteUnlock(t)
     PROVE  LocksOK'
  BY <1>3 DEF WriteLock, Test, UnlockToWait, WriteUnlock
<1>4. ASSUME NEW t \in Threads, UnlockToFail(t)
     PROVE  LocksOK'
  BY <1>4 DEF UnlockToFail
<1>5. ASSUME NEW t \in Threads, Store(t)
     PROVE  LocksOK'
  BY <1>5 DEF Store
<1>6. ASSUME NEW t \in Threads, Take(t)
     PROVE  LocksOK'
  BY <1>6 DEF Take
<1>7. ASSUME NEW t \in Threads, AdvanceTail(t)
     PROVE  LocksOK'
  BY <1>7 DEF AdvanceTail
<1>8. ASSUME NEW t \in Threads, AdvanceHead(t)
     PROVE  LocksOK'
  BY <1>8 DEF AdvanceHead
<1>9. ASSUME NEW t \in Threads, WaitLock(t) \/ Wait(t) \/ WaitError(t) \/ Rewake(t) \/ WaitUnlockRetry(t)
     PROVE  LocksOK'
  BY <1>9 DEF WaitLock, Wait, WaitError, Rewake, WaitUnlockRetry
<1>10. ASSUME NEW t \in Threads, WaitUnlockFail(t)
     PROVE  LocksOK'
  BY <1>10 DEF WaitUnlockFail
<1>11. ASSUME NEW t \in Threads, SigLock(t) \/ SignalLost(t)
     PROVE  LocksOK'
  BY <1>11 DEF SigLock, SignalLost
<1>12. ASSUME NEW t \in Threads, NEW w \in Threads, SignalWakes(t, w)
     PROVE  LocksOK'
  BY <1>12 DEF SignalWakes, Waiters
<1>13. ASSUME NEW t \in Threads, ReadLock(t) \/ Read(t) \/ ReadUnlock(t)
     PROVE  LocksOK'
  BY <1>13 DEF ReadLock, Read, ReadUnlock, StatusValue
<1>14. ASSUME NEW t \in Threads, Return(t) \/ ClearError(t)
     PROVE  LocksOK'
  BY <1>14 DEF Return, ClearError, Owned
<1>15. ASSUME NEW t \in Threads, Timeout(t) \/ SpuriousWake(t)
     PROVE  LocksOK'
  BY <1>15 DEF Timeout, SpuriousWake, Wake
<1>16. ASSUME UNCHANGED vars
     PROVE  LocksOK'
  BY <1>16 DEF vars, ring, locks, local
<1> QED
  BY <1>1, <1>2, <1>3, <1>4, <1>5, <1>6, <1>7, <1>8, <1>9, <1>10, <1>11, <1>12, <1>13, <1>14, <1>15, <1>16
     DEF Next, Call, Run, Transfer, Sleep, Signal, Query

\* Slots of the ring are numbered from head without colliding.
LEMMA SlotsApart ==
    ASSUME head \in Slots, NEW j \in 0 .. Capacity - 1, NEW k \in 0 .. Capacity - 1
    PROVE  /\ Slot(j) \in Slots
           /\ Slot(j) = Slot(k) => j = k
<1>1. /\ Slot(j) = IF head + j < Capacity THEN head + j ELSE head + j - Capacity
      /\ Slot(k) = IF head + k < Capacity THEN head + k ELSE head + k - Capacity
  BY Wrap, CapacityAssumption DEF Slot, Slots
<1> QED
  BY <1>1, CapacityAssumption DEF Slots

\* Moving head, or tail, on by one slot.
LEMMA NextSlot ==
    ASSUME NEW h \in Slots, NEW k \in 0 .. Capacity - 1
    PROVE  /\ (h + 1) % Capacity \in Slots
           /\ (((h + 1) % Capacity) + k) % Capacity = (h + (k + 1)) % Capacity
           /\ (((h + k) % Capacity) + 1) % Capacity = (h + (k + 1)) % Capacity
<1>1. 1 \in 0 .. Capacity /\ k \in 0 .. Capacity /\ k + 1 \in 0 .. Capacity
  BY CapacityAssumption
<1>2. (h + 1) % Capacity = IF h + 1 < Capacity THEN h + 1 ELSE h + 1 - Capacity
  BY <1>1, Wrap
<1>3. (h + k) % Capacity = IF h + k < Capacity THEN h + k ELSE h + k - Capacity
  BY <1>1, Wrap
<1>4. (h + 1) % Capacity \in Slots /\ (h + k) % Capacity \in Slots
  BY <1>2, <1>3, CapacityAssumption DEF Slots
<1>5. (h + (k + 1)) % Capacity
        = IF h + (k + 1) < Capacity THEN h + (k + 1) ELSE h + (k + 1) - Capacity
  BY <1>1, Wrap
<1>6. ASSUME NEW g \in Slots, g = (h + 1) % Capacity
      PROVE  (g + k) % Capacity = (h + (k + 1)) % Capacity
  <2>1. (g + k) % Capacity = IF g + k < Capacity THEN g + k ELSE g + k - Capacity
    BY <1>1, Wrap
  <2>2. g = IF h + 1 < Capacity THEN h + 1 ELSE h + 1 - Capacity
    BY <1>2, <1>6
  <2>3. (IF g + k < Capacity THEN g + k ELSE g + k - Capacity)
          = IF h + (k + 1) < Capacity THEN h + (k + 1) ELSE h + (k + 1) - Capacity
    BY <2>2, CapacityAssumption DEF Slots
  <2> QED
    BY <2>1, <2>3, <1>5
<1>7. ASSUME NEW g \in Slots, g = (h + k) % Capacity
      PROVE  (g + 1) % Capacity = (h + (k + 1)) % Capacity
  <2>1. (g + 1) % Capacity = IF g + 1 < Capacity THEN g + 1 ELSE g + 1 - Capacity
    BY <1>1, Wrap
  <2>2. g = IF h + k < Capacity THEN h + k ELSE h + k - Capacity
    BY <1>3, <1>7
  <2>3. (IF g + 1 < Capacity THEN g + 1 ELSE g + 1 - Capacity)
          = IF h + (k + 1) < Capacity THEN h + (k + 1) ELSE h + (k + 1) - Capacity
    BY <2>2, CapacityAssumption DEF Slots
  <2> QED
    BY <2>1, <2>3, <1>5
<1> QED
  BY <1>4, <1>6, <1>7

LEMMA FirstSlot == head \in Slots => Slot(0) = head
<1> SUFFICES ASSUME NEW h \in Slots PROVE (h + 0) % Capacity = h
  BY DEF Slot
<1> QED
  BY CapacityAssumption DEF Slots

\* What the three steps that touch the ring do to the queued items.  A store
\* writes a slot that is not queued yet; moving tail queues it at the end;
\* moving head drops the first and renumbers the others.
LEMMA StoreEffect ==
    ASSUME IInv, NEW t \in Threads, Store(t)
    PROVE  \A k \in 0 .. size - 1 : At(k)' = At(k)
<1> USE CapacityAssumption DEF IInv
<1>1. size < Capacity
  BY DEF Store, Goto, CriticalOK, Blocked, DataOK
<1>2. tail = Slot(size)
  BY DEF RingOK, Slot
<1>3. \A k \in 0 .. size - 1 : Slot(k) \in Slots /\ Slot(k) # tail
  BY <1>1, <1>2, SlotsApart DEF DataOK
<1> QED
  BY <1>3 DEF Store, At, Slot, DataOK

LEMMA TailEffect ==
    ASSUME IInv, NEW t \in Threads, AdvanceTail(t)
    PROVE  /\ size < Capacity /\ size' = size + 1
           /\ tail' = (head' + size') % Capacity
           /\ \A k \in 0 .. size - 1 : At(k)' = At(k)
           /\ \A k \in {size} : At(k)' = item[t]
<1> USE CapacityAssumption DEF IInv
<1>1. size < Capacity /\ buffer[tail] = item[t]
  BY DEF AdvanceTail, Goto, CriticalOK, Blocked, DataOK
<1>2. tail = Slot(size)
  BY DEF RingOK, Slot
<1>3. tail' = (head' + size') % Capacity
  <2>1. head \in Slots /\ size \in 0 .. Capacity - 1
    BY <1>1 DEF DataOK
  <2>2. (tail + 1) % Capacity = (head + (size + 1)) % Capacity
    BY <2>1, NextSlot DEF RingOK
  <2> QED
    BY <2>2 DEF AdvanceTail
<1> QED
  BY <1>1, <1>2, <1>3 DEF AdvanceTail, At, Slot

LEMMA HeadEffect ==
    ASSUME IInv, NEW t \in Threads, AdvanceHead(t)
    PROVE  /\ size > 0 /\ size' = size - 1
           /\ tail' = (head' + size') % Capacity
           /\ At(0) = item[t]
           /\ \A k \in 0 .. size - 2 : At(k)' = At(k + 1)
<1> USE CapacityAssumption DEF IInv
<1>1. size > 0 /\ item[t] = buffer[head]
  BY DEF AdvanceHead, Goto, CriticalOK, Blocked, Adds, Pops, DataOK
<1>2. ASSUME NEW k \in 0 .. size - 1
      PROVE  (head' + k) % Capacity = (head + (k + 1)) % Capacity
  BY NextSlot DEF AdvanceHead, DataOK
<1>3. tail' = (head' + size') % Capacity
  <2>1. size - 1 \in 0 .. size - 1 /\ (size - 1) + 1 = size
    BY <1>1 DEF DataOK
  <2>2. (head' + (size - 1)) % Capacity = (head + size) % Capacity
    BY <1>2, <2>1
  <2> QED
    BY <2>2 DEF AdvanceHead, RingOK
<1>4. Slot(0) = head
  BY FirstSlot DEF DataOK
<1>5. ASSUME NEW k \in 0 .. size - 2
      PROVE  At(k)' = At(k + 1)
  BY <1>2 DEF AdvanceHead, At, Slot, DataOK
<1> QED
  BY <1>1, <1>3, <1>4, <1>5 DEF AdvanceHead, At

LEMMA LocalsStep == IInv /\ [Next]_vars => LocalsOK'
<1> SUFFICES ASSUME IInv, [Next]_vars PROVE LocalsOK'
  OBVIOUS
<1> USE NullAssumption DEF IInv, DataOK, LocalsOK, CriticalOK, Committed, Goto, PCs, WritePC, ReadPC, MutexPC, FreePC, Ops, Adds, Pops, Status, Blocking, ring, locks, local
<1>1. ASSUME NEW t \in Threads, NEW o \in Ops, NEW i \in Items, CallAdd(t, o, i)
     PROVE  LocalsOK'
  BY <1>1 DEF CallAdd
<1>2. ASSUME NEW t \in Threads, NEW o \in Ops,
            CallPop(t, o) \/ CallStatus(t, o) \/ CallNull(t, o)
     PROVE  LocalsOK'
  BY <1>2 DEF CallPop, CallStatus, CallNull
<1>3. ASSUME NEW t \in Threads, WriteLock(t) \/ Test(t) \/ UnlockToWait(t) \/ WriteUnlock(t)
     PROVE  LocalsOK'
  BY <1>3 DEF WriteLock, Test, UnlockToWait, WriteUnlock
<1>4. ASSUME NEW t \in Threads, UnlockToFail(t)
     PROVE  LocalsOK'
  BY <1>4 DEF UnlockToFail
<1>5. ASSUME NEW t \in Threads, Store(t)
     PROVE  LocalsOK'
  BY <1>5 DEF Store
<1>6. ASSUME NEW t \in Threads, Take(t)
     PROVE  LocalsOK'
  <2>1. buffer[head] # NULL
    <3>1. size # 0 /\ size \in Nat /\ head \in Slots
      BY <1>6 DEF Take, Goto, Blocked
    <3> QED
      BY <3>1, FirstSlot DEF RingOK, At
  <2> QED
    BY <1>6, <2>1 DEF Take
<1>7. ASSUME NEW t \in Threads, AdvanceTail(t)
     PROVE  LocalsOK'
  BY <1>7 DEF AdvanceTail
<1>8. ASSUME NEW t \in Threads, AdvanceHead(t)
     PROVE  LocalsOK'
  BY <1>8 DEF AdvanceHead
<1>9. ASSUME NEW t \in Threads, WaitLock(t) \/ Wait(t) \/ WaitError(t) \/ Rewake(t) \/ WaitUnlockRetry(t)
     PROVE  LocalsOK'
  BY <1>9 DEF WaitLock, Wait, WaitError, Rewake, WaitUnlockRetry
<1>10. ASSUME NEW t \in Threads, WaitUnlockFail(t)
     PROVE  LocalsOK'
  BY <1>10 DEF WaitUnlockFail
<1>11. ASSUME NEW t \in Threads, SigLock(t) \/ SignalLost(t)
     PROVE  LocalsOK'
  BY <1>11 DEF SigLock, SignalLost
<1>12. ASSUME NEW t \in Threads, NEW w \in Threads, SignalWakes(t, w)
     PROVE  LocalsOK'
  BY <1>12 DEF SignalWakes, Waiters
<1>13. ASSUME NEW t \in Threads, ReadLock(t) \/ Read(t) \/ ReadUnlock(t)
     PROVE  LocalsOK'
  BY <1>13 DEF ReadLock, Read, ReadUnlock, StatusValue
<1>14. ASSUME NEW t \in Threads, Return(t) \/ ClearError(t)
     PROVE  LocalsOK'
  BY <1>14 DEF Return, ClearError, Owned
<1>15. ASSUME NEW t \in Threads, Timeout(t) \/ SpuriousWake(t)
     PROVE  LocalsOK'
  BY <1>15 DEF Timeout, SpuriousWake, Wake
<1>16. ASSUME UNCHANGED vars
     PROVE  LocalsOK'
  BY <1>16 DEF vars, ring, locks, local
<1> QED
  BY <1>1, <1>2, <1>3, <1>4, <1>5, <1>6, <1>7, <1>8, <1>9, <1>10, <1>11, <1>12, <1>13, <1>14, <1>15, <1>16
     DEF Next, Call, Run, Transfer, Sleep, Signal, Query

LEMMA CriticalStep == IInv /\ [Next]_vars => CriticalOK'
<1> SUFFICES ASSUME IInv, [Next]_vars PROVE CriticalOK'
  OBVIOUS
<1> USE CapacityAssumption DEF IInv, DataOK, LocksOK, LocalsOK, CriticalOK, Blocked, Goto, Slots, WritePC, Ops, Adds, Pops, Status, Blocking, ring, locks, local
<1>1. ASSUME NEW t \in Threads, NEW o \in Ops, NEW i \in Items, CallAdd(t, o, i)
     PROVE  CriticalOK'
  BY <1>1 DEF CallAdd
<1>2. ASSUME NEW t \in Threads, NEW o \in Ops,
            CallPop(t, o) \/ CallStatus(t, o) \/ CallNull(t, o)
     PROVE  CriticalOK'
  BY <1>2 DEF CallPop, CallStatus, CallNull
<1>3. ASSUME NEW t \in Threads, WriteLock(t) \/ Test(t) \/ UnlockToWait(t) \/ WriteUnlock(t)
     PROVE  CriticalOK'
  BY <1>3 DEF WriteLock, Test, UnlockToWait, WriteUnlock
<1>4. ASSUME NEW t \in Threads, UnlockToFail(t)
     PROVE  CriticalOK'
  BY <1>4 DEF UnlockToFail
<1>5. ASSUME NEW t \in Threads, Store(t)
     PROVE  CriticalOK'
  BY <1>5 DEF Store
<1>6. ASSUME NEW t \in Threads, Take(t)
     PROVE  CriticalOK'
  BY <1>6 DEF Take
<1>7. ASSUME NEW t \in Threads, AdvanceTail(t)
     PROVE  CriticalOK'
  BY <1>7 DEF AdvanceTail
<1>8. ASSUME NEW t \in Threads, AdvanceHead(t)
     PROVE  CriticalOK'
  BY <1>8 DEF AdvanceHead
<1>9. ASSUME NEW t \in Threads, WaitLock(t) \/ Wait(t) \/ WaitError(t) \/ Rewake(t) \/ WaitUnlockRetry(t)
     PROVE  CriticalOK'
  BY <1>9 DEF WaitLock, Wait, WaitError, Rewake, WaitUnlockRetry
<1>10. ASSUME NEW t \in Threads, WaitUnlockFail(t)
     PROVE  CriticalOK'
  BY <1>10 DEF WaitUnlockFail
<1>11. ASSUME NEW t \in Threads, SigLock(t) \/ SignalLost(t)
     PROVE  CriticalOK'
  BY <1>11 DEF SigLock, SignalLost
<1>12. ASSUME NEW t \in Threads, NEW w \in Threads, SignalWakes(t, w)
     PROVE  CriticalOK'
  BY <1>12 DEF SignalWakes, Waiters
<1>13. ASSUME NEW t \in Threads, ReadLock(t) \/ Read(t) \/ ReadUnlock(t)
     PROVE  CriticalOK'
  BY <1>13 DEF ReadLock, Read, ReadUnlock, StatusValue
<1>14. ASSUME NEW t \in Threads, Return(t) \/ ClearError(t)
     PROVE  CriticalOK'
  BY <1>14 DEF Return, ClearError, Owned
<1>15. ASSUME NEW t \in Threads, Timeout(t) \/ SpuriousWake(t)
     PROVE  CriticalOK'
  BY <1>15 DEF Timeout, SpuriousWake, Wake
<1>16. ASSUME UNCHANGED vars
     PROVE  CriticalOK'
  BY <1>16 DEF vars, ring, locks, local
<1> QED
  BY <1>1, <1>2, <1>3, <1>4, <1>5, <1>6, <1>7, <1>8, <1>9, <1>10, <1>11, <1>12, <1>13, <1>14, <1>15, <1>16
     DEF Next, Call, Run, Transfer, Sleep, Signal, Query

LEMMA RingMoves ==
    [Next]_vars => \/ UNCHANGED ring
                   \/ \E t \in Threads : Store(t) \/ AdvanceTail(t) \/ AdvanceHead(t)
  BY DEF Next, Call, Run, Transfer, Sleep, Signal, Query, CallAdd, CallPop, CallStatus,
         CallNull, WriteLock, Test, UnlockToWait, UnlockToFail, Take, WriteUnlock,
         WaitLock, Wait, WaitError, Rewake, WaitUnlockRetry, WaitUnlockFail, SigLock,
         SignalLost, SignalWakes, ReadLock, Read, ReadUnlock, Return, ClearError,
         Timeout, SpuriousWake, Wake, vars, ring

LEMMA RingStep == IInv /\ [Next]_vars => RingOK'
<1> SUFFICES ASSUME IInv, [Next]_vars PROVE RingOK'
  OBVIOUS
<1> USE DEF IInv
<1>1. CASE UNCHANGED ring
  BY <1>1 DEF RingOK, At, Slot, ring
<1>2. ASSUME NEW t \in Threads, Store(t)
      PROVE  RingOK'
  BY <1>2, StoreEffect DEF Store, RingOK
<1>3. ASSUME NEW t \in Threads, AdvanceTail(t)
      PROVE  RingOK'
  <2>1. item[t] # NULL
    BY <1>3 DEF AdvanceTail, Goto, LocalsOK
  <2>2. \A k \in 0 .. size' - 1 : k \in 0 .. size - 1 \/ k \in {size}
    BY <1>3, TailEffect DEF DataOK
  <2> QED
    BY <1>3, <2>1, <2>2, TailEffect DEF RingOK
<1>4. ASSUME NEW t \in Threads, AdvanceHead(t)
      PROVE  RingOK'
  <2>1. \A k \in 0 .. size' - 1 : k \in 0 .. size - 2 /\ k + 1 \in 0 .. size - 1
    BY <1>4, HeadEffect DEF DataOK
  <2> QED
    BY <1>4, <2>1, HeadEffect DEF RingOK
<1> QED
  BY <1>1, <1>2, <1>3, <1>4, RingMoves

LEMMA ErrnoStep == IInv /\ [Next]_vars => ErrnoOK'
<1> SUFFICES ASSUME IInv, [Next]_vars PROVE ErrnoOK'
  OBVIOUS
<1> USE NullAssumption DEF IInv, DataOK, LocalsOK, ErrnoOK, Committed, Goto, PCs, WritePC, ReadPC, MutexPC, FreePC, Ops, Adds, Pops, Status, Blocking, ring, locks, local
<1>1. ASSUME NEW t \in Threads, NEW o \in Ops, NEW i \in Items, CallAdd(t, o, i)
     PROVE  ErrnoOK'
  BY <1>1 DEF CallAdd
<1>2. ASSUME NEW t \in Threads, NEW o \in Ops,
            CallPop(t, o) \/ CallStatus(t, o) \/ CallNull(t, o)
     PROVE  ErrnoOK'
  BY <1>2 DEF CallPop, CallStatus, CallNull
<1>3. ASSUME NEW t \in Threads, WriteLock(t) \/ Test(t) \/ UnlockToWait(t) \/ WriteUnlock(t)
     PROVE  ErrnoOK'
  BY <1>3 DEF WriteLock, Test, UnlockToWait, WriteUnlock
<1>4. ASSUME NEW t \in Threads, UnlockToFail(t)
     PROVE  ErrnoOK'
  BY <1>4 DEF UnlockToFail
<1>5. ASSUME NEW t \in Threads, Store(t)
     PROVE  ErrnoOK'
  BY <1>5 DEF Store
<1>6. ASSUME NEW t \in Threads, Take(t)
     PROVE  ErrnoOK'
  BY <1>6 DEF Take
<1>7. ASSUME NEW t \in Threads, AdvanceTail(t)
     PROVE  ErrnoOK'
  BY <1>7 DEF AdvanceTail
<1>8. ASSUME NEW t \in Threads, AdvanceHead(t)
     PROVE  ErrnoOK'
  BY <1>8 DEF AdvanceHead
<1>9. ASSUME NEW t \in Threads, WaitLock(t) \/ Wait(t) \/ WaitError(t) \/ Rewake(t) \/ WaitUnlockRetry(t)
     PROVE  ErrnoOK'
  BY <1>9 DEF WaitLock, Wait, WaitError, Rewake, WaitUnlockRetry
<1>10. ASSUME NEW t \in Threads, WaitUnlockFail(t)
     PROVE  ErrnoOK'
  BY <1>10 DEF WaitUnlockFail
<1>11. ASSUME NEW t \in Threads, SigLock(t) \/ SignalLost(t)
     PROVE  ErrnoOK'
  BY <1>11 DEF SigLock, SignalLost
<1>12. ASSUME NEW t \in Threads, NEW w \in Threads, SignalWakes(t, w)
     PROVE  ErrnoOK'
  BY <1>12 DEF SignalWakes, Waiters
<1>13. ASSUME NEW t \in Threads, ReadLock(t) \/ Read(t) \/ ReadUnlock(t)
     PROVE  ErrnoOK'
  BY <1>13 DEF ReadLock, Read, ReadUnlock, StatusValue
<1>14. ASSUME NEW t \in Threads, Return(t) \/ ClearError(t)
     PROVE  ErrnoOK'
  BY <1>14 DEF Return, ClearError, Owned
<1>15. ASSUME NEW t \in Threads, Timeout(t) \/ SpuriousWake(t)
     PROVE  ErrnoOK'
  BY <1>15 DEF Timeout, SpuriousWake, Wake
<1>16. ASSUME UNCHANGED vars
     PROVE  ErrnoOK'
  BY <1>16 DEF vars, ring, locks, local
<1> QED
  BY <1>1, <1>2, <1>3, <1>4, <1>5, <1>6, <1>7, <1>8, <1>9, <1>10, <1>11, <1>12, <1>13, <1>14, <1>15, <1>16
     DEF Next, Call, Run, Transfer, Sleep, Signal, Query

LEMMA StepIInv == IInv /\ [Next]_vars => IInv'
  BY DataStep, LocksStep, LocalsStep, CriticalStep, RingStep, ErrnoStep DEF IInv

LEMMA InvariantIInv == Spec => []IInv
  BY InitIInv, StepIInv, PTL DEF Spec

\* Only a free lock is taken, and only by a thread; only its holder releases it.
LEMMA WriterMoves ==
    ASSUME IInv, [Next]_vars
    PROVE  \/ writer' = writer
           \/ writer = NULL /\ writer' \in Threads
           \/ writer \in Threads /\ writer' = NULL
<1>1. \A t \in Threads : pc[t] \in WritePC => writer = t
  BY DEF IInv, LocksOK
<1>2. ASSUME NEW t \in Threads, WriteLock(t) \/ UnlockToWait(t) \/ UnlockToFail(t) \/ WriteUnlock(t)
      PROVE  \/ writer = NULL /\ writer' \in Threads
             \/ writer \in Threads /\ writer' = NULL
  BY <1>1, <1>2 DEF WriteLock, UnlockToWait, UnlockToFail, WriteUnlock, Goto, WritePC
<1>3. \/ writer' = writer
      \/ \E t \in Threads : WriteLock(t) \/ UnlockToWait(t) \/ UnlockToFail(t) \/ WriteUnlock(t)
  BY DEF Next, Call, Run, Transfer, Sleep, Signal, Query, CallAdd, CallPop, CallStatus,
         CallNull, Test, Store, Take, AdvanceTail, AdvanceHead, WaitLock, Wait, WaitError, Rewake,
         WaitUnlockRetry, WaitUnlockFail, SigLock, SignalLost, SignalWakes, ReadLock, Read,
         ReadUnlock, Return, ClearError, Timeout, SpuriousWake, Wake, vars, locks
<1> QED
  BY <1>2, <1>3

WriterOK == writer \in Threads \cup {NULL}

LEMMA WriterTyped == Spec => []WriterOK
<1>1. Init => WriterOK
  BY DEF Init, WriterOK
<1>2. IInv /\ WriterOK /\ [Next]_vars => WriterOK'
  BY WriterMoves DEF WriterOK
<1> QED
  BY <1>1, <1>2, InvariantIInv, PTL DEF Spec

\* Every variable keeps its type: in particular size never leaves
\* 0 .. Capacity, although size++ and size-- are unguarded where they stand.
THEOREM TypeCorrect == Spec => []TypeOK
<1>1. IInv /\ WriterOK => TypeOK
  BY DEF IInv, TypeOK, WriterOK
<1> QED
  BY <1>1, InvariantIInv, WriterTyped, PTL

\* The read-write lock excludes, both locks are released on every path out of
\* an operation, and no thread asks for cond_mutex while it holds rwlock.
THEOREM LocksCorrect == Spec => []LocksOK
  BY InvariantIInv, PTL DEF IInv

\* head, tail and size describe one ring without holes in every state.
THEOREM RingCorrect == Spec => []RingOK
  BY InvariantIInv, PTL DEF IInv

\* queue_errno and the returned code agree, and a failed pop yields NULL.
THEOREM ErrnoCorrect == Spec => []ErrnoOK
  BY InvariantIInv, PTL DEF IInv

(* The thread that has a lock is not waiting for one. *)
LEMMA HolderIsReady ==
    ASSUME IInv, NEW t \in Threads, writer = t \/ t \in readers \/ mutex = t
    PROVE  Ready(t)
  BY DEF IInv, LocksOK, Ready, WritePC, ReadPC, MutexPC

(* No interleaving of any number of threads can stop them all: who waits for a *)
(* lock waits for somebody who can go on.                                       *)
THEOREM NeverDeadlocked == Spec => []NoDeadlock
<1>1. IInv /\ WriterOK => NoDeadlock
  <2> SUFFICES ASSUME IInv, WriterOK, NEW t \in Threads, pc[t] # "idle", ~ Ready(t)
               PROVE  \E h \in Holders(t) \ {t} : Ready(h)
    BY DEF NoDeadlock
  <2>1. writer \in Threads \cup {NULL} /\ mutex \in Threads \cup {NULL} /\ readers \subseteq Threads
    BY DEF IInv, DataOK, WriterOK
  <2>2. \E h \in Threads : /\ h \in Holders(t)
                           /\ writer = h \/ h \in readers \/ mutex = h
    BY <2>1 DEF Ready, Holders
  <2> QED
    BY <2>2, HolderIsReady
<1> QED
  BY <1>1, InvariantIInv, WriterTyped, PTL

LEMMA WritersStep ==
    IInv /\ [Next]_vars => (ring' # ring => writer # NULL /\ writer' = writer /\ readers = {})
<1> SUFFICES ASSUME IInv, [Next]_vars, ring' # ring
             PROVE  writer # NULL /\ writer' = writer /\ readers = {}
  OBVIOUS
<1>1. PICK t \in Threads : Store(t) \/ AdvanceTail(t) \/ AdvanceHead(t)
  BY RingMoves
<1>2. writer = t
  BY <1>1 DEF Store, AdvanceTail, AdvanceHead, Goto, IInv, LocksOK, WritePC
<1>3. readers = {}
  BY <1>2, NullAssumption DEF IInv, LocksOK
<1>4. writer' = writer
  BY <1>1 DEF Store, AdvanceTail, AdvanceHead, locks
<1> QED
  BY <1>2, <1>3, <1>4, NullAssumption

\* The ring changes only under the write lock, with no reader inside.
THEOREM OnlyWritersWrite == Spec => WritersOnly
<1>1. IInv /\ [Next]_vars
        => [ring' # ring => writer # NULL /\ writer' = writer /\ readers = {}]_vars
  BY WritersStep
<1> QED
  BY <1>1, InvariantIInv, PTL DEF Spec, WritersOnly

-----------------------------------------------------------------------------
(* Ownership of the items. *)

\* A step that moves no item: same ring, same free items, same holders.
LEMMA ConservedFrame ==
    ASSUME NEW S, Conserved(S), UNCHANGED <<ring, free>>,
           \A t \in Threads : /\ Holds(t)' <=> Holds(t)
                              /\ Holds(t) => item'[t] = item[t]
    PROVE  Conserved(S)'
<1>1. Queued' = Queued /\ \A k : At(k)' = At(k)
  BY DEF Queued, At, Slot, ring
<1>2. Held' = Held
  BY DEF Held
<1> QED
  BY <1>1, <1>2 DEF Conserved, Held, ring

LEMMA ConservedCallAdd ==
    ASSUME IInv, NEW S, Conserved(S), NEW t \in Threads, NEW o \in Ops, NEW i \in Items,
           CallAdd(t, o, i)
    PROVE  Conserved(S)'
<1>1. Queued' = Queued /\ \A k : At(k)' = At(k)
  BY DEF CallAdd, Queued, At, Slot, ring
<1>2. ~ Holds(t) /\ Holds(t)' /\ item'[t] = i
  BY NullAssumption DEF CallAdd, Goto, Holds, Committed, IInv, LocalsOK, DataOK, Adds
<1>3. \A u \in Threads \ {t} : (Holds(u)' <=> Holds(u)) /\ item'[u] = item[u]
  BY DEF CallAdd, Goto, Holds, Committed, IInv, DataOK
<1>4. Held' = Held \cup {i}
  BY <1>2, <1>3 DEF Held
<1> QED
  BY <1>1, <1>2, <1>3, <1>4 DEF Conserved, Held, CallAdd, ring

LEMMA ConservedReturn ==
    ASSUME IInv, NEW S, Conserved(S), NEW t \in Threads, Return(t)
    PROVE  Conserved(S)'
<1>1. Queued' = Queued /\ \A k : At(k)' = At(k)
  BY DEF Return, Queued, At, Slot, ring
<1>2. ~ Holds(t)' /\ (Holds(t) <=> Owned(t))
  BY DEF Return, Goto, Holds, Owned, Committed, IInv, DataOK, LocalsOK, ErrnoOK, Adds, Pops
<1>3. \A u \in Threads \ {t} : (Holds(u)' <=> Holds(u)) /\ item'[u] = item[u]
  BY DEF Return, Goto, Holds, Committed, IInv, DataOK
<1>4. free' = IF Holds(t) THEN free \cup {item[t]} ELSE free
  BY <1>2 DEF Return
<1>5. /\ ~ Holds(t) => Held' = Held
      /\ Holds(t) => Held = Held' \cup {item[t]}
  BY <1>2, <1>3 DEF Held
<1>6. CASE ~ Holds(t)
  BY <1>1, <1>2, <1>3, <1>4, <1>5, <1>6 DEF Conserved, Held, Return, ring
<1>7. CASE Holds(t)
  <2>1. item[t] \notin Queued /\ \A u \in Threads \ {t} : Holds(u) => item[u] # item[t]
    BY <1>7 DEF Conserved
  <2>2. S = free' \cup Queued' \cup Held'
    BY <1>1, <1>4, <1>5, <1>7 DEF Conserved, Held
  <2>3. free' \cap Queued' = {}
    BY <1>1, <1>4, <1>7, <2>1 DEF Conserved
  <2>4. ASSUME NEW u \in Threads, Holds(u)'
        PROVE  /\ item'[u] \notin free' \cup Queued'
               /\ \A v \in Threads \ {u} : Holds(v)' => item'[v] # item'[u]
    BY <1>1, <1>2, <1>3, <1>4, <1>7, <2>1, <2>4 DEF Conserved
  <2>5. \A j, k \in 0 .. size' - 1 : At(j)' = At(k)' => j = k
    BY <1>1 DEF Conserved, Return, ring
  <2> QED
    BY <2>2, <2>3, <2>4, <2>5 DEF Conserved, Held
<1> QED
  BY <1>6, <1>7

LEMMA ConservedStore ==
    ASSUME IInv, NEW S, Conserved(S), NEW t \in Threads, Store(t)
    PROVE  Conserved(S)'
<1>1. \A k \in 0 .. size - 1 : At(k)' = At(k)
  BY StoreEffect
<1>2. size' = size /\ free' = free /\ Queued' = Queued
  BY <1>1 DEF Store, Queued
<1>3. \A u \in Threads : (Holds(u)' <=> Holds(u)) /\ item'[u] = item[u]
  BY DEF Store, Goto, Holds, Committed, local, IInv, DataOK
<1>4. Held' = Held
  BY <1>3 DEF Held
<1> QED
  BY <1>1, <1>2, <1>3, <1>4 DEF Conserved, Held

LEMMA ConservedTail ==
    ASSUME IInv, NEW S, Conserved(S), NEW t \in Threads, AdvanceTail(t)
    PROVE  Conserved(S)'
<1>1. /\ size' = size + 1 /\ free' = free
      /\ \A k \in 0 .. size - 1 : At(k)' = At(k)
      /\ \A k \in {size} : At(k)' = item[t]
  BY TailEffect DEF AdvanceTail
<1>2. \A k : k \in 0 .. size' - 1 <=> k \in 0 .. size - 1 \/ k \in {size}
  BY <1>1 DEF IInv, DataOK
<1>3. Queued' = Queued \cup {item[t]}
  BY <1>1, <1>2 DEF Queued
<1>4. Holds(t) /\ ~ Holds(t)'
  BY DEF AdvanceTail, Goto, Holds, Committed, local, IInv, DataOK, LocalsOK
<1>5. \A u \in Threads : item'[u] = item[u] /\ (u # t => (Holds(u)' <=> Holds(u)))
  BY DEF AdvanceTail, Goto, Holds, Committed, local, IInv, DataOK
<1>6. item[t] \notin Queued /\ item[t] \notin free
  BY <1>4 DEF Conserved
<1>7. \A j, k \in 0 .. size' - 1 : At(j)' = At(k)' => j = k
  BY <1>1, <1>2, <1>6 DEF Conserved, Queued
<1>8. Held = Held' \cup {item[t]}
  BY <1>4, <1>5 DEF Held
<1> QED
  BY <1>1, <1>3, <1>4, <1>5, <1>6, <1>7, <1>8 DEF Conserved, Held

LEMMA ConservedHead ==
    ASSUME IInv, NEW S, Conserved(S), NEW t \in Threads, AdvanceHead(t)
    PROVE  Conserved(S)'
<1>1. /\ size > 0 /\ size' = size - 1 /\ free' = free
      /\ At(0) = item[t]
      /\ \A k \in 0 .. size - 2 : At(k)' = At(k + 1)
  BY HeadEffect DEF AdvanceHead
<1>2. /\ \A k \in 0 .. size' - 1 : k \in 0 .. size - 2 /\ k + 1 \in 0 .. size - 1
      /\ \A k \in 0 .. size - 1 : k = 0 \/ (k - 1 \in 0 .. size' - 1 /\ (k - 1) + 1 = k)
      /\ 0 \in 0 .. size - 1
  BY <1>1 DEF IInv, DataOK
<1>3. Queued = Queued' \cup {item[t]}
  BY <1>1, <1>2 DEF Queued
<1>4. item[t] \notin Queued'
  BY <1>1, <1>2 DEF Queued, Conserved
<1>5. ~ Holds(t) /\ Holds(t)'
  BY DEF AdvanceHead, Goto, Holds, Committed, local, IInv, DataOK, LocalsOK, Adds, Pops
<1>6. \A u \in Threads : item'[u] = item[u] /\ (u # t => (Holds(u)' <=> Holds(u)))
  BY DEF AdvanceHead, Goto, Holds, Committed, local, IInv, DataOK
<1>7. \A j, k \in 0 .. size' - 1 : At(j)' = At(k)' => j = k
  BY <1>1, <1>2 DEF Conserved
<1>8. Held' = Held \cup {item[t]}
  BY <1>5, <1>6 DEF Held
<1> QED
  BY <1>1, <1>3, <1>4, <1>5, <1>6, <1>7, <1>8 DEF Conserved, Held

\* The steps of one thread t that move no item.
Quiet(t) ==
    \/ \E o \in Ops : CallPop(t, o) \/ CallStatus(t, o) \/ CallNull(t, o)
    \/ WriteLock(t) \/ Test(t) \/ UnlockToWait(t) \/ UnlockToFail(t) \/ Take(t)
    \/ WriteUnlock(t) \/ Sleep(t) \/ Signal(t) \/ Query(t) \/ ClearError(t)
    \/ Timeout(t) \/ SpuriousWake(t)

LEMMA ConservedQuiet ==
    ASSUME IInv, NEW S, Conserved(S), NEW t \in Threads, Quiet(t)
    PROVE  Conserved(S)'
<1> USE NullAssumption DEF IInv, DataOK, LocalsOK, Holds, Committed, Goto, WritePC, ReadPC,
        Codes, Errors, Adds, Pops, Status, Blocking, ring, locks, local
<1> SUFFICES /\ UNCHANGED <<ring, free>>
             /\ \A u \in Threads : /\ Holds(u)' <=> Holds(u)
                                   /\ Holds(u) => item'[u] = item[u]
  BY ConservedFrame
<1>1. ASSUME NEW o \in Ops, CallPop(t, o) \/ CallStatus(t, o) \/ CallNull(t, o)
      PROVE  /\ UNCHANGED <<ring, free>>
             /\ \A u \in Threads : /\ Holds(u)' <=> Holds(u)
                                   /\ Holds(u) => item'[u] = item[u]
  BY <1>1 DEF CallPop, CallStatus, CallNull
<1>2. CASE WriteLock(t) \/ Test(t) \/ UnlockToWait(t) \/ WriteUnlock(t)
  BY <1>2 DEF WriteLock, Test, UnlockToWait, WriteUnlock
<1>3. CASE UnlockToFail(t)
  BY <1>3 DEF UnlockToFail
<1>4. CASE Take(t)
  BY <1>4 DEF Take
<1>5. CASE Sleep(t)
  BY <1>5 DEF Sleep, WaitLock, Wait, WaitError, Rewake, WaitUnlockRetry, WaitUnlockFail
<1>6. CASE Signal(t)
  BY <1>6 DEF Signal, SigLock, SignalLost, SignalWakes, Waiters
<1>7. CASE Query(t)
  BY <1>7 DEF Query, ReadLock, Read, ReadUnlock
<1>8. CASE ClearError(t) \/ Timeout(t) \/ SpuriousWake(t)
  BY <1>8 DEF ClearError, Timeout, SpuriousWake, Wake
<1> QED
  BY <1>1, <1>2, <1>3, <1>4, <1>5, <1>6, <1>7, <1>8 DEF Quiet

LEMMA ConservedStep ==
    ASSUME IInv, NEW S, Conserved(S), [Next]_vars
    PROVE  Conserved(S)'
<1>1. CASE UNCHANGED vars
  <2>1. \A t \in Threads : (Holds(t)' <=> Holds(t)) /\ item'[t] = item[t]
    BY <1>1 DEF vars, local, Holds, Committed
  <2> QED
    BY <1>1, <2>1, ConservedFrame DEF vars
<1>2. ASSUME NEW t \in Threads,
             \/ \E o \in Ops, i \in Items : CallAdd(t, o, i)
             \/ Store(t) \/ AdvanceTail(t) \/ AdvanceHead(t) \/ Return(t) \/ Quiet(t)
      PROVE  Conserved(S)'
  BY <1>2, ConservedCallAdd, ConservedStore, ConservedTail, ConservedHead, ConservedReturn,
     ConservedQuiet
<1> QED
  BY <1>1, <1>2 DEF Next, Call, Run, Transfer, Quiet

LEMMA InitConserved == Init => ItemsConserved
  BY NullAssumption, CapacityAssumption DEF Init, ItemsConserved, Conserved, Held, Queued, Holds

\* No interleaving of adds, pops, timeouts and errors loses an item, queues it
\* twice or gives it to two threads.
THEOREM NoItemLostOrShared == Spec => []ItemsConserved
<1>1. IInv /\ ItemsConserved /\ [Next]_vars => ItemsConserved'
  BY ConservedStep DEF ItemsConserved
<1> QED
  BY <1>1, InitConserved, InvariantIInv, PTL DEF Spec

-----------------------------------------------------------------------------
(* The refinement: every step is a step of the atomic queue, or a stutter. *)

LEMMA InitRefines == Init => Abstract!Init
<1> SUFFICES ASSUME Init PROVE Abstract!Init
  OBVIOUS
<1>1. Queue = <<>>
  BY DEF Init, Queue
<1>2. /\ Phase = [t \in Threads |-> "idle"]
      /\ Item = [t \in Threads |-> NULL]
      /\ Ret = [t \in Threads |-> "none"]
  BY DEF Init, Phase, Item, Ret, Answered, Committed, Pops
<1> QED
  BY <1>1, <1>2 DEF Init, Abstract!Init

LEMMA QueueFrame == UNCHANGED ring => Queue' = Queue
  BY DEF Queue, At, Slot, ring

\* A step that leaves the mapped variables alone is a stutter of the queue.
LEMMA Stutter ==
    ASSUME UNCHANGED <<ring, queue_errno, op, seen>>, Phase' = Phase, Item' = Item, Ret' = Ret
    PROVE  UNCHANGED Abstract!vars
  BY QueueFrame DEF Abstract!vars

LEMMA CallAddRefines ==
    ASSUME IInv, NEW t \in Threads, NEW o \in Ops, NEW i \in Items, CallAdd(t, o, i)
    PROVE  Phase[t] = "idle" /\ o \in Abstract!Adds /\ Abstract!Invoke(t, o, i)
<1> USE DEF IInv, DataOK, LocalsOK, CallAdd, Goto
<1>1. Queue' = Queue
  BY QueueFrame
<1>2. Phase[t] = "idle" /\ Phase' = [Phase EXCEPT ![t] = "called"]
  BY DEF Phase, Answered, Committed
<1>3. Item' = [Item EXCEPT ![t] = i]
  BY DEF Item, Committed, Adds, Pops
<1>4. Ret' = Ret
  BY DEF Ret, Answered, Committed
<1> QED
  BY <1>1, <1>2, <1>3, <1>4 DEF Abstract!Invoke, Abstract!Adds, Adds

LEMMA CallPopRefines ==
    ASSUME IInv, NEW t \in Threads, NEW o \in Ops, CallPop(t, o)
    PROVE  Phase[t] = "idle" /\ o \notin Abstract!Adds /\ Abstract!Invoke(t, o, NULL)
<1>1. Queue' = Queue
  BY QueueFrame DEF CallPop
<1> USE DEF IInv, DataOK, LocalsOK, CallPop, Goto
<1>2. Phase[t] = "idle" /\ Phase' = [Phase EXCEPT ![t] = "called"]
  BY DEF Phase, Answered, Committed
<1>3. Item' = [Item EXCEPT ![t] = NULL]
  BY DEF Item, Committed, Pops
<1>4. Ret' = Ret
  BY DEF Ret, Answered, Committed
<1> QED
  BY <1>1, <1>2, <1>3, <1>4 DEF Abstract!Invoke, Abstract!Adds, Adds, Pops

LEMMA CallStatusRefines ==
    ASSUME IInv, NEW t \in Threads, NEW o \in Ops, CallStatus(t, o)
    PROVE  Phase[t] = "idle" /\ o \notin Abstract!Adds /\ Abstract!Invoke(t, o, NULL)
<1>1. Queue' = Queue
  BY QueueFrame DEF CallStatus
<1> USE DEF IInv, DataOK, LocalsOK, CallStatus, Goto
<1>2. Phase[t] = "idle" /\ Phase' = [Phase EXCEPT ![t] = "called"]
  BY DEF Phase, Answered, Committed
<1>3. Item' = [Item EXCEPT ![t] = NULL]
  BY DEF Item, Committed, Pops, Status
<1>4. Ret' = Ret
  BY DEF Ret, Answered, Committed
<1> QED
  BY <1>1, <1>2, <1>3, <1>4 DEF Abstract!Invoke, Abstract!Adds, Adds, Status

LEMMA CallNullRefines ==
    ASSUME IInv, NEW t \in Threads, NEW o \in Ops, CallNull(t, o)
    PROVE  Phase[t] = "idle" /\ Abstract!RejectNull(t, o)
<1> USE DEF IInv, DataOK, LocalsOK, CallNull, Goto
<1>1. Queue' = Queue
  BY QueueFrame
<1>2. Phase[t] = "idle" /\ Phase' = [Phase EXCEPT ![t] = "answered"]
  BY DEF Phase, Answered, Committed
<1>3. Item' = Item
  BY DEF Item, Committed, Pops
<1>4. Ret' = [Ret EXCEPT ![t] = "ERR_NULL"]
  BY DEF Ret, Answered, Committed
<1> QED
  BY <1>1, <1>2, <1>3, <1>4 DEF Abstract!RejectNull, Abstract!Answer

LEMMA TailRefines ==
    ASSUME IInv, NEW t \in Threads, AdvanceTail(t)
    PROVE  Abstract!Enqueue(t)
<1>0. /\ size < Capacity /\ size' = size + 1 /\ size \in Nat
      /\ \A k \in 0 .. size - 1 : At(k)' = At(k)
      /\ \A k \in {size} : At(k)' = item[t]
  BY TailEffect DEF IInv, DataOK
<1> USE DEF IInv, DataOK, LocalsOK, AdvanceTail, Goto, local
<1>1. Queue' = Append(Queue, Item[t])
  <2>1. Item[t] = item[t]
    BY DEF Item, Adds, Pops
  <2>2. \A k \in 1 .. size : At(k - 1)' = At(k - 1)
    BY <1>0
  <2>3. \A k \in {size + 1} : At(k - 1)' = item[t]
    BY <1>0
  <2> QED
    BY <1>0, <2>1, <2>2, <2>3 DEF Queue
<1>2. Phase[t] = "called" /\ Phase' = [Phase EXCEPT ![t] = "answered"]
  BY DEF Phase, Answered, Committed
<1>3. Item' = Item
  BY DEF Item, Committed, Adds, Pops
<1>4. Ret' = [Ret EXCEPT ![t] = "SUCCESS"]
  BY DEF Ret, Answered, Committed
<1>5. Len(Queue) < Capacity
  BY <1>0 DEF Queue
<1>6. queue_errno' = [queue_errno EXCEPT ![t] = "SUCCESS"]
  OBVIOUS
<1> QED
  BY <1>1, <1>2, <1>3, <1>4, <1>5, <1>6
     DEF Abstract!Enqueue, Abstract!Answer, Abstract!Adds, Adds

LEMMA HeadRefines ==
    ASSUME IInv, NEW t \in Threads, AdvanceHead(t)
    PROVE  Abstract!Dequeue(t)
<1>0. /\ size > 0 /\ size' = size - 1 /\ size \in Nat
      /\ At(0) = item[t]
      /\ \A k \in 0 .. size - 2 : At(k)' = At(k + 1)
  BY HeadEffect DEF IInv, DataOK
<1> USE DEF IInv, DataOK, LocalsOK, AdvanceHead, Goto, local
<1>1. Queue # <<>> /\ item[t] = Head(Queue) /\ Queue' = Tail(Queue)
  <2>1. \A k \in 1 .. size - 1 : At(k - 1)' = At(k)
    BY <1>0
  <2>2. Len(Queue) = size /\ Queue[1] = item[t]
    BY <1>0 DEF Queue
  <2>3. Tail(Queue) = [k \in 1 .. size - 1 |-> At(k)]
    BY <1>0 DEF Queue
  <2>4. Queue' = [k \in 1 .. size - 1 |-> At(k)]
    BY <1>0, <2>1 DEF Queue
  <2>5. Queue # <<>>
    BY <1>0, <2>2
  <2>6. Head(Queue) = item[t]
    BY <1>0, <2>2 DEF Queue
  <2> QED
    BY <2>3, <2>4, <2>5, <2>6
<1>2. Phase[t] = "called" /\ Phase' = [Phase EXCEPT ![t] = "answered"]
  BY DEF Phase, Answered, Committed
<1>3. Item' = [Item EXCEPT ![t] = item[t]]
  BY DEF Item, Committed, Pops
<1>4. Ret' = [Ret EXCEPT ![t] = "SUCCESS"]
  BY DEF Ret, Answered, Committed
<1>5. queue_errno' = [queue_errno EXCEPT ![t] = "SUCCESS"]
  OBVIOUS
<1> QED
  BY <1>1, <1>2, <1>3, <1>4, <1>5
     DEF Abstract!Dequeue, Abstract!Answer, Abstract!Pops, Pops

LEMMA UnlockToFailRefines ==
    ASSUME IInv, NEW t \in Threads, UnlockToFail(t)
    PROVE  Abstract!Refuse(t)
<1> DEFINE code == IF op[t] = "try_add" THEN "ERR_FULL" ELSE "ERR_EMPTY"
<1>1. Queue' = Queue
  BY QueueFrame DEF UnlockToFail
<1>2. /\ op[t] \in {"try_add", "try_pop"}
      /\ op[t] = "try_add" => Len(Queue) = Capacity
      /\ op[t] = "try_pop" => Queue = <<>>
  BY DEF UnlockToFail, Goto, IInv, DataOK, LocalsOK, CriticalOK, Blocked, WritePC, Adds,
         Pops, Blocking, Queue
<1> USE DEF IInv, DataOK, LocalsOK, UnlockToFail, Goto
<1>3. Phase[t] = "called" /\ Phase' = [Phase EXCEPT ![t] = "answered"]
  BY DEF Phase, Answered, Committed
<1>4. Item' = Item
  BY DEF Item, Committed
<1>5. Ret' = [Ret EXCEPT ![t] = code]
  BY DEF Ret, Answered, Committed
<1> QED
  BY <1>1, <1>2, <1>3, <1>4, <1>5 DEF Abstract!Refuse, Abstract!Answer

LEMMA WaitUnlockFailRefines ==
    ASSUME IInv, NEW t \in Threads, WaitUnlockFail(t)
    PROVE  Abstract!GiveUp(t)
<1> DEFINE code == IF result[t] = "timeout" THEN "ERR_TIMEOUT" ELSE "ERR_THREAD"
<1>1. Queue' = Queue
  BY QueueFrame DEF WaitUnlockFail
<1> USE DEF IInv, DataOK, LocalsOK, WaitUnlockFail, Goto
<1>2. op[t] \in Blocking
  OBVIOUS
<1>3. Phase[t] = "called" /\ Phase' = [Phase EXCEPT ![t] = "answered"]
  BY DEF Phase, Answered, Committed
<1>4. Item' = Item
  BY DEF Item, Committed
<1>5. Ret' = [Ret EXCEPT ![t] = code]
  BY DEF Ret, Answered, Committed
<1> QED
  BY <1>1, <1>2, <1>3, <1>4, <1>5
     DEF Abstract!GiveUp, Abstract!Answer, Abstract!Blocking, Blocking

LEMMA ReadRefines ==
    ASSUME IInv, NEW t \in Threads, Read(t)
    PROVE  Abstract!Observe(t)
<1>1. Queue' = Queue
  BY QueueFrame DEF Read
<1>2. op[t] \in Status /\ Len(Queue) = size /\ (Queue = <<>> <=> size = 0)
  <2>1. op[t] \in Status
    BY DEF Read, Goto, IInv, LocalsOK, ReadPC
  <2>2. size \in Nat
    BY DEF IInv, DataOK
  <2>3. Len(Queue) = size
    BY <2>2 DEF Queue
  <2>4. size = 0 => Queue = <<>>
    BY DEF Queue
  <2> QED
    BY <2>1, <2>3, <2>4
<1>3. Abstract!StatusValue(op[t]) = StatusValue(op[t], size)
  BY <1>2 DEF Abstract!StatusValue, StatusValue
<1> USE DEF IInv, DataOK, LocalsOK, Read, Goto
<1>4. Phase[t] = "called" /\ Phase' = [Phase EXCEPT ![t] = "answered"]
  BY DEF Phase, Answered, Committed
<1>5. Item' = Item
  BY DEF Item, Committed
<1>6. Ret' = [Ret EXCEPT ![t] = "SUCCESS"]
  BY DEF Ret, Answered, Committed
<1>7. queue_errno' = [queue_errno EXCEPT ![t] = "SUCCESS"]
  OBVIOUS
<1> QED
  BY <1>1, <1>2, <1>3, <1>4, <1>5, <1>6, <1>7
     DEF Abstract!Observe, Abstract!Answer, Abstract!Status, Status

LEMMA ReturnRefines ==
    ASSUME IInv, NEW t \in Threads, Return(t)
    PROVE  Abstract!Return(t)
<1>1. Queue' = Queue
  BY QueueFrame DEF Return
<1> USE DEF IInv, DataOK, Return, Goto
<1>2. Phase[t] = "answered" /\ Phase' = [Phase EXCEPT ![t] = "idle"]
  BY DEF Phase, Answered, Committed
<1>3. Item' = [Item EXCEPT ![t] = NULL]
  BY DEF Item, Committed
<1>4. Ret' = [Ret EXCEPT ![t] = "none"]
  BY DEF Ret, Answered, Committed
<1> QED
  BY <1>1, <1>2, <1>3, <1>4 DEF Abstract!Return

LEMMA ClearErrorRefines ==
    ASSUME IInv, NEW t \in Threads, ClearError(t)
    PROVE  Abstract!ClearError(t)
<1>1. Queue' = Queue
  BY QueueFrame DEF ClearError
<1>2. Phase[t] = "idle" /\ Phase' = Phase /\ Item' = Item /\ Ret' = Ret
  BY DEF ClearError, Phase, Item, Ret, Answered, Committed
<1> QED
  BY <1>1, <1>2 DEF ClearError, Abstract!ClearError

\* What every other step of a thread is to the atomic queue: nothing.
Silent(t) ==
    \/ WriteLock(t) \/ Test(t) \/ UnlockToWait(t) \/ Store(t) \/ Take(t) \/ WriteUnlock(t)
    \/ WaitLock(t) \/ Wait(t) \/ WaitError(t) \/ Rewake(t) \/ WaitUnlockRetry(t)
    \/ Signal(t) \/ ReadLock(t) \/ ReadUnlock(t) \/ Timeout(t) \/ SpuriousWake(t)

LEMMA SilentRefines ==
    ASSUME IInv, NEW t \in Threads, Silent(t)
    PROVE  UNCHANGED Abstract!vars
<1>1. CASE Store(t)
  <2>1. Queue' = Queue
    <3>1. \A k \in 0 .. size - 1 : At(k)' = At(k)
      BY <1>1, StoreEffect
    <3>2. size' = size /\ size \in Nat
      BY <1>1 DEF Store, IInv, DataOK
    <3>3. \A k \in 1 .. size : At(k - 1)' = At(k - 1)
      BY <3>1, <3>2
    <3> QED
      BY <3>2, <3>3 DEF Queue
  <2>2. Phase' = Phase /\ Item' = Item /\ Ret' = Ret
    BY <1>1 DEF Store, Goto, local, Phase, Item, Ret, Answered, Committed, IInv, DataOK
  <2> QED
    BY <1>1, <2>1, <2>2 DEF Store, local, Abstract!vars
<1>2. CASE Take(t)
  <2>1. Phase' = Phase /\ Item' = Item /\ Ret' = Ret
    BY <1>2 DEF Take, Goto, Phase, Item, Ret, Answered, Committed, IInv, DataOK
  <2> QED
    BY <1>2, <2>1, Stutter DEF Take
<1>3. CASE WriteLock(t) \/ Test(t) \/ UnlockToWait(t) \/ WriteUnlock(t)
  <2>1. Phase' = Phase /\ Item' = Item /\ Ret' = Ret
    BY <1>3 DEF WriteLock, Test, UnlockToWait, WriteUnlock, Goto, local, Phase, Item, Ret,
                Answered, Committed, IInv, DataOK
  <2> QED
    BY <1>3, <2>1, Stutter DEF WriteLock, Test, UnlockToWait, WriteUnlock, local
<1>4. CASE WaitLock(t) \/ Wait(t) \/ WaitError(t) \/ Rewake(t) \/ WaitUnlockRetry(t)
  <2>1. Phase' = Phase /\ Item' = Item /\ Ret' = Ret
    BY <1>4 DEF WaitLock, Wait, WaitError, Rewake, WaitUnlockRetry, Goto, local, Phase,
                Item, Ret, Answered, Committed, IInv, DataOK
  <2> QED
    BY <1>4, <2>1, Stutter DEF WaitLock, Wait, WaitError, Rewake, WaitUnlockRetry, local
<1>5. CASE SigLock(t) \/ SignalLost(t) \/ Timeout(t) \/ SpuriousWake(t)
  <2>1. Phase' = Phase /\ Item' = Item /\ Ret' = Ret
    BY <1>5 DEF SigLock, SignalLost, Timeout, SpuriousWake, Wake, Goto, local, Phase,
                Item, Ret, Answered, Committed, IInv, DataOK, LocalsOK
  <2> QED
    BY <1>5, <2>1, Stutter DEF SigLock, SignalLost, Timeout, SpuriousWake, Wake, local
<1>6. ASSUME NEW w \in Threads, SignalWakes(t, w)
      PROVE  UNCHANGED Abstract!vars
  <2>1. Phase' = Phase /\ Item' = Item /\ Ret' = Ret
    BY <1>6 DEF SignalWakes, Waiters, Phase, Item, Ret, Answered, Committed, IInv, DataOK,
                LocalsOK
  <2> QED
    BY <1>6, <2>1, Stutter DEF SignalWakes
<1>7. CASE ReadLock(t) \/ ReadUnlock(t)
  <2>1. Phase' = Phase /\ Item' = Item /\ Ret' = Ret
    BY <1>7 DEF ReadLock, ReadUnlock, Goto, local, Phase, Item, Ret, Answered, Committed,
                IInv, DataOK, LocalsOK, ReadPC, Pops, Status
  <2> QED
    BY <1>7, <2>1, Stutter DEF ReadLock, ReadUnlock, local
<1> QED
  BY <1>1, <1>2, <1>3, <1>4, <1>5, <1>6, <1>7 DEF Silent, Signal

LEMMA StepRefines == IInv /\ [Next]_vars => [Abstract!Next]_(Abstract!vars)
<1> SUFFICES ASSUME IInv, [Next]_vars PROVE Abstract!Next \/ UNCHANGED Abstract!vars
  OBVIOUS
<1>1. CASE UNCHANGED vars
  BY <1>1, Stutter DEF vars, local, Phase, Item, Ret, Answered, Committed
<1>2. ASSUME NEW t \in Threads, NEW o \in Ops, NEW i \in Items, CallAdd(t, o, i)
      PROVE  Abstract!Next
  BY <1>2, CallAddRefines
     DEF Abstract!Next, Abstract!Call, Abstract!Ops, Abstract!Adds
<1>3. ASSUME NEW t \in Threads, NEW o \in Ops,
             CallPop(t, o) \/ CallStatus(t, o) \/ CallNull(t, o)
      PROVE  Abstract!Next
  <2>1. o \in Abstract!Ops
    BY DEF Ops, Adds, Pops, Status, Abstract!Ops, Abstract!Adds, Abstract!Pops, Abstract!Status
  <2> QED
    BY <1>3, <2>1, CallPopRefines, CallStatusRefines, CallNullRefines
       DEF Abstract!Next, Abstract!Call
<1>4. ASSUME NEW t \in Threads,
             \/ AdvanceTail(t) \/ AdvanceHead(t) \/ UnlockToFail(t) \/ WaitUnlockFail(t)
             \/ Read(t) \/ Return(t) \/ ClearError(t)
      PROVE  Abstract!Next
  BY <1>4, TailRefines, HeadRefines, UnlockToFailRefines, WaitUnlockFailRefines,
     ReadRefines, ReturnRefines, ClearErrorRefines DEF Abstract!Next
<1>5. ASSUME NEW t \in Threads, Silent(t)
      PROVE  UNCHANGED Abstract!vars
  BY <1>5, SilentRefines
<1> QED
  BY <1>1, <1>2, <1>3, <1>4, <1>5 DEF Next, Call, Run, Transfer, Sleep, Query, Silent

\* Linearizability: whatever the threads do, the queue they see is a bounded
\* FIFO queue on which every call takes effect at one instant.
THEOREM QueueIsLinearizable == Spec => Linearizable
<1>1. Spec => Abstract!Spec
  BY InitRefines, StepRefines, InvariantIInv, PTL DEF Spec, Abstract!Spec
<1> QED
  BY <1>1 DEF Linearizable
=============================================================================
