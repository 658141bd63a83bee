------------------------ MODULE QueueLifecycleProofs ------------------------
(* Theorems about QueueLifecycle, for every width of size_t and of pointers. *)
EXTENDS QueueLifecycle, TLAPS

USE DEF Resources, Order

LEMMA Quotient ==
    ASSUME NEW a \in Nat, NEW b \in Nat \ {0}
    PROVE  a \div b \in Nat /\ (a \div b) * b <= a
  OBVIOUS

LEMMA ProductMonotone ==
    ASSUME NEW a \in Nat, NEW b \in Nat, NEW c \in Nat, a <= b
    PROVE  a * c <= b * c
<1>1. PICK d \in Nat : b = a + d
  <2> WITNESS b - a \in Nat
  <2> QED
    OBVIOUS
<1>2. b * c = a * c + d * c /\ d * c \in Nat /\ a * c \in Nat
  BY <1>1
<1> QED
  BY <1>2

(* A capacity that passes init's test leaves room for the byte count of the *)
(* buffer, and for size + 1 and tail + 1.                                    *)
LEMMA MaxCapacityFits ==
    ASSUME NEW c \in 1 .. MaxCapacity
    PROVE  c * PtrSize <= SizeMax /\ c + 1 <= SizeMax /\ c \in 1 .. SizeMax
<1>1. PICK q \in Nat : q = SizeMax \div PtrSize /\ q * PtrSize <= SizeMax
  BY SizeAssumption, Quotient
<1>2. (q \div 2) \in Nat /\ (q \div 2) * 2 <= q
  BY Quotient
<1>3. c <= q /\ c + 1 <= q /\ c \in Nat
  BY <1>1, <1>2 DEF MaxCapacity
<1>4. c * PtrSize <= q * PtrSize
  BY <1>3, ProductMonotone, SizeAssumption
<1>5. 1 * q <= PtrSize * q
  BY SizeAssumption, ProductMonotone
<1>6. c * PtrSize \in Nat /\ q * PtrSize \in Nat /\ PtrSize * q = q * PtrSize
  BY <1>3, SizeAssumption
<1> QED
  BY <1>1, <1>3, <1>4, <1>5, <1>6, SizeAssumption

-----------------------------------------------------------------------------
(* Past the test of the capacity, the capacity is one that passed it. *)
CapacityChecked ==
    stage \in Resources \cup {"product", "live", "ending", "gone"} => capacity \in 1 .. MaxCapacity

LEMMA TypeStep == LifeTypeOK /\ [LifeNext]_lifeVars => LifeTypeOK'
<1> SUFFICES ASSUME LifeTypeOK, [LifeNext]_lifeVars PROVE LifeTypeOK'
  OBVIOUS
<1> USE DEF LifeTypeOK, Stages, Fail
<1>1. CASE CheckCapacity
  BY <1>1 DEF CheckCapacity
<1>2. CASE CheckProduct
  BY <1>2 DEF CheckProduct
<1>3. CASE Nuke \/ FreeBuffer \/ DestroyRest
  BY <1>3 DEF Nuke, FreeBuffer, DestroyRest
<1>4. CASE NukeNull
  BY <1>4 DEF NukeNull
<1>5. ASSUME NEW r \in Resources, Acquire(r)
      PROVE  LifeTypeOK'
  BY <1>5 DEF Acquire, NextStage
<1>6. ASSUME NEW r \in Resources, AcquireFails(r)
      PROVE  LifeTypeOK'
  BY <1>6 DEF AcquireFails, FailCode
<1>7. CASE UNCHANGED lifeVars
  BY <1>7 DEF lifeVars
<1> QED
  BY <1>1, <1>2, <1>3, <1>4, <1>5, <1>6, <1>7 DEF LifeNext, Make

LEMMA UnwindStep == UnwindExact /\ [LifeNext]_lifeVars => UnwindExact'
<1> SUFFICES ASSUME UnwindExact, [LifeNext]_lifeVars PROVE UnwindExact'
  OBVIOUS
<1> USE DEF UnwindExact, Unwind, Fail
<1>1. CASE CheckCapacity
  BY <1>1 DEF CheckCapacity
<1>2. CASE CheckProduct
  BY <1>2 DEF CheckProduct
<1>3. CASE Nuke \/ FreeBuffer \/ DestroyRest
  BY <1>3 DEF Nuke, FreeBuffer, DestroyRest
<1>4. CASE NukeNull
  BY <1>4 DEF NukeNull
<1>5. ASSUME NEW r \in Resources, Acquire(r)
      PROVE  UnwindExact'
  BY <1>5 DEF Acquire, NextStage
<1>6. ASSUME NEW r \in Resources, AcquireFails(r)
      PROVE  UnwindExact'
  BY <1>6 DEF AcquireFails
<1>7. CASE UNCHANGED lifeVars
  BY <1>7 DEF lifeVars
<1> QED
  BY <1>1, <1>2, <1>3, <1>4, <1>5, <1>6, <1>7 DEF LifeNext, Make

LEMMA CapacityStep == CapacityChecked /\ [LifeNext]_lifeVars => CapacityChecked'
<1> SUFFICES ASSUME CapacityChecked, [LifeNext]_lifeVars PROVE CapacityChecked'
  OBVIOUS
<1> USE DEF CapacityChecked, Fail
<1>1. CASE CheckCapacity
  BY <1>1 DEF CheckCapacity
<1>2. CASE CheckProduct
  BY <1>2 DEF CheckProduct
<1>3. CASE Nuke \/ FreeBuffer \/ DestroyRest
  BY <1>3 DEF Nuke, FreeBuffer, DestroyRest
<1>4. CASE NukeNull
  BY <1>4 DEF NukeNull
<1>5. ASSUME NEW r \in Resources, Acquire(r)
      PROVE  CapacityChecked'
  BY <1>5 DEF Acquire, NextStage
<1>6. ASSUME NEW r \in Resources, AcquireFails(r)
      PROVE  CapacityChecked'
  BY <1>6 DEF AcquireFails
<1>7. CASE UNCHANGED lifeVars
  BY <1>7 DEF lifeVars
<1> QED
  BY <1>1, <1>2, <1>3, <1>4, <1>5, <1>6, <1>7 DEF LifeNext, Make

(* LifeTypeOK holds in every reachable state of init and of the two nukes. *)
THEOREM LifecycleTyped == LifeSpec => []LifeTypeOK
<1>1. LifeInit => LifeTypeOK
  BY DEF LifeInit, LifeTypeOK, Stages
<1> QED
  BY <1>1, TypeStep, PTL DEF LifeSpec

(* Whichever of init's six acquisitions fails, the branch written for it      *)
(* releases exactly what exists; nuke releases everything.                    *)
THEOREM UnwindIsExact == LifeSpec => []UnwindExact
<1>1. LifeInit => UnwindExact
  BY DEF LifeInit, UnwindExact
<1> QED
  BY <1>1, UnwindStep, PTL DEF LifeSpec

(* For every width of size_t and of pointers, a queue that init builds has a  *)
(* buffer whose byte count, and a size and tail whose increments, do not wrap. *)
THEOREM BufferAlwaysFits == LifeSpec => []BufferFits
<1>1. LifeInit => CapacityChecked
  BY DEF LifeInit, CapacityChecked
<1>2. CapacityChecked => BufferFits
  <2> SUFFICES ASSUME CapacityChecked, stage \in Resources \cup {"product", "live", "ending", "gone"}
               PROVE  capacity # 0 /\ ~ MulOverflows /\ capacity + 1 <= SizeMax
    BY DEF BufferFits
  <2>1. capacity \in 1 .. MaxCapacity
    BY DEF CapacityChecked
  <2>2. capacity * PtrSize <= SizeMax /\ capacity + 1 <= SizeMax /\ capacity \in 1 .. SizeMax
    BY <2>1, MaxCapacityFits
  <2>3. capacity * PtrSize \in Nat
    BY <2>2, SizeAssumption
  <2> QED
    BY <2>2, <2>3, SizeAssumption DEF MulOverflows
<1> QED
  BY <1>1, <1>2, CapacityStep, PTL DEF LifeSpec
=============================================================================
