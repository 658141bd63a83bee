------------------------ MODULE MessageDispatchProofs ------------------------
(* Theorems about MessageDispatch, for any set of requests and both byte     *)
(* orders.                                                                    *)
EXTENDS MessageDispatch, SequenceTheorems, TLAPS

Wire(b, c) == 256 * b + c

(* ntohs of what the host loads is the number the wire has, in both orders.   *)
LEMMA LoadedIsWire ==
    ASSUME little \in BOOLEAN, NEW i \in Cells, buffer[i] \in 0 .. 255, buffer[i + 1] \in 0 .. 255
    PROVE  ntohs(Load(i)) = Wire(buffer[i], buffer[i + 1])
<1> DEFINE b == buffer[i]
           c == buffer[i + 1]
<1>1. b \in 0 .. 255 /\ c \in 0 .. 255
  OBVIOUS
<1> HIDE DEF b, c
<1>2. CASE little
  <2>1. (b + 256 * c) % 256 = b /\ (b + 256 * c) \div 256 = c
    BY <1>1
  <2> QED
    BY <1>2, <2>1 DEF ntohs, Load, Swap, Wire, b, c
<1>3. CASE ~ little
  BY <1>3 DEF ntohs, Load, Wire
<1> QED
  BY <1>2, <1>3

(* What is stored after htons reaches the wire with its high byte first.      *)
LEMMA StoredIsWire ==
    ASSUME little \in BOOLEAN, NEW b \in 0 .. 255, NEW c \in 0 .. 255
    PROVE  Store(htons(Wire(b, c))) = <<b, c>>
<1>1. Wire(b, c) % 256 = c /\ Wire(b, c) \div 256 = b
  BY DEF Wire
<1>2. (256 * c + b) % 256 = b /\ (256 * c + b) \div 256 = c
  OBVIOUS
<1>3. CASE little
  BY <1>1, <1>2, <1>3 DEF Store, htons, ntohs, Swap
<1>4. CASE ~ little
  BY <1>1, <1>4 DEF Store, htons, ntohs
<1> QED
  BY <1>3, <1>4

-----------------------------------------------------------------------------
(* A byte pair has the value of the pair with these bytes, and no other.      *)
LEMMA WirePairs ==
    \A b, c \in 0 .. 255 : /\ (Wire(b, c) = 1) <=> (b = 0 /\ c = 1)
                           /\ (Wire(b, c) = 6) <=> (b = 0 /\ c = 6)
  BY DEF Wire

(* The buffer starts with the record that was read, until it is answered.     *)
DispatchInv ==
    /\ TypeOK
    /\ at = "handle" => /\ request \in Requests
                        /\ \A i \in 1 .. Len(request) : buffer[i] = request[i]
    /\ at = "read" => reply = <<>>
    /\ RepliesInKind

(* The server's tests see a ping exactly where the wire has one.              *)
LEMMA PingSeen ==
    ASSUME DispatchInv, at = "handle"
    PROVE  IsPing <=> WirePing(request)
<1>1. /\ request \in Requests /\ Len(request) \in Cells
      /\ \A i \in 1 .. Len(request) : buffer[i] = request[i]
      /\ \A i \in 1 .. Len(request) : i \in {5, 6, 9} \/ request[i] \in 0 .. 255
      /\ little \in BOOLEAN
  BY RequestAssumption DEF DispatchInv, TypeOK
<1>2. CASE Len(request) < HeaderCells
  BY <1>1, <1>2 DEF IsPing, WirePing, HeaderCells, Cells
<1>3. CASE Len(request) >= HeaderCells
  <2>1. ASSUME NEW i \in {1, 2, 3, 4, 7, 8}
        PROVE  buffer[i] = request[i] /\ request[i] \in 0 .. 255
    <3>1. i \in 1 .. Len(request)
      BY <1>1, <1>3 DEF HeaderCells, Cells
    <3>2. i \notin {5, 6, 9}
      OBVIOUS
    <3> QED
      BY <1>1, <3>1, <3>2, Zenon
  <2>2. /\ ntohs(Load(1)) = Wire(request[1], request[2])
        /\ ntohs(Load(3)) = Wire(request[3], request[4])
        /\ ntohs(Load(7)) = Wire(request[7], request[8])
    <3>1. 1 \in Cells /\ 3 \in Cells /\ 7 \in Cells /\ 1 + 1 = 2 /\ 3 + 1 = 4 /\ 7 + 1 = 8
      BY DEF Cells
    <3>2. ntohs(Load(1)) = Wire(buffer[1], buffer[1 + 1])
      BY <1>1, <2>1, <3>1, LoadedIsWire
    <3>3. ntohs(Load(3)) = Wire(buffer[3], buffer[3 + 1])
      BY <1>1, <2>1, <3>1, LoadedIsWire
    <3>4. ntohs(Load(7)) = Wire(buffer[7], buffer[7 + 1])
      BY <1>1, <2>1, <3>1, LoadedIsWire
    <3> QED
      BY <2>1, <3>1, <3>2, <3>3, <3>4
  <2>3. (Wire(request[1], request[2]) = 1) <=> (request[1] = 0 /\ request[2] = 1)
    <3>1. request[1] \in 0 .. 255 /\ request[2] \in 0 .. 255
      BY <2>1
    <3> QED
      BY <3>1, WirePairs, Zenon
  <2>4. (Wire(request[3], request[4]) = 6) <=> (request[3] = 0 /\ request[4] = 6)
    <3>1. request[3] \in 0 .. 255 /\ request[4] \in 0 .. 255
      BY <2>1
    <3> QED
      BY <3>1, WirePairs, Zenon
  <2> QED
    BY <1>3, <2>2, <2>3, <2>4
       DEF IsPing, WirePing, Wire, MSG_PING, SOCKET_BUFFER_SIZE, HeaderSize
<1> QED
  BY <1>1, <1>2, <1>3 DEF Cells, HeaderCells

(* The first n cells of a buffer, as a sequence.                              *)
LEMMA FirstCellsOf ==
    ASSUME NEW b \in [Cells -> Int], NEW n \in Cells
    PROVE  /\ SubSeq(b, 1, n) \in Seq(Int) /\ Len(SubSeq(b, 1, n)) = n
           /\ \A i \in 1 .. n : SubSeq(b, 1, n)[i] = b[i]
<1>1. n \in Int /\ 1 <= n /\ n - 1 + 1 = n /\ \A i \in 1 .. n : i \in Cells /\ 1 + i - 1 = i
  BY DEF Cells
<1>2. 1 \in Int /\ \A i \in 1 .. n : b[i] \in Int
  BY <1>1
<1>3. SubSeq(b, 1, n) \in Seq(Int)
  BY <1>1, <1>2, SubSeqProperties
<1>4. Len(SubSeq(b, 1, n)) = n
  BY <1>1, <1>2, SubSeqProperties
<1>5. \A i \in 1 .. n : SubSeq(b, 1, n)[i] = b[i]
  BY <1>1, <1>2, SubSeqProperties
<1> QED
  BY <1>3, <1>4, <1>5

LEMMA FirstCells ==
    \A b \in [Cells -> Int], n \in Cells :
        /\ SubSeq(b, 1, n) \in Seq(Int) /\ Len(SubSeq(b, 1, n)) = n
        /\ \A i \in 1 .. n : SubSeq(b, 1, n)[i] = b[i]
  BY FirstCellsOf, Zenon

(* A message with another version and type in front.                          *)
LEMMA Behind4 ==
    \A p, q \in Seq(Int) : Len(p) = 4 =>
        \A i \in 1 .. 4 + Len(q) : (p \o q)[i] = IF i <= 4 THEN p[i] ELSE q[i - 4]
<1> SUFFICES ASSUME NEW p \in Seq(Int), NEW q \in Seq(Int), Len(p) = 4, NEW i \in 1 .. 4 + Len(q)
             PROVE  (p \o q)[i] = IF i <= 4 THEN p[i] ELSE q[i - 4]
  OBVIOUS
<1>1. i \in 1 .. Len(p) + Len(q)
  OBVIOUS
<1>2. (p \o q)[i] = IF i <= Len(p) THEN p[i] ELSE q[i - Len(p)]
  BY <1>1, ConcatProperties
<1> QED
  BY <1>2, Zenon

LEMMA PongCells ==
    ASSUME NEW m \in Seq(Nat), Len(m) \in 8 .. 9, NEW r \in Seq(Int), Len(r) = Len(m),
           r[1] = 0, r[2] = 1, r[3] = 16, r[4] = 5, \A i \in 5 .. Len(m) : r[i] = m[i]
    PROVE  r = <<0, 1, 16, 5>> \o SubSeq(m, 5, Len(m))
<1> DEFINE p == <<0, 1, 16, 5>>
           q == SubSeq(m, 5, Len(m))
           t == p \o q
<1>1. p \in Seq(Int) /\ Len(p) = 4 /\ p[1] = 0 /\ p[2] = 1 /\ p[3] = 16 /\ p[4] = 5
  OBVIOUS
<1>2. /\ m \in Seq(Int) /\ Len(m) \in Nat /\ 5 <= Len(m)
      /\ \A i \in 5 .. Len(m) : m[i] \in Int
  <2>1. m \in Seq(Int)
    BY SeqMonotonic, Nat \subseteq Int
  <2>2. ASSUME NEW i \in 5 .. Len(m) PROVE m[i] \in Int
    <3>1. i \in 1 .. Len(m)
      OBVIOUS
    <3> QED
      BY <2>1, <3>1, ElementOfSeq, Zenon
  <2> QED
    BY <2>1, <2>2
<1>3. q \in Seq(Int) /\ Len(q) = Len(m) - 4
  BY <1>2, SMT
<1>4. \A i \in 1 .. Len(m) - 4 : q[i] = m[i + 4]
  BY SMT
<1> HIDE DEF p, q
<1>5. t \in Seq(Int) /\ Len(t) = Len(m)
  <2>1. t \in Seq(Int) /\ Len(t) = Len(p) + Len(q)
    BY <1>1, <1>3, ConcatProperties
  <2> QED
    BY <1>1, <1>3, <2>1
<1>6. \A i \in 1 .. Len(m) : t[i] = IF i <= 4 THEN p[i] ELSE q[i - 4]
  <2>1. \A i \in 1 .. 4 + Len(q) : t[i] = IF i <= 4 THEN p[i] ELSE q[i - 4]
    BY <1>1, <1>3, Behind4, Zenon
  <2>2. 4 + Len(q) = Len(m)
    BY <1>3
  <2> QED
    BY <2>1, <2>2, Zenon
<1> HIDE DEF t
<1>7. ASSUME NEW i \in 1 .. Len(m) PROVE r[i] = t[i]
  <2>2. CASE i \in 1 .. 4
    BY <1>1, <1>6, <2>2
  <2>3. CASE i \in 5 .. Len(m)
    BY <1>4, <1>6, <2>3
  <2> QED
    BY <2>2, <2>3
<1> QED
  BY <1>5, <1>7, SeqEqual DEF t, p, q

LEMMA PongOf ==
    \A m \in Seq(Nat), r \in Seq(Int) :
        /\ Len(m) \in 8 .. 9 /\ Len(r) = Len(m)
        /\ r[1] = 0 /\ r[2] = 1 /\ r[3] = 16 /\ r[4] = 5
        /\ \A i \in 5 .. Len(m) : r[i] = m[i]
        => r = <<0, 1, 16, 5>> \o SubSeq(m, 5, Len(m))
  BY PongCells, Zenon

LEMMA EchoAnswers ==
    ASSUME DispatchInv, at = "handle", Echo
    PROVE  reply' = request
<1>1. /\ request \in Seq(Nat) /\ Len(request) \in Cells /\ buffer \in [Cells -> Int]
      /\ \A i \in 1 .. Len(request) : buffer[i] = request[i]
  BY RequestAssumption DEF DispatchInv, TypeOK
<1>2. buffer' = buffer /\ reply' = SubSeq(buffer', 1, Len(request))
  BY DEF Echo, Write
<1>3. /\ reply' \in Seq(Int) /\ Len(reply') = Len(request)
      /\ \A i \in 1 .. Len(request) : reply'[i] = request[i]
  BY <1>1, <1>2, FirstCells, Zenon
<1> QED
  BY <1>1, <1>3

LEMMA PongAnswers ==
    ASSUME DispatchInv, at = "handle", Pong, WirePing(request)
    PROVE  /\ reply' = <<0, 1, 16, 5>> \o SubSeq(request, 5, Len(request))
           /\ Len(reply') = Len(request)
           /\ buffer' \in [Cells -> Int]
<1>1. /\ request \in Seq(Nat) /\ Len(request) \in Cells /\ buffer \in [Cells -> Int]
      /\ \A i \in 1 .. Len(request) : buffer[i] = request[i]
      /\ little \in BOOLEAN
  BY RequestAssumption DEF DispatchInv, TypeOK
<1>2. Len(request) \in 8 .. 9
  <2>1. Len(request) >= 8
    BY DEF WirePing, HeaderCells
  <2>2. \A n \in Cells : n >= 8 => n \in 8 .. 9
    BY DEF Cells
  <2> QED
    BY <1>1, <2>1, <2>2, Zenon
<1>3. Store(htons(1)) = <<0, 1>> /\ Store(htons(MSG_PONG)) = <<16, 5>>
  <2>1. Wire(0, 1) = 1 /\ Wire(16, 5) = MSG_PONG
    BY DEF Wire, MSG_PONG
  <2>2. 0 \in 0 .. 255 /\ 1 \in 0 .. 255 /\ 16 \in 0 .. 255 /\ 5 \in 0 .. 255
    OBVIOUS
  <2>3. Store(htons(Wire(0, 1))) = <<0, 1>> /\ Store(htons(Wire(16, 5))) = <<16, 5>>
    BY <1>1, <2>2, StoredIsWire, Zenon
  <2> QED
    BY <2>1, <2>3, Zenon
<1>4. /\ buffer' \in [Cells -> Int]
      /\ buffer'[1] = 0 /\ buffer'[2] = 1 /\ buffer'[3] = 16 /\ buffer'[4] = 5
      /\ \A i \in 5 .. 9 : buffer'[i] = buffer[i]
  <2>1. buffer' = [i \in Cells |-> IF i \in {1, 2} THEN <<0, 1>>[i]
                                   ELSE IF i \in {3, 4} THEN <<16, 5>>[i - 2]
                                   ELSE buffer[i]]
    BY <1>3 DEF Pong
  <2> QED
    BY <1>1, <2>1 DEF Cells
<1>5. /\ reply' \in Seq(Int) /\ Len(reply') = Len(request)
      /\ \A i \in 1 .. Len(request) : reply'[i] = buffer'[i]
  <2>1. reply' = SubSeq(buffer', 1, Len(request))
    BY DEF Pong, Write
  <2> QED
    BY <1>1, <1>4, <2>1, FirstCells, Zenon
<1>6. /\ reply'[1] = 0 /\ reply'[2] = 1 /\ reply'[3] = 16 /\ reply'[4] = 5
      /\ \A i \in 5 .. Len(request) : reply'[i] = request[i]
  <2>1. /\ 1 \in 1 .. Len(request) /\ 2 \in 1 .. Len(request) /\ 3 \in 1 .. Len(request)
        /\ 4 \in 1 .. Len(request)
        /\ \A i \in 5 .. Len(request) : i \in 5 .. 9 /\ i \in 1 .. Len(request)
    <3> DEFINE n == Len(request)
    <3>1. n \in 8 .. 9
      BY <1>2
    <3> HIDE DEF n
    <3>2. /\ 1 \in 1 .. n /\ 2 \in 1 .. n /\ 3 \in 1 .. n /\ 4 \in 1 .. n
          /\ \A i \in 5 .. n : i \in 5 .. 9 /\ i \in 1 .. n
      BY <3>1
    <3> QED
      BY <3>2 DEF n
  <2> QED
    BY <1>1, <1>4, <1>5, <2>1, Zenon
<1> QED
  BY <1>1, <1>2, <1>4, <1>5, <1>6, PongOf, Zenon

-----------------------------------------------------------------------------
LEMMA DispatchInitially == Init => DispatchInv
  BY DEF Init, DispatchInv, TypeOK, RepliesInKind, Stale, Cells

LEMMA ReadStep ==
    ASSUME DispatchInv, NEW m \in Requests, Read(m)
    PROVE  DispatchInv'
<1>1. m \in Seq(Nat) /\ Len(m) \in Cells
  BY RequestAssumption
<1>2. buffer' \in [Cells -> Int] /\ \A i \in 1 .. Len(m) : buffer'[i] = m[i]
  <2>1. /\ buffer' = [i \in Cells |-> IF i <= Len(m) THEN m[i] ELSE buffer[i]]
        /\ buffer \in [Cells -> Int]
    BY DEF Read, DispatchInv, TypeOK
  <2>2. ASSUME NEW i \in Cells, i <= Len(m) PROVE m[i] \in Int
    <3>1. i \in 1 .. Len(m)
      BY <1>1, <2>2 DEF Cells
    <3>2. m[i] \in Nat
      BY <1>1, <3>1, ElementOfSeq
    <3> QED
      BY <3>2
  <2>3. \A i \in 1 .. Len(m) : i \in Cells /\ i <= Len(m)
    <3>1. \A n \in Cells : \A i \in 1 .. n : i \in Cells /\ i <= n
      BY DEF Cells
    <3> QED
      BY <1>1, <3>1, Zenon
  <2> QED
    BY <2>1, <2>2, <2>3, Zenon
<1>3. request' = m /\ at' = "handle" /\ UNCHANGED <<little, reply>>
  BY DEF Read
<1>4. reply = <<>>
  BY DEF Read, DispatchInv
<1> QED
  BY <1>1, <1>2, <1>3, <1>4 DEF DispatchInv, TypeOK, RepliesInKind

LEMMA HandleStep == ASSUME DispatchInv, Handle PROVE DispatchInv'
<1>1. at = "handle" /\ at' = "peek" /\ UNCHANGED <<little, request>>
  BY DEF Handle
<1>2. CASE WirePing(request)
  <2>1. Pong
    BY <1>1, <1>2, PingSeen DEF Handle
  <2> QED
    BY <1>1, <1>2, <2>1, PongAnswers DEF DispatchInv, TypeOK, RepliesInKind, Answer
<1>3. CASE ~ WirePing(request)
  <2>1. Echo
    BY <1>1, <1>3, PingSeen DEF Handle
  <2>2. reply' = request
    BY <1>1, <2>1, EchoAnswers
  <2> QED
    BY <1>1, <1>3, <2>1, <2>2 DEF DispatchInv, TypeOK, RepliesInKind, Answer, Echo
<1> QED
  BY <1>2, <1>3

LEMMA DispatchSteps == DispatchInv /\ [Next]_vars => DispatchInv'
<1> SUFFICES ASSUME DispatchInv, [Next]_vars PROVE DispatchInv'
  OBVIOUS
<1> Recvfrom => buffer' \in [Cells -> Int]
  BY DEF Recvfrom, DispatchInv, TypeOK, Stale
<1>1. CASE Peek
  BY <1>1 DEF Peek, DispatchInv, TypeOK, RepliesInKind
<1>2. CASE ReadNothing
  BY <1>2 DEF ReadNothing, DispatchInv, TypeOK, RepliesInKind
<1>3. CASE UNCHANGED vars
  BY <1>3 DEF vars, DispatchInv, TypeOK, RepliesInKind
<1> QED
  BY <1>1, <1>2, <1>3, ReadStep, HandleStep DEF Next

(* TypeOK holds in every reachable state.                                      *)
THEOREM DispatchTyped == Spec => []TypeOK
<1>1. DispatchInv => TypeOK
  BY DEF DispatchInv
<1> QED
  BY <1>1, DispatchInitially, DispatchSteps, PTL DEF Spec

(* For every set of requests and on hosts of either byte order, a reply is     *)
(* the request, or the pong its ping calls for, and nothing else the buffer    *)
(* held.                                                                       *)
THEOREM AlwaysRepliesInKind == Spec => []RepliesInKind
<1>1. DispatchInv => RepliesInKind
  BY DEF DispatchInv
<1> QED
  BY <1>1, DispatchInitially, DispatchSteps, PTL DEF Spec
=============================================================================
