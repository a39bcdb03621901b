---------------------------- MODULE FormatsProofs ---------------------------
(***************************************************************************)
(* Proofs about the bytes the program writes and reads back.               *)
(*                                                                         *)
(* The ring (RingQueue), for every size, every set of byte values and any  *)
(* number of handles: its indices agree, Pop is covered, and it implements *)
(* a bounded FIFO of bytes (module ByteFifo).                              *)
(*                                                                         *)
(* The packets (PacketCodec), for every set of texts and of numbers and    *)
(* every size of the buffer: only ETX is written outside the buffer, and   *)
(* the reader gets back the blocks and the values that were written.       *)
(*                                                                         *)
(* The wire format (WireFormat), for every message: varints, texts, parts  *)
(* and fields that a class does not know are read as they were written     *)
(* wherever their bytes stand, and not at all if the bytes end inside of   *)
(* them.  MessagesProofs rests on it.                                      *)
(***************************************************************************)
EXTENDS
  RingQueue, PacketCodec, MessageObjects, FiniteSetTheorems, SequenceTheorems, TLAPS

(* The ring.  The lock of the callers, and the reads it protects. *)
Locked ==
  /\ \A g, h \in section : g = h
  /\ fronted \subseteq section

(* The inductive invariant.  RingShape needs the ranges of TypeOK to know  *)
(* on which side of a wrap head and tail are; PopWithinUse needs Locked,   *)
(* since another handle's Pop or Clear would take the bytes away.          *)
IInv == TypeOK /\ RingShape /\ PopWithinUse /\ Locked

(* uint32_t arithmetic below the wrap is plain arithmetic. *)
LEMMA SmallMod ==
  ASSUME NEW v \in Nat, v < Wrap
  PROVE  v % Wrap = v
  BY RingAssumption

(* A buffer of the model is a non-empty sequence of bytes. *)
LEMMA BufferIsSeq ==
  ASSUME NEW data \in Buffers
  PROVE  data \in Seq(Byte) /\ Len(data) \in 1 .. MaxLen
<1>1. PICK n \in 1 .. MaxLen : data \in [1 .. n -> Byte]
  BY DEF Buffers
<1>2. n \in Nat
  BY RingAssumption
<1> QED
  BY <1>1, <1>2

(* memcpy keeps the ring a ring of bytes. *)
LEMMA CopiedType ==
  ASSUME NEW cells \in [Index -> Byte], NEW place \in Nat,
         NEW data \in Seq(Byte)
  PROVE  Copied(cells, place, data) \in [Index -> Byte]
<1> SUFFICES ASSUME NEW i \in Index, i \in place .. (place + Len(data) - 1)
             PROVE  data[i - place + 1] \in Byte
  BY DEF Copied
<1>1. Len(data) \in Nat
  OBVIOUS
<1>2. i - place + 1 \in 1 .. Len(data)
  BY <1>1 DEF Index
<1> QED
  BY <1>2

(* What is read out of the ring is a sequence of bytes of the length asked *)
(* for, wherever the read starts.                                          *)
LEMMA ReadAtType ==
  ASSUME NEW place \in 0 .. QueueSize, NEW n \in 0 .. QueueSize,
         queue_buffer \in [Index -> Byte]
  PROVE  ReadAt(place, n) \in Seq(Byte) /\ Len(ReadAt(place, n)) = n
<1>1. \A k \in 1 .. n : Cell(place, k) \in Index
  BY RingAssumption DEF Index, Cell
<1>2. ReadAt(place, n) \in [1 .. n -> Byte]
  BY <1>1 DEF ReadAt
<1>3. n \in Nat
  BY RingAssumption
<1> QED
  BY <1>2, <1>3

(* An index advanced by no more than the ring holds stays in range, and    *)
(* moves by exactly n, once around the end or not at all.                  *)
LEMMA AdvancedShape ==
  ASSUME NEW place \in 0 .. QueueSize, NEW n \in 0 .. (QueueSize - 1)
  PROVE  /\ Advanced(place, n) \in 0 .. QueueSize
         /\ \/ Advanced(place, n) = place + n
            \/ place + n > QueueSize /\ Advanced(place, n) = place + n - QueueSize
  BY RingAssumption DEF Advanced

THEOREM RingInit == Init => IInv
<1> SUFFICES ASSUME Init PROVE IInv
  OBVIOUS
<1>1. 0 \in 0 .. QueueSize /\ 0 \in 0 .. (QueueSize - 1) /\ 0 \in 0 .. MaxLen
  BY RingAssumption
<1>2. TypeOK
  BY <1>1, RingAssumption DEF Init, TypeOK
<1> QED
  BY <1>1, <1>2 DEF Init, IInv, RingShape, PopWithinUse, Locked

LEMMA EnterStep ==
  ASSUME IInv, NEW h \in Handles, Enter(h)
  PROVE  IInv'
<1> USE DEF IInv, Enter, ring
<1>1. TypeOK'
  BY DEF TypeOK
<1>2. RingShape' /\ PopWithinUse'
  BY DEF RingShape, PopWithinUse
<1>3. Locked'
  BY DEF Locked
<1> QED
  BY <1>1, <1>2, <1>3

LEMMA LeaveStep ==
  ASSUME IInv, NEW h \in Handles, Leave(h)
  PROVE  IInv'
<1> USE DEF IInv, Leave, ring
<1>1. TypeOK'
  BY DEF TypeOK
<1>2. RingShape' /\ PopWithinUse'
  BY DEF RingShape, PopWithinUse
<1>3. Locked'
  BY DEF Locked
<1> QED
  BY <1>1, <1>2, <1>3

(* Push keeps every stored byte, so a pending Pop stays covered. *)
LEMMA PushStep ==
  ASSUME IInv, NEW h \in Handles, NEW data \in Buffers, Push(h, data)
  PROVE  IInv'
<1> DEFINE n == Len(data)
           w == QueueSize - tail
<1>1. data \in Seq(Byte) /\ n \in Nat /\ n <= QueueSize - 1 - use_size
  BY BufferIsSeq, RingAssumption DEF Push, FreeSize
<1>2. /\ tail \in 0 .. QueueSize /\ head \in 0 .. QueueSize
      /\ use_size \in 0 .. (QueueSize - 1)
      /\ queue_buffer \in [Index -> Byte]
  BY DEF IInv, TypeOK
<1>3. use_size' = use_size + n
  <2>1. use_size + n \in Nat /\ use_size + n < Wrap
    BY <1>1, <1>2, RingAssumption
  <2> QED
    BY <2>1, SmallMod DEF Push
<1>4. queue_buffer' \in [Index -> Byte]
  <2>1. w \in Nat /\ tail \in Nat
    BY <1>2, RingAssumption
  <2>2. CASE w < n
    <3>1. SubSeq(data, 1, w) \in Seq(Byte)
      BY <1>1, <2>1, <2>2, SubSeqProperties
    <3>2. SubSeq(data, w + 1, n) \in Seq(Byte)
      BY <1>1, <2>1, <2>2, SubSeqProperties
    <3>3. Copied(queue_buffer, tail, SubSeq(data, 1, w)) \in [Index -> Byte]
      BY <3>1, <2>1, <1>2, CopiedType
    <3>4. Copied(Copied(queue_buffer, tail, SubSeq(data, 1, w)),
                 0, SubSeq(data, w + 1, n)) \in [Index -> Byte]
      BY <3>2, <3>3, CopiedType
    <3> QED
      BY <3>4, <2>2 DEF Push
  <2>3. CASE ~(w < n)
    <3>1. Copied(queue_buffer, tail, data) \in [Index -> Byte]
      BY <1>1, <2>1, <1>2, CopiedType
    <3> QED
      BY <3>1, <2>3 DEF Push
  <2> QED
    BY <2>2, <2>3
<1>5. /\ tail' \in 0 .. QueueSize
      /\ tail' = tail + n \/ tail' = tail + n - QueueSize
  <2>1. n \in 0 .. (QueueSize - 1)
    BY <1>1, <1>2, RingAssumption
  <2> QED
    BY <2>1, <1>2, AdvancedShape DEF Push
<1>6. /\ head' = head /\ pop_data_len' = pop_data_len /\ out' = out
      /\ section' = section /\ fronted' = fronted /\ given' = data
  BY DEF Push
<1>7. TypeOK'
  <2>1. use_size' \in 0 .. (QueueSize - 1)
    BY <1>1, <1>2, <1>3, RingAssumption
  <2> QED
    BY <2>1, <1>1, <1>4, <1>5, <1>6 DEF IInv, TypeOK
<1>8. RingShape'
  BY <1>1, <1>2, <1>3, <1>5, <1>6, RingAssumption DEF IInv, RingShape
<1>9. PopWithinUse'
  BY <1>1, <1>2, <1>3, <1>6, RingAssumption DEF IInv, PopWithinUse, TypeOK
<1>10. Locked'
  BY <1>6 DEF IInv, Locked
<1> QED
  BY <1>7, <1>8, <1>9, <1>10 DEF IInv

(* Front reads within what is stored, and pledges no more to Pop. *)
LEMMA FrontStep ==
  ASSUME IInv, NEW h \in Handles, NEW n \in 1 .. MaxLen, ReadFront(h, n)
  PROVE  IInv'
<1>1. n \in 0 .. QueueSize /\ n \in 0 .. MaxLen /\ n \in 1 .. use_size
  BY RingAssumption DEF IInv, TypeOK, ReadFront
<1>2. ReadAt(head, n) \in Seq(Byte)
  BY <1>1, ReadAtType DEF IInv, TypeOK
<1>3. TypeOK'
  BY <1>1, <1>2 DEF IInv, TypeOK, ReadFront, ring
<1>4. RingShape'
  BY DEF IInv, RingShape, ReadFront, ring
<1>5. PopWithinUse'
  BY <1>1 DEF IInv, TypeOK, PopWithinUse, ReadFront, ring
<1>6. Locked'
  BY DEF IInv, Locked, ReadFront
<1> QED
  BY <1>3, <1>4, <1>5, <1>6 DEF IInv

(* Pop: the other handles are outside the lock, so nobody else has bytes   *)
(* pledged; the subtraction stays above zero by PopWithinUse.              *)
LEMMA PopStep ==
  ASSUME IInv, NEW h \in Handles, Pop(h)
  PROVE  IInv'
<1> DEFINE n == pop_data_len[h]
<1>1. n \in 1 .. use_size /\ use_size \in 0 .. (QueueSize - 1)
  BY DEF IInv, PopWithinUse, TypeOK, Pop
<1>2. use_size' = use_size - n
  <2>1. use_size - n \in Nat /\ use_size - n < Wrap
    BY <1>1, RingAssumption
  <2> QED
    BY <2>1, SmallMod DEF Pop
<1>3. /\ head' \in 0 .. QueueSize
      /\ \/ head' = head + n
         \/ head + n > QueueSize /\ head' = head + n - QueueSize
  <2>1. n \in 0 .. (QueueSize - 1) /\ head \in 0 .. QueueSize
    BY <1>1, RingAssumption DEF IInv, TypeOK
  <2> QED
    BY <2>1, AdvancedShape DEF Pop
<1>4. fronted' = {}
  BY DEF IInv, Locked, Pop
<1>5. TypeOK'
  <2>1. use_size' \in 0 .. (QueueSize - 1) /\ 0 \in 0 .. MaxLen
    BY <1>1, <1>2, RingAssumption
  <2> QED
    BY <2>1, <1>3, <1>4 DEF IInv, TypeOK, Pop
<1>6. RingShape'
  <2>1. tail' = tail /\ tail \in 0 .. QueueSize /\ head \in 0 .. QueueSize
    BY DEF IInv, TypeOK, Pop
  <2> QED
    BY <2>1, <1>1, <1>2, <1>3, RingAssumption DEF IInv, RingShape
<1>7. PopWithinUse' /\ Locked'
  BY <1>4 DEF IInv, PopWithinUse, Locked, Pop
<1> QED
  BY <1>5, <1>6, <1>7 DEF IInv

LEMMA ClearStep ==
  ASSUME IInv, NEW h \in Handles, Clear(h)
  PROVE  IInv'
<1> USE DEF Clear, ClearTo
<1>1. 0 \in 0 .. QueueSize /\ 0 \in 0 .. (QueueSize - 1)
  BY RingAssumption
<1>2. fronted' = {}
  BY DEF IInv, Locked
<1>3. TypeOK'
  BY <1>1, <1>2, RingAssumption DEF IInv, TypeOK
<1>4. RingShape' /\ PopWithinUse' /\ Locked'
  BY <1>1, <1>2 DEF IInv, RingShape, PopWithinUse, Locked
<1> QED
  BY <1>3, <1>4 DEF IInv

THEOREM RingInductive == Spec => []IInv
<1>1. IInv /\ [Next]_vars => IInv'
  <2> SUFFICES ASSUME IInv, [Next]_vars PROVE IInv'
    OBVIOUS
  <2>1. CASE UNCHANGED vars
    BY <2>1 DEF vars, ring, IInv, TypeOK, RingShape, PopWithinUse, Locked
  <2>2. ASSUME NEW h \in Handles, Enter(h) PROVE IInv'
    BY <2>2, EnterStep
  <2>3. ASSUME NEW h \in Handles, Leave(h) PROVE IInv'
    BY <2>3, LeaveStep
  <2>4. ASSUME NEW h \in Handles, NEW data \in Buffers, Push(h, data)
        PROVE  IInv'
    BY <2>4, PushStep
  <2>5. ASSUME NEW h \in Handles, NEW n \in 1 .. MaxLen, ReadFront(h, n)
        PROVE  IInv'
    BY <2>5, FrontStep
  <2>6. ASSUME NEW h \in Handles, Pop(h) PROVE IInv'
    BY <2>6, PopStep
  <2>7. ASSUME NEW h \in Handles, Clear(h) PROVE IInv'
    BY <2>7, ClearStep
  <2> QED
    BY <2>1, <2>2, <2>3, <2>4, <2>5, <2>6, <2>7 DEF Next
<1> QED
  BY RingInit, <1>1, PTL DEF Spec

(* Every variable of the ring keeps its range: in particular tail and head *)
(* stay inside the memory (or one past its end) whatever is pushed.        *)
THEOREM RingTypeCorrect == Spec => []TypeOK
  BY RingInductive, PTL DEF IInv

(* The redundant indices head, tail and use_size always agree. *)
THEOREM RingIndicesAgree == Spec => []RingShape
  BY RingInductive, PTL DEF IInv

(* The unchecked subtraction of Pop never goes below zero. *)
THEOREM RingPopIsCovered == Spec => []PopWithinUse
  BY RingInductive, PTL DEF IInv
----------------------------------------------------------------------------
(* The ring as a bounded FIFO of bytes. *)

(* What Push writes: data, cell by cell from the tail, and nothing else. *)
LEMMA PushWrites ==
  ASSUME IInv, NEW h \in Handles, NEW data \in Buffers, Push(h, data)
  PROVE  /\ \A j \in 1 .. Len(data) : queue_buffer'[Cell(tail, j)] = data[j]
         /\ \A i \in Index : (\A j \in 1 .. Len(data) : Cell(tail, j) # i)
                               => queue_buffer'[i] = queue_buffer[i]
<1> DEFINE n == Len(data)
           w == QueueSize - tail
<1>1. data \in Seq(Byte) /\ n \in 1 .. (QueueSize - 1)
  BY BufferIsSeq, RingAssumption DEF Push, FreeSize, IInv, TypeOK
<1>2. tail \in 0 .. QueueSize /\ queue_buffer \in [Index -> Byte] /\ w \in Nat
  BY RingAssumption DEF IInv, TypeOK
<1>3. CASE ~(w < n)
  <2>1. queue_buffer' = Copied(queue_buffer, tail, data)
    BY <1>3 DEF Push
  <2>2. \A i \in Index : queue_buffer'[i] =
           IF i \in tail .. (tail + n - 1) THEN data[i - tail + 1]
           ELSE queue_buffer[i]
    BY <2>1 DEF Copied
  <2>3. \A j \in 1 .. n : /\ Cell(tail, j) = tail + j - 1
                          /\ Cell(tail, j) \in Index
    BY <1>1, <1>2, <1>3, RingAssumption DEF Cell, Index
  <2>4. ASSUME NEW j \in 1 .. n PROVE queue_buffer'[Cell(tail, j)] = data[j]
    <3>1. /\ tail + j - 1 \in tail .. (tail + n - 1)
          /\ (tail + j - 1) - tail + 1 = j
      BY <1>1, <1>2, RingAssumption
    <3>2. tail + j - 1 \in Index /\ Cell(tail, j) = tail + j - 1
      BY <2>3
    <3> QED
      BY <3>1, <3>2, <2>2
  <2>5. ASSUME NEW i \in Index, \A j \in 1 .. n : Cell(tail, j) # i
        PROVE  queue_buffer'[i] = queue_buffer[i]
    <3>1. i \notin tail .. (tail + n - 1)
      <4> SUFFICES ASSUME i \in tail .. (tail + n - 1) PROVE FALSE
        OBVIOUS
      <4>1. i - tail + 1 \in 1 .. n
        BY <1>1, <1>2, RingAssumption
      <4>2. Cell(tail, i - tail + 1) = tail + (i - tail + 1) - 1
        BY <4>1, <2>3
      <4>3. tail + (i - tail + 1) - 1 = i
        BY <1>2, RingAssumption DEF Index
      <4> QED
        BY <4>1, <4>2, <4>3, <2>5
    <3> QED
      BY <3>1, <2>2
  <2> QED
    BY <2>4, <2>5
<1>4. CASE w < n
  <2> DEFINE a == SubSeq(data, 1, w)
             b == SubSeq(data, w + 1, n)
             mid == Copied(queue_buffer, tail, a)
  <2>1. /\ a \in Seq(Byte) /\ Len(a) = w /\ \A k \in 1 .. w : a[k] = data[k]
        /\ b \in Seq(Byte) /\ Len(b) = n - w
        /\ \A k \in 1 .. (n - w) : b[k] = data[k + w]
    <3>1. /\ a \in Seq(Byte) /\ Len(a) = w
          /\ \A k \in 1 .. w : a[k] = data[k]
      BY <1>1, <1>2, <1>4
    <3>2. b \in Seq(Byte) /\ Len(b) = n - w
      BY <1>1, <1>2, <1>4
    <3>3. \A k \in 1 .. (n - w) : b[k] = data[k + w]
      BY <1>1, <1>2, <1>4
    <3> QED
      BY <3>1, <3>2, <3>3
  <2>2. queue_buffer' = Copied(mid, 0, b)
    BY <1>4 DEF Push
  <2>3. \A i \in Index : queue_buffer'[i] =
           IF i < n - w THEN data[i + 1 + w]
           ELSE IF i >= tail THEN data[i - tail + 1] ELSE queue_buffer[i]
    <3> TAKE i \in Index
    <3>1. i \in Nat /\ i < QueueSize
      BY RingAssumption DEF Index
    <3>2. queue_buffer'[i] = IF i \in 0 .. (n - w - 1) THEN b[i + 1] ELSE mid[i]
      BY <2>1, <2>2, <3>1, <1>1, <1>2, SMTT(20) DEF Copied
    <3>3. mid[i] = IF i \in tail .. (tail + w - 1) THEN a[i - tail + 1]
                   ELSE queue_buffer[i]
      BY <2>1, <3>1, <1>1, <1>2 DEF Copied
    <3>4. CASE i < n - w
      <4>1. i \in 0 .. (n - w - 1) /\ i + 1 \in 1 .. (n - w)
        BY <3>1, <3>4, <1>1, <1>2
      <4>2. b[i + 1] = data[i + 1 + w]
        BY <4>1, <2>1
      <4> QED
        BY <4>1, <4>2, <3>2, <3>4
    <3>5. CASE i >= n - w /\ i >= tail
      <4>1. i \in tail .. (tail + w - 1) /\ i \notin 0 .. (n - w - 1)
            /\ i - tail + 1 \in 1 .. w
        BY <3>1, <3>5, <1>1, <1>2, RingAssumption
      <4> QED
        BY <4>1, <3>1, <3>2, <3>3, <3>5, <2>1
    <3>6. CASE i >= n - w /\ i < tail
      BY <3>1, <3>2, <3>3, <3>6, <1>1, <1>2, RingAssumption
    <3> QED
      BY <3>1, <3>4, <3>5, <3>6, <1>1, <1>2
  <2>4. \A j \in 1 .. n : /\ Cell(tail, j) \in Index
                          /\ j <= w => Cell(tail, j) = tail + j - 1
                          /\ j > w => Cell(tail, j) = j - w - 1
    BY <1>1, <1>2, <1>4, RingAssumption DEF Cell, Index
  <2>5. ASSUME NEW j \in 1 .. n PROVE queue_buffer'[Cell(tail, j)] = data[j]
    <3>1. CASE j <= w
      <4>1. ~(Cell(tail, j) < n - w)
        BY <3>1, <2>4, <1>1, <1>2, RingAssumption
      <4> QED
        BY <4>1, <3>1, <2>3, <2>4, <1>1, <1>2, RingAssumption
    <3>2. CASE j > w
      BY <3>2, <2>3, <2>4, <1>1, <1>2, RingAssumption, SMTT(30)
    <3> QED
      BY <3>1, <3>2, <1>1, <1>2
  <2>6. ASSUME NEW i \in Index, \A j \in 1 .. n : Cell(tail, j) # i
        PROVE  queue_buffer'[i] = queue_buffer[i]
    <3>1. i \in Nat /\ i < QueueSize
      BY RingAssumption DEF Index
    <3>2. ~(i < n - w)
      <4> SUFFICES ASSUME i < n - w PROVE FALSE
        OBVIOUS
      <4>1. i + w + 1 \in 1 .. n /\ i + w + 1 > w
        BY <3>1, <1>1, <1>2
      <4> QED
        BY <4>1, <3>1, <2>4, <2>6, <1>2
    <3>3. ~(i >= tail)
      <4> SUFFICES ASSUME i >= tail PROVE FALSE
        OBVIOUS
      <4>1. i - tail + 1 \in 1 .. n /\ i - tail + 1 <= w
        BY <3>1, <1>1, <1>2, <1>4, RingAssumption
      <4> QED
        BY <4>1, <3>1, <2>4, <2>6, <1>2
    <3> QED
      BY <3>2, <3>3, <2>3
  <2> QED
    BY <2>5, <2>6
<1> QED
  BY <1>3, <1>4

(* Two positions of the ring less than a turn apart are different cells. *)
LEMMA CellsDiffer ==
  ASSUME NEW place \in 0 .. QueueSize, NEW j \in 1 .. QueueSize,
         NEW k \in 1 .. QueueSize, j # k
  PROVE  Cell(place, j) # Cell(place, k) /\ Cell(place, j) \in Index
  BY RingAssumption DEF Cell, Index

(* Where Push writes is where the stored bytes end. *)
LEMMA TailCell ==
  ASSUME IInv, NEW j \in 1 .. (QueueSize - 1), use_size + j \in 1 .. (QueueSize - 1)
  PROVE  Cell(tail, j) = Cell(head, use_size + j)
  BY RingAssumption DEF IInv, TypeOK, RingShape, Cell

LEMMA ContentsType ==
  ASSUME IInv
  PROVE  Contents \in Seq(Byte) /\ Len(Contents) = use_size
<1>1. head \in 0 .. QueueSize /\ queue_buffer \in [Index -> Byte]
  BY DEF IInv, TypeOK
<1>2. use_size \in 0 .. QueueSize
  BY RingAssumption DEF IInv, TypeOK
<1> QED
  BY <1>1, <1>2, ReadAtType DEF Contents

LEMMA SequenceIsFunction ==
  ASSUME NEW T, NEW s \in Seq(T)
  PROVE  s = [k \in 1 .. Len(s) |-> s[k]]
  OBVIOUS

LEMMA ConcatCells ==
  ASSUME NEW T, NEW s \in Seq(T), NEW t \in Seq(T), NEW n, n = Len(s)
  PROVE  s \o t = [k \in 1 .. (n + Len(t)) |->
                     IF k <= n THEN s[k] ELSE t[k - n]]
<1>1. /\ s \o t \in Seq(T) /\ Len(s \o t) = n + Len(t)
      /\ \A k \in 1 .. (n + Len(t)) :
           (s \o t)[k] = IF k <= n THEN s[k] ELSE t[k - n]
  BY ConcatProperties
<1>2. s \o t = [k \in 1 .. Len(s \o t) |-> (s \o t)[k]]
  BY <1>1, SequenceIsFunction
<1> QED
  BY <1>1, <1>2, Zenon

(* Push appends its bytes to the contents. *)
LEMMA PushAppends ==
  ASSUME IInv, NEW h \in Handles, NEW data \in Buffers, Push(h, data)
  PROVE  Contents' = Contents \o data
<1> DEFINE n == Len(data)
           U == use_size
<1>1. data \in Seq(Byte) /\ n \in 1 .. (QueueSize - 1) /\ U + n \in 1 .. (QueueSize - 1)
  <2>1. data \in Seq(Byte) /\ n \in 1 .. MaxLen
    BY BufferIsSeq
  <2>2. U \in 0 .. (QueueSize - 1)
    BY DEF IInv, TypeOK
  <2>3. n <= QueueSize - 1 - U
    BY DEF Push, FreeSize
  <2> QED
    BY <2>1, <2>2, <2>3, RingAssumption
<1>2. /\ head \in 0 .. QueueSize /\ U \in 0 .. (QueueSize - 1)
      /\ queue_buffer \in [Index -> Byte]
  BY DEF IInv, TypeOK
<1>3. use_size' = U + n /\ head' = head
  <2>1. U + n \in Nat /\ U + n < Wrap
    BY <1>1, RingAssumption
  <2> QED
    BY <2>1, SmallMod DEF Push
<1>4. Contents \in Seq(Byte) /\ Len(Contents) = U
  BY ContentsType
<1>5. Contents' = [k \in 1 .. (U + n) |-> queue_buffer'[Cell(head, k)]]
  BY <1>3 DEF Contents, ReadAt, Cell
<1>6. Contents \o data = [k \in 1 .. (U + n) |->
                            IF k <= U THEN Contents[k] ELSE data[k - U]]
  BY <1>1, <1>4, ConcatCells
<1>7. ASSUME NEW k \in 1 .. (U + n)
      PROVE  queue_buffer'[Cell(head, k)] = IF k <= U THEN Contents[k] ELSE data[k - U]
  <2>1. CASE k <= U
    <3>1. k \in 1 .. U /\ k \in 1 .. QueueSize
      BY <2>1, <1>1, <1>2, RingAssumption
    <3>2. \A j \in 1 .. n : Cell(tail, j) # Cell(head, k)
      <4> TAKE j \in 1 .. n
      <4>1. /\ j \in 1 .. (QueueSize - 1) /\ U + j \in 1 .. (QueueSize - 1)
            /\ U + j \in 1 .. QueueSize /\ U + j # k
        BY <3>1, <1>1, <1>2, RingAssumption
      <4> QED
        BY <4>1, <3>1, <1>2, TailCell, CellsDiffer
    <3>3. Cell(head, k) \in Index
      BY <3>1, <1>2, RingAssumption DEF Cell, Index
    <3>4. queue_buffer'[Cell(head, k)] = queue_buffer[Cell(head, k)]
      BY <3>2, <3>3, PushWrites
    <3>5. Contents[k] = queue_buffer[Cell(head, k)]
      BY <3>1 DEF Contents, ReadAt
    <3> QED
      BY <2>1, <3>4, <3>5
  <2>2. CASE ~(k <= U)
    <3>1. /\ k - U \in 1 .. n /\ k - U \in 1 .. (QueueSize - 1)
          /\ U + (k - U) \in 1 .. (QueueSize - 1) /\ U + (k - U) = k
      BY <2>2, <1>1, <1>2, RingAssumption
    <3>2. Cell(tail, k - U) = Cell(head, k)
      BY <3>1, TailCell
    <3>3. queue_buffer'[Cell(tail, k - U)] = data[k - U]
      BY <3>1, PushWrites
    <3> QED
      BY <2>2, <3>2, <3>3
  <2> QED
    BY <2>1, <2>2
<1> QED
  BY <1>5, <1>6, <1>7

(* Front returns the oldest bytes. *)
LEMMA FrontReads ==
  ASSUME IInv, NEW n \in 1 .. use_size
  PROVE  ReadAt(head, n) = SubSeq(Contents, 1, n)
<1>1. use_size \in 0 .. (QueueSize - 1) /\ n \in 1 .. QueueSize
  BY RingAssumption DEF IInv, TypeOK
<1>2. Contents \in Seq(Byte) /\ Len(Contents) = use_size
  BY ContentsType
<1>3. SubSeq(Contents, 1, n) = [k \in 1 .. n |-> Contents[k]]
  BY <1>1, <1>2
<1>4. \A k \in 1 .. n : Contents[k] = queue_buffer[Cell(head, k)]
  BY <1>1 DEF Contents, ReadAt
<1> QED
  BY <1>3, <1>4 DEF ReadAt

LEMMA SubSeqShift ==
  ASSUME NEW T, NEW s \in Seq(T), NEW n \in 1 .. Len(s)
  PROVE  SubSeq(s, n + 1, Len(s)) = [k \in 1 .. (Len(s) - n) |-> s[k + n]]
<1> DEFINE sub == SubSeq(s, n + 1, Len(s))
<1>1. Len(s) \in Nat /\ Len(sub) = Len(s) - n /\ sub \in Seq(T)
  OBVIOUS
<1>2. \A k \in 1 .. (Len(s) - n) : sub[k] = s[k + n]
  OBVIOUS
<1>3. sub = [k \in 1 .. Len(sub) |-> sub[k]]
  BY <1>1
<1> HIDE DEF sub
<1>4. sub = [k \in 1 .. (Len(s) - n) |-> s[k + n]]
  BY <1>1, <1>2, <1>3
<1> QED
  BY <1>4 DEF sub

(* Pop removes the oldest bytes. *)
LEMMA PopDrops ==
  ASSUME IInv, NEW h \in Handles, Pop(h)
  PROVE  /\ pop_data_len[h] \in 1 .. use_size
         /\ Contents' = SubSeq(Contents, pop_data_len[h] + 1, Len(Contents))
<1> DEFINE n == pop_data_len[h]
           U == use_size
<1>1. n \in 1 .. U /\ U \in 0 .. (QueueSize - 1) /\ head \in 0 .. QueueSize
  BY DEF IInv, PopWithinUse, TypeOK, Pop
<1>2. use_size' = U - n
  <2>1. U - n \in Nat /\ U - n < Wrap
    BY <1>1, RingAssumption
  <2> QED
    BY <2>1, SmallMod DEF Pop
<1>3. Contents \in Seq(Byte) /\ Len(Contents) = U
  BY ContentsType
<1>4. Contents' = [k \in 1 .. (U - n) |-> queue_buffer[Cell(head', k)]]
  <2>1. Contents' = [k \in 1 .. use_size' |-> queue_buffer'[Cell(head', k)]]
    BY DEF Contents, ReadAt, Cell
  <2> QED
    BY <2>1, <1>2 DEF Pop
<1>5. SubSeq(Contents, n + 1, U) = [k \in 1 .. (U - n) |-> Contents[k + n]]
  BY <1>1, <1>3, SubSeqShift
<1>6. ASSUME NEW k \in 1 .. (U - n)
      PROVE  queue_buffer[Cell(head', k)] = Contents[k + n]
  <2>1. k + n \in 1 .. U
    BY <1>1
  <2>2. Contents[k + n] = queue_buffer[Cell(head, k + n)]
    BY <2>1 DEF Contents, ReadAt
  <2>3. head' = Advanced(head, n)
    BY DEF Pop
  <2>4. Cell(Advanced(head, n), k) = Cell(head, k + n)
    BY <1>1, <2>1, RingAssumption DEF Cell, Advanced
  <2> QED
    BY <2>2, <2>3, <2>4
<1> QED
  BY <1>1, <1>3, <1>4, <1>5, <1>6

THEOREM RingFifoInit == Init => Fifo!Init
<1> SUFFICES ASSUME Init PROVE Fifo!Init
  OBVIOUS
<1>1. use_size = 0
  BY DEF Init
<1>2. Contents = [k \in 1 .. 0 |-> queue_buffer[Cell(head, k)]]
  BY <1>1 DEF Contents, ReadAt
<1>3. Contents = << >>
  BY <1>2
<1> QED
  BY <1>3 DEF Init, Fifo!Init

(* Every step of the ring is one step of the FIFO, or none of its bytes    *)
(* and pledges change.                                                     *)
THEOREM RingFifoStep == IInv /\ [Next]_vars => [Fifo!Next]_(Fifo!fifoVars)
<1> SUFFICES ASSUME IInv, [Next]_vars PROVE [Fifo!Next]_(Fifo!fifoVars)
  OBVIOUS
<1>1. CASE UNCHANGED vars
  BY <1>1 DEF vars, ring, Fifo!fifoVars, Contents, ReadAt, Cell
<1>2. ASSUME NEW h \in Handles, Enter(h) \/ Leave(h) PROVE UNCHANGED Fifo!fifoVars
  BY <1>2 DEF Enter, Leave, ring, Fifo!fifoVars, Contents, ReadAt, Cell
<1>3. ASSUME NEW h \in Handles, NEW data \in Buffers, Push(h, data)
      PROVE  Fifo!Next
  <2>1. Contents' = Contents \o data
    BY <1>3, PushAppends
  <2>2. Len(Contents) = use_size
    BY ContentsType
  <2>3. PICK n \in 1 .. MaxLen : data \in [1 .. n -> Byte]
    BY DEF Buffers
  <2>4. n \in 1 .. (QueueSize - 1) /\ Len(Contents) + Len(data) <= QueueSize - 1
    <3>1. Len(data) = n /\ n \in Nat /\ n >= 1
      BY <2>3, RingAssumption
    <3>2. n <= QueueSize - 1 - use_size /\ use_size \in 0 .. (QueueSize - 1)
      BY <1>3, <3>1 DEF Push, FreeSize, IInv, TypeOK
    <3> QED
      BY <3>1, <3>2, <2>2, RingAssumption
  <2>5. Fifo!Push(data)
    BY <2>1, <2>4, <1>3 DEF Push, Fifo!Push
  <2> QED
    BY <2>3, <2>4, <2>5 DEF Fifo!Next
<1>4. ASSUME NEW h \in Handles, NEW n \in 1 .. MaxLen, ReadFront(h, n)
      PROVE  Fifo!Next
  <2>1. n \in 1 .. use_size /\ n \in 1 .. (QueueSize - 1)
    BY <1>4, RingAssumption DEF ReadFront, IInv, TypeOK
  <2>2. ReadAt(head, n) = SubSeq(Contents, 1, n)
    BY <2>1, FrontReads
  <2>3. Len(Contents) = use_size /\ n <= use_size
    BY <2>1, ContentsType
  <2>4. Contents' = Contents
    BY <1>4 DEF ReadFront, ring, Contents, ReadAt, Cell
  <2>5. Fifo!Front(h, n)
    BY <1>4, <2>2, <2>3, <2>4 DEF ReadFront, Fifo!Front
  <2> QED
    BY <2>1, <2>5 DEF Fifo!Next
<1>5. ASSUME NEW h \in Handles, Pop(h) PROVE Fifo!Next
  <2>1. /\ pop_data_len[h] \in 1 .. Len(Contents)
        /\ Contents' = SubSeq(Contents, pop_data_len[h] + 1, Len(Contents))
    BY <1>5, PopDrops, ContentsType
  <2>2. Fifo!Pop(h)
    BY <1>5, <2>1 DEF Pop, Fifo!Pop
  <2> QED
    BY <2>2 DEF Fifo!Next
<1>6. ASSUME NEW h \in Handles, Clear(h) PROVE Fifo!Next
  <2>1. use_size' = 0
    BY <1>6 DEF Clear, ClearTo
  <2>2. Contents' = [k \in 1 .. 0 |-> queue_buffer'[Cell(head', k)]]
    BY <2>1 DEF Contents, ReadAt, Cell
  <2>3. Contents' = << >>
    BY <2>2
  <2>4. Fifo!Clear
    BY <1>6, <2>3 DEF Clear, ClearTo, Fifo!Clear
  <2> QED
    BY <2>4 DEF Fifo!Next
<1> QED
  BY <1>1, <1>2, <1>3, <1>4, <1>5, <1>6 DEF Next

(* The byte queues of the program are bounded FIFOs: what Front copies out *)
(* and Pop drops is what Push put in, in order, across every wrap.         *)
THEOREM RingIsFifo == Spec => FifoSpec
<1>1. IInv /\ [Next]_vars => [Fifo!Next]_(Fifo!fifoVars)
  BY RingFifoStep
<1> QED
  BY RingFifoInit, <1>1, RingInductive, PTL DEF Spec, FifoSpec, Fifo!Spec
----------------------------------------------------------------------------
(* Induction over numbers.  The least element of a set of numbers comes    *)
(* from the library's ordering of finite sets.                             *)
LEMMA Least ==
  ASSUME NEW S \in SUBSET Nat, S # {}
  PROVE  \E i \in S : \A j \in S : i <= j
<1> DEFINE Below(m) == {k \in S : k <= m}
           T == {Below(m) : m \in S}
<1>1. T \subseteq FiniteSubsetsOf(S) /\ T # {}
  <2>1. ASSUME NEW m \in S PROVE IsFiniteSet(Below(m)) /\ Below(m) \subseteq S
    <3>1. m \in Nat /\ Below(m) \in SUBSET Nat /\ \A s \in Below(m) : s <= m
      OBVIOUS
    <3>2. IsFiniteSet(Below(m))
      BY <3>1, FS_BoundedSetOfNaturals
    <3> QED
      BY <3>2
  <2>2. \A U \in T : \E m \in S : U = Below(m)
    OBVIOUS
  <2>3. T # {}
    OBVIOUS
  <2> HIDE DEF T, Below
  <2> QED
    BY <2>1, <2>2, <2>3 DEF FiniteSubsetsOf
<1>2. PICK B \in T : \A C \in T : ~(<<C, B>> \in StrictSubsetOrdering(S))
  BY <1>1, FS_StrictSubsetOrderingWellFounded, WFMin
<1>3. PICK m \in S : B = Below(m)
  OBVIOUS
<1>4. ASSUME NEW j \in S PROVE m <= j
  <2>0. \A k \in S : k \in Nat
    OBVIOUS
  <2>1. SUFFICES ASSUME j < m PROVE FALSE
    BY <2>0
  <2>2. Below(j) \subseteq Below(m) /\ m \in Below(m) /\ m \notin Below(j)
    <3>1. m \in Nat /\ j \in Nat /\ m <= m /\ ~(m <= j)
      BY <2>0, <2>1
    <3>2. \A k \in S : k <= j => k <= m
      BY <2>0, <2>1, <3>1
    <3> QED
      BY <3>1, <3>2, Zenon
  <2>3. <<Below(j), Below(m)>> \in (SUBSET S) \X (SUBSET S)
    OBVIOUS
  <2>4. <<Below(j), Below(m)>> \in StrictSubsetOrdering(S)
    <3> HIDE DEF Below
    <3> QED
      BY <2>2, <2>3 DEF StrictSubsetOrdering
  <2> QED
    BY <1>2, <1>3, <2>4
<1> QED
  BY <1>4

(* Induction, over sets since the library's theorem takes an operator. *)
LEMMA Induction ==
  ASSUME NEW S,
         \A n \in Nat : (\A k \in 0 .. (n - 1) : k \in S) => n \in S
  PROVE  \A n \in Nat : n \in S
<1> SUFFICES ASSUME Nat \ S # {} PROVE FALSE
  OBVIOUS
<1>1. PICK n \in Nat \ S : \A k \in Nat \ S : n <= k
  BY Least
<1>2. \A k \in 0 .. (n - 1) : k \in S
  <2> SUFFICES ASSUME NEW k \in 0 .. (n - 1), k \notin S PROVE FALSE
    OBVIOUS
  <2>1. k \in Nat \ S /\ k < n
    OBVIOUS
  <2> QED
    BY <1>1, <2>1
<1> QED
  BY <1>1, <1>2

(* A function that is defined at n from its value at an earlier p[n]. *)
Recurses(D, S, base, first, next, p) ==
  /\ D \in SUBSET Nat /\ base \in SUBSET D
  /\ first \in [D -> S] /\ next \in [D -> [S -> S]] /\ p \in [D -> Nat]
  /\ \A n \in D \ base : p[n] \in D /\ p[n] < n

LEMMA Recursion ==
  ASSUME NEW D, NEW S, NEW base, NEW first, NEW next, NEW p,
         Recurses(D, S, base, first, next, p)
  PROVE  \E f \in [D -> S] :
           \A n \in D : f[n] = IF n \in base THEN first[n] ELSE next[n][f[p[n]]]
<1> DEFINE Below(m) == {k \in D : k <= m}
           Step(g, k) == IF k \in base THEN first[k] ELSE next[k][g[p[k]]]
           G(m) == {g \in [Below(m) -> S] : \A k \in Below(m) : g[k] = Step(g, k)}
<1> USE DEF Recurses
<1>1. ASSUME NEW m \in Nat, NEW n \in Nat, NEW g \in G(m), NEW h \in G(n)
      PROVE  \A k \in D : k <= m /\ k <= n => g[k] = h[k]
  <2> DEFINE U == {k \in Nat : k \in D /\ k <= m /\ k <= n => g[k] = h[k]}
  <2>1. ASSUME NEW k \in Nat, \A l \in 0 .. (k - 1) : l \in U PROVE k \in U
    <3> SUFFICES ASSUME k \in D, k <= m, k <= n PROVE g[k] = h[k]
      OBVIOUS
    <3>1. k \in Below(m) /\ k \in Below(n)
      OBVIOUS
    <3>2. g[k] = Step(g, k) /\ h[k] = Step(h, k)
      BY <3>1
    <3>3. CASE k \in base
      BY <3>2, <3>3
    <3>4. CASE k \notin base
      <4>1. p[k] \in D /\ p[k] < k /\ p[k] \in Nat /\ p[k] <= m /\ p[k] <= n
        BY <3>4
      <4>2. p[k] \in U
        BY <2>1, <4>1
      <4>3. g[p[k]] = h[p[k]]
        BY <4>1, <4>2
      <4> QED
        BY <3>2, <4>3
    <3> QED
      BY <3>3, <3>4
  <2> HIDE DEF U
  <2>2. \A k \in Nat : k \in U
    BY <2>1, Induction
  <2> QED
    BY <2>2 DEF U
<1>2. \A m \in Nat : G(m) # {}
  <2> DEFINE U == {m \in Nat : G(m) # {}}
  <2>1. ASSUME NEW m \in Nat, \A l \in 0 .. (m - 1) : l \in U PROVE m \in U
    <3>1. \E g : /\ \A k \in D : k < m => g[k] \in S /\ g[k] = Step(g, k)
      <4>1. CASE m = 0
        <5>1. \A k \in D : ~(k < m)
          BY <4>1
        <5> QED
          BY <5>1
      <4>2. CASE m # 0
        <5>0. m - 1 \in Nat /\ m - 1 \in 0 .. (m - 1)
          BY <4>2
        <5>1. m - 1 \in U
          BY <2>1, <5>0
        <5>2. PICK g \in G(m - 1) : TRUE
          BY <5>1
        <5>3. \A k \in D : k < m => k \in Below(m - 1)
          BY <4>2
        <5> QED
          BY <5>2, <5>3
      <4> QED
        BY <4>1, <4>2
    <3>2. PICK g : \A k \in D : k < m => g[k] \in S /\ g[k] = Step(g, k)
      BY <3>1
    <3> DEFINE h == [k \in Below(m) |-> IF k = m THEN Step(g, m) ELSE g[k]]
    <3>3. ASSUME NEW k \in Below(m) PROVE h[k] = Step(g, k) /\ h[k] \in S
      <4>1. k \in Nat /\ k \in D /\ (k = m \/ k < m)
        OBVIOUS
      <4>2. CASE k = m
        <5>1. h[k] = Step(g, k)
          BY <4>2
        <5>2. CASE k \in base
          BY <5>1, <5>2, <4>1
        <5>3. CASE k \notin base
          <6>1. p[k] \in D /\ p[k] < m
            BY <4>1, <4>2, <5>3
          <6>2. g[p[k]] \in S
            BY <3>2, <6>1
          <6> QED
            BY <4>1, <5>1, <5>3, <6>2
        <5> QED
          BY <5>2, <5>3
      <4>3. CASE k < m
        <5>1. h[k] = g[k]
          BY <4>1, <4>3
        <5> QED
          BY <3>2, <4>1, <4>3, <5>1
      <4> QED
        BY <4>1, <4>2, <4>3
    <3>4. ASSUME NEW k \in Below(m) PROVE Step(h, k) = Step(g, k)
      <4>1. CASE k \in base
        BY <4>1
      <4>2. CASE k \notin base
        <5>1. k \in D /\ k \in Nat /\ k <= m
          OBVIOUS
        <5>2. p[k] \in D /\ p[k] < k
          BY <4>2, <5>1
        <5>3. p[k] \in Below(m) /\ p[k] # m
          BY <5>1, <5>2
        <5>4. h[p[k]] = g[p[k]]
          BY <5>3
        <5> QED
          BY <4>2, <5>4
      <4> QED
        BY <4>1, <4>2
    <3>5. h \in [Below(m) -> S]
      BY <3>3
    <3>6. \A k \in Below(m) : h[k] = Step(h, k)
      BY <3>3, <3>4
    <3> HIDE DEF h, Step, Below
    <3>7. h \in G(m)
      BY <3>5, <3>6
    <3> QED
      BY <3>7
  <2> HIDE DEF U
  <2>2. \A k \in Nat : k \in U
    BY <2>1, Induction
  <2> QED
    BY <2>2 DEF U
<1> DEFINE pick(n) == CHOOSE g \in G(n) : TRUE
           f == [n \in D |-> pick(n)[n]]
<1>3. ASSUME NEW n \in D PROVE f[n] \in S /\ f[n] = Step(f, n)
  <2>1. n \in Nat /\ n \in Below(n)
    OBVIOUS
  <2>2. pick(n) \in G(n)
    BY <1>2, <2>1
  <2>3. f[n] = pick(n)[n] /\ pick(n)[n] \in S /\ pick(n)[n] = Step(pick(n), n)
    BY <2>1, <2>2
  <2>4. CASE n \in base
    BY <2>3, <2>4
  <2>5. CASE n \notin base
    <3>1. p[n] \in D /\ p[n] < n /\ p[n] \in Nat
      BY <2>5
    <3>2. pick(p[n]) \in G(p[n])
      BY <1>2, <3>1
    <3>3. \A k \in D : k <= n /\ k <= p[n] => pick(n)[k] = pick(p[n])[k]
      <4> HIDE DEF pick, G
      <4> QED
        BY <1>1, <2>1, <2>2, <3>1, <3>2
    <3>4. pick(n)[p[n]] = pick(p[n])[p[n]]
      <4>1. p[n] \in D /\ p[n] <= n /\ p[n] <= p[n]
        BY <2>1, <3>1
      <4> HIDE DEF pick
      <4> QED
        BY <3>3, <4>1
    <3>5. f[p[n]] = pick(n)[p[n]]
      BY <3>1, <3>4
    <3>6. Step(f, n) = next[n][f[p[n]]] /\ Step(pick(n), n) = next[n][pick(n)[p[n]]]
      BY <2>5
    <3> HIDE DEF f, pick, Step
    <3> QED
      BY <2>3, <3>5, <3>6
  <2> QED
    BY <2>4, <2>5
<1>4. f \in [D -> S]
  BY <1>3
<1> HIDE DEF f
<1> QED
  BY <1>3, <1>4
----------------------------------------------------------------------------
(* Numbers are read back as they were written. *)
DigitCell(k) == Char(Digits[k + 1])
DigitCells == {DigitCell(k) : k \in 0 .. 9}

LEMMA DigitBack == \A k \in 0 .. 9 : DigitOf(DigitCell(k)) = k
<1> SUFFICES ASSUME NEW k \in 0 .. 9 PROVE DigitOf(DigitCell(k)) = k
  OBVIOUS
<1>1. \A j \in 0 .. 9 : Digits[j + 1] = Digits[k + 1] => j = k
  BY DEF Digits
<1>2. \A j \in 0 .. 9 : DigitCell(j) = DigitCell(k) => j = k
  BY <1>1 DEF DigitCell, Char
<1> QED
  BY <1>2 DEF DigitOf, DigitCell

(* Decimal is the function its definition describes. *)
LEMMA DecimalDef ==
  /\ Decimal \in [Nat -> Seq(DigitCells)]
  /\ \A n \in Nat :
       Decimal[n] = (IF n < 10 THEN << >> ELSE Decimal[n \div 10]) \o <<DigitCell(n % 10)>>
<1> DEFINE S == Seq(DigitCells)
           first == [n \in Nat |-> <<DigitCell(n % 10)>>]
           next == [n \in Nat |-> [s \in S |-> s \o <<DigitCell(n % 10)>>]]
           p == [n \in Nat |-> n \div 10]
<1>1. \A n \in Nat : n % 10 \in 0 .. 9 /\ n \div 10 \in Nat
                     /\ (n \notin 0 .. 9 => n \div 10 < n)
  OBVIOUS
<1>2. \A n \in Nat : <<DigitCell(n % 10)>> \in S
  BY <1>1 DEF DigitCells
<1>3. \A n \in Nat : \A s \in S : s \o <<DigitCell(n % 10)>> \in S
  <2> HIDE DEF DigitCells
  <2>1. \A s, r \in S : s \o r \in S
    BY ConcatProperties
  <2> QED
    BY <1>2, <2>1
<1>4. /\ first \in [Nat -> S] /\ next \in [Nat -> [S -> S]] /\ p \in [Nat -> Nat]
      /\ \A n \in Nat \ (0 .. 9) : p[n] \in Nat /\ p[n] < n
  <2> HIDE DEF S
  <2> QED
    BY <1>1, <1>2, <1>3
<1> HIDE DEF first, next, p
<1>5. \E f \in [Nat -> S] :
        \A n \in Nat : f[n] = IF n \in 0 .. 9 THEN first[n] ELSE next[n][f[p[n]]]
  <2> HIDE DEF S
  <2>1. Nat \in SUBSET Nat /\ 0 .. 9 \in SUBSET Nat
    OBVIOUS
  <2> QED
    <3>1. Recurses(Nat, S, 0 .. 9, first, next, p)
      BY <1>4, <2>1 DEF Recurses
    <3> QED
      BY <3>1, Recursion
<1>6. PICK f \in [Nat -> S] :
        \A n \in Nat : f[n] = IF n \in 0 .. 9 THEN first[n] ELSE next[n][f[p[n]]]
  BY <1>5
<1>7. ASSUME NEW n \in Nat
      PROVE  f[n] = (IF n < 10 THEN << >> ELSE f[n \div 10]) \o <<DigitCell(n % 10)>>
  <2>1. CASE n < 10
    <3>0. n \in 0 .. 9
      BY <2>1
    <3>1. f[n] = <<DigitCell(n % 10)>>
      BY <1>6, <3>0, Zenon DEF first
    <3>2. << >> \o <<DigitCell(n % 10)>> = <<DigitCell(n % 10)>>
      BY <1>2, ConcatEmptySeq
    <3> QED
      BY <2>1, <3>1, <3>2
  <2>2. CASE ~(n < 10)
    <3>1. n \div 10 \in Nat /\ f[n \div 10] \in S
      BY <1>1
    <3>2. f[n] = next[n][f[n \div 10]]
      BY <1>6, <2>2 DEF p
    <3>3. next[n][f[n \div 10]] = f[n \div 10] \o <<DigitCell(n % 10)>>
      <4> HIDE DEF S
      <4> QED
        BY <3>1 DEF next
    <3> QED
      BY <2>2, <3>2, <3>3
  <2> QED
    BY <2>1, <2>2
<1> DEFINE Rec(g) ==
      [n \in Nat |-> (IF n < 10 THEN << >> ELSE g[n \div 10]) \o <<DigitCell(n % 10)>>]
<1>8. f = Rec(f)
  BY <1>7
<1>9. Decimal = CHOOSE g : g = Rec(g)
  BY DEF Decimal, DigitCell
<1>10. Decimal = Rec(Decimal)
  <2> HIDE DEF Rec
  <2> QED
    BY <1>8, <1>9
<1>11. \A n \in Nat :
         Decimal[n] = (IF n < 10 THEN << >> ELSE Decimal[n \div 10]) \o <<DigitCell(n % 10)>>
  BY <1>10
<1>12. \A n \in Nat : Decimal[n] \in S
  <2> DEFINE U == {n \in Nat : Decimal[n] \in S}
  <2>1. ASSUME NEW n \in Nat, \A k \in 0 .. (n - 1) : k \in U PROVE n \in U
    <3>1. (IF n < 10 THEN << >> ELSE Decimal[n \div 10]) \in S
      <4>1. CASE n < 10
        BY <4>1
      <4>2. CASE ~(n < 10)
        <5>1. n \div 10 \in 0 .. (n - 1)
          BY <4>2
        <5> QED
          BY <2>1, <4>2, <5>1
      <4> QED
        BY <4>1, <4>2
    <3> HIDE DEF S
    <3>2. Decimal[n] \in S
      BY <1>3, <1>11, <3>1
    <3> QED
      BY <3>2
  <2> HIDE DEF U
  <2>2. \A n \in Nat : n \in U
    BY <2>1, Induction
  <2> QED
    BY <2>2 DEF U
<1>13. Decimal \in [Nat -> S]
  <2>1. Decimal = [n \in Nat |-> Decimal[n]]
    BY <1>10
  <2> QED
    BY <1>12, <2>1
<1> QED
  BY <1>11, <1>13

(* So is the function within Unsigned. *)
Value(t) == CHOOSE v : v = [i \in 0 .. Len(t) |->
                              IF i = 0 THEN 0 ELSE 10 * v[i - 1] + DigitOf(t[i])]

LEMMA ValueDef ==
  ASSUME NEW t \in Seq(DigitCells)
  PROVE  /\ Unsigned(t) = Value(t)[Len(t)]
         /\ \A i \in 0 .. Len(t) :
              /\ Value(t)[i] \in Nat
              /\ Value(t)[i] = IF i = 0 THEN 0 ELSE 10 * Value(t)[i - 1] + DigitOf(t[i])
<1> DEFINE D == 0 .. Len(t)
           first == [i \in D |-> 0]
           next == [i \in D |-> [v \in Nat |-> IF i = 0 THEN v ELSE 10 * v + DigitOf(t[i])]]
           p == [i \in D |-> IF i = 0 THEN 0 ELSE i - 1]
<1>0. Len(t) \in Nat /\ \A i \in D : i # 0 => DigitOf(t[i]) \in 0 .. 9
  <2>1. \A c \in DigitCells : DigitOf(c) \in 0 .. 9
    BY DigitBack DEF DigitCells
  <2>2. Len(t) \in Nat /\ \A i \in 1 .. Len(t) : t[i] \in DigitCells
    <3> HIDE DEF DigitCells
    <3> QED
      OBVIOUS
  <2> QED
    BY <2>1, <2>2
<1>1. /\ first \in [D -> Nat] /\ next \in [D -> [Nat -> Nat]] /\ p \in [D -> Nat]
      /\ \A i \in D \ {0} : p[i] \in D /\ p[i] < i
      /\ D \in SUBSET Nat /\ {0} \in SUBSET D
  BY <1>0
<1>2. \E f \in [D -> Nat] :
        \A i \in D : f[i] = IF i \in {0} THEN first[i] ELSE next[i][f[p[i]]]
  <2> HIDE DEF D, first, next, p
  <2> QED
    <3>1. Recurses(D, Nat, {0}, first, next, p)
      BY <1>1 DEF Recurses
    <3> QED
      BY <3>1, Recursion
<1>3. PICK f \in [D -> Nat] :
        \A i \in D : f[i] = IF i \in {0} THEN first[i] ELSE next[i][f[p[i]]]
  BY <1>2
<1> DEFINE Rec(v) == [i \in D |-> IF i = 0 THEN 0 ELSE 10 * v[i - 1] + DigitOf(t[i])]
<1>4. \A i \in D : f[i] = IF i = 0 THEN 0 ELSE 10 * f[i - 1] + DigitOf(t[i])
  <2> SUFFICES ASSUME NEW i \in D, i # 0 PROVE f[i] = 10 * f[i - 1] + DigitOf(t[i])
    BY <1>3
  <2>1. i - 1 \in D /\ f[i - 1] \in Nat
    BY <1>0
  <2> QED
    BY <1>3, <2>1
<1>5. f = Rec(f)
  BY <1>4
<1>6. Value(t) = CHOOSE v : v = Rec(v)
  BY DEF Value
<1>7. Value(t) = Rec(Value(t))
  <2> HIDE DEF Rec
  <2> QED
    BY <1>5, <1>6
<1>8. \A i \in D : Value(t)[i] = IF i = 0 THEN 0 ELSE 10 * Value(t)[i - 1] + DigitOf(t[i])
  BY <1>7
<1>9. \A i \in D : Value(t)[i] \in Nat
  <2> DEFINE U == {i \in Nat : i \in D => Value(t)[i] \in Nat}
  <2>1. ASSUME NEW i \in Nat, \A k \in 0 .. (i - 1) : k \in U PROVE i \in U
    <3> SUFFICES ASSUME i \in D PROVE Value(t)[i] \in Nat
      OBVIOUS
    <3>1. CASE i = 0
      BY <1>8, <3>1
    <3>2. CASE i # 0
      <4>1. i - 1 \in 0 .. (i - 1) /\ i - 1 \in D
        BY <1>0, <3>2
      <4>2. Value(t)[i - 1] \in Nat /\ DigitOf(t[i]) \in Nat
        BY <1>0, <2>1, <3>2, <4>1, SMTT(30)
      <4>3. Value(t)[i] = 10 * Value(t)[i - 1] + DigitOf(t[i])
        BY <1>8, <3>2
      <4> QED
        BY <4>2, <4>3
    <3> QED
      BY <3>1, <3>2
  <2> HIDE DEF U
  <2>2. \A i \in Nat : i \in U
    BY <2>1, Induction
  <2> QED
    BY <1>0, <2>2 DEF U
<1>10. Unsigned(t) = Value(t)[Len(t)]
  BY DEF Unsigned, Value
<1> QED
  BY <1>8, <1>9, <1>10

(* One more digit. *)
LEMMA UnsignedAppended ==
  ASSUME NEW t \in Seq(DigitCells), NEW k \in 0 .. 9
  PROVE  Unsigned(t \o <<DigitCell(k)>>) = 10 * Unsigned(t) + k
<1> DEFINE c == DigitCell(k)
           u == t \o <<c>>
<1>1. c \in DigitCells /\ DigitOf(c) = k
  BY DigitBack DEF DigitCells
<1> HIDE DEF c, DigitCells
<1>2. /\ u \in Seq(DigitCells) /\ Len(u) = Len(t) + 1 /\ Len(t) \in Nat
      /\ \A i \in 1 .. Len(t) : u[i] = t[i]
      /\ u[Len(t) + 1] = c
  BY <1>1
<1> HIDE DEF u
<1>3. /\ Unsigned(u) = Value(u)[Len(u)]
      /\ \A i \in 0 .. Len(u) :
           /\ Value(u)[i] \in Nat
           /\ Value(u)[i] = IF i = 0 THEN 0 ELSE 10 * Value(u)[i - 1] + DigitOf(u[i])
  BY <1>2, ValueDef
<1>4. /\ Unsigned(t) = Value(t)[Len(t)]
      /\ \A i \in 0 .. Len(t) :
           /\ Value(t)[i] \in Nat
           /\ Value(t)[i] = IF i = 0 THEN 0 ELSE 10 * Value(t)[i - 1] + DigitOf(t[i])
  BY ValueDef
<1>5. \A i \in 0 .. Len(t) : Value(u)[i] = Value(t)[i]
  <2> DEFINE U == {i \in Nat : i \in 0 .. Len(t) => Value(u)[i] = Value(t)[i]}
  <2>1. ASSUME NEW i \in Nat, \A j \in 0 .. (i - 1) : j \in U PROVE i \in U
    <3> SUFFICES ASSUME i \in 0 .. Len(t) PROVE Value(u)[i] = Value(t)[i]
      OBVIOUS
    <3>1. CASE i = 0
      BY <1>2, <1>3, <1>4, <3>1
    <3>2. CASE i # 0
      <4>1. i - 1 \in 0 .. (i - 1) /\ i - 1 \in 0 .. Len(t) /\ i \in 0 .. Len(u)
            /\ u[i] = t[i]
        BY <1>2, <3>2
      <4>2. Value(u)[i - 1] = Value(t)[i - 1]
        BY <2>1, <4>1
      <4>3. /\ Value(u)[i] = 10 * Value(u)[i - 1] + DigitOf(u[i])
            /\ Value(t)[i] = 10 * Value(t)[i - 1] + DigitOf(t[i])
        BY <1>3, <1>4, <3>2, <4>1
      <4> QED
        BY <4>1, <4>2, <4>3
    <3> QED
      BY <3>1, <3>2
  <2> HIDE DEF U
  <2>2. \A i \in Nat : i \in U
    BY <2>1, Induction
  <2> QED
    BY <1>2, <2>2 DEF U
<1>6. Value(u)[Len(u)] = 10 * Value(u)[Len(t)] + k
  <2>1. Len(u) \in 0 .. Len(u) /\ Len(u) # 0 /\ Len(u) - 1 = Len(t) /\ DigitOf(u[Len(u)]) = k
    BY <1>1, <1>2
  <2> QED
    BY <1>3, <2>1
<1>7. Len(t) \in 0 .. Len(t)
  BY <1>2
<1> QED
  BY <1>3, <1>4, <1>5, <1>6, <1>7 DEF u, c

LEMMA LastDigit ==
  \A n \in Nat :
    n % 10 \in 0 .. 9 /\ n \div 10 \in Nat /\ n = 10 * (n \div 10) + (n % 10)
<1>1. ASSUME NEW n \in Nat PROVE n % 10 \in 0 .. 9 /\ n \div 10 \in Nat
  OBVIOUS
<1>2. ASSUME NEW n \in Nat PROVE n = 10 * (n \div 10) + (n % 10)
  OBVIOUS
<1> QED
  BY <1>1, <1>2

LEMMA DecimalBack ==
  \A n \in Nat : /\ Decimal[n] \in Seq(DigitCells) /\ Decimal[n] # << >>
                 /\ Unsigned(Decimal[n]) = n
<1> DEFINE U == {n \in Nat : Unsigned(Decimal[n]) = n}
<1>0. Unsigned(<< >>) = 0
  <2>1. << >> \in Seq(DigitCells) /\ Len(<< >>) = 0 /\ 0 \in 0 .. 0
    OBVIOUS
  <2>2. /\ Unsigned(<< >>) = Value(<< >>)[Len(<< >>)]
        /\ \A i \in 0 .. Len(<< >>) :
             Value(<< >>)[i] = IF i = 0 THEN 0 ELSE 10 * Value(<< >>)[i - 1] + DigitOf(<< >>[i])
    BY <2>1, ValueDef, Zenon
  <2>3. Value(<< >>)[0] = 0
    BY <2>1, <2>2, Zenon
  <2> QED
    BY <2>1, <2>2, <2>3, Zenon
<1>1. ASSUME NEW n \in Nat, \A k \in 0 .. (n - 1) : k \in U PROVE n \in U
  <2> DEFINE t == IF n < 10 THEN << >> ELSE Decimal[n \div 10]
  <2>1. n % 10 \in 0 .. 9 /\ n = 10 * (n \div 10) + (n % 10) /\ n \div 10 \in Nat
    BY LastDigit
  <2>2. t \in Seq(DigitCells) /\ Unsigned(t) = n \div 10
    <3>1. CASE n < 10
      <4>1. n \div 10 = 0
        BY <3>1
      <4> QED
        BY <1>0, <3>1, <4>1
    <3>2. CASE ~(n < 10)
      <4>1. n \div 10 \in 0 .. (n - 1)
        BY <3>2
      <4>2. n \div 10 \in U
        BY <1>1, <4>1
      <4> QED
        BY <2>1, <3>2, <4>2, DecimalDef
    <3> QED
      BY <3>1, <3>2
  <2>3. Decimal[n] = t \o <<DigitCell(n % 10)>>
    BY DecimalDef
  <2> HIDE DEF t
  <2>4. Unsigned(Decimal[n]) = 10 * (n \div 10) + (n % 10)
    <3>1. \A k \in 0 .. 9 : Unsigned(t \o <<DigitCell(k)>>) = 10 * Unsigned(t) + k
      BY <2>2, UnsignedAppended
    <3>2. n % 10 \in 0 .. 9
      BY <2>1
    <3>3. Unsigned(t \o <<DigitCell(n % 10)>>) = 10 * Unsigned(t) + (n % 10)
      BY <3>1, <3>2, Zenon
    <3> QED
      BY <2>2, <2>3, <3>3, Zenon
  <2> QED
    BY <2>1, <2>4
<1> HIDE DEF U
<1>2. \A n \in Nat : n \in U
  BY <1>1, Induction
<1>3. ASSUME NEW n \in Nat PROVE Decimal[n] # << >>
  <2> DEFINE t == IF n < 10 THEN << >> ELSE Decimal[n \div 10]
  <2>1. n \div 10 \in Nat /\ n % 10 \in 0 .. 9
    OBVIOUS
  <2>2. t \in Seq(DigitCells) /\ <<DigitCell(n % 10)>> \in Seq(DigitCells)
    <3>1. DigitCell(n % 10) \in DigitCells
      BY <2>1 DEF DigitCells
    <3> HIDE DEF DigitCells
    <3> QED
      BY <2>1, <3>1, DecimalDef
  <2>3. Decimal[n] = t \o <<DigitCell(n % 10)>>
    BY DecimalDef
  <2> HIDE DEF t, DigitCells
  <2>4. Len(Decimal[n]) = Len(t) + 1 /\ Len(t) \in Nat
    BY <2>2, <2>3
  <2> QED
    BY <2>4
<1> QED
  BY <1>2, <1>3, DecimalDef DEF U

(* std::stoi reads what std::to_string wrote, whatever the number. *)
LEMMA StoiBack == \A n \in Int : Stoi(DecimalText(n)) = n
<1> SUFFICES ASSUME NEW n \in Int PROVE Stoi(DecimalText(n)) = n
  OBVIOUS
<1>0. \A c \in DigitCells : c # Char("-")
  BY DEF DigitCells, DigitCell, Digits, Char
<1> HIDE DEF DigitCells
<1>1. CASE n \in Nat
  <2>1. /\ Decimal[n] \in Seq(DigitCells) /\ Decimal[n] # << >>
        /\ Unsigned(Decimal[n]) = n
    BY <1>1, DecimalBack
  <2>2. Head(Decimal[n]) \in DigitCells
    BY <2>1
  <2>3. DecimalText(n) = Decimal[n]
    BY <1>1 DEF DecimalText
  <2> QED
    BY <1>0, <2>1, <2>2, <2>3 DEF Stoi
<1>2. CASE n \notin Nat
  <2>1. -n \in Nat /\ n < 0
    BY <1>2
  <2>2. Decimal[-n] \in Seq(DigitCells) /\ Unsigned(Decimal[-n]) = -n
    BY <2>1, DecimalBack
  <2> DEFINE s == <<Char("-")>> \o Decimal[-n]
  <2>3. Head(s) = Char("-") /\ Tail(s) = Decimal[-n]
    <3>1. DEFINE C == DigitCells \cup {Char("-")}
    <3>2. <<Char("-")>> \in Seq(C) /\ Decimal[-n] \in Seq(C)
      BY <2>2
    <3> HIDE DEF C
    <3> QED
      BY <3>2
  <2>4. DecimalText(n) = s
    BY <2>1 DEF DecimalText
  <2> HIDE DEF s
  <2>5. Stoi(DecimalText(n)) = -Unsigned(Decimal[-n])
    BY <2>3, <2>4 DEF Stoi
  <2> QED
    BY <2>1, <2>2, <2>5
<1> QED
  BY <1>1, <1>2
----------------------------------------------------------------------------
(* Cells, and the blocks made of them. *)
FieldNames == UNION {Range(CreateFactory[type]) : type \in DOMAIN CreateFactory}
Symbols == {"STX", "ETX", "NUL", ":", "-"} \cup {Digits[k + 1] : k \in 0 .. 9}
             \cup FieldNames \cup DOMAIN CreateFactory

Cells == ({"char"} \X (STRING \cup Symbols)) \cup ({"length"} \X Nat)

LEMMA CharCell == \A v \in Symbols : Char(v) \in Cells
  BY DEF Char, Cells

LEMMA LengthCell == \A n \in Nat : Length(n) \in Cells /\ Length(n)[2] = n
  BY DEF Length, Cells

LEMMA DelimiterCells ==
  {STX, ETX, StartBlockDelimiter, BlockDataDelimiter, Stale} \subseteq Cells
<1>1. {"STX", "ETX", "NUL", ":"} \subseteq Symbols
  BY DEF Symbols
<1> QED
  BY <1>1, CharCell DEF STX, ETX, StartBlockDelimiter, BlockDataDelimiter, Stale

LEMMA DigitsAreCells == DigitCells \subseteq Cells
<1>1. \A k \in 0 .. 9 : Digits[k + 1] \in Symbols
  BY DEF Symbols
<1> QED
  BY <1>1, CharCell DEF DigitCells, DigitCell

LEMMA DecimalCells == \A n \in Int : DecimalText(n) \in Seq(Cells)
<1> SUFFICES ASSUME NEW n \in Int PROVE DecimalText(n) \in Seq(Cells)
  OBVIOUS
<1>1. \A k \in Nat : Decimal[k] \in Seq(Cells)
  <2> SUFFICES ASSUME NEW k \in Nat PROVE Decimal[k] \in Seq(Cells)
    OBVIOUS
  <2>1. Decimal[k] \in Seq(DigitCells)
    BY DecimalDef
  <2> QED
    BY <2>1, DigitsAreCells
<1>2. Char("-") \in Cells
  BY CharCell DEF Symbols
<1>3. <<Char("-")>> \in Seq(Cells)
  BY <1>2
<1>4. CASE n < 0
  <2>1. Decimal[-n] \in Seq(Cells)
    BY <1>1, <1>4
  <2> QED
    BY <1>3, <1>4, <2>1, ConcatProperties DEF DecimalText
<1>5. CASE ~(n < 0)
  BY <1>1, <1>5 DEF DecimalText
<1> QED
  BY <1>4, <1>5

LEMMA BlockCells ==
  ASSUME NEW name \in Symbols, NEW text \in Seq(Cells)
  PROVE  /\ Block(name, text) \in Seq(Cells)
         /\ Len(Block(name, text)) = 3 + Len(text)
         /\ Block(name, text)[1] = Length(3 + Len(text))
         /\ Block(name, text)[2] = Char(name)
         /\ Block(name, text)[3] = BlockDataDelimiter
         /\ \A j \in 1 .. Len(text) : Block(name, text)[3 + j] = text[j]
<1> DEFINE l == Length(3 + Len(text))
           c == Char(name)
           d == BlockDataDelimiter
           front == <<l, c, d>>
<1>1. l \in Cells /\ c \in Cells /\ d \in Cells
  <2>1. 3 + Len(text) \in Nat
    OBVIOUS
  <2> QED
    BY <2>1, LengthCell, CharCell, DelimiterCells
<1>2. Block(name, text) = front \o text
  BY DEF Block, BlockHeaderLength
<1> HIDE DEF l, c, d
<1>3. front \in Seq(Cells) /\ Len(front) = 3 /\ front[1] = l /\ front[2] = c /\ front[3] = d
  BY <1>1
<1> HIDE DEF front
<1>4. /\ front \o text \in Seq(Cells) /\ Len(front \o text) = 3 + Len(text)
      /\ \A i \in 1 .. (3 + Len(text)) :
           (front \o text)[i] = IF i <= 3 THEN front[i] ELSE text[i - 3]
  <2>1. /\ front \o text \in Seq(Cells) /\ Len(front \o text) = Len(front) + Len(text)
        /\ \A i \in 1 .. (Len(front) + Len(text)) :
             (front \o text)[i] = IF i <= Len(front) THEN front[i] ELSE text[i - Len(front)]
    BY <1>3, ConcatProperties
  <2> QED
    BY <1>3, <2>1, Zenon
<1>5. /\ \A i \in 1 .. 3 : (front \o text)[i] = front[i]
      /\ \A j \in 1 .. Len(text) : (front \o text)[3 + j] = text[j]
  <2>1. Len(text) \in Nat
    OBVIOUS
  <2>2. ASSUME NEW i \in 1 .. 3 PROVE (front \o text)[i] = front[i]
    BY <1>4, <2>1
  <2>3. ASSUME NEW j \in 1 .. Len(text) PROVE (front \o text)[3 + j] = text[j]
    <3>1. 3 + j \in 1 .. (3 + Len(text)) /\ ~(3 + j <= 3) /\ (3 + j) - 3 = j
      BY <2>1
    <3> QED
      BY <1>4, <3>1
  <2> QED
    BY <2>2, <2>3
<1>6. 1 \in 1 .. 3 /\ 2 \in 1 .. 3 /\ 3 \in 1 .. 3
  OBVIOUS
<1> QED
  BY <1>2, <1>3, <1>4, <1>5, <1>6 DEF l, c, d

(* What Write leaves in a buffer. *)
LEMMA WrittenCells ==
  ASSUME NEW b \in Seq(Cells), NEW p \in Nat, NEW cells \in Seq(Cells)
  PROVE  /\ Written(b, p, cells) \in Seq(Cells)
         /\ Len(Written(b, p, cells)) = Len(b)
         /\ \A i \in 1 .. Len(b) :
              Written(b, p, cells)[i] =
                IF p < i /\ i <= p + Len(cells) THEN cells[i - p] ELSE b[i]
<1> DEFINE w == [i \in 1 .. Len(b) |-> IF i \in (p + 1) .. (p + Len(cells))
                                       THEN cells[i - p] ELSE b[i]]
<1>1. Len(b) \in Nat /\ Len(cells) \in Nat
  OBVIOUS
<1>2. \A i \in 1 .. Len(b) : w[i] = IF p < i /\ i <= p + Len(cells) THEN cells[i - p] ELSE b[i]
  BY <1>1
<1>3. \A i \in 1 .. Len(b) : w[i] \in Cells
  <2> SUFFICES ASSUME NEW i \in 1 .. Len(b) PROVE w[i] \in Cells
    OBVIOUS
  <2> HIDE DEF w
  <2>1. b[i] \in Cells
    OBVIOUS
  <2>2. p < i /\ i <= p + Len(cells) => i - p \in 1 .. Len(cells)
    BY <1>1
  <2>3. p < i /\ i <= p + Len(cells) => cells[i - p] \in Cells
    BY <2>2
  <2> QED
    BY <1>2, <2>1, <2>3
<1>4. DOMAIN w = 1 .. Len(b) /\ w = [i \in 1 .. Len(b) |-> w[i]]
  OBVIOUS
<1>5. Written(b, p, cells) = w
  BY DEF Written
<1> HIDE DEF w
<1>6. w \in Seq(Cells) /\ Len(w) = Len(b)
  BY <1>1, <1>3, <1>4
<1> QED
  BY <1>2, <1>5, <1>6

LEMMA ResizedCells ==
  ASSUME NEW b \in Seq(Cells), NEW n \in Nat, Len(b) <= n
  PROVE  /\ Resized(b, n) \in Seq(Cells) /\ Len(Resized(b, n)) = n
         /\ \A i \in 1 .. Len(b) : Resized(b, n)[i] = b[i]
<1> DEFINE zeros == [i \in 1 .. (n - Len(b)) |-> Stale]
<1>1. n - Len(b) \in Nat /\ Stale \in Cells
  BY DelimiterCells
<1>2. zeros \in Seq(Cells) /\ Len(zeros) = n - Len(b)
  BY <1>1
<1> HIDE DEF zeros
<1>3. Resized(b, n) = b \o zeros
  BY DEF Resized, zeros
<1> QED
  BY <1>1, <1>2, <1>3

(* CheckBuffer leaves what was written, and makes room. *)
LEMMA CheckBufferRoom ==
  ASSUME buffer \in Seq(Cells), pos \in Nat, pos <= Len(buffer), NEW len \in Nat
  PROVE  /\ CheckBuffer(len) \in Seq(Cells)
         /\ Len(buffer) <= Len(CheckBuffer(len)) /\ pos + len <= Len(CheckBuffer(len))
         /\ \A i \in 1 .. pos : CheckBuffer(len)[i] = buffer[i]
<1>1. CASE pos + len > Len(buffer)
  <2>1. Len(buffer) + len \in Nat /\ Len(buffer) <= Len(buffer) + len
    OBVIOUS
  <2>2. CheckBuffer(len) = Resized(buffer, Len(buffer) + len)
    BY <1>1 DEF CheckBuffer
  <2> QED
    BY <2>1, <2>2, ResizedCells
<1>2. CASE ~(pos + len > Len(buffer))
  BY <1>2 DEF CheckBuffer
<1> QED
  BY <1>1, <1>2
----------------------------------------------------------------------------
(* Packets: their fields have different names, and each is read back. *)
FieldsOf(s) == CreateFactory[s.type]

LEMMA FactoryFields ==
  ASSUME NEW type \in DOMAIN CreateFactory
  PROVE  /\ CreateFactory[type] \in Seq(FieldNames)
         /\ \A i, j \in DOMAIN CreateFactory[type] :
              CreateFactory[type][i] = CreateFactory[type][j] => i = j
<1> DEFINE F == CreateFactory[type]
<1>1. F \in {FrameFields, ProcessInfoReqFields, ProcessInfoFields, StreamInfoFields,
             StreamRequestFields, StreamStatusFields}
  BY DEF CreateFactory
<1> HIDE DEF F
<1>2. /\ \E n \in Nat : DOMAIN F = 1 .. n
      /\ F = [i \in DOMAIN F |-> F[i]]
      /\ \A i, j \in DOMAIN F : F[i] = F[j] => i = j
  <2>1. CASE F = FrameFields
    BY <2>1 DEF FrameFields
  <2>2. CASE F = ProcessInfoReqFields
    BY <2>2 DEF ProcessInfoReqFields
  <2>3. CASE F = ProcessInfoFields
    BY <2>3 DEF ProcessInfoFields
  <2>4. CASE F = StreamInfoFields
    BY <2>4 DEF StreamInfoFields
  <2>5. CASE F = StreamRequestFields
    BY <2>5 DEF StreamRequestFields
  <2>6. CASE F = StreamStatusFields
    BY <2>6 DEF StreamStatusFields
  <2> QED
    BY <1>1, <2>1, <2>2, <2>3, <2>4, <2>5, <2>6
<1>3. \A i \in DOMAIN F : F[i] \in FieldNames
  BY DEF F, FieldNames, Range
<1>4. F \in Seq(FieldNames)
  BY <1>2, <1>3
<1> QED
  BY <1>2, <1>4 DEF F

LEMMA SymbolNames == FieldNames \subseteq Symbols /\ DOMAIN CreateFactory \subseteq Symbols
  BY DEF Symbols

WellTyped(f, v) ==
  \/ f \in TextFields /\ v \in Seq(Cells)
  \/ f \notin TextFields /\ f \in FlagFields /\ v \in BOOLEAN
  \/ f \notin TextFields /\ f \notin FlagFields /\ v \in Int

LEMMA TextBack ==
  ASSUME NEW f, NEW v, WellTyped(f, v)
  PROVE  TextOf(f, v) \in Seq(Cells) /\ ValueOf(f, TextOf(f, v)) = v
<1>1. CASE f \in TextFields
  <2>1. \A t : TextOf(f, v) = v /\ ValueOf(f, t) = t
    BY <1>1 DEF TextOf, ValueOf, OneOf
  <2>2. v \in Seq(Cells)
    BY <1>1 DEF WellTyped
  <2> QED
    BY <2>1, <2>2
<1>2. CASE f \notin TextFields /\ f \in FlagFields
  <2> DEFINE n == IF v THEN 1 ELSE 0
  <2>1. v = TRUE \/ v = FALSE
    BY <1>2 DEF WellTyped
  <2>2. n \in Int
    BY <2>1
  <2>3. TextOf(f, v) = DecimalText(n)
    BY <1>2, Zenon DEF TextOf, OneOf
  <2>4. \A t : ValueOf(f, t) = (Stoi(t) # 0)
    BY <1>2, Zenon DEF ValueOf, OneOf
  <2>5. Stoi(DecimalText(n)) = n /\ DecimalText(n) \in Seq(Cells)
    BY <2>2, StoiBack, DecimalCells
  <2>6. (n # 0) = v
    <3>1. CASE v = TRUE
      <4>1. n = 1
        BY <3>1
      <4>2. n # 0
        BY <4>1
      <4> QED
        BY <3>1, <4>2, Zenon
    <3>2. CASE v = FALSE
      <4>1. n = 0
        BY <3>2
      <4> QED
        BY <3>2, <4>1, Zenon
    <3> QED
      BY <2>1, <3>1, <3>2
  <2> HIDE DEF n
  <2>7. ValueOf(f, DecimalText(n)) = v
    BY <2>4, <2>5, <2>6, Zenon
  <2> QED
    BY <2>3, <2>5, <2>7, Zenon
<1>3. CASE f \notin TextFields /\ f \notin FlagFields
  <2>1. \A t : TextOf(f, v) = DecimalText(v) /\ ValueOf(f, t) = Stoi(t)
    BY <1>3, Zenon DEF TextOf, ValueOf, OneOf
  <2>2. v \in Int
    BY <1>3 DEF WellTyped
  <2> QED
    BY <2>1, <2>2, StoiBack, DecimalCells
<1> QED
  BY <1>1, <1>2, <1>3

StructOk(s) ==
  /\ s.type \in DOMAIN CreateFactory
  /\ \A f \in Range(FieldsOf(s)) : WellTyped(f, s.value[f])

LEMMA MadeStruct ==
  ASSUME NEW type \in Types, NEW f \in Range(CreateFactory[type]), NEW v \in Values(f)
  PROVE  StructOk(Struct(type, f, v))
<1> DEFINE s == Struct(type, f, v)
<1>1. /\ s.type = type
      /\ s.value = [g \in Range(CreateFactory[type]) |-> IF g = f THEN v ELSE Plain(g)]
  BY DEF Struct
<1> HIDE DEF s
<1>2. type \in DOMAIN CreateFactory
  BY TypesAssumption
<1>3. ASSUME NEW g PROVE WellTyped(g, Plain(g))
  <2>1. <<Char("1")>> \in Seq(Cells)
    <3>1. Char("1") \in Cells
      BY CharCell DEF Symbols, Digits
    <3> QED
      BY <3>1
  <2>2. CASE g \in TextFields
    BY <2>1, <2>2, Zenon DEF WellTyped, Plain, OneOf
  <2>3. CASE g \notin TextFields /\ g \in FlagFields
    BY <2>3, Zenon DEF WellTyped, Plain, OneOf
  <2>4. CASE g \notin TextFields /\ g \notin FlagFields
    <3>1. Plain(g) = 1
      BY <2>4, Zenon DEF Plain, OneOf
    <3>2. 1 \in Int
      OBVIOUS
    <3> QED
      BY <2>4, <3>1, <3>2, Zenon DEF WellTyped
  <2> QED
    BY <2>2, <2>3, <2>4
<1>4. WellTyped(f, v)
  <2>1. CASE f \in TextFields
    <3>1. v \in Texts
      BY <2>1, Zenon DEF Values, OneOf
    <3>2. v \in Seq({"char"} \X STRING)
      BY <3>1, CodecAssumption
    <3>3. {"char"} \X STRING \subseteq Cells
      BY DEF Cells
    <3>4. v \in Seq(Cells)
      BY <3>2, <3>3
    <3> QED
      BY <2>1, <3>4 DEF WellTyped
  <2>2. CASE f \notin TextFields /\ f \in FlagFields
    BY <2>2, Zenon DEF Values, OneOf, WellTyped
  <2>3. CASE f \notin TextFields /\ f \notin FlagFields
    <3>1. v \in Numbers
      BY <2>3, Zenon DEF Values, OneOf
    <3>2. v \in Int
      BY <3>1, CodecAssumption
    <3> QED
      BY <2>3, <3>2 DEF WellTyped
  <2> QED
    BY <2>1, <2>2, <2>3
<1>5. \A g \in Range(CreateFactory[type]) : WellTyped(g, s.value[g])
  BY <1>1, <1>3, <1>4, Zenon
<1> QED
  BY <1>1, <1>2, <1>5 DEF StructOk, FieldsOf, s
----------------------------------------------------------------------------
(* The layout of the first k blocks of packet s in the cells b: where each *)
(* starts, and where the next one will.  The cell of the main length is    *)
(* left out, since it is written last.                                     *)
FieldText(s, i) == TextOf(FieldsOf(s)[i], s.value[FieldsOf(s)[i]])
Piece(s, i) == Block(FieldsOf(s)[i], FieldText(s, i))

Laid(b, s, k, starts) ==
  /\ starts \in [1 .. (k + 1) -> Nat] /\ starts[1] = 5
  /\ \A i \in 1 .. (k + 1) : starts[i] <= starts[k + 1]
  /\ \A i \in 1 .. k : starts[i + 1] = starts[i] + Len(Piece(s, i))
  /\ \A i \in 1 .. k : \A j \in 1 .. Len(Piece(s, i)) :
       b[starts[i] + j - 1] = Piece(s, i)[j]
  /\ b[1] = STX /\ b[3] = Char(s.type) /\ b[4] = StartBlockDelimiter

LEMMA PieceCells ==
  ASSUME NEW s, StructOk(s), NEW i \in DOMAIN FieldsOf(s)
  PROVE  /\ FieldsOf(s)[i] \in Symbols
         /\ FieldText(s, i) \in Seq(Cells) /\ Piece(s, i) \in Seq(Cells)
         /\ Len(Piece(s, i)) = 3 + Len(FieldText(s, i))
         /\ Piece(s, i)[1] = Length(3 + Len(FieldText(s, i)))
         /\ Piece(s, i)[2] = Char(FieldsOf(s)[i])
         /\ Piece(s, i)[3] = BlockDataDelimiter
         /\ \A j \in 1 .. Len(FieldText(s, i)) : Piece(s, i)[3 + j] = FieldText(s, i)[j]
<1> DEFINE f == FieldsOf(s)[i]
<1>1. s.type \in DOMAIN CreateFactory /\ f \in Range(FieldsOf(s))
  BY DEF StructOk, Range
<1>2. WellTyped(f, s.value[f])
  BY <1>1 DEF StructOk
<1>3. f \in FieldNames
  BY <1>1 DEF FieldNames, FieldsOf
<1>4. f \in Symbols /\ FieldText(s, i) \in Seq(Cells)
  BY <1>2, <1>3, TextBack, SymbolNames DEF FieldText
<1> QED
  BY <1>4, BlockCells DEF Piece

LEMMA FieldCount ==
  ASSUME NEW s, StructOk(s)
  PROVE  /\ Len(FieldsOf(s)) \in Nat /\ DOMAIN FieldsOf(s) = 1 .. Len(FieldsOf(s))
         /\ FieldsOf(s) \in Seq(FieldNames)
         /\ \A i \in 1 .. Len(FieldsOf(s)) : Len(Piece(s, i)) \in Nat /\ Len(Piece(s, i)) >= 3
         /\ Char(s.type) \in Cells
<1>1. s.type \in DOMAIN CreateFactory
  BY DEF StructOk
<1>2. FieldsOf(s) \in Seq(FieldNames)
  BY <1>1, FactoryFields DEF FieldsOf
<1>3. Len(FieldsOf(s)) \in Nat /\ DOMAIN FieldsOf(s) = 1 .. Len(FieldsOf(s))
  BY <1>2
<1>4. ASSUME NEW i \in 1 .. Len(FieldsOf(s))
      PROVE  Len(Piece(s, i)) \in Nat /\ Len(Piece(s, i)) >= 3
  <2>1. FieldText(s, i) \in Seq(Cells) /\ Len(Piece(s, i)) = 3 + Len(FieldText(s, i))
    BY <1>3, PieceCells
  <2>2. Len(FieldText(s, i)) \in Nat
    BY <2>1
  <2> QED
    BY <2>1, <2>2
<1> QED
  BY <1>1, <1>2, <1>3, <1>4, SymbolNames, CharCell

LEMMA LaidKept ==
  ASSUME NEW s, NEW k \in Nat, NEW b, NEW c, NEW starts, Laid(b, s, k, starts),
         \A i \in 1 .. k : Len(Piece(s, i)) \in Nat,
         \A i \in Nat : i > 0 /\ i # 2 /\ i < starts[k + 1] => c[i] = b[i]
  PROVE  Laid(c, s, k, starts)
<1>1. /\ starts \in [1 .. (k + 1) -> Nat] /\ starts[1] = 5
      /\ \A i \in 1 .. (k + 1) : starts[i] <= starts[k + 1]
      /\ \A i \in 1 .. k : starts[i + 1] = starts[i] + Len(Piece(s, i))
      /\ \A i \in 1 .. k : \A j \in 1 .. Len(Piece(s, i)) :
           b[starts[i] + j - 1] = Piece(s, i)[j]
      /\ b[1] = STX /\ b[3] = Char(s.type) /\ b[4] = StartBlockDelimiter
  BY DEF Laid
<1>2. \A i \in 1 .. (k + 1) : starts[i] \in Nat
  BY <1>1
<1>3. 1 \in 1 .. (k + 1) /\ starts[k + 1] >= 5
  BY <1>1, <1>2
<1>4. ASSUME NEW i \in 1 .. (k + 1) PROVE starts[i] >= 5
  <2> DEFINE U == {n \in Nat : n + 1 \in 1 .. (k + 1) => starts[n + 1] >= 5}
  <2>1. ASSUME NEW n \in Nat, \A l \in 0 .. (n - 1) : l \in U PROVE n \in U
    <3> SUFFICES ASSUME n + 1 \in 1 .. (k + 1) PROVE starts[n + 1] >= 5
      OBVIOUS
    <3>1. CASE n = 0
      BY <1>1, <3>1
    <3>2. CASE n # 0
      <4>1. n - 1 \in 0 .. (n - 1) /\ n \in 1 .. k /\ (n - 1) + 1 = n /\ n \in 1 .. (k + 1)
        BY <3>2
      <4>2. starts[n] >= 5
        BY <2>1, <4>1
      <4>3. starts[n + 1] = starts[n] + Len(Piece(s, n)) /\ starts[n] \in Nat
            /\ Len(Piece(s, n)) \in Nat
        BY <1>1, <1>2, <4>1
      <4> QED
        BY <4>2, <4>3
    <3> QED
      BY <3>1, <3>2
  <2> HIDE DEF U
  <2>2. \A n \in Nat : n \in U
    BY <2>1, Induction
  <2>3. i - 1 \in Nat /\ (i - 1) + 1 = i
    OBVIOUS
  <2>4. i - 1 \in U
    BY <2>2, <2>3
  <2> QED
    BY <2>3, <2>4 DEF U
<1>5. ASSUME NEW i \in 1 .. k, NEW j \in 1 .. Len(Piece(s, i))
      PROVE  c[starts[i] + j - 1] = Piece(s, i)[j]
  <2>1. i \in 1 .. (k + 1) /\ i + 1 \in 1 .. (k + 1) /\ Len(Piece(s, i)) \in Nat
    OBVIOUS
  <2>2. /\ starts[i + 1] = starts[i] + Len(Piece(s, i)) /\ starts[i + 1] <= starts[k + 1]
        /\ starts[i] \in Nat /\ starts[i] >= 5 /\ starts[k + 1] \in Nat
    BY <1>1, <1>2, <1>4, <2>1
  <2> DEFINE q == starts[i] + j - 1
  <2>3. q \in Nat /\ q > 0 /\ q # 2 /\ q < starts[k + 1]
    <3>1. \A p, l, e \in Nat : p >= 5 /\ p + l <= e /\ j \in 1 .. l =>
            LET r == p + j - 1 IN r \in Nat /\ r > 0 /\ r # 2 /\ r < e
      OBVIOUS
    <3>2. starts[i] + Len(Piece(s, i)) <= starts[k + 1]
      BY <2>2
    <3> QED
      BY <2>1, <2>2, <3>1, <3>2
  <2>4. c[q] = b[q]
    BY <2>3
  <2> QED
    BY <1>1, <2>4
<1>6. c[1] = b[1] /\ c[3] = b[3] /\ c[4] = b[4]
  <2>1. starts[k + 1] \in Nat
    BY <1>2
  <2> QED
    BY <1>3, <2>1
<1> QED
  BY <1>1, <1>5, <1>6 DEF Laid

LEMMA LaidMore ==
  ASSUME NEW s, NEW k \in Nat, NEW b, NEW starts, Laid(b, s, k, starts),
         Len(Piece(s, k + 1)) \in Nat,
         \A j \in 1 .. Len(Piece(s, k + 1)) :
           b[starts[k + 1] + j - 1] = Piece(s, k + 1)[j]
  PROVE  \E more : /\ Laid(b, s, k + 1, more)
                   /\ more[(k + 1) + 1] = starts[k + 1] + Len(Piece(s, k + 1))
<1> DEFINE n == Len(Piece(s, k + 1))
           more == [i \in 1 .. ((k + 1) + 1) |->
                      IF i = (k + 1) + 1 THEN starts[k + 1] + n ELSE starts[i]]
<1>1. /\ starts \in [1 .. (k + 1) -> Nat] /\ starts[1] = 5
      /\ \A i \in 1 .. (k + 1) : starts[i] <= starts[k + 1]
      /\ \A i \in 1 .. k : starts[i + 1] = starts[i] + Len(Piece(s, i))
      /\ \A i \in 1 .. k : \A j \in 1 .. Len(Piece(s, i)) :
           b[starts[i] + j - 1] = Piece(s, i)[j]
      /\ b[1] = STX /\ b[3] = Char(s.type) /\ b[4] = StartBlockDelimiter
  BY DEF Laid
<1>2. starts[k + 1] \in Nat /\ \A i \in 1 .. (k + 1) : starts[i] \in Nat
  <2>1. \A i \in 1 .. (k + 1) : starts[i] \in Nat
    BY <1>1
  <2>2. k + 1 \in 1 .. (k + 1)
    OBVIOUS
  <2> QED
    BY <2>1, <2>2
<1>3. /\ more \in [1 .. ((k + 1) + 1) -> Nat]
      /\ more[(k + 1) + 1] = starts[k + 1] + n
      /\ \A i \in 1 .. (k + 1) : more[i] = starts[i]
  BY <1>2
<1> HIDE DEF more
<1>4. \A i \in 1 .. ((k + 1) + 1) : i = (k + 1) + 1 \/ i \in 1 .. (k + 1)
  OBVIOUS
<1>5. \A i \in 1 .. ((k + 1) + 1) : more[i] <= more[(k + 1) + 1]
  <2> SUFFICES ASSUME NEW i \in 1 .. ((k + 1) + 1) PROVE more[i] <= more[(k + 1) + 1]
    OBVIOUS
  <2>1. CASE i = (k + 1) + 1
    BY <1>2, <1>3, <2>1
  <2>2. CASE i \in 1 .. (k + 1)
    <3>1. more[i] = starts[i] /\ starts[i] <= starts[k + 1] /\ starts[i] \in Nat
      BY <1>1, <1>2, <1>3, <2>2
    <3> QED
      BY <1>2, <1>3, <3>1
  <2> QED
    BY <1>4, <2>1, <2>2
<1>6. \A i \in 1 .. (k + 1) : i = k + 1 \/ i \in 1 .. k
  OBVIOUS
<1>7. \A i \in 1 .. (k + 1) : more[i + 1] = more[i] + Len(Piece(s, i))
  <2> SUFFICES ASSUME NEW i \in 1 .. (k + 1) PROVE more[i + 1] = more[i] + Len(Piece(s, i))
    OBVIOUS
  <2>1. CASE i = k + 1
    BY <1>3, <2>1
  <2>2. CASE i \in 1 .. k
    <3>1. i \in 1 .. (k + 1) /\ i + 1 \in 1 .. (k + 1)
      BY <2>2
    <3> QED
      BY <1>1, <1>3, <2>2, <3>1
  <2> QED
    BY <1>6, <2>1, <2>2
<1>8. \A i \in 1 .. (k + 1) : \A j \in 1 .. Len(Piece(s, i)) :
        b[more[i] + j - 1] = Piece(s, i)[j]
  <2> SUFFICES ASSUME NEW i \in 1 .. (k + 1), NEW j \in 1 .. Len(Piece(s, i))
               PROVE  b[more[i] + j - 1] = Piece(s, i)[j]
    OBVIOUS
  <2>1. more[i] = starts[i]
    BY <1>3
  <2>2. CASE i = k + 1
    BY <2>1, <2>2
  <2>3. CASE i \in 1 .. k
    BY <1>1, <2>1, <2>3
  <2> QED
    BY <1>6, <2>2, <2>3
<1>9. more[1] = 5
  BY <1>1, <1>3
<1>10. Laid(b, s, k + 1, more)
  BY <1>1, <1>3, <1>5, <1>7, <1>8, <1>9 DEF Laid
<1> QED
  BY <1>3, <1>10
----------------------------------------------------------------------------
(* The inductive invariant: while the sender writes, its buffer has the    *)
(* blocks written so far and the fields left are the others; once it has   *)
(* sent, the packet has all blocks and the reader is at one's start.       *)
Item == [name : Seq(Cells), data : Seq(Cells)]
ItemOf(s, i) == [name |-> <<Char(FieldsOf(s)[i])>>, data |-> FieldText(s, i)]

Phases ==
  /\ writer \in {"idle", "open", "sent"}
  /\ reader \in {"idle", "blocks", "read", "refused"}
  /\ writer # "sent" => reader = "idle"
  /\ writer # "idle" => StructOk(struct)
  /\ buffer \in Seq(Cells)

Open(k, starts) ==
  /\ Laid(buffer, struct, k, starts)
  /\ left = SubSeq(FieldsOf(struct), k + 1, Len(FieldsOf(struct)))
  /\ pos \in Nat /\ pos + 1 = starts[k + 1] /\ pos <= Len(buffer)

OpenInv ==
  writer = "open" =>
    whole /\ \E k \in 0 .. Len(FieldsOf(struct)) : \E starts : Open(k, starts)

Received ==
  /\ packet \in Seq(Cells)
  /\ packet[2] = Length(Len(packet))
  /\ whole => packet[Len(packet)] = ETX

Reading(starts) ==
  /\ Laid(packet, struct, Len(FieldsOf(struct)), starts)
  /\ Len(packet) = starts[Len(FieldsOf(struct)) + 1]
  /\ reader = "blocks" => at = starts[Len(items) + 1]

SentInv == writer = "sent" => Received /\ \E starts : Reading(starts)

ItemsInv ==
  reader \in {"blocks", "read"} =>
    /\ items \in Seq(Item) /\ Len(items) <= Len(FieldsOf(struct))
    /\ \A i \in 1 .. Len(items) : items[i] = ItemOf(struct, i)
    /\ reader = "read" => Len(items) = Len(FieldsOf(struct))

RefusedInv == reader = "refused" => ~whole

CodecInv == Phases /\ OpenInv /\ SentInv /\ ItemsInv /\ RefusedInv

LEMMA CodecInit == PacketsInit => CodecInv
<1> SUFFICES ASSUME PacketsInit PROVE CodecInv
  OBVIOUS
<1>1. buffer \in Seq(Cells)
  <2>1. buffer = [i \in 1 .. BufferSize |-> Stale] /\ Stale \in Cells /\ BufferSize \in Nat
    BY CodecAssumption, DelimiterCells DEF PacketsInit
  <2> QED
    BY <2>1
<1>2. writer = "idle" /\ reader = "idle"
  BY DEF PacketsInit
<1> QED
  BY <1>1, <1>2 DEF CodecInv, Phases, OpenInv, SentInv, ItemsInv, RefusedInv

LEMMA WriterStep ==
  ASSUME CodecInv, NEW s, StructOk(s), Writer(s)
  PROVE  CodecInv'
<1>1. /\ writer' = "open" /\ struct' = s /\ left' = FieldsOf(s) /\ reader' = "idle"
      /\ buffer \in Seq(Cells)
  BY DEF CodecInv, Phases, Writer, FieldsOf, receiver
<1>2. whole'
  BY DEF Writer
<1> DEFINE b == IF Len(buffer) < LeastSize THEN Resized(buffer, LeastSize) ELSE buffer
           cells == StartCells(b, s.type)
<1>3. b \in Seq(Cells) /\ Len(b) \in Nat /\ Len(b) >= 5
  <2>1. Len(buffer) \in Nat /\ LeastSize \in Nat /\ LeastSize >= 5
    BY <1>1, CodecAssumption
  <2>2. CASE Len(buffer) < LeastSize
    BY <1>1, <2>1, <2>2, ResizedCells
  <2>3. CASE ~(Len(buffer) < LeastSize)
    BY <1>1, <2>1, <2>3
  <2> QED
    BY <2>2, <2>3
<1> HIDE DEF b
<1>4. /\ cells \in Seq(Cells) /\ Len(cells) = 4
      /\ cells[1] = STX /\ cells[3] = Char(s.type) /\ cells[4] = StartBlockDelimiter
  <2>1. /\ STX \in Cells /\ b[2] \in Cells /\ Char(s.type) \in Cells
        /\ StartBlockDelimiter \in Cells
    BY <1>3, DelimiterCells, FieldCount
  <2>2. cells = <<STX, b[2], Char(s.type), StartBlockDelimiter>>
    BY DEF StartCells, PosMainLength
  <2> HIDE DEF cells
  <2> QED
    BY <2>1, <2>2
<1> HIDE DEF cells
<1>5. buffer' = Written(b, 0, cells) /\ pos' = 4
  BY <1>4 DEF Writer, Start, b, cells
<1>6. /\ buffer' \in Seq(Cells) /\ Len(buffer') = Len(b)
      /\ \A i \in 1 .. Len(b) :
           buffer'[i] = IF 0 < i /\ i <= 0 + Len(cells) THEN cells[i - 0] ELSE b[i]
  <2>1. 0 \in Nat
    OBVIOUS
  <2>2. /\ Written(b, 0, cells) \in Seq(Cells) /\ Len(Written(b, 0, cells)) = Len(b)
        /\ \A i \in 1 .. Len(b) : Written(b, 0, cells)[i] =
             IF 0 < i /\ i <= 0 + Len(cells) THEN cells[i - 0] ELSE b[i]
    BY <1>3, <1>4, <2>1, WrittenCells, Zenon
  <2> QED
    BY <1>5, <2>2, Zenon
<1>7. \A i \in 1 .. 4 : buffer'[i] = cells[i]
  BY <1>3, <1>4, <1>6
<1> DEFINE starts == [i \in 1 .. (0 + 1) |-> 5]
<1>8. Laid(buffer', s, 0, starts)
  BY <1>4, <1>7 DEF Laid
<1>9. left' = SubSeq(FieldsOf(s), 0 + 1, Len(FieldsOf(s)))
  <2>1. FieldsOf(s) \in Seq(FieldNames)
    BY FieldCount
  <2> QED
    BY <1>1, <2>1
<1>10. Open(0, starts)'
  BY <1>1, <1>3, <1>5, <1>6, <1>8, <1>9 DEF Open
<1>11. 0 \in 0 .. Len(FieldsOf(s))
  BY FieldCount
<1> QED
  BY <1>1, <1>2, <1>6, <1>10, <1>11
     DEF CodecInv, Phases, OpenInv, SentInv, ItemsInv, RefusedInv

LEMMA WriteFieldStep ==
  ASSUME CodecInv, WriteField
  PROVE  CodecInv'
<1>1. /\ writer = "open" /\ writer' = "open" /\ struct' = struct /\ reader = "idle"
      /\ reader' = "idle" /\ StructOk(struct) /\ buffer \in Seq(Cells) /\ left # << >>
  BY DEF CodecInv, Phases, WriteField, receiver
<1>2. whole /\ \E k \in 0 .. Len(FieldsOf(struct)) : \E starts : Open(k, starts)
  BY <1>1 DEF CodecInv, OpenInv
<1>3. PICK k \in 0 .. Len(FieldsOf(struct)) : \E starts : Open(k, starts)
  BY <1>2
<1>4. PICK starts : Open(k, starts)
  BY <1>3
<1> DEFINE F == FieldsOf(struct)
           N == Len(F)
           cells == Piece(struct, k + 1)
           b == CheckBuffer(Len(cells))
<1>5. /\ Laid(buffer, struct, k, starts) /\ left = SubSeq(F, k + 1, N)
      /\ pos \in Nat /\ pos + 1 = starts[k + 1] /\ pos <= Len(buffer)
  BY <1>4 DEF Open
<1>6. F \in Seq(FieldNames) /\ N \in Nat /\ DOMAIN F = 1 .. N
      /\ \A i \in 1 .. N : Len(Piece(struct, i)) \in Nat
  BY <1>1, FieldCount
<1> HIDE DEF F
<1>7. /\ k + 1 \in 1 .. N /\ Head(left) = F[k + 1]
      /\ Tail(left) = SubSeq(F, (k + 1) + 1, N)
  <2>1. k \in Nat /\ k <= N
    BY <1>6 DEF F
  <2>2. k < N
    BY <1>1, <1>5, <1>6, <2>1
  <2>3. k + 1 \in 1 .. N
    BY <1>6, <2>1, <2>2
  <2> QED
    BY <1>5, <1>6, <2>1, <2>2, <2>3
<1>8. cells \in Seq(Cells) /\ Len(cells) \in Nat
  BY <1>1, <1>6, <1>7, PieceCells DEF F
<1>9. /\ left' = Tail(left) /\ buffer' = Written(b, pos, cells) /\ pos' = pos + Len(cells)
      /\ whole' = (whole /\ pos + Len(cells) <= Len(b))
  BY <1>7 DEF WriteField, Piece, FieldText, F
<1> HIDE DEF cells
<1>10. /\ b \in Seq(Cells) /\ Len(b) \in Nat
       /\ Len(buffer) <= Len(b) /\ pos + Len(cells) <= Len(b)
       /\ \A i \in 1 .. pos : b[i] = buffer[i]
  <2>1. /\ b \in Seq(Cells)
        /\ Len(buffer) <= Len(b) /\ pos + Len(cells) <= Len(b)
        /\ \A i \in 1 .. pos : b[i] = buffer[i]
    BY <1>1, <1>5, <1>8, CheckBufferRoom, Zenon
  <2> HIDE DEF b
  <2> QED
    BY <2>1
<1> HIDE DEF b
<1>11. whole'
  BY <1>2, <1>9, <1>10
<1>12. /\ buffer' \in Seq(Cells) /\ Len(buffer') = Len(b)
       /\ \A i \in 1 .. Len(b) :
            buffer'[i] = IF pos < i /\ i <= pos + Len(cells) THEN cells[i - pos] ELSE b[i]
  BY <1>5, <1>8, <1>9, <1>10, WrittenCells
<1>13. \A i \in Nat : i > 0 /\ i # 2 /\ i < starts[k + 1] => buffer'[i] = buffer[i]
  <2> SUFFICES ASSUME NEW i \in Nat, i > 0, i < pos + 1 PROVE buffer'[i] = buffer[i]
    BY <1>5
  <2>1. i \in 1 .. pos /\ i \in 1 .. Len(b) /\ ~(pos < i)
    BY <1>5, <1>8, <1>10
  <2> QED
    BY <1>10, <1>12, <2>1
<1>14. k \in Nat /\ \A i \in 1 .. k : Len(Piece(struct, i)) \in Nat
  BY <1>6 DEF F
<1>15. Laid(buffer', struct, k, starts)
  BY <1>5, <1>13, <1>14, LaidKept
<1>16. \A j \in 1 .. Len(cells) : buffer'[starts[k + 1] + j - 1] = cells[j]
  <2> SUFFICES ASSUME NEW j \in 1 .. Len(cells)
               PROVE  buffer'[starts[k + 1] + j - 1] = cells[j]
    OBVIOUS
  <2>1. starts[k + 1] + j - 1 = pos + j
    BY <1>5
  <2>2. pos + j \in 1 .. Len(b) /\ pos < pos + j /\ pos + j <= pos + Len(cells)
        /\ (pos + j) - pos = j
    BY <1>5, <1>8, <1>10
  <2> QED
    BY <1>12, <2>1, <2>2
<1>17. \E more : /\ Laid(buffer', struct, k + 1, more)
                 /\ more[(k + 1) + 1] = starts[k + 1] + Len(cells)
  BY <1>8, <1>14, <1>15, <1>16, LaidMore DEF cells
<1>18. PICK more : /\ Laid(buffer', struct, k + 1, more)
                   /\ more[(k + 1) + 1] = starts[k + 1] + Len(cells)
  BY <1>17
<1>19. /\ pos' \in Nat /\ pos' + 1 = more[(k + 1) + 1] /\ pos' <= Len(buffer')
  BY <1>5, <1>8, <1>9, <1>10, <1>12, <1>18
<1>20. Open(k + 1, more)'
  BY <1>1, <1>7, <1>9, <1>18, <1>19 DEF Open, F
<1>21. k + 1 \in 0 .. Len(FieldsOf(struct))
  BY <1>6, <1>7 DEF F
<1> QED
  BY <1>1, <1>11, <1>12, <1>20, <1>21
     DEF CodecInv, Phases, OpenInv, SentInv, ItemsInv, RefusedInv

LEMMA EndStep ==
  ASSUME CodecInv, End
  PROVE  CodecInv'
<1>1. /\ writer = "open" /\ writer' = "sent" /\ struct' = struct /\ reader = "idle"
      /\ reader' = "idle" /\ StructOk(struct) /\ buffer \in Seq(Cells) /\ left = << >>
  BY DEF CodecInv, Phases, End
<1>2. whole /\ \E k \in 0 .. Len(FieldsOf(struct)) : \E starts : Open(k, starts)
  BY <1>1 DEF CodecInv, OpenInv
<1>3. PICK k \in 0 .. Len(FieldsOf(struct)) : \E starts : Open(k, starts)
  BY <1>2
<1>4. PICK starts : Open(k, starts)
  BY <1>3
<1> DEFINE F == FieldsOf(struct)
           N == Len(F)
<1>5. /\ Laid(buffer, struct, k, starts) /\ left = SubSeq(F, k + 1, N)
      /\ pos \in Nat /\ pos + 1 = starts[k + 1] /\ pos <= Len(buffer)
  BY <1>4 DEF Open
<1>6. F \in Seq(FieldNames) /\ N \in Nat
      /\ \A i \in 1 .. N : Len(Piece(struct, i)) \in Nat
  BY <1>1, FieldCount
<1> HIDE DEF F
<1>7. k = N
  <2>1. k \in Nat /\ k <= N
    BY <1>6 DEF F
  <2>2. CASE k < N
    <3>1. Len(SubSeq(F, k + 1, N)) = N - k
      BY <1>6, <2>1, <2>2
    <3>2. Len(left) = N - k /\ N - k # 0
      BY <1>5, <1>6, <2>1, <2>2, <3>1
    <3>3. Len(left) = 0
      BY <1>1
    <3> QED
      BY <3>2, <3>3
  <2> QED
    BY <1>6, <2>1, <2>2
<1>8. pos >= 4 /\ 1 \in 1 .. (k + 1)
  <2>1. k \in Nat /\ 1 \in 1 .. (k + 1)
    BY <1>6, <1>7
  <2>2. starts[1] = 5 /\ starts[1] <= starts[k + 1]
    BY <1>5, <2>1 DEF Laid
  <2> QED
    BY <1>5, <2>1, <2>2
<1> DEFINE B(etx) == Written(Written(buffer, pos, <<etx>>), 1, <<Length(pos + 1)>>)
           C(etx) == IF pos < Len(B(etx)) THEN B(etx) ELSE Append(B(etx), etx)
<1>9. \E etx \in EndCell : buffer' = B(etx) /\ packet' = SubSeq(C(etx), 1, pos + 1)
  <2>1. PosMainLength - 1 = 1
    BY DEF PosMainLength
  <2> QED
    BY <2>1 DEF End
<1> HIDE DEF B, C
<1>10. PICK etx \in EndCell : buffer' = B(etx) /\ packet' = SubSeq(C(etx), 1, pos + 1)
  BY <1>9
<1>11. etx \in Cells /\ Length(pos + 1) \in Cells /\ (pos < Len(buffer) => etx = ETX)
  <2>1. ETX \in Cells /\ Stale \in Cells
    BY DelimiterCells
  <2>2. pos + 1 \in Nat
    BY <1>5
  <2> QED
    BY <2>1, <2>2, LengthCell DEF EndCell
<1> DEFINE w == Written(buffer, pos, <<etx>>)
           b == B(etx)
           c == C(etx)
           l == Length(pos + 1)
<1> HIDE DEF l
<1>12. /\ w \in Seq(Cells) /\ Len(w) = Len(buffer)
       /\ \A i \in 1 .. Len(buffer) : w[i] = IF i = pos + 1 THEN etx ELSE buffer[i]
  <2>1. <<etx>> \in Seq(Cells) /\ Len(<<etx>>) = 1 /\ <<etx>>[1] = etx
    BY <1>11
  <2>2. /\ w \in Seq(Cells) /\ Len(w) = Len(buffer)
        /\ \A i \in 1 .. Len(buffer) :
             w[i] = IF pos < i /\ i <= pos + Len(<<etx>>) THEN <<etx>>[i - pos] ELSE buffer[i]
    BY <1>1, <1>5, <2>1, WrittenCells, Zenon
  <2> HIDE DEF w
  <2>3. ASSUME NEW i \in 1 .. Len(buffer)
        PROVE  w[i] = IF i = pos + 1 THEN etx ELSE buffer[i]
    <3>1. i \in Nat /\ (pos < i /\ i <= pos + 1 <=> i = pos + 1)
      BY <1>1, <1>5
    <3>2. i = pos + 1 => i - pos = 1
      BY <1>5
    <3> QED
      BY <2>1, <2>2, <3>1, <3>2, Zenon
  <2> QED
    BY <2>2, <2>3
<1> HIDE DEF w
<1>13. /\ b \in Seq(Cells) /\ Len(b) = Len(buffer)
       /\ \A i \in 1 .. Len(buffer) : b[i] = IF i = 2 THEN l ELSE w[i]
  <2>1. <<l>> \in Seq(Cells) /\ Len(<<l>>) = 1 /\ <<l>>[1] = l /\ 1 \in Nat
    BY <1>11 DEF l
  <2>2. b = Written(w, 1, <<l>>)
    BY DEF B, w, l
  <2> DEFINE v == Written(w, 1, <<l>>)
  <2>5. /\ v \in Seq(Cells) /\ Len(v) = Len(w)
        /\ \A i \in 1 .. Len(w) :
             v[i] = IF 1 < i /\ i <= 1 + Len(<<l>>) THEN <<l>>[i - 1] ELSE w[i]
    BY <1>12, <2>1, WrittenCells, Zenon
  <2> HIDE DEF b, v
  <2>3. /\ b \in Seq(Cells) /\ Len(b) = Len(w)
        /\ \A i \in 1 .. Len(w) :
             b[i] = IF 1 < i /\ i <= 1 + Len(<<l>>) THEN <<l>>[i - 1] ELSE w[i]
    BY <2>2, <2>5 DEF v
  <2>4. ASSUME NEW i \in 1 .. Len(buffer)
        PROVE  b[i] = IF i = 2 THEN l ELSE w[i]
    <3>1. 1 < i /\ i <= 1 + 1 <=> i = 2
      BY <1>1
    <3>2. i = 2 => i - 1 = 1
      OBVIOUS
    <3> QED
      BY <1>12, <2>1, <2>3, <3>1, <3>2, Zenon
  <2> QED
    BY <1>12, <2>3, <2>4
<1>14. /\ c \in Seq(Cells) /\ Len(c) \in Nat /\ pos + 1 <= Len(c)
       /\ \A i \in 1 .. pos : c[i] = b[i]
       /\ c[pos + 1] = etx
  <2>1. c = IF pos < Len(b) THEN b ELSE Append(b, etx)
    BY DEF C
  <2> HIDE DEF b, c
  <2>2. CASE pos < Len(b)
    <3>1. c = b /\ pos + 1 \in 1 .. Len(buffer) /\ pos + 1 # 2
      BY <1>1, <1>5, <1>8, <1>13, <2>1, <2>2
    <3> QED
      BY <1>5, <1>12, <1>13, <2>2, <3>1
  <2>3. CASE ~(pos < Len(b))
    <3>1. c = Append(b, etx) /\ Len(b) = pos
      BY <1>1, <1>5, <1>13, <2>1, <2>3
    <3> QED
      BY <1>5, <1>11, <1>13, <3>1
  <2> QED
    BY <2>2, <2>3
<1> HIDE DEF b, c
<1>15. /\ packet' \in Seq(Cells) /\ Len(packet') = pos + 1
       /\ \A i \in 1 .. (pos + 1) : packet'[i] = c[i]
  BY <1>5, <1>10, <1>14 DEF c
<1>16. buffer' \in Seq(Cells)
  BY <1>10, <1>13 DEF b
<1>17. packet'[2] = Length(Len(packet')) /\ packet'[Len(packet')] = etx
  <2>1. /\ 2 \in 1 .. (pos + 1) /\ 2 \in 1 .. pos /\ 2 \in 1 .. Len(buffer)
        /\ pos + 1 \in 1 .. (pos + 1)
    BY <1>1, <1>5, <1>8
  <2>2. packet'[2] = l
    BY <1>13, <1>14, <1>15, <2>1
  <2>3. packet'[pos + 1] = etx
    BY <1>14, <1>15, <2>1
  <2> QED
    BY <1>15, <2>2, <2>3 DEF l
<1>18. whole' => etx = ETX
  <2>1. whole' = (whole /\ pos < Len(buffer))
    BY DEF End
  <2> QED
    BY <1>11, <2>1
<1>19. Laid(packet', struct, k, starts)
  <2>1. \A i \in Nat : i > 0 /\ i # 2 /\ i < starts[k + 1] => packet'[i] = buffer[i]
    <3> SUFFICES ASSUME NEW i \in Nat, i > 0, i # 2, i < pos + 1 PROVE packet'[i] = buffer[i]
      BY <1>5
    <3>1. i \in 1 .. (pos + 1) /\ i \in 1 .. pos /\ i \in 1 .. Len(buffer) /\ i # pos + 1
      BY <1>1, <1>5
    <3> QED
      BY <1>12, <1>13, <1>14, <1>15, <3>1
  <2>2. k \in Nat /\ \A i \in 1 .. k : Len(Piece(struct, i)) \in Nat
    BY <1>6, <1>7
  <2> QED
    BY <1>5, <2>1, <2>2, LaidKept
<1>20. Received'
  BY <1>15, <1>17, <1>18 DEF Received
<1>21. Reading(starts)'
  BY <1>1, <1>5, <1>7, <1>15, <1>19 DEF Reading, F
<1> QED
  BY <1>1, <1>16, <1>20, <1>21
     DEF CodecInv, Phases, OpenInv, SentInv, ItemsInv, RefusedInv

(* A delimiter that follows a name of one cell is its end. *)
LEMMA NameEndsAt ==
  ASSUME packet \in Seq(Cells), NEW from \in Nat, from + 1 <= Len(packet),
         NEW delimiter, packet[from + 1] = delimiter
  PROVE  NameEnd(from, delimiter) = from + 1
<1>1. Len(packet) \in Nat
  OBVIOUS
<1> DEFINE Ends(i) == packet[i] = delimiter
                      /\ \A k \in (from + 1) .. (i - 1) : packet[k] # delimiter
<1>2. from + 1 \in (from + 1) .. Len(packet) /\ Ends(from + 1)
  BY <1>1
<1>3. ASSUME NEW i \in (from + 1) .. Len(packet), Ends(i) PROVE i = from + 1
  <2> SUFFICES ASSUME i # from + 1 PROVE FALSE
    OBVIOUS
  <2>1. from + 1 \in (from + 1) .. (i - 1)
    BY <1>1
  <2> QED
    BY <1>3, <2>1
<1>4. NameEnd(from, delimiter) = CHOOSE i \in (from + 1) .. Len(packet) : Ends(i)
  BY DEF NameEnd
<1> HIDE DEF Ends
<1> QED
  BY <1>2, <1>3, <1>4

LEMMA OneCell ==
  ASSUME NEW S, NEW s \in Seq(S), NEW p \in 1 .. Len(s)
  PROVE  SubSeq(s, p, p) = <<s[p]>>
<1> DEFINE t == SubSeq(s, p, p)
           u == <<s[p]>>
<1>1. t \in Seq(S) /\ Len(t) = 1 /\ t[1] = s[p]
  OBVIOUS
<1>2. u \in Seq(S) /\ Len(u) = 1 /\ u[1] = s[p]
  OBVIOUS
<1> HIDE DEF t, u
<1>3. \A i \in 1 .. Len(t) : t[i] = u[i]
  BY <1>1, <1>2
<1>4. t = u
  BY <1>1, <1>2, <1>3, SeqEqual
<1> QED
  BY <1>4 DEF t, u

(* The main name is the packet's kind. *)
LEMMA MainNameIsType ==
  ASSUME Phases, Received, NEW starts, Reading(starts), writer = "sent"
  PROVE  /\ MainName = <<Char(struct.type)>>
         /\ MainLength = Len(packet)
         /\ packet[1] = STX /\ starts[1] = 5
<1>1. /\ StructOk(struct) /\ packet \in Seq(Cells) /\ packet[2] = Length(Len(packet))
      /\ Laid(packet, struct, Len(FieldsOf(struct)), starts)
      /\ Len(packet) = starts[Len(FieldsOf(struct)) + 1]
      /\ Len(packet) \in Nat
  BY DEF Phases, Received, Reading
<1>2. Len(FieldsOf(struct)) \in Nat
  BY <1>1, FieldCount
<1>3. /\ packet[1] = STX /\ packet[3] = Char(struct.type) /\ packet[4] = StartBlockDelimiter
      /\ starts[1] = 5
  BY <1>1 DEF Laid
<1>4. Len(packet) >= 5
  <2>1. 1 \in 1 .. (Len(FieldsOf(struct)) + 1)
    BY <1>2
  <2>2. starts[1] <= starts[Len(FieldsOf(struct)) + 1]
    BY <1>1, <2>1 DEF Laid
  <2> QED
    BY <1>1, <1>3, <2>2
<1>5. NameEnd(3, StartBlockDelimiter) = 4
  <2>1. 3 \in Nat /\ 3 + 1 = 4 /\ 3 + 1 <= Len(packet)
    BY <1>1, <1>4
  <2>2. packet[3 + 1] = StartBlockDelimiter
    BY <1>3, <2>1
  <2> QED
    BY <1>1, <2>1, <2>2, NameEndsAt
<1>6. MainName = SubSeq(packet, 3, 3)
  <2>1. 4 - 1 = 3
    OBVIOUS
  <2> QED
    BY <1>5, <2>1, Zenon DEF MainName, PosMainName
<1>7. MainName = <<packet[3]>>
  <2>1. 3 \in 1 .. Len(packet)
    BY <1>1, <1>4
  <2> QED
    BY <1>1, <1>6, <2>1, OneCell
<1>8. MainLength = Len(packet)
  BY <1>1, LengthCell DEF MainLength, PosMainLength
<1> QED
  BY <1>3, <1>7, <1>8

LEMMA DoAnalyzeStep ==
  ASSUME CodecInv, DoAnalyze
  PROVE  CodecInv'
<1>1. /\ writer = "sent" /\ writer' = "sent" /\ struct' = struct /\ packet' = packet
      /\ buffer' = buffer /\ StructOk(struct) /\ buffer \in Seq(Cells) /\ items' = << >>
      /\ Phases
  BY DEF CodecInv, Phases, DoAnalyze, sender
<1>2. whole' = whole
  BY DEF DoAnalyze, sender
<1>3. Received /\ \E starts : Reading(starts)
  BY <1>1 DEF CodecInv, SentInv
<1>4. PICK starts : Reading(starts)
  BY <1>3
<1>5. /\ MainName = <<Char(struct.type)>> /\ MainLength = Len(packet)
      /\ packet[1] = STX /\ starts[1] = 5
  BY <1>1, <1>3, <1>4, MainNameIsType
<1>6. Received'
  BY <1>1, <1>2, <1>3 DEF Received
<1>7. CASE HasSTX /\ HasETX
  <2>1. reader' = "blocks" /\ at' = PosMainName + Len(MainName) + 1
    BY <1>7 DEF DoAnalyze
  <2>2. at' = 5
    <3>1. Len(MainName) = 1
      BY <1>5
    <3> QED
      BY <2>1, <3>1 DEF PosMainName
  <2>3. Len(items') = 0 /\ items' \in Seq(Item) /\ Len(items') + 1 = 1
    BY <1>1
  <2>4. Reading(starts)'
    BY <1>1, <1>4, <1>5, <2>2, <2>3 DEF Reading
  <2>5. Len(items') <= Len(FieldsOf(struct))
    BY <1>1, <2>3, FieldCount
  <2> QED
    BY <1>1, <1>6, <2>1, <2>3, <2>4, <2>5
       DEF CodecInv, Phases, OpenInv, SentInv, ItemsInv, RefusedInv
<1>8. CASE ~(HasSTX /\ HasETX)
  <2>1. reader' = "refused"
    BY <1>8 DEF DoAnalyze
  <2>2. packet[Len(packet)] # ETX
    BY <1>5, <1>8 DEF HasSTX, HasETX
  <2>3. ~whole
    BY <1>3, <2>2 DEF Received
  <2>4. ~whole'
    BY <1>2, <2>3
  <2>5. Reading(starts)'
    BY <1>1, <1>4, <2>1 DEF Reading
  <2> QED
    BY <1>1, <1>6, <2>1, <2>4, <2>5
       DEF CodecInv, Phases, OpenInv, SentInv, ItemsInv, RefusedInv
<1> QED
  BY <1>7, <1>8

(* A block at place p whose name ends at e and which has l cells. *)
ItemBetween(p, e, l) ==
  [name |-> SubSeq(packet, p + 1, e - 1), data |-> SubSeq(packet, e + 1, p + l - 1)]

LEMMA NameOfOne ==
  ASSUME NEW p \in Nat, NEW n \in Nat
  PROVE  ItemBetween(p, (p + 1) + 1, 3 + n)
           = [name |-> SubSeq(packet, p + 1, p + 1), data |-> SubSeq(packet, p + 3, p + n + 2)]
<1>1. ((p + 1) + 1) - 1 = p + 1 /\ ((p + 1) + 1) + 1 = p + 3 /\ p + ((3 + n) - 1) = p + n + 2
  OBVIOUS
<1> DEFINE S(low, high) == SubSeq(packet, low, high)
<1>2. ItemBetween(p, (p + 1) + 1, 3 + n)
        = [name |-> S(p + 1, ((p + 1) + 1) - 1), data |-> S(((p + 1) + 1) + 1, p + ((3 + n) - 1))]
  BY DEF ItemBetween
<1> HIDE DEF S
<1>3. ItemBetween(p, (p + 1) + 1, 3 + n) = [name |-> S(p + 1, p + 1), data |-> S(p + 3, p + n + 2)]
  BY <1>1, <1>2
<1> QED
  BY <1>3 DEF S

(* The block at the start of the i-th piece is the i-th field's. *)
LEMMA BlockThere ==
  ASSUME Phases, Received, NEW starts, Reading(starts), writer = "sent",
         NEW i \in 1 .. Len(FieldsOf(struct))
  PROVE  /\ BlockItem(starts[i]) = ItemOf(struct, i)
         /\ starts[i] + BlockLength(starts[i]) = starts[i + 1]
         /\ starts[i] < Len(packet)
<1> DEFINE N == Len(FieldsOf(struct))
           p == starts[i]
           t == FieldText(struct, i)
           d == SubSeq(packet, p + 3, p + Len(t) + 2)
<1>1. /\ StructOk(struct) /\ packet \in Seq(Cells) /\ Laid(packet, struct, N, starts)
      /\ Len(packet) = starts[N + 1] /\ Len(packet) \in Nat
  BY DEF Phases, Received, Reading
<1>2. N \in Nat /\ i \in DOMAIN FieldsOf(struct)
  BY <1>1, FieldCount
<1>3. /\ t \in Seq(Cells) /\ Len(t) \in Nat /\ Len(Piece(struct, i)) = 3 + Len(t)
      /\ Piece(struct, i)[1] = Length(3 + Len(t))
      /\ Piece(struct, i)[2] = Char(FieldsOf(struct)[i])
      /\ Piece(struct, i)[3] = BlockDataDelimiter
      /\ \A j \in 1 .. Len(t) : Piece(struct, i)[3 + j] = t[j]
  <2>1. /\ t \in Seq(Cells) /\ Len(Piece(struct, i)) = 3 + Len(t)
        /\ Piece(struct, i)[1] = Length(3 + Len(t))
        /\ Piece(struct, i)[2] = Char(FieldsOf(struct)[i])
        /\ Piece(struct, i)[3] = BlockDataDelimiter
        /\ \A j \in 1 .. Len(t) : Piece(struct, i)[3 + j] = t[j]
    BY <1>1, <1>2, PieceCells
  <2> QED
    BY <2>1
<1> HIDE DEF N
<1>4. /\ p \in Nat /\ starts[i + 1] \in Nat
      /\ starts[i + 1] = p + Len(Piece(struct, i)) /\ starts[i + 1] <= Len(packet)
      /\ \A j \in 1 .. Len(Piece(struct, i)) : packet[p + j - 1] = Piece(struct, i)[j]
  <2>1. i \in 1 .. N /\ i \in 1 .. (N + 1) /\ i + 1 \in 1 .. (N + 1)
    BY <1>2 DEF N
  <2> QED
    BY <1>1, <2>1 DEF Laid
<1> HIDE DEF t, p
<1>5. /\ packet[p] = Length(3 + Len(t)) /\ packet[p + 1] = Char(FieldsOf(struct)[i])
      /\ packet[p + 2] = BlockDataDelimiter
      /\ \A j \in 1 .. Len(t) : packet[p + 2 + j] = t[j]
  <2>1. 1 \in 1 .. (3 + Len(t)) /\ 2 \in 1 .. (3 + Len(t)) /\ 3 \in 1 .. (3 + Len(t))
        /\ p + 1 - 1 = p /\ p + 2 - 1 = p + 1 /\ p + 3 - 1 = p + 2
    BY <1>3, <1>4
  <2>2. ASSUME NEW j \in 1 .. Len(t) PROVE packet[p + 2 + j] = t[j]
    <3>1. 3 + j \in 1 .. (3 + Len(t)) /\ p + (3 + j) - 1 = p + 2 + j
      BY <1>3, <1>4
    <3> QED
      BY <1>3, <1>4, <3>1
  <2> QED
    BY <1>3, <1>4, <2>1, <2>2
<1>6. p + (3 + Len(t)) <= Len(packet)
  BY <1>3, <1>4
<1>7. BlockLength(p) = 3 + Len(t)
  <2>1. 3 + Len(t) \in Nat
    BY <1>3
  <2> QED
    BY <1>5, <2>1, LengthCell DEF BlockLength
<1>8. NameEnd(p + 1, BlockDataDelimiter) = (p + 1) + 1
  <2>1. p + 1 \in Nat /\ (p + 1) + 1 <= Len(packet) /\ (p + 1) + 1 = p + 2
    BY <1>1, <1>3, <1>4, <1>6
  <2> QED
    BY <1>1, <1>5, <2>1, NameEndsAt
<1>9. SubSeq(packet, p + 1, p + 1) = <<Char(FieldsOf(struct)[i])>>
  <2>1. p + 1 \in 1 .. Len(packet)
    BY <1>1, <1>3, <1>4, <1>6
  <2> QED
    BY <1>1, <1>5, <2>1, OneCell
<1>10. d = t
  <2>1. /\ p + 3 \in Nat /\ p + Len(t) + 2 \in Nat /\ p + 3 >= 1
        /\ p + Len(t) + 2 <= Len(packet) /\ (p + Len(t) + 2) - (p + 3) + 1 = Len(t)
    BY <1>1, <1>3, <1>4, <1>6
  <2>2. d \in Seq(Cells) /\ Len(d) = Len(t)
    BY <1>1, <1>3, <2>1
  <2>3. ASSUME NEW j \in 1 .. Len(t) PROVE d[j] = t[j]
    <3>1. d[j] = packet[(p + 3) + j - 1]
      BY <1>1, <1>3, <2>1, SMTT(30)
    <3>2. (p + 3) + j - 1 = p + 2 + j
      BY <1>3, <1>4
    <3> QED
      BY <1>5, <3>1, <3>2
  <2> HIDE DEF d
  <2> QED
    BY <1>3, <2>2, <2>3, SeqEqual
<1>11. BlockItem(p) = ItemOf(struct, i)
  <2> DEFINE e == NameEnd(p + 1, BlockDataDelimiter)
             l == BlockLength(p)
  <2>1. BlockItem(p) = ItemBetween(p, e, l)
    BY DEF BlockItem, ItemBetween
  <2>2. e = (p + 1) + 1 /\ l = 3 + Len(t)
    BY <1>7, <1>8
  <2> HIDE DEF e, l
  <2>3. BlockItem(p) = [name |-> SubSeq(packet, p + 1, p + 1), data |-> d]
    <3>1. BlockItem(p) = ItemBetween(p, (p + 1) + 1, 3 + Len(t))
      BY <2>1, <2>2, Zenon
    <3> QED
      BY <1>3, <1>4, <3>1, NameOfOne
  <2> HIDE DEF d
  <2> QED
    BY <1>9, <1>10, <2>3 DEF ItemOf, t
<1>12. p + BlockLength(p) = starts[i + 1] /\ p < Len(packet)
  BY <1>1, <1>3, <1>4, <1>6, <1>7
<1> QED
  BY <1>11, <1>12 DEF p

LEMMA NextBlockStep ==
  ASSUME CodecInv, NextBlock
  PROVE  CodecInv'
<1>1. /\ reader = "blocks" /\ reader' = "blocks" /\ writer' = writer /\ struct' = struct
      /\ packet' = packet /\ buffer' = buffer /\ at < Len(packet)
      /\ items' = Append(items, BlockItem(at)) /\ at' = at + BlockLength(at)
  <2>1. reader = "blocks" /\ writer = "sent"
    BY DEF CodecInv, Phases, NextBlock
  <2>2. Received /\ \E starts : Reading(starts)
    BY <2>1 DEF CodecInv, SentInv
  <2>3. MainLength = Len(packet)
    BY <2>1, <2>2, MainNameIsType DEF CodecInv
  <2> QED
    BY <2>1, <2>3 DEF NextBlock, BlocksEnd, sender
<1>2. whole' = whole
  BY DEF NextBlock, sender
<1>3. writer = "sent" /\ Phases /\ StructOk(struct) /\ buffer \in Seq(Cells)
  BY <1>1 DEF CodecInv, Phases
<1>4. Received /\ \E starts : Reading(starts)
  BY <1>3 DEF CodecInv, SentInv
<1>5. PICK starts : Reading(starts)
  BY <1>4
<1> DEFINE N == Len(FieldsOf(struct))
           n == Len(items)
<1>6. /\ items \in Seq(Item) /\ n <= N /\ \A i \in 1 .. n : items[i] = ItemOf(struct, i)
      /\ n \in Nat /\ N \in Nat
  <2>1. /\ items \in Seq(Item) /\ n <= N /\ \A i \in 1 .. n : items[i] = ItemOf(struct, i)
    BY <1>1 DEF CodecInv, ItemsInv
  <2> QED
    BY <1>3, <2>1, FieldCount
<1>7. at = starts[n + 1] /\ Len(packet) = starts[N + 1]
      /\ Laid(packet, struct, N, starts) /\ Len(packet) \in Nat
  BY <1>1, <1>4, <1>5 DEF Reading, Received
<1>8. n < N
  <2> SUFFICES ASSUME n = N PROVE FALSE
    BY <1>6
  <2>1. at = Len(packet)
    BY <1>7
  <2> QED
    BY <1>1, <1>7, <2>1
<1>9. n + 1 \in 1 .. N
  BY <1>6, <1>8
<1>10. /\ BlockItem(at) = ItemOf(struct, n + 1)
       /\ at + BlockLength(at) = starts[(n + 1) + 1]
  BY <1>3, <1>4, <1>5, <1>7, <1>9, BlockThere
<1>11. ItemOf(struct, n + 1) \in Item
  <2>1. n + 1 \in DOMAIN FieldsOf(struct)
    BY <1>3, <1>9, FieldCount
  <2>2. FieldsOf(struct)[n + 1] \in Symbols /\ FieldText(struct, n + 1) \in Seq(Cells)
    BY <1>3, <2>1, PieceCells
  <2>3. <<Char(FieldsOf(struct)[n + 1])>> \in Seq(Cells)
    BY <2>2, CharCell
  <2> QED
    BY <2>2, <2>3 DEF ItemOf, Item
<1> DEFINE new == BlockItem(at)
<1> HIDE DEF new, N
<1>12. /\ items' \in Seq(Item) /\ Len(items') = n + 1
       /\ \A i \in 1 .. n : items'[i] = items[i]
       /\ items'[n + 1] = new
  <2>1. new \in Item /\ items' = Append(items, new)
    BY <1>1, <1>10, <1>11 DEF new
  <2> QED
    BY <1>6, <2>1
<1>13. \A i \in 1 .. (n + 1) : items'[i] = ItemOf(struct, i)
  <2> SUFFICES ASSUME NEW i \in 1 .. (n + 1) PROVE items'[i] = ItemOf(struct, i)
    OBVIOUS
  <2>1. CASE i = n + 1
    BY <1>10, <1>12, <2>1 DEF new
  <2>2. CASE i # n + 1
    <3>1. i \in 1 .. n
      BY <1>6, <2>2
    <3> QED
      BY <1>6, <1>12, <3>1
  <2> QED
    BY <2>1, <2>2
<1>14. Reading(starts)'
  BY <1>1, <1>7, <1>10, <1>12 DEF Reading, N
<1>15. Received'
  BY <1>1, <1>2, <1>4 DEF Received
<1>16. ItemsInv'
  BY <1>1, <1>9, <1>12, <1>13 DEF ItemsInv, N
<1> QED
  BY <1>1, <1>3, <1>14, <1>15, <1>16
     DEF CodecInv, Phases, OpenInv, SentInv, RefusedInv

LEMMA AnalyzeEndsStep ==
  ASSUME CodecInv, AnalyzeEnds
  PROVE  CodecInv'
<1>1. /\ reader = "blocks" /\ reader' = "read" /\ writer' = writer /\ struct' = struct
      /\ packet' = packet /\ buffer' = buffer /\ items' = items /\ at' = at
  BY DEF AnalyzeEnds, sender
<1>2. whole' = whole
  BY DEF AnalyzeEnds, sender
<1>3. writer = "sent" /\ Phases /\ StructOk(struct) /\ buffer \in Seq(Cells)
  BY <1>1 DEF CodecInv, Phases
<1>4. Received /\ \E starts : Reading(starts)
  BY <1>3 DEF CodecInv, SentInv
<1>5. PICK starts : Reading(starts)
  BY <1>4
<1> DEFINE N == Len(FieldsOf(struct))
           n == Len(items)
<1>6. /\ items \in Seq(Item) /\ n <= N /\ \A i \in 1 .. n : items[i] = ItemOf(struct, i)
      /\ n \in Nat /\ N \in Nat
  <2>1. /\ items \in Seq(Item) /\ n <= N /\ \A i \in 1 .. n : items[i] = ItemOf(struct, i)
    BY <1>1 DEF CodecInv, ItemsInv
  <2> QED
    BY <1>3, <2>1, FieldCount
<1>7. at = starts[n + 1] /\ at >= Len(packet)
  <2>1. MainLength = Len(packet)
    BY <1>3, <1>4, <1>5, MainNameIsType
  <2> QED
    BY <1>1, <1>5, <2>1 DEF Reading, AnalyzeEnds, BlocksEnd
<1>8. n = N
  <2> SUFFICES ASSUME n + 1 \in 1 .. N PROVE FALSE
    BY <1>6
  <2>1. starts[n + 1] < Len(packet)
    BY <1>3, <1>4, <1>5, BlockThere
  <2>2. starts[n + 1] \in Nat /\ Len(packet) \in Nat
    <3>1. n + 1 \in 1 .. (N + 1) /\ N + 1 \in 1 .. (N + 1)
      BY <1>6
    <3>2. starts \in [1 .. (N + 1) -> Nat] /\ Len(packet) = starts[N + 1]
      BY <1>5 DEF Reading, Laid
    <3> QED
      BY <3>1, <3>2
  <2> QED
    BY <1>7, <2>1, <2>2
<1>9. Reading(starts)'
  BY <1>1, <1>5 DEF Reading
<1>10. Received'
  BY <1>1, <1>2, <1>4 DEF Received
<1>11. ItemsInv'
  BY <1>1, <1>6, <1>8 DEF ItemsInv
<1> QED
  BY <1>1, <1>3, <1>9, <1>10, <1>11
     DEF CodecInv, Phases, OpenInv, SentInv, RefusedInv

LEMMA CodecInductive == CodecInv /\ [PacketsNext]_codec => CodecInv'
<1> SUFFICES ASSUME CodecInv, [PacketsNext]_codec PROVE CodecInv'
  OBVIOUS
<1>1. ASSUME NEW type \in Types, NEW f \in Range(CreateFactory[type]), NEW v \in Values(f),
             Writer(Struct(type, f, v))
      PROVE  CodecInv'
  BY <1>1, MadeStruct, WriterStep
<1>2. CASE WriteField
  BY <1>2, WriteFieldStep
<1>3. CASE End
  BY <1>3, EndStep
<1>4. CASE DoAnalyze
  BY <1>4, DoAnalyzeStep
<1>5. CASE NextBlock
  BY <1>5, NextBlockStep
<1>6. CASE AnalyzeEnds
  BY <1>6, AnalyzeEndsStep
<1>7. CASE Done
  BY <1>7 DEF Done, CodecInv, Phases, OpenInv, SentInv, ItemsInv, RefusedInv
<1>8. CASE UNCHANGED codec
  <2>1. /\ UNCHANGED <<writer, struct, left, buffer, pos, reader, packet, at, items>>
        /\ whole' = whole
    BY <1>8 DEF codec, sender, receiver
  <2>2. Received' = Received /\ \A k, starts : Open(k, starts)' = Open(k, starts)
        /\ Reading(starts)' = Reading(starts)
    BY <2>1 DEF Received, Open, Reading, Laid
  <2> QED
    BY <2>1, <2>2 DEF CodecInv, Phases, OpenInv, SentInv, ItemsInv, RefusedInv
<1> QED
  BY <1>1, <1>2, <1>3, <1>4, <1>5, <1>6, <1>7, <1>8 DEF PacketsNext
----------------------------------------------------------------------------
(* Only ETX is ever written outside the sender's buffer: CheckBuffer makes *)
(* room for every block, whatever its size and that of the buffer.         *)
THEOREM PacketsOnlyETXOverruns == PacketsSpec => []OnlyETXOverruns
<1>1. CodecInv => OnlyETXOverruns
  BY DEF CodecInv, OpenInv, Open, RefusedInv, OnlyETXOverruns
<1> QED
  BY <1>1, CodecInit, CodecInductive, PTL DEF PacketsSpec

(* Each block is found by its name, since a packet's fields have different *)
(* names.                                                                  *)
LEMMA ReadFinds ==
  ASSUME NEW s, StructOk(s), items \in Seq(Item), Len(items) = Len(FieldsOf(s)),
         \A i \in 1 .. Len(items) : items[i] = ItemOf(s, i),
         NEW f \in Range(FieldsOf(s))
  PROVE  Read(f) = TextOf(f, s.value[f])
<1> DEFINE F == FieldsOf(s)
           found == {i \in DOMAIN items : items[i].name = <<Char(f)>>}
           First(i) == \A k \in found : i <= k
<1>1. DOMAIN F = 1 .. Len(items) /\ DOMAIN items = 1 .. Len(items)
  BY FieldCount
<1>2. PICK n \in DOMAIN F : F[n] = f
  BY DEF Range
<1>3. ASSUME NEW i \in DOMAIN items
      PROVE  items[i].name = <<Char(f)>> <=> i = n
  <2>1. items[i].name = <<Char(F[i])>>
    BY <1>1 DEF ItemOf
  <2>2. <<Char(F[i])>> = <<Char(f)>> <=> F[i] = f
    BY DEF Char
  <2>3. F[i] = F[n] => i = n
    <3>1. s.type \in DOMAIN CreateFactory
      BY DEF StructOk
    <3> QED
      BY <1>1, <3>1, FactoryFields DEF FieldsOf
  <2> QED
    BY <1>2, <2>1, <2>2, <2>3
<1>4. found = {n}
  BY <1>1, <1>3
<1>5. n \in Nat
  BY <1>1
<1>6. n \in found /\ First(n) /\ \A i \in found : First(i) => i = n
  BY <1>4, <1>5
<1> HIDE DEF found, First
<1>7. (CHOOSE i \in found : First(i)) = n
  BY <1>6
<1>8. Read(f) = items[CHOOSE i \in found : First(i)].data
  BY DEF Read, found, First
<1>9. Read(f) = FieldText(s, n)
  <2>1. Read(f) = items[n].data
    BY <1>7, <1>8
  <2>2. items[n] = ItemOf(s, n)
    BY <1>1
  <2> QED
    BY <2>1, <2>2 DEF ItemOf
<1> QED
  BY <1>2, <1>9 DEF FieldText

(* What the reader takes apart is what the sender wrote, block by block,   *)
(* and every value is read back: numbers of any size, flags, and texts     *)
(* that hold the delimiters.                                               *)
THEOREM PacketsReadBack == PacketsSpec => []ReadsBack
<1>1. CodecInv => ReadsBack
  <2> SUFFICES ASSUME CodecInv PROVE ReadsBack
    OBVIOUS
  <2>1. CASE reader = "blocks"
    <3>1. /\ Len(items) <= Len(FieldsOf(struct)) /\ items \in Seq(Item)
          /\ \A i \in 1 .. Len(items) : items[i] = ItemOf(struct, i)
      BY <2>1 DEF CodecInv, ItemsInv
    <3>2. DOMAIN items = 1 .. Len(items)
      BY <3>1
    <3> QED
      BY <2>1, <3>1, <3>2 DEF ReadsBack, Fields, FieldsOf, ItemOf, FieldText
  <2>2. CASE reader = "read"
    <3>1. Phases /\ writer = "sent" /\ StructOk(struct)
      BY <2>2 DEF CodecInv, Phases
    <3>2. /\ Len(items) = Len(FieldsOf(struct)) /\ items \in Seq(Item)
          /\ \A i \in 1 .. Len(items) : items[i] = ItemOf(struct, i)
      BY <2>2 DEF CodecInv, ItemsInv
    <3>3. MainName = <<Char(struct.type)>>
      BY <3>1, MainNameIsType DEF CodecInv, SentInv
    <3>4. ASSUME NEW f \in Range(FieldsOf(struct))
          PROVE  ValueOf(f, Read(f)) = struct.value[f]
      <4>1. WellTyped(f, struct.value[f])
        BY <3>1 DEF StructOk
      <4>2. Read(f) = TextOf(f, struct.value[f])
        BY <3>1, <3>2, ReadFinds
      <4> QED
        BY <4>1, <4>2, TextBack
    <3> QED
      BY <2>2, <3>2, <3>3, <3>4 DEF ReadsBack, Fields, FieldsOf
  <2> QED
    BY <2>1, <2>2 DEF ReadsBack
<1> QED
  BY <1>1, CodecInit, CodecInductive, PTL DEF PacketsSpec
----------------------------------------------------------------------------
(* The wire format.  First the bytes: what stands where in them.           *)
Prefix(b, full) ==
  Len(b) <= Len(full) /\ \A i \in 1 .. Len(b) : b[i] = full[i]

LEMMA Octets ==
  ASSUME NEW b \in Seq(Octet)
  PROVE  Len(b) \in Nat /\ \A i \in 1 .. Len(b) : b[i] \in Octet /\ b[i] \in Nat /\ b[i] < 256
<1>1. Len(b) \in Nat /\ \A i \in 1 .. Len(b) : b[i] \in Octet
  OBVIOUS
<1>2. \A n \in Octet : n \in Nat /\ n < 256
  BY DEF Octet
<1> QED
  BY <1>1, <1>2, Zenon

(* The bytes w stand in b from a place on. *)
Holds(b, here, w) ==
  /\ here \in Nat \ {0} /\ here + Len(w) - 1 <= Len(b)
  /\ \A i \in 1 .. Len(w) : b[here + i - 1] = w[i]

LEMMA HoldsAll == ASSUME NEW b \in Seq(Octet) PROVE Holds(b, 1, b)
  BY DEF Holds

LEMMA PrefixAll == ASSUME NEW b \in Seq(Octet) PROVE Prefix(b, b)
  BY DEF Prefix

(* A cell of a concatenation. *)
LEMMA JoinedCells ==
  ASSUME NEW T, NEW u \in Seq(T), NEW v \in Seq(T)
  PROVE  /\ u \o v \in Seq(T) /\ Len(u \o v) = Len(u) + Len(v)
         /\ \A i \in 1 .. Len(u) : (u \o v)[i] = u[i]
         /\ \A i \in 1 .. Len(v) : (u \o v)[Len(u) + i] = v[i]
  BY ConcatProperties

LEMMA JoinedOctets ==
  ASSUME NEW u \in Seq(Octet), NEW v \in Seq(Octet)
  PROVE  /\ u \o v \in Seq(Octet) /\ Len(u \o v) = Len(u) + Len(v)
         /\ Len(u) \in Nat /\ Len(v) \in Nat
         /\ \A i \in 1 .. Len(u) : (u \o v)[i] = u[i]
         /\ \A i \in 1 .. Len(v) : (u \o v)[Len(u) + i] = v[i]
  BY ConcatProperties

LEMMA HoldsParts ==
  ASSUME NEW b \in Seq(Octet), NEW here, NEW u \in Seq(Octet), NEW v \in Seq(Octet)
  PROVE  Holds(b, here, u \o v) <=> Holds(b, here, u) /\ Holds(b, here + Len(u), v)
<1> DEFINE w == u \o v
<1>1. /\ w \in Seq(Octet) /\ Len(w) = Len(u) + Len(v) /\ Len(u) \in Nat /\ Len(v) \in Nat
      /\ Len(b) \in Nat
      /\ \A i \in 1 .. Len(u) : w[i] = u[i]
      /\ \A i \in 1 .. Len(v) : w[Len(u) + i] = v[i]
  BY JoinedCells
<1> HIDE DEF w
<1>2. ASSUME Holds(b, here, w) PROVE Holds(b, here, u) /\ Holds(b, here + Len(u), v)
  <2>1. /\ here \in Nat \ {0} /\ here + Len(w) - 1 <= Len(b)
        /\ \A i \in 1 .. Len(w) : b[here + i - 1] = w[i]
    BY <1>2 DEF Holds
  <2>2. ASSUME NEW i \in 1 .. Len(u) PROVE b[here + i - 1] = u[i]
    BY <1>1, <2>1
  <2>3. ASSUME NEW i \in 1 .. Len(v) PROVE b[(here + Len(u)) + i - 1] = v[i]
    <3>1. Len(u) + i \in 1 .. Len(w) /\ here + (Len(u) + i) - 1 = (here + Len(u)) + i - 1
      BY <1>1, <2>1
    <3> QED
      BY <1>1, <2>1, <3>1
  <2> QED
    BY <1>1, <2>1, <2>2, <2>3 DEF Holds
<1>3. ASSUME Holds(b, here, u), Holds(b, here + Len(u), v) PROVE Holds(b, here, w)
  <2>1. /\ here \in Nat \ {0} /\ here + Len(u) + Len(v) - 1 <= Len(b)
        /\ \A i \in 1 .. Len(u) : b[here + i - 1] = u[i]
        /\ \A i \in 1 .. Len(v) : b[(here + Len(u)) + i - 1] = v[i]
    BY <1>1, <1>3 DEF Holds
  <2>2. ASSUME NEW i \in 1 .. Len(w) PROVE b[here + i - 1] = w[i]
    <3>1. CASE i <= Len(u)
      BY <1>1, <2>1, <3>1
    <3>2. CASE ~(i <= Len(u))
      <4> DEFINE j == i - Len(u)
      <4>1. j \in 1 .. Len(v) /\ Len(u) + j = i /\ (here + Len(u)) + j - 1 = here + i - 1
        BY <1>1, <2>1, <3>2
      <4> HIDE DEF j
      <4>2. w[Len(u) + j] = v[j] /\ b[(here + Len(u)) + j - 1] = v[j]
        BY <1>1, <2>1, <4>1, Zenon
      <4> QED
        BY <4>1, <4>2
    <3> QED
      BY <3>1, <3>2
  <2> QED
    BY <1>1, <2>1, <2>2 DEF Holds
<1> QED
  BY <1>2, <1>3 DEF w

(* What stands in b and is cut out of it. *)
LEMMA HoldsCut ==
  ASSUME NEW b \in Seq(Octet), NEW here, NEW w \in Seq(Octet), Holds(b, here, w)
  PROVE  SubSeq(b, here, here + Len(w) - 1) = w
<1> DEFINE s == SubSeq(b, here, here + Len(w) - 1)
<1>1. /\ here \in Nat \ {0} /\ here + Len(w) - 1 <= Len(b) /\ Len(w) \in Nat /\ Len(b) \in Nat
      /\ \A i \in 1 .. Len(w) : b[here + i - 1] = w[i]
  BY DEF Holds
<1>2. s \in Seq(Octet) /\ Len(s) = Len(w) /\ \A i \in 1 .. Len(w) : s[i] = b[here + i - 1]
  BY <1>1
<1> HIDE DEF s
<1>3. s = w
  BY <1>1, <1>2
<1> QED
  BY <1>3 DEF s

LEMMA PrefixHolds ==
  ASSUME NEW b \in Seq(Octet), NEW full \in Seq(Octet), Prefix(b, full),
         NEW here, NEW w \in Seq(Octet), Holds(full, here, w), here + Len(w) - 1 <= Len(b)
  PROVE  Holds(b, here, w)
<1>1. /\ here \in Nat \ {0} /\ Len(w) \in Nat /\ Len(b) \in Nat
      /\ \A i \in 1 .. Len(w) : full[here + i - 1] = w[i]
      /\ \A i \in 1 .. Len(b) : b[i] = full[i]
  BY DEF Holds, Prefix
<1>2. ASSUME NEW i \in 1 .. Len(w) PROVE b[here + i - 1] = w[i]
  <2>1. here + i - 1 \in 1 .. Len(b)
    BY <1>1
  <2> QED
    BY <1>1, <2>1
<1> QED
  BY <1>1, <1>2 DEF Holds
----------------------------------------------------------------------------
(* Varints. *)
LEMMA SpanFacts ==
  /\ IntSpan \in Nat /\ IntSpan > 128 * 128 /\ IntSpan <= 128 * 128 * 128 * 128 * 128
  /\ IntSpan = 2 * (IntSpan \div 2) /\ IntSpan \div 2 \in Nat
<1>1. /\ IntSpan \in Nat /\ IntSpan > 128 * 128 /\ IntSpan % 2 = 0
      /\ IntSpan \div 4 <= 1024 * 1024 * 1024
  BY WireAssumption
<1>2. /\ IntSpan \div 4 \in Nat /\ IntSpan % 4 \in 0 .. 3
      /\ IntSpan = 4 * (IntSpan \div 4) + (IntSpan % 4)
  BY <1>1
<1>3. IntSpan <= 4 * (1024 * 1024 * 1024) + 3
  BY <1>1, <1>2
<1>4. IntSpan = 2 * (IntSpan \div 2) /\ IntSpan \div 2 \in Nat
  BY <1>1
<1> QED
  BY <1>1, <1>3, <1>4

LEMMA DigitsOf128 ==
  \A n \in Nat : n % 128 \in 0 .. 127 /\ n \div 128 \in Nat /\ n = 128 * (n \div 128) + (n % 128)
                 /\ (n >= 128 => n \div 128 < n /\ n \div 128 >= 1)
  OBVIOUS

LEMMA VarintDef ==
  /\ Varint \in [Nat -> Seq(Octet)]
  /\ \A n \in Nat :
       Varint[n] = IF n < 128 THEN <<n>> ELSE <<128 + (n % 128)>> \o Varint[n \div 128]
<1> DEFINE S == Seq(Octet)
           first == [n \in Nat |-> IF n < 128 THEN <<n>> ELSE << >>]
           next == [n \in Nat |-> [s \in S |-> <<128 + (n % 128)>> \o s]]
           p == [n \in Nat |-> n \div 128]
<1>1. \A n \in Nat : <<128 + (n % 128)>> \in S /\ (n < 128 => <<n>> \in S)
  <2> SUFFICES ASSUME NEW n \in Nat PROVE <<128 + (n % 128)>> \in S /\ (n < 128 => <<n>> \in S)
    OBVIOUS
  <2>1. n % 128 \in 0 .. 127
    BY DigitsOf128
  <2>2. 128 + (n % 128) \in Octet /\ (n < 128 => n \in Octet)
    BY <2>1 DEF Octet
  <2> QED
    BY <2>2
<1>2. \A n \in Nat : \A s \in S : <<128 + (n % 128)>> \o s \in S
  BY <1>1, ConcatProperties
<1>3. /\ first \in [Nat -> S] /\ next \in [Nat -> [S -> S]] /\ p \in [Nat -> Nat]
      /\ \A n \in Nat \ (0 .. 127) : p[n] \in Nat /\ p[n] < n
  <2>1. first \in [Nat -> S]
    BY <1>1
  <2>2. next \in [Nat -> [S -> S]]
    <3> HIDE DEF S
    <3> QED
      BY <1>2
  <2> QED
    BY <2>1, <2>2, DigitsOf128
<1> HIDE DEF first, next, p, S
<1>4. \E f \in [Nat -> S] :
        \A n \in Nat : f[n] = IF n \in 0 .. 127 THEN first[n] ELSE next[n][f[p[n]]]
  <2>1. Nat \in SUBSET Nat /\ 0 .. 127 \in SUBSET Nat
    OBVIOUS
  <2>2. Recurses(Nat, S, 0 .. 127, first, next, p)
    BY <1>3, <2>1 DEF Recurses
  <2> QED
    BY <2>2, Recursion
<1>5. PICK f \in [Nat -> S] :
        \A n \in Nat : f[n] = IF n \in 0 .. 127 THEN first[n] ELSE next[n][f[p[n]]]
  BY <1>4
<1> DEFINE Rec(g) == [n \in Nat |-> IF n < 128 THEN <<n>> ELSE <<128 + (n % 128)>> \o g[n \div 128]]
<1>6. \A n \in Nat : f[n] = IF n < 128 THEN <<n>> ELSE <<128 + (n % 128)>> \o f[n \div 128]
  <2> SUFFICES ASSUME NEW n \in Nat
               PROVE  f[n] = IF n < 128 THEN <<n>> ELSE <<128 + (n % 128)>> \o f[n \div 128]
    OBVIOUS
  <2>1. CASE n < 128
    <3>1. n \in 0 .. 127 /\ first[n] = <<n>>
      BY <2>1 DEF first
    <3> QED
      BY <1>5, <2>1, <3>1
  <2>2. CASE ~(n < 128)
    <3>1. n \notin 0 .. 127 /\ p[n] = n \div 128 /\ n \div 128 \in Nat
      BY <2>2, DigitsOf128 DEF p
    <3>2. f[n \div 128] \in S
      BY <1>5, <3>1
    <3>3. next[n][f[n \div 128]] = <<128 + (n % 128)>> \o f[n \div 128]
      BY <3>2 DEF next
    <3> QED
      BY <1>5, <2>2, <3>1, <3>3
  <2> QED
    BY <2>1, <2>2
<1>7. f = Rec(f)
  BY <1>5, <1>6
<1>8. Varint = CHOOSE g : g = Rec(g)
  BY DEF Varint
<1>9. Varint = Rec(Varint)
  <2> HIDE DEF Rec
  <2> QED
    BY <1>7, <1>8
<1>10. \A n \in Nat :
         Varint[n] = IF n < 128 THEN <<n>> ELSE <<128 + (n % 128)>> \o Varint[n \div 128]
  BY <1>9
<1>11. \A n \in Nat : Varint[n] \in S
  <2> DEFINE U == {n \in Nat : Varint[n] \in S}
  <2>1. ASSUME NEW n \in Nat, \A k \in 0 .. (n - 1) : k \in U PROVE n \in U
    <3>1. CASE n < 128
      BY <1>1, <1>10, <3>1
    <3>2. CASE ~(n < 128)
      <4>1. n \div 128 \in 0 .. (n - 1)
        BY <3>2, DigitsOf128
      <4>2. Varint[n \div 128] \in S
        BY <2>1, <4>1
      <4>3. <<128 + (n % 128)>> \o Varint[n \div 128] \in S
        BY <1>2, <4>2, Zenon
      <4>4. Varint[n] = <<128 + (n % 128)>> \o Varint[n \div 128]
        BY <1>10, <3>2
      <4> QED
        BY <4>3, <4>4, Zenon
    <3> QED
      BY <3>1, <3>2
  <2> HIDE DEF U
  <2>2. \A n \in Nat : n \in U
    BY <2>1, Induction
  <2> QED
    BY <2>2 DEF U
<1>12. Varint = [n \in Nat |-> Varint[n]]
  BY <1>9
<1> QED
  BY <1>10, <1>11, <1>12 DEF S

(* The end of a varint is the first byte below 128, if there is one. *)
LEMMA VarintEndIs ==
  ASSUME NEW b \in Seq(Octet), NEW here \in Nat \ {0}, NEW e \in here .. (here + 9),
         e <= Len(b), b[e] < 128, \A i \in here .. (e - 1) : b[i] >= 128
  PROVE  VarintEnd(b, here) = e
<1> DEFINE ends == {i \in here .. (here + 9) : i <= Len(b) /\ b[i] < 128}
<1>1. e \in ends /\ \A i \in ends : e <= i
  <2>1. \A i \in 1 .. Len(b) : b[i] \in Nat
    BY Octets
  <2>2. ASSUME NEW i \in ends, ~(e <= i) PROVE FALSE
    <3>1. i \in here .. (e - 1) /\ i \in 1 .. Len(b)
      BY <2>2
    <3>2. b[i] >= 128 /\ b[i] < 128 /\ b[i] \in Nat
      BY <2>1, <3>1
    <3> QED
      BY <3>2
  <2> QED
    BY <2>2
<1>2. \A i, j \in ends : i \in Int /\ (i <= j /\ j <= i => i = j)
  OBVIOUS
<1> HIDE DEF ends
<1>3. Min(ends) = e
  BY <1>1, <1>2 DEF Min
<1>4. ends # {}
  BY <1>1
<1> QED
  BY <1>3, <1>4 DEF VarintEnd, ends

LEMMA VarintEndFacts ==
  ASSUME NEW b \in Seq(Octet), NEW here \in Nat \ {0}
  PROVE  \/ /\ VarintEnd(b, here) = 0
            /\ \A i \in here .. (here + 9) : i <= Len(b) => b[i] >= 128
         \/ /\ VarintEnd(b, here) \in here .. (here + 9) /\ VarintEnd(b, here) <= Len(b)
            /\ b[VarintEnd(b, here)] < 128
            /\ \A i \in here .. (VarintEnd(b, here) - 1) : b[i] >= 128
<1> DEFINE ends == {i \in here .. (here + 9) : i <= Len(b) /\ b[i] < 128}
<1>0. \A i \in 1 .. Len(b) : b[i] \in Nat
  BY Octets
<1>1. CASE ends = {}
  <2>1. VarintEnd(b, here) = 0
    BY <1>1 DEF VarintEnd
  <2>2. ASSUME NEW i \in here .. (here + 9), i <= Len(b) PROVE b[i] >= 128
    <3>1. i \in 1 .. Len(b) /\ i \notin ends
      BY <1>1, <2>2
    <3>2. ~(b[i] < 128) /\ b[i] \in Nat
      BY <1>0, <2>2, <3>1
    <3> QED
      BY <3>2
  <2> QED
    BY <2>1, <2>2
<1>2. CASE ends # {}
  <2>1. ends \in SUBSET Nat
    OBVIOUS
  <2>2. PICK e \in ends : \A j \in ends : e <= j
    <3> HIDE DEF ends
    <3> QED
      BY <1>2, <2>1, Least
  <2>3. e \in here .. (here + 9) /\ e <= Len(b) /\ b[e] < 128
    BY <2>2
  <2>4. ASSUME NEW i \in here .. (e - 1) PROVE b[i] >= 128
    <3>1. i \in here .. (here + 9) /\ i <= Len(b) /\ i \in 1 .. Len(b) /\ ~(e <= i)
      BY <2>3
    <3>2. i \notin ends
      BY <2>2, <3>1
    <3>3. ~(b[i] < 128) /\ b[i] \in Nat
      BY <1>0, <3>1, <3>2
    <3> QED
      BY <3>3
  <2>5. VarintEnd(b, here) = e
    <3> HIDE DEF ends
    <3> QED
      BY <2>3, <2>4, VarintEndIs
  <2> QED
    BY <2>3, <2>4, <2>5
<1> QED
  BY <1>1, <1>2

(* The value, from the last byte down. *)
HornerOf(b, e, k) ==
  CHOOSE last : last = [n \in 0 .. k |->
    ((b[e - n] % 128) + (IF n = 0 THEN 0 ELSE 128 * last[n - 1])) % IntSpan]

LEMMA SmallSpan ==
  \A n \in Int : n % IntSpan \in 0 .. (IntSpan - 1) /\ (n \in 0 .. (IntSpan - 1) => n % IntSpan = n)
<1>1. IntSpan \in Nat /\ IntSpan > 0
  BY SpanFacts
<1> QED
  BY <1>1

LEMMA HornerDef ==
  ASSUME NEW b \in Seq(Octet), NEW e \in 1 .. Len(b), NEW k \in 0 .. (e - 1)
  PROVE  \A n \in 0 .. k :
           /\ HornerOf(b, e, k)[n] \in 0 .. (IntSpan - 1)
           /\ HornerOf(b, e, k)[n] =
                ((b[e - n] % 128) + (IF n = 0 THEN 0 ELSE 128 * HornerOf(b, e, k)[n - 1])) % IntSpan
<1> DEFINE D == 0 .. k
           S == 0 .. (IntSpan - 1)
           first == [n \in D |-> ((b[e - n] % 128) + 0) % IntSpan]
           next == [n \in D |-> [v \in S |-> ((b[e - n] % 128) + 128 * v) % IntSpan]]
           p == [n \in D |-> IF n = 0 THEN 0 ELSE n - 1]
           Rec(g) == [n \in D |->
             ((b[e - n] % 128) + (IF n = 0 THEN 0 ELSE 128 * g[n - 1])) % IntSpan]
<1>1. \A n \in D : b[e - n] % 128 \in 0 .. 127
  <2> SUFFICES ASSUME NEW n \in D PROVE b[e - n] % 128 \in 0 .. 127
    OBVIOUS
  <2>1. e - n \in 1 .. Len(b)
    OBVIOUS
  <2>2. b[e - n] \in Nat
    BY <2>1, Octets
  <2>3. \A v \in Nat : v % 128 \in 0 .. 127
    OBVIOUS
  <2> QED
    BY <2>2, <2>3, Zenon
<1>2. \A n \in D : \A v \in Nat : ((b[e - n] % 128) + v) % IntSpan \in S
  <2> TAKE n \in D
  <2> TAKE v \in Nat
  <2> DEFINE r == b[e - n] % 128
             s == r + v
  <2>0. r \in 0 .. 127
    BY <1>1
  <2>1. s \in Int
    <3> HIDE DEF r
    <3> QED
      BY <2>0
  <2> HIDE DEF s
  <2>2. s % IntSpan \in S
    BY <2>1, SmallSpan
  <2> QED
    BY <2>2 DEF s
<1>3. \A n \in D : first[n] \in S
  BY <1>2
<1>4. \A n \in D : \A v \in S : ((b[e - n] % 128) + 128 * v) % IntSpan \in S
  <2> TAKE n \in D
  <2> TAKE v \in S
  <2>1. 128 * v \in Nat
    BY SpanFacts
  <2> QED
    BY <1>2, <2>1
<1>5. Recurses(D, S, {0}, first, next, p)
  <2>1. D \in SUBSET Nat /\ {0} \in SUBSET D /\ p \in [D -> Nat]
        /\ \A n \in D \ {0} : p[n] \in D /\ p[n] < n
    OBVIOUS
  <2>2. first \in [D -> S] /\ next \in [D -> [S -> S]]
    <3> HIDE DEF S, D
    <3> QED
      BY <1>3, <1>4
  <2> HIDE DEF first, next, p, D, S
  <2> QED
    BY <2>1, <2>2 DEF Recurses
<1>6. PICK f \in [D -> S] : \A n \in D : f[n] = IF n \in {0} THEN first[n] ELSE next[n][f[p[n]]]
  <2> HIDE DEF first, next, p, D, S
  <2> QED
    BY <1>5, Recursion
<1>7. ASSUME NEW n \in D
      PROVE  f[n] = ((b[e - n] % 128) + (IF n = 0 THEN 0 ELSE 128 * f[n - 1])) % IntSpan
  <2>1. CASE n = 0
    BY <1>6, <2>1
  <2>2. CASE n # 0
    <3>1. n - 1 \in D /\ p[n] = n - 1
      BY <2>2
    <3>2. f[n - 1] \in S
      BY <1>6, <3>1
    <3>3. next[n][f[n - 1]] = ((b[e - n] % 128) + 128 * f[n - 1]) % IntSpan
      <4> HIDE DEF S
      <4> QED
        BY <3>2
    <3>4. f[n] = next[n][f[n - 1]]
      <4> HIDE DEF next, p, first
      <4> QED
        BY <1>6, <2>2, <3>1
    <3> QED
      BY <2>2, <3>3, <3>4
  <2> QED
    BY <2>1, <2>2
<1>8. f = Rec(f)
  BY <1>6, <1>7
<1>9. HornerOf(b, e, k) = Rec(HornerOf(b, e, k))
  <2>1. HornerOf(b, e, k) = CHOOSE g : g = Rec(g)
    BY DEF HornerOf
  <2> HIDE DEF Rec
  <2> QED
    BY <1>8, <2>1
<1> DEFINE h == HornerOf(b, e, k)
<1> HIDE DEF h
<1>10. ASSUME NEW n \in D
       PROVE  h[n] = ((b[e - n] % 128) + (IF n = 0 THEN 0 ELSE 128 * h[n - 1])) % IntSpan
  BY <1>9 DEF h
<1>11. \A n \in D : h[n] \in S
  <2> DEFINE U == {n \in Nat : n \in D => h[n] \in S}
  <2>1. ASSUME NEW n \in Nat, \A i \in 0 .. (n - 1) : i \in U PROVE n \in U
    <3> SUFFICES ASSUME n \in D PROVE h[n] \in S
      OBVIOUS
    <3>1. CASE n = 0
      <4>1. h[n] = ((b[e - n] % 128) + 0) % IntSpan
        BY <1>10, <3>1
      <4> QED
        BY <1>2, <4>1
    <3>2. CASE n # 0
      <4>1. n - 1 \in 0 .. (n - 1) /\ n - 1 \in D
        BY <3>2
      <4>2. h[n - 1] \in S
        BY <2>1, <4>1
      <4>3. 128 * h[n - 1] \in Nat
        BY <4>2, SpanFacts
      <4>4. h[n] = ((b[e - n] % 128) + 128 * h[n - 1]) % IntSpan
        BY <1>10, <3>2
      <4> QED
        BY <1>2, <4>3, <4>4
    <3> QED
      BY <3>1, <3>2
  <2> HIDE DEF U
  <2>2. \A n \in Nat : n \in U
    BY <2>1, Induction
  <2> QED
    BY <2>2 DEF U
<1> QED
  BY <1>10, <1>11 DEF h

(* The same bytes before two ends have the same value. *)
SameBack(b, e, c, f, m) == \A n \in 0 .. m : b[e - n] = c[f - n]

LEMMA HornerSame ==
  ASSUME NEW b \in Seq(Octet), NEW e \in 1 .. Len(b), NEW k \in 0 .. (e - 1),
         NEW c \in Seq(Octet), NEW f \in 1 .. Len(c), NEW j \in 0 .. (f - 1),
         NEW m \in Nat, m <= k, m <= j, SameBack(b, e, c, f, m)
  PROVE  HornerOf(b, e, k)[m] = HornerOf(c, f, j)[m]
<1> DEFINE g == HornerOf(b, e, k)
           h == HornerOf(c, f, j)
           U == {n \in Nat : n <= m => g[n] = h[n]}
<1>1. \A n \in 0 .. k : g[n] = ((b[e - n] % 128) + (IF n = 0 THEN 0 ELSE 128 * g[n - 1])) % IntSpan
  BY HornerDef
<1>2. \A n \in 0 .. j : h[n] = ((c[f - n] % 128) + (IF n = 0 THEN 0 ELSE 128 * h[n - 1])) % IntSpan
  BY HornerDef
<1> HIDE DEF g, h
<1>3. ASSUME NEW n \in Nat, \A i \in 0 .. (n - 1) : i \in U PROVE n \in U
  <2> SUFFICES ASSUME n <= m PROVE g[n] = h[n]
    OBVIOUS
  <2>0. n \in 0 .. k /\ n \in 0 .. j /\ n \in 0 .. m
    OBVIOUS
  <2>1. b[e - n] = c[f - n]
    BY <2>0 DEF SameBack
  <2>2. /\ g[n] = ((b[e - n] % 128) + (IF n = 0 THEN 0 ELSE 128 * g[n - 1])) % IntSpan
        /\ h[n] = ((c[f - n] % 128) + (IF n = 0 THEN 0 ELSE 128 * h[n - 1])) % IntSpan
    BY <1>1, <1>2, <2>0
  <2>3. n # 0 => g[n - 1] = h[n - 1]
    <3> SUFFICES ASSUME n # 0 PROVE g[n - 1] = h[n - 1]
      OBVIOUS
    <3>1. n - 1 \in 0 .. (n - 1) /\ n - 1 <= m
      OBVIOUS
    <3> QED
      BY <1>3, <3>1
  <2> QED
    BY <2>1, <2>2, <2>3
<1> HIDE DEF U
<1>4. \A n \in Nat : n \in U
  BY <1>3, Induction
<1> QED
  BY <1>4 DEF U, g, h

LEMMA ValueIsHorner ==
  ASSUME NEW b, NEW here
  PROVE  VarintValue(b, here) =
           HornerOf(b, VarintEnd(b, here), VarintEnd(b, here) - here)[VarintEnd(b, here) - here]
  BY DEF VarintValue, HornerOf

LEMMA ValueType ==
  ASSUME NEW b \in Seq(Octet), NEW here \in Nat \ {0}, VarintEnd(b, here) # 0
  PROVE  VarintValue(b, here) \in 0 .. (IntSpan - 1)
<1> DEFINE e == VarintEnd(b, here)
<1>1. e \in 1 .. Len(b) /\ e - here \in 0 .. (e - 1)
  BY VarintEndFacts
<1> HIDE DEF e
<1>2. e - here \in 0 .. (e - here)
  BY <1>1
<1>3. HornerOf(b, e, e - here)[e - here] \in 0 .. (IntSpan - 1)
  BY <1>1, <1>2, HornerDef
<1> QED
  BY <1>3, ValueIsHorner DEF e

(* A varint reads the same wherever its bytes stand. *)
SameBytes(b, i, c, j, d) == i + d <= Len(b) /\ \A k \in 0 .. d : b[i + k] = c[j + k]

LEMMA SameVarint ==
  ASSUME NEW c \in Seq(Octet), NEW j \in Nat \ {0}, VarintEnd(c, j) # 0,
         NEW b \in Seq(Octet), NEW i \in Nat \ {0}, SameBytes(b, i, c, j, VarintEnd(c, j) - j)
  PROVE  /\ VarintEnd(b, i) = i + (VarintEnd(c, j) - j)
         /\ VarintValue(b, i) = VarintValue(c, j)
<1> DEFINE f == VarintEnd(c, j)
           d == f - j
<1>0. f \in j .. (j + 9) /\ f <= Len(c) /\ c[f] < 128
  BY VarintEndFacts, Zenon
<1>1. \A k \in j .. (f - 1) : c[k] >= 128
  BY VarintEndFacts, Zenon
<1> HIDE DEF f
<1>2. d \in 0 .. 9 /\ f = j + d
  BY <1>0
<1>3. i + d <= Len(b) /\ \A k \in 0 .. d : b[i + k] = c[j + k]
  BY DEF SameBytes, f
<1> HIDE DEF d
<1>4. VarintEnd(b, i) = i + d
  <2>1. d \in 0 .. d
    BY <1>2
  <2>2. b[i + d] = c[j + d]
    BY <1>3, <2>1, Zenon
  <2>3. i + d \in i .. (i + 9) /\ i + d <= Len(b) /\ b[i + d] < 128
    BY <1>0, <1>2, <1>3, <2>2
  <2> DEFINE e == i + d
  <2>4. ASSUME NEW l \in i .. (e - 1) PROVE b[l] >= 128
    <3>1. l - i \in 0 .. d /\ j + (l - i) \in j .. (f - 1) /\ i + (l - i) = l
      BY <1>2
    <3>2. b[i + (l - i)] = c[j + (l - i)]
      BY <1>3, <3>1, Zenon
    <3> QED
      BY <1>1, <3>1, <3>2
  <2> HIDE DEF e
  <2>5. e \in i .. (i + 9) /\ e <= Len(b) /\ b[e] < 128
    BY <2>3 DEF e
  <2>7. \A l \in i .. (e - 1) : b[l] >= 128
    BY <2>4
  <2>6. VarintEnd(b, i) = e
    BY <2>5, <2>7, VarintEndIs
  <2> QED
    BY <2>6 DEF e
<1> DEFINE e == i + d
<1>5. e \in 1 .. Len(b) /\ d \in 0 .. (e - 1) /\ f \in 1 .. Len(c) /\ d \in 0 .. (f - 1) /\ d \in Nat
  BY <1>0, <1>2, <1>3
<1>6. ASSUME NEW n \in 0 .. d PROVE b[e - n] = c[f - n]
  <2>1. d - n \in 0 .. d /\ i + (d - n) = e - n /\ j + (d - n) = f - n
    BY <1>2
  <2>2. b[i + (d - n)] = c[j + (d - n)]
    BY <1>3, <2>1, Zenon
  <2> QED
    BY <2>1, <2>2
<1>7. e - i = d
  BY <1>2
<1> HIDE DEF e
<1>8. HornerOf(b, e, d)[d] = HornerOf(c, f, d)[d]
  <2>1. d <= d
    BY <1>5
  <2>2. SameBack(b, e, c, f, d)
    BY <1>6 DEF SameBack
  <2> QED
    BY <1>5, <2>1, <2>2, HornerSame
<1>9. VarintValue(b, i) = HornerOf(b, e, d)[d]
  BY <1>4, <1>7, ValueIsHorner, Zenon DEF e
<1>10. VarintValue(c, j) = HornerOf(c, f, d)[d]
  BY ValueIsHorner DEF f, d
<1> QED
  BY <1>4, <1>8, <1>9, <1>10 DEF f, d

LEMMA ValueOne ==
  ASSUME NEW b \in Seq(Octet), NEW here \in Nat \ {0}, VarintEnd(b, here) = here
  PROVE  VarintValue(b, here) = b[here]
<1>1. here \in 1 .. Len(b) /\ b[here] < 128 /\ here - here = 0
  BY VarintEndFacts
<1>2. b[here] \in Nat
  BY <1>1, Octets
<1>3. VarintValue(b, here) = HornerOf(b, here, 0)[0]
  BY <1>1, ValueIsHorner, Zenon
<1>4. HornerOf(b, here, 0)[0] = ((b[here - 0] % 128) + 0) % IntSpan
  <2>1. 0 \in 0 .. 0 /\ 0 \in 0 .. (here - 1)
    BY <1>1
  <2> QED
    BY <1>1, <2>1, HornerDef
<1>5. here - 0 = here /\ (b[here] % 128) + 0 = b[here] /\ b[here] \in 0 .. (IntSpan - 1)
  BY <1>1, <1>2, SpanFacts
<1> QED
  BY <1>3, <1>4, <1>5, SmallSpan

LEMMA ValueStep ==
  ASSUME NEW b \in Seq(Octet), NEW here \in Nat \ {0}, VarintEnd(b, here) # 0,
         VarintEnd(b, here) # here, VarintEnd(b, here + 1) = VarintEnd(b, here)
  PROVE  VarintValue(b, here) = ((b[here] % 128) + 128 * VarintValue(b, here + 1)) % IntSpan
<1> DEFINE e == VarintEnd(b, here)
           k == e - here
           l == e - (here + 1)
<1>1. e \in here .. (here + 9) /\ e <= Len(b) /\ e # here
  BY VarintEndFacts
<1> HIDE DEF e
<1>2. /\ e \in 1 .. Len(b) /\ k \in 0 .. (e - 1) /\ l \in 0 .. (e - 1) /\ l = k - 1 /\ l \in Nat
      /\ l <= k /\ l <= l /\ k # 0 /\ e - k = here /\ k \in 0 .. k
  BY <1>1
<1>3. VarintValue(b, here) = HornerOf(b, e, k)[k]
  BY ValueIsHorner DEF e
<1>4. VarintValue(b, here + 1) = HornerOf(b, e, l)[l]
  BY ValueIsHorner DEF e
<1> HIDE DEF k, l
<1>5. HornerOf(b, e, k)[l] = HornerOf(b, e, l)[l]
  <2>1. SameBack(b, e, b, e, l)
    BY DEF SameBack
  <2> QED
    BY <1>2, <2>1, HornerSame
<1>6. HornerOf(b, e, k)[k] = ((b[e - k] % 128) + (IF k = 0 THEN 0 ELSE 128 * HornerOf(b, e, k)[k - 1])) % IntSpan
  <2>1. \A n \in 0 .. k : HornerOf(b, e, k)[n] =
          ((b[e - n] % 128) + (IF n = 0 THEN 0 ELSE 128 * HornerOf(b, e, k)[n - 1])) % IntSpan
    BY <1>2, HornerDef
  <2> QED
    BY <1>2, <2>1, Zenon
<1>7. HornerOf(b, e, k)[k] = ((b[here] % 128) + 128 * HornerOf(b, e, k)[l]) % IntSpan
  BY <1>2, <1>6
<1> QED
  BY <1>3, <1>4, <1>5, <1>7

(* The bytes of a number, and how many they are. *)
LEMMA VarintBytes ==
  \A n \in Nat :
    /\ Varint[n] \in Seq(Octet) /\ Len(Varint[n]) \in Nat \ {0}
    /\ Varint[n][Len(Varint[n])] < 128
    /\ \A i \in 1 .. (Len(Varint[n]) - 1) : Varint[n][i] >= 128
    /\ Len(Varint[n]) = IF n < 128 THEN 1 ELSE 1 + Len(Varint[n \div 128])
<1> DEFINE Shape(v) ==
             /\ v \in Seq(Octet) /\ Len(v) \in Nat \ {0} /\ v[Len(v)] < 128
             /\ \A i \in 1 .. (Len(v) - 1) : v[i] >= 128
           U == {n \in Nat : Shape(Varint[n])}
<1>5. \A n \in Nat : Varint[n] \in Seq(Octet)
  BY VarintDef
<1>6. \A n \in Nat :
        Varint[n] = IF n < 128 THEN <<n>> ELSE <<128 + (n % 128)>> \o Varint[n \div 128]
  BY VarintDef
<1>0. ASSUME NEW n \in Nat, n < 128 PROVE Varint[n] = <<n>> /\ Len(Varint[n]) = 1
  <2>1. Varint[n] = <<n>>
    BY <1>0, <1>6
  <2>2. Len(<<n>>) = 1
    OBVIOUS
  <2> QED
    BY <2>1, <2>2
<1>1. ASSUME NEW n \in Nat, ~(n < 128)
      PROVE  /\ n \div 128 \in Nat /\ n \div 128 < n /\ n % 128 \in 0 .. 127
             /\ Varint[n \div 128] \in Seq(Octet)
             /\ Varint[n] = <<128 + (n % 128)>> \o Varint[n \div 128]
             /\ <<128 + (n % 128)>> \in Seq(Octet)
  <2>1. n \div 128 \in Nat /\ n \div 128 < n /\ n % 128 \in 0 .. 127
    BY <1>1, DigitsOf128
  <2>2. 128 + (n % 128) \in Octet
    BY <2>1 DEF Octet
  <2>3. <<128 + (n % 128)>> \in Seq(Octet)
    BY <2>2
  <2> QED
    BY <1>1, <1>5, <1>6, <2>1, <2>3
<1>2. ASSUME NEW n \in Nat, ~(n < 128) PROVE Len(Varint[n]) = 1 + Len(Varint[n \div 128])
  <2> DEFINE v == Varint[n \div 128]
             d == <<128 + (n % 128)>>
  <2>1. v \in Seq(Octet) /\ d \in Seq(Octet) /\ Len(d) = 1 /\ Varint[n] = d \o v
    <3>1. v \in Seq(Octet) /\ d \in Seq(Octet) /\ Varint[n] = d \o v
      BY <1>1, <1>2
    <3>2. Len(d) = 1
      OBVIOUS
    <3> QED
      BY <3>1, <3>2
  <2> HIDE DEF v, d
  <2>2. Len(d \o v) = Len(d) + Len(v)
    BY <2>1, JoinedCells
  <2> QED
    BY <2>1, <2>2 DEF v
<1>3. ASSUME NEW n \in Nat, \A k \in 0 .. (n - 1) : k \in U PROVE n \in U
  <2>1. CASE n < 128
    <3>1. n \in Octet
      BY <2>1 DEF Octet
    <3>2. Varint[n] = <<n>> /\ Shape(<<n>>)
      BY <1>0, <2>1, <3>1
    <3> QED
      BY <3>2
  <2>2. CASE ~(n < 128)
    <3> DEFINE v == Varint[n \div 128]
               d == <<128 + (n % 128)>>
               w == d \o v
    <3>1. n \div 128 \in 0 .. (n - 1) /\ d[1] >= 128
      BY <1>1, <2>2
    <3>2. v \in Seq(Octet) /\ d \in Seq(Octet) /\ Len(d) = 1 /\ Varint[n] = w
      <4>1. v \in Seq(Octet) /\ d \in Seq(Octet) /\ Varint[n] = w
        BY <1>1, <2>2
      <4>2. Len(d) = 1
        OBVIOUS
      <4> QED
        BY <4>1, <4>2
    <3>3. Shape(v)
      BY <1>3, <3>1
    <3> HIDE DEF v, d
    <3>4. /\ w \in Seq(Octet) /\ Len(w) = 1 + Len(v) /\ w[1] = d[1]
          /\ \A i \in 1 .. Len(v) : w[1 + i] = v[i]
      <4>1. 1 \in 1 .. Len(d)
        BY <3>2
      <4>2. /\ w \in Seq(Octet) /\ Len(w) = Len(d) + Len(v)
            /\ \A i \in 1 .. Len(d) : w[i] = d[i]
            /\ \A i \in 1 .. Len(v) : w[Len(d) + i] = v[i]
        BY <3>2, JoinedOctets
      <4> QED
        BY <3>2, <4>1, <4>2
    <3> HIDE DEF w
    <3>5. w[Len(w)] < 128
      BY <3>3, <3>4
    <3>6. ASSUME NEW i \in 1 .. (Len(w) - 1) PROVE w[i] >= 128
      <4>1. CASE i = 1
        BY <3>1, <3>4, <4>1
      <4>2. CASE i # 1
        <5>1. i - 1 \in 1 .. (Len(v) - 1) /\ i - 1 \in 1 .. Len(v) /\ 1 + (i - 1) = i
          BY <3>3, <3>4, <4>2
        <5> QED
          BY <3>3, <3>4, <5>1
      <4> QED
        BY <4>1, <4>2
    <3>7. Shape(w)
      BY <3>3, <3>4, <3>5, <3>6
    <3> QED
      BY <3>2, <3>7
  <2> QED
    BY <2>1, <2>2
<1> HIDE DEF U
<1>4. \A n \in Nat : n \in U
  BY <1>3, Induction
<1> QED
  BY <1>0, <1>2, <1>4 DEF U

LEMMA SizeOfVarint ==
  \A n \in 0 .. (IntSpan - 1) : UInt32Size(n) = Len(Varint[n]) /\ Len(Varint[n]) \in 1 .. 5
<1> SUFFICES ASSUME NEW n \in 0 .. (IntSpan - 1)
             PROVE  UInt32Size(n) = Len(Varint[n]) /\ Len(Varint[n]) \in 1 .. 5
  OBVIOUS
<1>1. n \in Nat /\ n < 128 * 128 * 128 * 128 * 128
  BY SpanFacts
<1> DEFINE a == n \div 128
           b == a \div 128
           c == b \div 128
           d == c \div 128
<1>2. /\ a \in Nat /\ n = 128 * a + (n % 128) /\ n % 128 \in 0 .. 127
      /\ b \in Nat /\ a = 128 * b + (a % 128) /\ a % 128 \in 0 .. 127
      /\ c \in Nat /\ b = 128 * c + (b % 128) /\ b % 128 \in 0 .. 127
      /\ d \in Nat /\ c = 128 * d + (c % 128) /\ c % 128 \in 0 .. 127
  <2>1. a \in Nat /\ n = 128 * a + (n % 128) /\ n % 128 \in 0 .. 127
    BY <1>1, DigitsOf128
  <2> HIDE DEF a
  <2>2. b \in Nat /\ a = 128 * b + (a % 128) /\ a % 128 \in 0 .. 127
    BY <2>1, DigitsOf128
  <2> HIDE DEF b
  <2>3. c \in Nat /\ b = 128 * c + (b % 128) /\ b % 128 \in 0 .. 127
    BY <2>2, DigitsOf128
  <2> HIDE DEF c
  <2>4. d \in Nat /\ c = 128 * d + (c % 128) /\ c % 128 \in 0 .. 127
    BY <2>3, DigitsOf128
  <2> QED
    BY <2>1, <2>2, <2>3, <2>4
<1>3. /\ Len(Varint[n]) = IF n < 128 THEN 1 ELSE 1 + Len(Varint[a])
      /\ Len(Varint[a]) = IF a < 128 THEN 1 ELSE 1 + Len(Varint[b])
      /\ Len(Varint[b]) = IF b < 128 THEN 1 ELSE 1 + Len(Varint[c])
      /\ Len(Varint[c]) = IF c < 128 THEN 1 ELSE 1 + Len(Varint[d])
      /\ Len(Varint[d]) = IF d < 128 THEN 1 ELSE 1 + Len(Varint[d \div 128])
  <2>1. \A i \in Nat : Len(Varint[i]) = IF i < 128 THEN 1 ELSE 1 + Len(Varint[i \div 128])
    BY VarintBytes
  <2>2. n \in Nat /\ a \in Nat /\ b \in Nat /\ c \in Nat /\ d \in Nat
    BY <1>1, <1>2
  <2>3. Len(Varint[n]) = IF n < 128 THEN 1 ELSE 1 + Len(Varint[a])
    BY <2>1, <2>2
  <2>4. Len(Varint[a]) = IF a < 128 THEN 1 ELSE 1 + Len(Varint[b])
    <3> HIDE DEF a
    <3> QED
      BY <2>1, <2>2
  <2>5. Len(Varint[b]) = IF b < 128 THEN 1 ELSE 1 + Len(Varint[c])
    <3> HIDE DEF b
    <3> QED
      BY <2>1, <2>2
  <2>6. Len(Varint[c]) = IF c < 128 THEN 1 ELSE 1 + Len(Varint[d])
    <3> HIDE DEF c
    <3> QED
      BY <2>1, <2>2
  <2>7. Len(Varint[d]) = IF d < 128 THEN 1 ELSE 1 + Len(Varint[d \div 128])
    <3> HIDE DEF d
    <3> QED
      BY <2>1, <2>2
  <2> QED
    BY <2>3, <2>4, <2>5, <2>6, <2>7, Zenon
<1> HIDE DEF a, b, c, d
<1>4. /\ n < 128 * 128 => a < 128
      /\ n < 128 * 128 * 128 => b < 128
      /\ n < 128 * 128 * 128 * 128 => c < 128
      /\ d < 128
  BY <1>1, <1>2
<1>5. /\ n >= 128 * 128 => ~(a < 128)
      /\ n >= 128 * 128 * 128 => ~(b < 128)
      /\ n >= 128 * 128 * 128 * 128 => ~(c < 128)
  BY <1>1, <1>2
<1> QED
  BY <1>1, <1>3, <1>4, <1>5 DEF UInt32Size

(* The end of a written number, and the number. *)
LEMMA VarintThere ==
  ASSUME NEW b \in Seq(Octet), NEW here, NEW n \in Nat, Len(Varint[n]) <= 10,
         Holds(b, here, Varint[n])
  PROVE  VarintEnd(b, here) = here + Len(Varint[n]) - 1
<1> DEFINE v == Varint[n]
           e == here + Len(v) - 1
<1>1. /\ v \in Seq(Octet) /\ Len(v) \in Nat \ {0} /\ v[Len(v)] < 128
      /\ \A i \in 1 .. (Len(v) - 1) : v[i] >= 128
  BY VarintBytes
<1>2. /\ here \in Nat \ {0} /\ here + Len(v) - 1 <= Len(b)
      /\ \A i \in 1 .. Len(v) : b[here + i - 1] = v[i]
  BY DEF Holds
<1> HIDE DEF v
<1>3. e \in here .. (here + 9) /\ e <= Len(b)
  BY <1>1, <1>2 DEF v
<1>4. b[e] < 128
  <2>1. Len(v) \in 1 .. Len(v)
    BY <1>1
  <2>2. b[here + Len(v) - 1] = v[Len(v)]
    BY <1>2, <2>1, Zenon
  <2> QED
    BY <1>1, <2>2
<1>5. ASSUME NEW i \in here .. (e - 1) PROVE b[i] >= 128
  <2>1. /\ i - here + 1 \in 1 .. (Len(v) - 1) /\ i - here + 1 \in 1 .. Len(v)
        /\ here + (i - here + 1) - 1 = i
    BY <1>1, <1>2
  <2>2. b[here + (i - here + 1) - 1] = v[i - here + 1]
    BY <1>2, <2>1, Zenon
  <2> QED
    BY <1>1, <2>1, <2>2
<1> HIDE DEF e
<1>6. VarintEnd(b, here) = e
  BY <1>2, <1>3, <1>4, <1>5, VarintEndIs
<1> QED
  BY <1>6 DEF e, v

LEMMA VarintBack ==
  ASSUME NEW b \in Seq(Octet), NEW here, NEW n \in 0 .. (IntSpan - 1), Holds(b, here, Varint[n])
  PROVE  /\ VarintEnd(b, here) = here + Len(Varint[n]) - 1
         /\ VarintValue(b, here) = n
<1> DEFINE Back(i) == \A j \in Nat \ {0} : Holds(b, j, Varint[i]) => VarintValue(b, j) = i
           U == {i \in Nat : i < IntSpan => Back(i)}
<1>0. /\ \A i \in 0 .. (IntSpan - 1) : Len(Varint[i]) \in 1 .. 5
      /\ \A i \in Nat : Varint[i] \in Seq(Octet)
  BY SizeOfVarint, VarintBytes
<1>1. ASSUME NEW i \in 0 .. (IntSpan - 1), NEW j \in Nat \ {0}, Holds(b, j, Varint[i])
      PROVE  VarintEnd(b, j) = j + Len(Varint[i]) - 1
  <2>1. Len(Varint[i]) \in 1 .. 5
    BY <1>0, <1>1, Zenon
  <2>2. i \in Nat /\ Len(Varint[i]) <= 10
    <3>1. IntSpan \in Nat
      BY SpanFacts
    <3>2. i \in Nat
      BY <3>1
    <3>3. \A l \in 1 .. 5 : l <= 10
      OBVIOUS
    <3> QED
      BY <2>1, <3>2, <3>3, Zenon
  <2> QED
    BY <1>1, <2>2, VarintThere
<1>2. ASSUME NEW i \in Nat, \A j \in 0 .. (i - 1) : j \in U PROVE i \in U
  <2> SUFFICES ASSUME i < IntSpan, NEW j \in Nat \ {0}, Holds(b, j, Varint[i])
               PROVE  VarintValue(b, j) = i
    OBVIOUS
  <2>0. i \in 0 .. (IntSpan - 1)
    BY SpanFacts
  <2>1. VarintEnd(b, j) = j + Len(Varint[i]) - 1
    BY <1>1, <2>0
  <2>2. CASE i < 128
    <3>1. Varint[i] = <<i>>
      BY <2>2, VarintDef
    <3>2. VarintEnd(b, j) = j
      BY <2>1, <3>1
    <3>3. b[j] = i
      <4>1. \A l \in 1 .. Len(<<i>>) : b[j + l - 1] = <<i>>[l]
        BY <3>1 DEF Holds
      <4>2. 1 \in 1 .. Len(<<i>>) /\ j + 1 - 1 = j
        OBVIOUS
      <4>3. b[j + 1 - 1] = <<i>>[1]
        BY <4>1, <4>2, Zenon
      <4> QED
        BY <4>2, <4>3
    <3> QED
      BY <3>2, <3>3, ValueOne
  <2>3. CASE ~(i < 128)
    <3> DEFINE p == i \div 128
               d == <<128 + (i % 128)>>
    <3>1. p \in 0 .. (i - 1) /\ p \in 0 .. (IntSpan - 1) /\ i % 128 \in 0 .. 127 /\ i = 128 * p + (i % 128)
      BY <2>0, <2>3, DigitsOf128, SpanFacts
    <3>2. Varint[i] = d \o Varint[p] /\ Varint[p] \in Seq(Octet)
      <4>1. \A l \in Nat :
              Varint[l] = IF l < 128 THEN <<l>> ELSE <<128 + (l % 128)>> \o Varint[l \div 128]
        BY VarintDef
      <4>2. p \in Nat
        BY <3>1
      <4> QED
        BY <1>0, <2>3, <4>1, <4>2
    <3>3. d \in Seq(Octet) /\ Len(d) = 1 /\ d[1] = 128 + (i % 128)
      <4>1. 128 + (i % 128) \in Octet
        BY <3>1 DEF Octet
      <4> QED
        BY <4>1
    <3> HIDE DEF d, p
    <3>4. Holds(b, j, d) /\ Holds(b, j + Len(d), Varint[p])
      <4>1. Holds(b, j, d \o Varint[p])
        BY <3>2
      <4>2. d \in Seq(Octet) /\ Varint[p] \in Seq(Octet)
        BY <3>2, <3>3
      <4> QED
        BY <4>1, <4>2, HoldsParts, Zenon
    <3>5. Holds(b, j + 1, Varint[p]) /\ j + 1 \in Nat \ {0}
      BY <3>3, <3>4
    <3>6. b[j] = 128 + (i % 128)
      <4>1. \A l \in 1 .. Len(d) : b[j + l - 1] = d[l]
        BY <3>4 DEF Holds
      <4>2. 1 \in 1 .. Len(d) /\ j + 1 - 1 = j
        BY <3>3
      <4>3. b[j + 1 - 1] = d[1]
        BY <4>1, <4>2, Zenon
      <4> QED
        BY <3>3, <4>2, <4>3
    <3>7. VarintEnd(b, j + 1) = (j + 1) + Len(Varint[p]) - 1
      BY <1>1, <3>1, <3>5
    <3>8. Len(Varint[i]) = 1 + Len(Varint[p]) /\ Len(Varint[p]) \in Nat \ {0}
      <4>1. Len(d \o Varint[p]) = Len(d) + Len(Varint[p])
        BY <3>2, <3>3, JoinedOctets
      <4>2. Len(Varint[p]) \in Nat \ {0}
        BY <3>1, VarintBytes
      <4> QED
        BY <3>2, <3>3, <4>1, <4>2
    <3>9. VarintEnd(b, j) # 0 /\ VarintEnd(b, j) # j /\ VarintEnd(b, j + 1) = VarintEnd(b, j)
      <4> DEFINE l == Len(Varint[p])
                 o == Len(Varint[i])
      <4>1. l \in Nat \ {0} /\ o = 1 + l
        BY <3>8
      <4>2. VarintEnd(b, j) = j + o - 1 /\ VarintEnd(b, j + 1) = (j + 1) + l - 1
        BY <2>1, <3>7
      <4> HIDE DEF l, o
      <4> QED
        BY <4>1, <4>2
    <3>10. VarintValue(b, j + 1) = p
      <4>1. p \in U
        BY <1>2, <3>1
      <4>2. Back(p)
        BY <3>1, <4>1, SpanFacts
      <4> HIDE DEF U
      <4> QED
        BY <3>5, <4>2
    <3>11. VarintValue(b, j) = ((b[j] % 128) + 128 * p) % IntSpan
      BY <3>9, <3>10, ValueStep
    <3>12. (128 + (i % 128)) % 128 = i % 128
      BY <3>1
    <3>13. VarintValue(b, j) = i % IntSpan
      BY <3>1, <3>6, <3>11, <3>12
    <3> QED
      BY <2>0, <3>13, SmallSpan
  <2> QED
    BY <2>2, <2>3
<1>3. \A i \in Nat : i \in U
  <2> HIDE DEF U
  <2> QED
    BY <1>2, Induction
<1>4. here \in Nat \ {0} /\ n \in Nat /\ n < IntSpan
  BY SpanFacts DEF Holds
<1>5. Back(n)
  BY <1>3, <1>4
<1> QED
  BY <1>1, <1>4, <1>5

(* Bytes that end inside a number have no number there. *)
LEMMA VarintCutOff ==
  ASSUME NEW full \in Seq(Octet), NEW here, NEW n \in Nat, Holds(full, here, Varint[n]),
         NEW b \in Seq(Octet), Prefix(b, full), Len(b) < here + Len(Varint[n]) - 1
  PROVE  VarintEnd(b, here) = 0
<1> DEFINE v == Varint[n]
           e == VarintEnd(b, here)
<1>1. /\ v \in Seq(Octet) /\ Len(v) \in Nat \ {0} /\ Len(b) \in Nat
      /\ \A i \in 1 .. (Len(v) - 1) : v[i] >= 128
  BY VarintBytes
<1>2. here \in Nat \ {0} /\ \A i \in 1 .. Len(v) : full[here + i - 1] = v[i]
  BY DEF Holds
<1>3. \A i \in 1 .. Len(b) : b[i] = full[i] /\ b[i] \in Nat
  BY Octets DEF Prefix
<1>4. SUFFICES ASSUME e # 0 PROVE FALSE
  OBVIOUS
<1>5. e \in here .. (here + 9) /\ e <= Len(b) /\ b[e] < 128
  BY <1>2, <1>4, VarintEndFacts
<1> HIDE DEF e, v
<1>6. /\ e - here + 1 \in 1 .. (Len(v) - 1) /\ e - here + 1 \in 1 .. Len(v) /\ e \in 1 .. Len(b)
      /\ here + (e - here + 1) - 1 = e
  BY <1>1, <1>2, <1>5 DEF v
<1>7. full[here + (e - here + 1) - 1] = v[e - here + 1]
  BY <1>2, <1>6, Zenon
<1>8. b[e] >= 128
  BY <1>1, <1>3, <1>6, <1>7
<1> QED
  BY <1>3, <1>5, <1>6, <1>8

----------------------------------------------------------------------------
(* The loop over the fields, for every class of messages. *)
FieldIn(k, b, c, tag, tag_at) ==
  ByClass(k,
    CASE tag = 10 -> ReadString(c, "url", b)
      [] tag = 18 -> ReadString(c, "ip", b)
      [] tag = 24 -> ReadUInt32(c, "port", b)
      [] tag = 34 -> ReadString(c, "user_id", b)
      [] tag = 42 -> ReadString(c, "user_pw", b)
      [] tag = 48 -> ReadBool(c, "tcp", b)
      [] tag = 56 -> ReadUInt32(c, "stream_accumulate_time", b)
      [] tag = 64 -> ReadUInt32(c, "fps", b)
      [] tag = 72 -> ReadBool(c, "stream_used", b)
      [] OTHER -> SkipField(c, tag_at, b),
    CASE tag = 10 -> ReadString(c, "camera_guid", b)
      [] tag = 18 -> ReadString(c, "camera_name", b)
      [] tag = 26 -> ReadMessage(c, "stream_info", b,
                       StreamInfo_MergePartialFromCodedStream(StreamInfo_SharedCtor,
                                                              Delimited(b, c.at)))
      [] OTHER -> SkipField(c, tag_at, b),
    IF tag = 8 THEN ReadUInt32(c, "pid", b) ELSE SkipField(c, tag_at, b),
    IF tag = 10 THEN ReadString(c, "camera_guid", b) ELSE SkipField(c, tag_at, b),
    CASE tag = 10 -> ReadString(c, "system_guid", b)
      [] tag = 18 -> ReadString(c, "system_name", b)
      [] tag = 26 -> ReadMessage(c, "cameras", b,
                       System_CameraInfo_MergePartialFromCodedStream(System_CameraInfo_SharedCtor,
                                                                     Delimited(b, c.at)))
      [] OTHER -> SkipField(c, tag_at, b))

(* Where nothing has failed. *)
Going(m, here) == Cursor(m, here, TRUE)

StepIn(k, b, c) ==
  IF VarintEnd(b, c.at) = 0 \/ VarintValue(b, c.at) = 0 THEN Failed(c)
  ELSE FieldIn(k, b, Cursor(c.m, VarintEnd(b, c.at) + 1, TRUE), VarintValue(b, c.at), c.at)

Goes(c, b) == c.ok /\ c.at <= Len(b)
LastStep(b) == (Len(b) + 1) \div 2
IsLoop(after, k, m, b) ==
  after = [n \in 0 .. LastStep(b) |->
            IF n = 0 THEN Cursor(m, 1, TRUE)
            ELSE IF Goes(after[n - 1], b) THEN StepIn(k, b, after[n - 1]) ELSE after[n - 1]]
Loop(k, m, b) == CHOOSE after : IsLoop(after, k, m, b)

LEMMA ParseStream ==
  ASSUME NEW m, NEW b
  PROVE  Parse("StreamInfo", m, b) = Loop("StreamInfo", m, b)[LastStep(b)]
<1> DEFINE Rec(after) == [n \in 0 .. ((Len(b) + 1) \div 2) |->
  IF n = 0 THEN Cursor(m, 1, TRUE)
  ELSE LET c == after[n - 1] IN IF c.ok /\ c.at <= Len(b) THEN
    (LET end == VarintEnd(b, c.at)
         tag == VarintValue(b, c.at)
     IN  IF end = 0 \/ tag = 0 THEN Failed(c)
         ELSE LET d == Cursor(c.m, end + 1, TRUE)
              IN
    CASE tag = 10 -> ReadString(d, "url", b)
      [] tag = 18 -> ReadString(d, "ip", b)
      [] tag = 24 -> ReadUInt32(d, "port", b)
      [] tag = 34 -> ReadString(d, "user_id", b)
      [] tag = 42 -> ReadString(d, "user_pw", b)
      [] tag = 48 -> ReadBool(d, "tcp", b)
      [] tag = 56 -> ReadUInt32(d, "stream_accumulate_time", b)
      [] tag = 64 -> ReadUInt32(d, "fps", b)
      [] tag = 72 -> ReadBool(d, "stream_used", b)
      [] OTHER -> SkipField(d, c.at, b)) ELSE c]
<1>1. StreamInfo_MergePartialFromCodedStream(m, b)
        = (CHOOSE after : after = Rec(after))[(Len(b) + 1) \div 2]
  BY DEF StreamInfo_MergePartialFromCodedStream, ParseFields
<1>2. ASSUME NEW after PROVE IsLoop(after, "StreamInfo", m, b) <=> after = Rec(after)
  BY DEF IsLoop, LastStep, Goes, StepIn, FieldIn, ByClass
<1>3. (CHOOSE after : after = Rec(after)) = Loop("StreamInfo", m, b)
  <2> HIDE DEF Rec
  <2> QED
    BY <1>2 DEF Loop
<1> HIDE DEF Rec
<1>4. Parse("StreamInfo", m, b) = StreamInfo_MergePartialFromCodedStream(m, b)
  BY DEF Parse, ByClass
<1> QED
  BY <1>1, <1>3, <1>4 DEF LastStep

LEMMA ParseCamera ==
  ASSUME NEW m, NEW b
  PROVE  Parse("Camera", m, b) = Loop("Camera", m, b)[LastStep(b)]
<1> DEFINE Rec(after) == [n \in 0 .. ((Len(b) + 1) \div 2) |->
  IF n = 0 THEN Cursor(m, 1, TRUE)
  ELSE LET c == after[n - 1] IN IF c.ok /\ c.at <= Len(b) THEN
    (LET end == VarintEnd(b, c.at)
         tag == VarintValue(b, c.at)
     IN  IF end = 0 \/ tag = 0 THEN Failed(c)
         ELSE LET d == Cursor(c.m, end + 1, TRUE)
              IN
    CASE tag = 10 -> ReadString(d, "camera_guid", b)
      [] tag = 18 -> ReadString(d, "camera_name", b)
      [] tag = 26 -> ReadMessage(d, "stream_info", b,
                       StreamInfo_MergePartialFromCodedStream(StreamInfo_SharedCtor,
                                                              Delimited(b, d.at)))
      [] OTHER -> SkipField(d, c.at, b)) ELSE c]
<1>1. Camera_MergePartialFromCodedStream(m, b)
        = (CHOOSE after : after = Rec(after))[(Len(b) + 1) \div 2]
  BY DEF Camera_MergePartialFromCodedStream, ParseFields
<1>2. ASSUME NEW after PROVE IsLoop(after, "Camera", m, b) <=> after = Rec(after)
  BY DEF IsLoop, LastStep, Goes, StepIn, FieldIn, ByClass
<1>3. (CHOOSE after : after = Rec(after)) = Loop("Camera", m, b)
  <2> HIDE DEF Rec
  <2> QED
    BY <1>2 DEF Loop
<1> HIDE DEF Rec
<1>4. Parse("Camera", m, b) = Camera_MergePartialFromCodedStream(m, b)
  BY DEF Parse, ByClass
<1> QED
  BY <1>1, <1>3, <1>4 DEF LastStep

LEMMA ParseWatchdog ==
  ASSUME NEW m, NEW b
  PROVE  Parse("CameraWatchdog", m, b) = Loop("CameraWatchdog", m, b)[LastStep(b)]
<1> DEFINE Rec(after) == [n \in 0 .. ((Len(b) + 1) \div 2) |->
  IF n = 0 THEN Cursor(m, 1, TRUE)
  ELSE LET c == after[n - 1] IN IF c.ok /\ c.at <= Len(b) THEN
    (LET end == VarintEnd(b, c.at)
         tag == VarintValue(b, c.at)
     IN  IF end = 0 \/ tag = 0 THEN Failed(c)
         ELSE LET d == Cursor(c.m, end + 1, TRUE)
              IN
    IF tag = 8 THEN ReadUInt32(d, "pid", b) ELSE SkipField(d, c.at, b)) ELSE c]
<1>1. CameraWatchdog_MergePartialFromCodedStream(m, b)
        = (CHOOSE after : after = Rec(after))[(Len(b) + 1) \div 2]
  BY DEF CameraWatchdog_MergePartialFromCodedStream, ParseFields
<1>2. ASSUME NEW after PROVE IsLoop(after, "CameraWatchdog", m, b) <=> after = Rec(after)
  BY DEF IsLoop, LastStep, Goes, StepIn, FieldIn, ByClass
<1>3. (CHOOSE after : after = Rec(after)) = Loop("CameraWatchdog", m, b)
  <2> HIDE DEF Rec
  <2> QED
    BY <1>2 DEF Loop
<1> HIDE DEF Rec
<1>4. Parse("CameraWatchdog", m, b) = CameraWatchdog_MergePartialFromCodedStream(m, b)
  BY DEF Parse, ByClass
<1> QED
  BY <1>1, <1>3, <1>4 DEF LastStep

LEMMA ParseSystemCamera ==
  ASSUME NEW m, NEW b
  PROVE  Parse("System_CameraInfo", m, b) = Loop("System_CameraInfo", m, b)[LastStep(b)]
<1> DEFINE Rec(after) == [n \in 0 .. ((Len(b) + 1) \div 2) |->
  IF n = 0 THEN Cursor(m, 1, TRUE)
  ELSE LET c == after[n - 1] IN IF c.ok /\ c.at <= Len(b) THEN
    (LET end == VarintEnd(b, c.at)
         tag == VarintValue(b, c.at)
     IN  IF end = 0 \/ tag = 0 THEN Failed(c)
         ELSE LET d == Cursor(c.m, end + 1, TRUE)
              IN
    IF tag = 10 THEN ReadString(d, "camera_guid", b) ELSE SkipField(d, c.at, b)) ELSE c]
<1>1. System_CameraInfo_MergePartialFromCodedStream(m, b)
        = (CHOOSE after : after = Rec(after))[(Len(b) + 1) \div 2]
  BY DEF System_CameraInfo_MergePartialFromCodedStream, ParseFields
<1>2. ASSUME NEW after PROVE IsLoop(after, "System_CameraInfo", m, b) <=> after = Rec(after)
  BY DEF IsLoop, LastStep, Goes, StepIn, FieldIn, ByClass
<1>3. (CHOOSE after : after = Rec(after)) = Loop("System_CameraInfo", m, b)
  <2> HIDE DEF Rec
  <2> QED
    BY <1>2 DEF Loop
<1> HIDE DEF Rec
<1>4. Parse("System_CameraInfo", m, b) = System_CameraInfo_MergePartialFromCodedStream(m, b)
  BY DEF Parse, ByClass
<1> QED
  BY <1>1, <1>3, <1>4 DEF LastStep

LEMMA ParseSystem ==
  ASSUME NEW m, NEW b
  PROVE  Parse("System", m, b) = Loop("System", m, b)[LastStep(b)]
<1> DEFINE Rec(after) == [n \in 0 .. ((Len(b) + 1) \div 2) |->
  IF n = 0 THEN Cursor(m, 1, TRUE)
  ELSE LET c == after[n - 1] IN IF c.ok /\ c.at <= Len(b) THEN
    (LET end == VarintEnd(b, c.at)
         tag == VarintValue(b, c.at)
     IN  IF end = 0 \/ tag = 0 THEN Failed(c)
         ELSE LET d == Cursor(c.m, end + 1, TRUE)
              IN
    CASE tag = 10 -> ReadString(d, "system_guid", b)
      [] tag = 18 -> ReadString(d, "system_name", b)
      [] tag = 26 -> ReadMessage(d, "cameras", b,
                       System_CameraInfo_MergePartialFromCodedStream(System_CameraInfo_SharedCtor,
                                                                     Delimited(b, d.at)))
      [] OTHER -> SkipField(d, c.at, b)) ELSE c]
<1>1. System_MergePartialFromCodedStream(m, b)
        = (CHOOSE after : after = Rec(after))[(Len(b) + 1) \div 2]
  BY DEF System_MergePartialFromCodedStream, ParseFields
<1>2. ASSUME NEW after PROVE IsLoop(after, "System", m, b) <=> after = Rec(after)
  BY DEF IsLoop, LastStep, Goes, StepIn, FieldIn, ByClass
<1>3. (CHOOSE after : after = Rec(after)) = Loop("System", m, b)
  <2> HIDE DEF Rec
  <2> QED
    BY <1>2 DEF Loop
<1> HIDE DEF Rec
<1>4. Parse("System", m, b) = System_MergePartialFromCodedStream(m, b)
  BY DEF Parse, ByClass
<1> QED
  BY <1>1, <1>3, <1>4 DEF LastStep

LEMMA ParseIsLoop ==
  ASSUME NEW k \in Classes, NEW m, NEW b
  PROVE  Parse(k, m, b) = Loop(k, m, b)[LastStep(b)]
  BY ParseStream, ParseCamera, ParseWatchdog, ParseSystemCamera, ParseSystem DEF Classes

OnceMore(k, b, c) == IF Goes(c, b) THEN StepIn(k, b, c) ELSE c

LEMMA LoopDef ==
  ASSUME NEW k, NEW m, NEW b, Len(b) \in Nat
  PROVE  /\ LastStep(b) \in Nat /\ Loop(k, m, b)[0] = Going(m, 1)
         /\ \A n \in 1 .. LastStep(b) :
              Loop(k, m, b)[n] = OnceMore(k, b, Loop(k, m, b)[n - 1])
<1> DEFINE N == LastStep(b)
           first == Going(m, 1)
           Nx(c) == OnceMore(k, b, c)
           Upto(g, n) == g = [i \in 0 .. n |-> IF i = 0 THEN first ELSE Nx(g[i - 1])]
           U == {n \in Nat : \E g : Upto(g, n)}
<1>0. N \in Nat
  BY DEF LastStep
<1> HIDE DEF first, Nx, N
<1>1. ASSUME NEW n \in Nat, \A i \in 0 .. (n - 1) : i \in U PROVE n \in U
  <2>1. CASE n = 0
    <3> DEFINE g == [i \in 0 .. n |-> first]
    <3>1. Upto(g, n)
      BY <2>1
    <3> QED
      BY <3>1
  <2>2. CASE n # 0
    <3>1. n - 1 \in 0 .. (n - 1)
      BY <2>2
    <3>2. PICK g : Upto(g, n - 1)
      BY <1>1, <3>1
    <3> DEFINE h == [i \in 0 .. n |-> IF i = n THEN Nx(g[n - 1]) ELSE g[i]]
    <3>3. \A i \in 0 .. (n - 1) : g[i] = IF i = 0 THEN first ELSE Nx(g[i - 1])
      BY <3>2
    <3>4. ASSUME NEW i \in 0 .. n PROVE h[i] = IF i = 0 THEN first ELSE Nx(h[i - 1])
      <4>1. CASE i = n
        <5>1. h[i] = Nx(g[n - 1]) /\ h[i - 1] = g[n - 1] /\ i # 0
          BY <2>2, <4>1
        <5> HIDE DEF h
        <5> QED
          BY <5>1
      <4>2. CASE i # n
        <5>1. i \in 0 .. (n - 1) /\ h[i] = g[i]
          BY <4>2
        <5>2. i # 0 => h[i - 1] = g[i - 1]
          BY <4>2
        <5> HIDE DEF h
        <5> QED
          BY <3>3, <5>1, <5>2
      <4> QED
        BY <4>1, <4>2
    <3>5. Upto(h, n)
      <4>1. h = [i \in 0 .. n |-> h[i]]
        OBVIOUS
      <4> HIDE DEF h
      <4> QED
        BY <3>4, <4>1
    <3> QED
      BY <3>5
  <2> QED
    BY <2>1, <2>2
<1>2. \A n \in Nat : n \in U
  <2> HIDE DEF U
  <2> QED
    BY <1>1, Induction
<1>3. \E g : Upto(g, N)
  BY <1>0, <1>2
<1>4. \A g : IsLoop(g, k, m, b) <=> Upto(g, N)
  BY DEF IsLoop, N, first, Nx, OnceMore, Going
<1>5. Upto(Loop(k, m, b), N)
  <2> HIDE DEF Upto
  <2> QED
    BY <1>3, <1>4 DEF Loop
<1> DEFINE l == Loop(k, m, b)
<1> HIDE DEF l
<1>6. l[0] = first /\ \A n \in 1 .. N : l[n] = Nx(l[n - 1])
  BY <1>0, <1>5 DEF l
<1> QED
  BY <1>0, <1>6 DEF l, N, first, Nx

(* The loop is at the place here, with the message m, after as many fields *)
(* as two bytes each allow.                                                *)
Reached(k, b, m0, m, here) ==
  /\ here \in 1 .. (Len(b) + 1)
  /\ \E n \in 0 .. LastStep(b) : 2 * n + 1 <= here /\ Loop(k, m0, b)[n] = Going(m, here)

LEMMA LoopStays ==
  ASSUME NEW k, NEW m, NEW b, Len(b) \in Nat, NEW n \in 0 .. LastStep(b),
         ~Goes(Loop(k, m, b)[n], b)
  PROVE  Loop(k, m, b)[LastStep(b)] = Loop(k, m, b)[n]
<1> DEFINE l == Loop(k, m, b)
           N == LastStep(b)
           U == {i \in Nat : i \in n .. N => l[i] = l[n]}
<1>1. N \in Nat /\ \A i \in 1 .. N : l[i] = OnceMore(k, b, l[i - 1])
  BY LoopDef
<1> HIDE DEF l, N
<1>2. ASSUME NEW i \in Nat, \A j \in 0 .. (i - 1) : j \in U PROVE i \in U
  <2> SUFFICES ASSUME i \in n .. N, i # n PROVE l[i] = l[n]
    OBVIOUS
  <2>1. i \in 1 .. N /\ i - 1 \in 0 .. (i - 1) /\ i - 1 \in n .. N
    BY <1>1 DEF N
  <2>2. l[i - 1] = l[n]
    BY <1>2, <2>1
  <2> QED
    BY <1>1, <2>1, <2>2 DEF l, OnceMore
<1>3. \A i \in Nat : i \in U
  <2> HIDE DEF U
  <2> QED
    BY <1>2, Induction
<1>4. N \in U /\ N \in n .. N
  BY <1>1, <1>3 DEF N
<1> QED
  BY <1>4 DEF l, N

LEMMA LoopStarts ==
  ASSUME NEW k, NEW b \in Seq(Octet), NEW m PROVE Reached(k, b, m, m, 1)
<1>0. Len(b) \in Nat
  OBVIOUS
<1>1. LastStep(b) \in Nat /\ Loop(k, m, b)[0] = Going(m, 1)
  BY <1>0, LoopDef
<1>2. 1 \in 1 .. (Len(b) + 1) /\ 0 \in 0 .. LastStep(b) /\ 2 * 0 + 1 <= 1
  BY <1>0, <1>1
<1> QED
  BY <1>1, <1>2 DEF Reached

LEMMA LoopGoes ==
  ASSUME NEW k, NEW b \in Seq(Octet), NEW m0, NEW m, NEW here, Reached(k, b, m0, m, here),
         here <= Len(b)
  PROVE  /\ ~StepIn(k, b, Going(m, here)).ok => ~Loop(k, m0, b)[LastStep(b)].ok
         /\ \A m2, next :
              StepIn(k, b, Going(m, here)) = Going(m2, next)
                /\ next \in (here + 2) .. (Len(b) + 1) => Reached(k, b, m0, m2, next)
<1> DEFINE l == Loop(k, m0, b)
           N == LastStep(b)
           c == Going(m, here)
           d == StepIn(k, b, c)
<1>1. PICK n \in 0 .. N : 2 * n + 1 <= here /\ l[n] = c
  BY DEF Reached
<1>0. Len(b) \in Nat
  OBVIOUS
<1>2. here \in 1 .. (Len(b) + 1) /\ Len(b) \in Nat
  BY DEF Reached
<1>3. N \in Nat /\ \A i \in 1 .. N : l[i] = OnceMore(k, b, l[i - 1])
  BY <1>0, LoopDef
<1>4. n + 1 \in 1 .. N /\ (n + 1) - 1 = n
  BY <1>1, <1>2 DEF LastStep
<1>5. Goes(c, b)
  BY DEF Goes, Going, Cursor
<1> HIDE DEF l, N, c
<1>6. l[n + 1] = d
  BY <1>1, <1>3, <1>4, <1>5 DEF OnceMore
<1> HIDE DEF d
<1>7. ASSUME ~d.ok PROVE ~l[N].ok
  <2>1. ~Goes(l[n + 1], b) /\ n + 1 \in 0 .. N
    BY <1>3, <1>4, <1>6, <1>7 DEF Goes
  <2>2. l[N] = l[n + 1]
    BY <1>2, <2>1, LoopStays DEF l, N
  <2> QED
    BY <1>6, <1>7, <2>2
<1>8. ASSUME NEW m2, NEW next, d = Going(m2, next), next \in (here + 2) .. (Len(b) + 1)
      PROVE  Reached(k, b, m0, m2, next)
  <2>1. n + 1 \in 0 .. N /\ 2 * (n + 1) + 1 <= next /\ next \in 1 .. (Len(b) + 1)
    BY <1>1, <1>2, <1>3, <1>4, <1>8
  <2> QED
    BY <1>6, <1>8, <2>1 DEF Reached, l, N
<1> QED
  BY <1>7, <1>8 DEF d, l, N, c

LEMMA LoopEnds ==
  ASSUME NEW k, NEW b \in Seq(Octet), NEW m0, NEW m, Reached(k, b, m0, m, Len(b) + 1)
  PROVE  Loop(k, m0, b)[LastStep(b)] = Going(m, Len(b) + 1)
<1> DEFINE c == Going(m, Len(b) + 1)
<1>1. PICK n \in 0 .. LastStep(b) : Loop(k, m0, b)[n] = c
  BY DEF Reached
<1>2. ~Goes(c, b) /\ Len(b) \in Nat
  BY DEF Goes, Going, Cursor
<1> HIDE DEF c
<1>3. ~Goes(Loop(k, m0, b)[n], b)
  BY <1>1, <1>2
<1> QED
  BY <1>1, <1>2, <1>3, LoopStays DEF c

----------------------------------------------------------------------------
(* A piece of the written bytes takes the message m to m2, unless it does  *)
(* not fit: in bytes that end inside of it, the loop fails.                *)
Portion(k, w, m, m2, fits) ==
  \/ w = << >> /\ m2 = m /\ fits
  \/ /\ w \in Seq(Octet) /\ Len(w) >= 2
     /\ \A full, b \in Seq(Octet) : \A here \in Nat \ {0} :
          Holds(full, here, w) /\ Prefix(b, full) /\ here <= Len(b) =>
            IF here + Len(w) - 1 <= Len(b) /\ fits
            THEN StepIn(k, b, Going(m, here)) = Going(m2, here + Len(w))
            ELSE ~StepIn(k, b, Going(m, here)).ok

(* What is known of the loop over the bytes b once their original has been *)
(* followed up to a place.                                                 *)
Settled(k, b, m0, fits, R, m, here) ==
  /\ here \in Nat \ {0}
  /\ here - 1 <= Len(b) /\ fits => Reached(k, b, m0, m, here)
  /\ here - 1 <= Len(b) /\ ~fits => ~Loop(k, m0, b)[LastStep(b)].ok
  /\ ~(here - 1 <= Len(b)) /\ Loop(k, m0, b)[LastStep(b)].ok => Loop(k, m0, b)[LastStep(b)].m \in R

LEMMA PieceBytes ==
  ASSUME NEW k, NEW w, NEW m, NEW m2, NEW fits \in BOOLEAN, Portion(k, w, m, m2, fits)
  PROVE  w \in Seq(Octet) /\ Len(w) \in Nat
<1>1. CASE w = << >>
  BY <1>1
<1>2. CASE w # << >>
  BY <1>2 DEF Portion
<1> QED
  BY <1>1, <1>2

LEMMA PieceStep ==
  ASSUME NEW k, NEW w, NEW m, NEW m2, NEW fits \in BOOLEAN, Portion(k, w, m, m2, fits), w # << >>,
         NEW full \in Seq(Octet), NEW b \in Seq(Octet), NEW here \in Nat \ {0},
         Holds(full, here, w), Prefix(b, full), here <= Len(b)
  PROVE  /\ Len(w) >= 2
         /\ here + Len(w) - 1 <= Len(b) /\ fits =>
              StepIn(k, b, Going(m, here)) = Going(m2, here + Len(w))
         /\ ~(here + Len(w) - 1 <= Len(b) /\ fits) => ~StepIn(k, b, Going(m, here)).ok
  BY Zenon DEF Portion

LEMMA SettledStep ==
  ASSUME NEW k, NEW b \in Seq(Octet), NEW full \in Seq(Octet), Prefix(b, full),
         NEW m0, NEW good \in BOOLEAN, NEW R, NEW m, NEW here, Settled(k, b, m0, good, R, m, here),
         NEW w, NEW m2, NEW fits \in BOOLEAN, Portion(k, w, m, m2, fits), Holds(full, here, w),
         m \in R \/ Len(b) = Len(full)
  PROVE  Settled(k, b, m0, good /\ fits, R, m2, here + Len(w))
<1> DEFINE r == Loop(k, m0, b)[LastStep(b)]
           next == here + Len(w)
<1>1. /\ here \in Nat \ {0}
      /\ here - 1 <= Len(b) /\ good => Reached(k, b, m0, m, here)
      /\ here - 1 <= Len(b) /\ ~good => ~r.ok
      /\ ~(here - 1 <= Len(b)) /\ r.ok => r.m \in R
  BY DEF Settled
<1>2. w \in Seq(Octet) /\ Len(w) \in Nat
  BY PieceBytes
<1>3. Len(b) \in Nat
  OBVIOUS
<1> HIDE DEF r
<1>4. CASE w = << >>
  <2>1. m2 = m /\ fits /\ Len(w) = 0
    BY <1>4 DEF Portion
  <2>2. here + Len(w) = here
    BY <1>1, <2>1
  <2> QED
    BY <2>1, <2>2
<1>5. CASE w # << >> /\ ~(here - 1 <= Len(b))
  BY <1>1, <1>2, <1>3, <1>5 DEF Settled, r
<1>6. CASE w # << >> /\ here - 1 <= Len(b) /\ ~good
  BY <1>1, <1>2, <1>3, <1>6 DEF Settled, r
<1>7. CASE w # << >> /\ here - 1 <= Len(b) /\ good /\ here <= Len(b)
  <2>1. Reached(k, b, m0, m, here)
    BY <1>1, <1>7
  <2>2. /\ Len(w) >= 2
        /\ here + Len(w) - 1 <= Len(b) /\ fits =>
             StepIn(k, b, Going(m, here)) = Going(m2, next)
        /\ ~(here + Len(w) - 1 <= Len(b) /\ fits) => ~StepIn(k, b, Going(m, here)).ok
    BY <1>1, <1>7, PieceStep
  <2>3. CASE here + Len(w) - 1 <= Len(b) /\ fits
    <3>1. StepIn(k, b, Going(m, here)) = Going(m2, next)
      BY <2>2, <2>3, Zenon
    <3>2. next \in (here + 2) .. (Len(b) + 1)
      BY <1>1, <1>2, <1>3, <2>2, <2>3
    <3> HIDE DEF next
    <3>3. Reached(k, b, m0, m2, next)
      BY <1>7, <2>1, <3>1, <3>2, LoopGoes
    <3>4. next \in Nat \ {0}
      BY <1>1, <1>2 DEF next
    <3> QED
      BY <1>7, <2>3, <3>3, <3>4 DEF Settled, next
  <2>4. CASE ~(here + Len(w) - 1 <= Len(b) /\ fits)
    <3>0. ~StepIn(k, b, Going(m, here)).ok
      BY <2>2, <2>4, Zenon
    <3>1. ~r.ok
      BY <1>7, <2>1, <3>0, LoopGoes DEF r
    <3> QED
      BY <1>1, <1>2, <2>4, <3>1 DEF Settled, r
  <2> QED
    BY <2>3, <2>4
<1>8. CASE w # << >> /\ here - 1 <= Len(b) /\ good /\ ~(here <= Len(b))
  <2>1. here = Len(b) + 1 /\ Reached(k, b, m0, m, here)
    BY <1>1, <1>3, <1>8
  <2>2. r = Going(m, Len(b) + 1)
    BY <2>1, LoopEnds DEF r
  <2>3. r.m = m
    BY <2>2 DEF Going, Cursor
  <2>4. Len(w) >= 2
    BY <1>8 DEF Portion
  <2>5. here + Len(w) - 1 <= Len(full)
    BY DEF Holds
  <2>6. m \in R /\ ~(next - 1 <= Len(b))
    BY <1>2, <1>3, <2>1, <2>4, <2>5
  <2>7. next \in Nat \ {0}
    BY <1>1, <1>2
  <2> QED
    BY <2>3, <2>6, <2>7 DEF Settled, r
<1> QED
  BY <1>4, <1>5, <1>6, <1>7, <1>8
----------------------------------------------------------------------------
(* The kinds of fields. *)
LEMMA TagByte ==
  ASSUME NEW number \in Nat, NEW type \in Nat, 8 * number + type < 128
  PROVE  Tag(number, type) = <<8 * number + type>>
<1> DEFINE t == 8 * number + type
<1>1. t \in Nat /\ t < 128
  OBVIOUS
<1> HIDE DEF t
<1>2. Varint[t] = <<t>>
  BY <1>1, VarintDef
<1> QED
  BY <1>2 DEF Tag, t

LEMMA StepTag ==
  ASSUME NEW k, NEW b \in Seq(Octet), NEW here \in 1 .. Len(b), b[here] \in 1 .. 127, NEW m
  PROVE  StepIn(k, b, Going(m, here)) = FieldIn(k, b, Going(m, here + 1), b[here], here)
<1>0. \A v \in 1 .. 127 : v < 128 /\ v # 0
  OBVIOUS
<1>5. b[here] < 128 /\ b[here] # 0
  BY <1>0, Zenon
<1>6. here \in Nat \ {0} /\ here \in here .. (here + 9) /\ here <= Len(b)
      /\ \A i \in here .. (here - 1) : b[i] >= 128
  OBVIOUS
<1>1. here \in Nat \ {0} /\ here \in here .. (here + 9) /\ here <= Len(b) /\ b[here] < 128
      /\ \A i \in here .. (here - 1) : b[i] >= 128
  BY <1>5, <1>6
<1>2. VarintEnd(b, here) = here
  BY <1>1, VarintEndIs
<1>3. VarintValue(b, here) = b[here]
  BY <1>1, <1>2, ValueOne
<1>4. Going(m, here).at = here /\ Going(m, here).m = m
  BY DEF Going, Cursor
<1> QED
  BY <1>1, <1>2, <1>3, <1>4, <1>5 DEF StepIn, Going

LEMMA DelimitedThere ==
  ASSUME NEW b \in Seq(Octet), NEW here, NEW s \in Seq(Octet), Len(s) < IntSpan,
         Holds(b, here, Varint[Len(s)] \o s)
  PROVE  /\ HasDelimited(b, here) /\ Delimited(b, here) = s
         /\ DelimitedEnd(b, here) + 1 = here + Len(Varint[Len(s)] \o s)
<1> DEFINE n == Len(s)
           v == Varint[n]
<1>1. n \in Nat /\ n \in 0 .. (IntSpan - 1)
  BY SpanFacts
<1>2. v \in Seq(Octet) /\ Len(v) \in Nat \ {0}
  BY <1>1, VarintBytes
<1>10. here \in Nat \ {0}
  BY DEF Holds
<1>11. Holds(b, here, v \o s)
  OBVIOUS
<1>3. Holds(b, here, v) /\ Holds(b, here + Len(v), s) /\ here \in Nat \ {0}
  <2> HIDE DEF v
  <2> QED
    BY <1>2, <1>10, <1>11, HoldsParts
<1> HIDE DEF n
<1>4. VarintEnd(b, here) = here + Len(v) - 1 /\ VarintValue(b, here) = n
  BY <1>1, <1>3, VarintBack
<1>5. Len(v \o s) = Len(v) + n
  BY <1>2, JoinedOctets DEF n
<1>6. SubSeq(b, here + Len(v), (here + Len(v)) + n - 1) = s /\ (here + Len(v)) + n - 1 <= Len(b)
  BY <1>3, HoldsCut DEF Holds, n
<1> HIDE DEF v
<1>7. /\ DelimitedStart(b, here) = here + Len(v)
      /\ DelimitedEnd(b, here) = (here + Len(v)) + n - 1
      /\ VarintEnd(b, here) # 0
  BY <1>1, <1>2, <1>3, <1>4 DEF DelimitedStart, DelimitedEnd
<1>8. DelimitedEnd(b, here) + 1 = here + Len(v \o s)
  BY <1>1, <1>2, <1>3, <1>5, <1>7
<1>9. HasDelimited(b, here) /\ Delimited(b, here) = s
  BY <1>6, <1>7 DEF HasDelimited, Delimited
<1> QED
  BY <1>8, <1>9 DEF v, n

LEMMA DelimitedCutOff ==
  ASSUME NEW full \in Seq(Octet), NEW here, NEW s \in Seq(Octet), Len(s) < IntSpan,
         Holds(full, here, Varint[Len(s)] \o s),
         NEW b \in Seq(Octet), Prefix(b, full), Len(b) < here + Len(Varint[Len(s)] \o s) - 1
  PROVE  ~HasDelimited(b, here)
<1> DEFINE n == Len(s)
           v == Varint[n]
<1>1. n \in Nat /\ n \in 0 .. (IntSpan - 1) /\ Len(b) \in Nat
  BY SpanFacts
<1>2. v \in Seq(Octet) /\ Len(v) \in Nat \ {0}
  BY <1>1, VarintBytes
<1>10. here \in Nat \ {0}
  BY DEF Holds
<1>11. Holds(full, here, v \o s)
  OBVIOUS
<1>3. Holds(full, here, v) /\ here \in Nat \ {0}
  <2> HIDE DEF v
  <2> QED
    BY <1>2, <1>10, <1>11, HoldsParts
<1>4. Len(v \o s) = Len(v) + n
  BY <1>2, JoinedOctets
<1>5. Len(b) < here + Len(v \o s) - 1
  OBVIOUS
<1> HIDE DEF n
<1>6. CASE Len(b) < here + Len(v) - 1
  <2>1. VarintEnd(b, here) = 0
    BY <1>1, <1>3, <1>6, VarintCutOff
  <2> QED
    BY <2>1 DEF HasDelimited
<1>7. CASE ~(Len(b) < here + Len(v) - 1)
  <2>1. here + Len(v) - 1 <= Len(b)
    BY <1>1, <1>2, <1>3, <1>7
  <2>2. Holds(b, here, v)
    BY <1>2, <1>3, <2>1, PrefixHolds
  <2>3. VarintEnd(b, here) = here + Len(v) - 1 /\ VarintValue(b, here) = n
    BY <1>1, <2>2, VarintBack
  <2> HIDE DEF v
  <2>4. ~(DelimitedEnd(b, here) <= Len(b))
    BY <1>1, <1>2, <1>3, <1>4, <1>5, <2>3 DEF DelimitedEnd
  <2> QED
    BY <2>4 DEF HasDelimited
<1> QED
  BY <1>6, <1>7

(* A field whose tag is one byte: what the loop must make of its body. *)
BodyWhole(k, t, body, m, m2, fits) ==
  \A b \in Seq(Octet) : \A here \in Nat \ {0} :
    Holds(b, here, body) =>
      IF fits THEN FieldIn(k, b, Going(m, here), t, here - 1) = Going(m2, here + Len(body))
      ELSE ~FieldIn(k, b, Going(m, here), t, here - 1).ok
BodyCutOff(k, t, body, m) ==
  \A full, b \in Seq(Octet) : \A here \in Nat \ {0} :
    Holds(full, here, body) /\ Prefix(b, full) /\ Len(b) < here + Len(body) - 1 =>
      ~FieldIn(k, b, Going(m, here), t, here - 1).ok

LEMMA PieceOfBody ==
  ASSUME NEW k, NEW t \in 1 .. 127, NEW body \in Seq(Octet), Len(body) >= 1, NEW m, NEW m2,
         NEW fits \in BOOLEAN, BodyWhole(k, t, body, m, m2, fits), BodyCutOff(k, t, body, m)
  PROVE  Portion(k, <<t>> \o body, m, m2, fits)
<1> DEFINE u == <<t>>
           w == u \o body
<1>1. u \in Seq(Octet) /\ Len(u) = 1 /\ u[1] = t
  BY DEF Octet
<1>2. w \in Seq(Octet) /\ Len(w) = 1 + Len(body) /\ Len(body) \in Nat
  <2> HIDE DEF u
  <2>1. w \in Seq(Octet) /\ Len(w) = Len(u) + Len(body) /\ Len(body) \in Nat
    BY <1>1, JoinedOctets
  <2> QED
    BY <1>1, <2>1
<1>3. Len(w) >= 2
  BY <1>2
<1>4. ASSUME NEW full \in Seq(Octet), NEW b \in Seq(Octet), NEW here \in Nat \ {0},
             Holds(full, here, w), Prefix(b, full), here <= Len(b)
      PROVE  IF here + Len(w) - 1 <= Len(b) /\ fits
             THEN StepIn(k, b, Going(m, here)) = Going(m2, here + Len(w))
             ELSE ~StepIn(k, b, Going(m, here)).ok
  <2> DEFINE place == here + 1
  <2>1. Holds(full, here, u) /\ Holds(full, place, body)
    <3> HIDE DEF u
    <3>1. Holds(full, here, u) /\ Holds(full, here + Len(u), body)
      BY <1>1, <1>4, HoldsParts
    <3> QED
      BY <1>1, <3>1
  <2>2. full[here] = t
    <3>1. \A i \in 1 .. Len(u) : full[here + i - 1] = u[i]
      BY <2>1 DEF Holds
    <3>2. 1 \in 1 .. Len(u) /\ here + 1 - 1 = here
      BY <1>1
    <3>3. full[here + 1 - 1] = u[1]
      BY <3>1, <3>2, Zenon
    <3> QED
      BY <1>1, <3>2, <3>3
  <2>3. here \in 1 .. Len(b) /\ b[here] = t
    <3>1. here \in 1 .. Len(b)
      BY <1>4
    <3> QED
      BY <1>4, <2>2, <3>1 DEF Prefix
  <2>4. StepIn(k, b, Going(m, here)) = FieldIn(k, b, Going(m, place), t, here)
    <3>0. b[here] \in 1 .. 127
      BY <2>3
    <3>1. StepIn(k, b, Going(m, here)) = FieldIn(k, b, Going(m, here + 1), b[here], here)
      BY <2>3, <3>0, StepTag
    <3> QED
      BY <2>3, <3>1
  <2>5. place \in Nat \ {0} /\ place - 1 = here /\ place + Len(body) = here + Len(w) /\ Len(b) \in Nat
    BY <1>2
  <2> HIDE DEF w, u, place
  <2>6. CASE here + Len(w) - 1 <= Len(b)
    <3>1. Holds(b, place, body)
      <4>1. place + Len(body) - 1 <= Len(b)
        BY <1>2, <2>5, <2>6
      <4> QED
        BY <1>4, <2>1, <4>1, PrefixHolds
    <3>2. IF fits THEN FieldIn(k, b, Going(m, place), t, place - 1) = Going(m2, place + Len(body))
          ELSE ~FieldIn(k, b, Going(m, place), t, place - 1).ok
      BY <2>5, <3>1 DEF BodyWhole
    <3> QED
      BY <2>4, <2>5, <2>6, <3>2
  <2>7. CASE ~(here + Len(w) - 1 <= Len(b))
    <3>1. Len(b) < place + Len(body) - 1
      BY <1>2, <2>5, <2>7
    <3>2. ~FieldIn(k, b, Going(m, place), t, place - 1).ok
      BY <1>4, <2>1, <2>5, <3>1 DEF BodyCutOff
    <3> QED
      BY <2>4, <2>5, <2>7, <3>2
  <2> QED
    BY <2>6, <2>7
<1> HIDE DEF w
<1>5. Portion(k, w, m, m2, fits)
  BY <1>2, <1>3, <1>4 DEF Portion
<1> QED
  BY <1>5 DEF w

(* Setting a field of a message to what it is changes nothing. *)
HasField(m, f) == [m EXCEPT ![f] = m[f]] = m

FieldSet(m, f, v) == [m EXCEPT ![f] = v]

LEMMA GoingFields ==
  ASSUME NEW m, NEW here
  PROVE  Going(m, here).m = m /\ Going(m, here).at = here
  BY DEF Going, Cursor

LEMMA FailedNotOk == ASSUME NEW c PROVE ~Failed(c).ok
  BY DEF Failed, Cursor

LEMMA EmptyText == IsStructurallyValidUTF8(<< >>)
  BY DEF IsStructurallyValidUTF8

ReadsText(k, t, f) == \A b, c, a : FieldIn(k, b, c, t, a) = ReadString(c, f, b)

LEMMA TextPiece ==
  ASSUME NEW k, NEW number \in 1 .. 9, NEW f, ReadsText(k, 8 * number + 2, f),
         NEW s \in Seq(Octet), Len(s) < IntSpan, NEW m, HasField(m, f)
  PROVE  Portion(k, Unless(s = << >>, WriteString(number, s)), m,
               FieldSet(m, f, Assigned(m[f], s, << >>)), IsStructurallyValidUTF8(s))
<1> DEFINE t == 8 * number + 2
           v == Varint[Len(s)]
           body == v \o s
           m2 == FieldSet(m, f, s)
<1>1. CASE s = << >>
  <2>1. Unless(s = << >>, WriteString(number, s)) = << >>
    BY <1>1 DEF Unless
  <2>2. FieldSet(m, f, Assigned(m[f], s, << >>)) = m
    BY <1>1 DEF FieldSet, Assigned, HasField
  <2>3. IsStructurallyValidUTF8(s)
    BY <1>1, EmptyText
  <2> QED
    BY <2>1, <2>2, <2>3 DEF Portion
<1>2. CASE s # << >>
  <2>1. t \in 1 .. 127 /\ Tag(number, DelimitedType) = <<t>> /\ Len(s) \in Nat
    <3>1. 2 \in Nat /\ number \in Nat /\ 8 * number + 2 < 128 /\ t \in 1 .. 127
      OBVIOUS
    <3>2. Tag(number, 2) = <<8 * number + 2>>
      BY <3>1, TagByte
    <3> QED
      BY <3>1, <3>2 DEF DelimitedType
  <2>2. v \in Seq(Octet) /\ Len(v) \in Nat \ {0} /\ <<t>> \in Seq(Octet)
    BY <2>1, VarintBytes DEF Octet
  <2>3. body \in Seq(Octet) /\ Len(body) >= 1
    <3> HIDE DEF v
    <3>1. body \in Seq(Octet) /\ Len(body) = Len(v) + Len(s)
      BY <2>2, JoinedOctets
    <3> QED
      BY <2>1, <2>2, <3>1
  <2>4. Unless(s = << >>, WriteString(number, s)) = <<t>> \o body
    <3>1. (<<t>> \o v) \o s = <<t>> \o (v \o s)
      <4> HIDE DEF v, t
      <4> QED
        BY <2>2, ConcatAssociative
    <3>2. WriteString(number, s) = (<<t>> \o v) \o s
      BY <2>1 DEF WriteString
    <3>3. Unless(s = << >>, WriteString(number, s)) = WriteString(number, s)
      BY <1>2 DEF Unless
    <3> QED
      BY <3>1, <3>2, <3>3
  <2>5. FieldSet(m, f, Assigned(m[f], s, << >>)) = m2
    BY <1>2 DEF Assigned
  <2> DEFINE fits == IsStructurallyValidUTF8(s)
  <2>6. fits \in BOOLEAN
    BY DEF IsStructurallyValidUTF8
  <2>7. ASSUME NEW b \in Seq(Octet), NEW here \in Nat \ {0}, Holds(b, here, body)
        PROVE  IF fits THEN FieldIn(k, b, Going(m, here), t, here - 1) = Going(m2, here + Len(body))
               ELSE ~FieldIn(k, b, Going(m, here), t, here - 1).ok
    <3>1. FieldIn(k, b, Going(m, here), t, here - 1) = ReadString(Going(m, here), f, b)
      BY DEF ReadsText
    <3>2. /\ HasDelimited(b, here) /\ Delimited(b, here) = s
          /\ DelimitedEnd(b, here) + 1 = here + Len(body)
      BY <2>7, DelimitedThere
    <3> HIDE DEF body
    <3>3. CASE fits
      <4>1. ReadString(Going(m, here), f, b) = Cursor(FieldSet(m, f, s), here + Len(body), TRUE)
        BY <3>2, <3>3, GoingFields DEF ReadString, FieldSet
      <4> QED
        BY <3>1, <3>3, <4>1 DEF Going
    <3>4. CASE ~fits
      <4>1. ReadString(Going(m, here), f, b) = Failed(Going(m, here))
        BY <3>2, <3>4, GoingFields DEF ReadString
      <4> QED
        BY <3>1, <3>4, <4>1, FailedNotOk
    <3> QED
      BY <3>3, <3>4
  <2>8. ASSUME NEW full \in Seq(Octet), NEW b \in Seq(Octet), NEW here \in Nat \ {0},
               Holds(full, here, body), Prefix(b, full), Len(b) < here + Len(body) - 1
        PROVE  ~FieldIn(k, b, Going(m, here), t, here - 1).ok
    <3>1. FieldIn(k, b, Going(m, here), t, here - 1) = ReadString(Going(m, here), f, b)
      BY DEF ReadsText
    <3>2. ~HasDelimited(b, here)
      BY <2>8, DelimitedCutOff
    <3>3. ReadString(Going(m, here), f, b) = Failed(Going(m, here))
      BY <3>2, GoingFields DEF ReadString
    <3> QED
      BY <3>1, <3>3, FailedNotOk
  <2> HIDE DEF body, fits, t, m2
  <2>9. BodyWhole(k, t, body, m, m2, fits) /\ BodyCutOff(k, t, body, m)
    BY <2>7, <2>8 DEF BodyWhole, BodyCutOff
  <2>10. Portion(k, <<t>> \o body, m, m2, fits)
    BY <2>1, <2>3, <2>6, <2>9, PieceOfBody
  <2> QED
    BY <2>4, <2>5, <2>10 DEF fits
<1> QED
  BY <1>1, <1>2

ReadsNumber(k, t, f) == \A b, c, a : FieldIn(k, b, c, t, a) = ReadUInt32(c, f, b)

LEMMA NumberPiece ==
  ASSUME NEW k, NEW number \in 1 .. 9, NEW f, ReadsNumber(k, 8 * number, f),
         NEW n \in 0 .. (IntSpan - 1), NEW m, HasField(m, f)
  PROVE  Portion(k, Unless(n = 0, WriteUInt32(number, n)), m,
               FieldSet(m, f, Assigned(m[f], n, 0)), TRUE)
<1> DEFINE t == 8 * number
           body == Varint[n]
           m2 == FieldSet(m, f, n)
<1>1. CASE n = 0
  <2>1. Unless(n = 0, WriteUInt32(number, n)) = << >>
    BY <1>1 DEF Unless
  <2>2. FieldSet(m, f, Assigned(m[f], n, 0)) = m
    BY <1>1 DEF FieldSet, Assigned, HasField
  <2> QED
    BY <2>1, <2>2 DEF Portion
<1>2. CASE n # 0
  <2>1. t \in 1 .. 127 /\ Tag(number, VarintType) = <<t>> /\ n \in Nat
    <3>1. 0 \in Nat /\ number \in Nat /\ 8 * number + 0 < 128 /\ t \in 1 .. 127 /\ 8 * number + 0 = t
      OBVIOUS
    <3>2. Tag(number, 0) = <<8 * number + 0>>
      BY <3>1, TagByte
    <3>3. n \in Nat
      BY SpanFacts
    <3> QED
      BY <3>1, <3>2, <3>3 DEF VarintType
  <2>2. body \in Seq(Octet) /\ Len(body) \in Nat \ {0} /\ Len(body) >= 1
    <3>1. body \in Seq(Octet) /\ Len(body) \in Nat \ {0}
      BY <2>1, VarintBytes
    <3> HIDE DEF body
    <3> QED
      BY <3>1
  <2>3. Unless(n = 0, WriteUInt32(number, n)) = <<t>> \o body
    BY <1>2, <2>1 DEF Unless, WriteUInt32
  <2>4. FieldSet(m, f, Assigned(m[f], n, 0)) = m2
    BY <1>2 DEF Assigned
  <2>5. \A b, here : FieldIn(k, b, Going(m, here), t, here - 1) = ReadUInt32(Going(m, here), f, b)
    BY DEF ReadsNumber
  <2>6. ASSUME NEW b \in Seq(Octet), NEW here \in Nat \ {0}, Holds(b, here, body)
        PROVE  FieldIn(k, b, Going(m, here), t, here - 1) = Going(m2, here + Len(body))
    <3>1. VarintEnd(b, here) = here + Len(body) - 1 /\ VarintValue(b, here) = n
      BY <2>6, VarintBack
    <3> HIDE DEF body
    <3>2. VarintEnd(b, here) # 0 /\ VarintEnd(b, here) + 1 = here + Len(body)
      BY <2>2, <3>1
    <3>3. ReadUInt32(Going(m, here), f, b) = Cursor(FieldSet(m, f, n), here + Len(body), TRUE)
      BY <3>1, <3>2, GoingFields DEF ReadUInt32, FieldSet
    <3> QED
      BY <2>5, <3>3 DEF Going
  <2>7. ASSUME NEW full \in Seq(Octet), NEW b \in Seq(Octet), NEW here \in Nat \ {0},
               Holds(full, here, body), Prefix(b, full), Len(b) < here + Len(body) - 1
        PROVE  ~FieldIn(k, b, Going(m, here), t, here - 1).ok
    <3>1. VarintEnd(b, here) = 0
      BY <2>1, <2>7, VarintCutOff
    <3>2. ReadUInt32(Going(m, here), f, b) = Failed(Going(m, here))
      BY <3>1, GoingFields DEF ReadUInt32
    <3> QED
      BY <2>5, <3>2, FailedNotOk
  <2> HIDE DEF body, t, m2
  <2>8. BodyWhole(k, t, body, m, m2, TRUE) /\ BodyCutOff(k, t, body, m)
    BY <2>6, <2>7 DEF BodyWhole, BodyCutOff
  <2>9. Portion(k, <<t>> \o body, m, m2, TRUE)
    BY <2>1, <2>2, <2>8, PieceOfBody
  <2> QED
    BY <2>3, <2>4, <2>9
<1> QED
  BY <1>1, <1>2

ReadsFlag(k, t, f) == \A b, c, a : FieldIn(k, b, c, t, a) = ReadBool(c, f, b)

LEMMA FlagPiece ==
  ASSUME NEW k, NEW number \in 1 .. 9, NEW f, ReadsFlag(k, 8 * number, f),
         NEW v \in BOOLEAN, NEW m, HasField(m, f)
  PROVE  Portion(k, Unless(~v, WriteBool(number, v)), m,
               FieldSet(m, f, Assigned(m[f], v, FALSE)), TRUE)
<1> DEFINE t == 8 * number
           body == Varint[1]
           m2 == FieldSet(m, f, TRUE)
<1>1. CASE v = FALSE
  <2>1. Unless(~v, WriteBool(number, v)) = << >>
    BY <1>1 DEF Unless
  <2>2. FieldSet(m, f, Assigned(m[f], v, FALSE)) = m
    BY <1>1 DEF FieldSet, Assigned, HasField
  <2> QED
    BY <2>1, <2>2 DEF Portion
<1>2. CASE v = TRUE
  <2>1. t \in 1 .. 127 /\ Tag(number, VarintType) = <<t>>
    <3>1. 0 \in Nat /\ number \in Nat /\ 8 * number + 0 < 128 /\ t \in 1 .. 127 /\ 8 * number + 0 = t
      OBVIOUS
    <3>2. Tag(number, 0) = <<8 * number + 0>>
      BY <3>1, TagByte
    <3> QED
      BY <3>1, <3>2 DEF VarintType
  <2>0. 1 \in 0 .. (IntSpan - 1) /\ 1 \in Nat
    BY SpanFacts
  <2>2. body = <<1>> /\ body \in Seq(Octet) /\ Len(body) = 1
    <3>0. \A i \in Nat : i < 128 => Varint[i] = <<i>>
      BY VarintDef
    <3>1. body = <<1>>
      BY <2>0, <3>0
    <3>2. 1 \in Octet
      BY DEF Octet
    <3> HIDE DEF body
    <3> QED
      BY <3>1, <3>2
  <2>3. Unless(~v, WriteBool(number, v)) = <<t>> \o body
    BY <1>2, <2>1, <2>2 DEF Unless, WriteBool
  <2>4. FieldSet(m, f, Assigned(m[f], v, FALSE)) = m2
    BY <1>2 DEF Assigned
  <2>5. \A b, here : FieldIn(k, b, Going(m, here), t, here - 1) = ReadBool(Going(m, here), f, b)
    BY DEF ReadsFlag
  <2>6. ASSUME NEW b \in Seq(Octet), NEW here \in Nat \ {0}, Holds(b, here, body)
        PROVE  FieldIn(k, b, Going(m, here), t, here - 1) = Going(m2, here + Len(body))
    <3>1. VarintEnd(b, here) = here + Len(body) - 1 /\ VarintValue(b, here) = 1
      BY <2>0, <2>6, VarintBack
    <3> HIDE DEF body
    <3>2. VarintEnd(b, here) = here
      BY <2>2, <3>1
    <3>3. b[here] = 1
      <4>1. VarintValue(b, here) = b[here]
        BY <3>2, ValueOne
      <4> QED
        BY <3>1, <4>1
    <3>4. (\E i \in here .. here : b[i] % 128 # 0) = TRUE
      <4>1. here \in here .. here /\ b[here] % 128 # 0
        BY <3>3
      <4>2. \E i \in here .. here : b[i] % 128 # 0
        BY <4>1
      <4> QED
        BY <4>2, Zenon
    <3>5. ReadBool(Going(m, here), f, b)
            = Cursor([m EXCEPT ![f] = \E i \in here .. here : b[i] % 128 # 0], here + 1, TRUE)
      BY <3>2, GoingFields, Zenon DEF ReadBool
    <3>6. [m EXCEPT ![f] = \E i \in here .. here : b[i] % 128 # 0] = m2
      BY <3>4, Zenon DEF FieldSet
    <3> HIDE DEF m2
    <3>7. ReadBool(Going(m, here), f, b) = Cursor(m2, here + 1, TRUE)
      BY <3>5, <3>6, Zenon
    <3> QED
      BY <2>2, <2>5, <3>7 DEF Going
  <2>7. ASSUME NEW full \in Seq(Octet), NEW b \in Seq(Octet), NEW here \in Nat \ {0},
               Holds(full, here, body), Prefix(b, full), Len(b) < here + Len(body) - 1
        PROVE  ~FieldIn(k, b, Going(m, here), t, here - 1).ok
    <3>1. VarintEnd(b, here) = 0
      BY <2>0, <2>7, VarintCutOff
    <3>2. ReadBool(Going(m, here), f, b) = Failed(Going(m, here))
      BY <3>1, GoingFields, Zenon DEF ReadBool
    <3> QED
      BY <2>5, <3>2, FailedNotOk
  <2> HIDE DEF body, t, m2
  <2>8. BodyWhole(k, t, body, m, m2, TRUE) /\ BodyCutOff(k, t, body, m)
    BY <2>6, <2>7 DEF BodyWhole, BodyCutOff
  <2>10. Len(body) >= 1
    BY <2>2
  <2>9. Portion(k, <<t>> \o body, m, m2, TRUE)
    BY <2>1, <2>2, <2>8, <2>10, PieceOfBody
  <2> QED
    BY <2>3, <2>4, <2>9
<1> QED
  BY <1>1, <1>2

(* A message inside another one. *)
ReadsPart(k, f, j) ==
  \A b, c, a : FieldIn(k, b, c, 26, a) = ReadMessage(c, f, b, Parse(j, New(j), Delimited(b, c.at)))

LEMMA ReadPart ==
  ASSUME NEW m, NEW here, NEW f, NEW b, NEW e
  PROVE  /\ HasDelimited(b, here) /\ e.ok =>
              ReadMessage(Going(m, here), f, b, e)
                = Going(FieldSet(m, f, Append(m[f], e.m)), DelimitedEnd(b, here) + 1)
         /\ ~(HasDelimited(b, here) /\ e.ok) =>
              ReadMessage(Going(m, here), f, b, e) = Failed(Going(m, here))
<1> DEFINE c == Going(m, here)
<1>1. c.m = m /\ c.at = here
  BY GoingFields
<1> HIDE DEF c
<1>2. ReadMessage(c, f, b, e) =
        IF HasDelimited(b, here) /\ e.ok
        THEN Cursor([c.m EXCEPT ![f] = Append(c.m[f], e.m)], DelimitedEnd(b, here) + 1, TRUE)
        ELSE Failed(c)
  BY <1>1, Zenon DEF ReadMessage
<1>3. [c.m EXCEPT ![f] = Append(c.m[f], e.m)] = FieldSet(m, f, Append(m[f], e.m))
  BY <1>1, Zenon DEF FieldSet
<1>4. HasDelimited(b, here) /\ e.ok =>
        ReadMessage(c, f, b, e)
          = Cursor(FieldSet(m, f, Append(m[f], e.m)), DelimitedEnd(b, here) + 1, TRUE)
  BY <1>2, <1>3, Zenon
<1>5. ~(HasDelimited(b, here) /\ e.ok) => ReadMessage(c, f, b, e) = Failed(c)
  BY <1>2, Zenon
<1>6. \A m3, i : Going(m3, i) = Cursor(m3, i, TRUE)
  BY Zenon DEF Going
<1> QED
  BY <1>4, <1>5, <1>6, Zenon DEF c

LEMMA PartPiece ==
  ASSUME NEW k, NEW f, NEW j, ReadsPart(k, f, j),
         NEW s \in Seq(Octet), Len(s) < IntSpan, NEW m, NEW node, NEW fits \in BOOLEAN,
         fits => Parse(j, New(j), s).ok /\ Parse(j, New(j), s).m = node,
         ~fits => ~Parse(j, New(j), s).ok
  PROVE  Portion(k, WriteMessage(3, Len(s), s), m, FieldSet(m, f, Append(m[f], node)), fits)
<1> DEFINE t == 26
           v == Varint[Len(s)]
           body == v \o s
           m2 == FieldSet(m, f, Append(m[f], node))
<1>1. Tag(3, DelimitedType) = <<26>> /\ Len(s) \in Nat
  <2>1. 2 \in Nat /\ 3 \in Nat /\ 8 * 3 + 2 < 128 /\ 8 * 3 + 2 = 26
    OBVIOUS
  <2>2. Tag(3, 2) = <<8 * 3 + 2>>
    BY <2>1, TagByte
  <2> QED
    BY <2>1, <2>2 DEF DelimitedType
<1>2. v \in Seq(Octet) /\ Len(v) \in Nat \ {0} /\ <<26>> \in Seq(Octet)
  BY <1>1, VarintBytes DEF Octet
<1>3. body \in Seq(Octet) /\ Len(body) >= 1
  <2> HIDE DEF v
  <2>1. body \in Seq(Octet) /\ Len(body) = Len(v) + Len(s)
    BY <1>2, JoinedOctets
  <2> QED
    BY <1>1, <1>2, <2>1
<1>4. WriteMessage(3, Len(s), s) = <<26>> \o body
  <2>1. (<<26>> \o v) \o s = <<26>> \o (v \o s)
    <3> HIDE DEF v
    <3> QED
      BY <1>2, ConcatAssociative
  <2>2. WriteMessage(3, Len(s), s) = (<<26>> \o v) \o s
    BY <1>1 DEF WriteMessage
  <2> QED
    BY <2>1, <2>2
<1>5. \A b, here : FieldIn(k, b, Going(m, here), 26, here - 1)
                     = ReadMessage(Going(m, here), f, b, Parse(j, New(j), Delimited(b, here)))
  BY GoingFields DEF ReadsPart
<1>6. ASSUME NEW b \in Seq(Octet), NEW here \in Nat \ {0}, Holds(b, here, body)
      PROVE  IF fits THEN FieldIn(k, b, Going(m, here), 26, here - 1) = Going(m2, here + Len(body))
             ELSE ~FieldIn(k, b, Going(m, here), 26, here - 1).ok
  <2>1. /\ HasDelimited(b, here) /\ Delimited(b, here) = s
        /\ DelimitedEnd(b, here) + 1 = here + Len(body)
    BY <1>6, DelimitedThere
  <2> HIDE DEF body
  <2> DEFINE e == Parse(j, New(j), s)
  <2>2. FieldIn(k, b, Going(m, here), 26, here - 1) = ReadMessage(Going(m, here), f, b, e)
    BY <1>5, <2>1
  <2>3. (fits => e.ok /\ e.m = node) /\ (~fits => ~e.ok)
    OBVIOUS
  <2> HIDE DEF e
  <2>4. CASE fits
    <3>0. HasDelimited(b, here) /\ e.ok /\ m2 = FieldSet(m, f, Append(m[f], e.m))
      BY <2>1, <2>3, <2>4
    <3>1. ReadMessage(Going(m, here), f, b, e) = Going(m2, DelimitedEnd(b, here) + 1)
      <4> HIDE DEF m2
      <4> QED
        BY <3>0, ReadPart
    <3> QED
      BY <2>1, <2>2, <2>4, <3>1
  <2>5. CASE ~fits
    <3>1. ReadMessage(Going(m, here), f, b, e) = Failed(Going(m, here))
      BY <2>3, <2>5, ReadPart
    <3> QED
      BY <2>2, <2>5, <3>1, FailedNotOk
  <2> QED
    BY <2>4, <2>5
<1>7. ASSUME NEW full \in Seq(Octet), NEW b \in Seq(Octet), NEW here \in Nat \ {0},
             Holds(full, here, body), Prefix(b, full), Len(b) < here + Len(body) - 1
      PROVE  ~FieldIn(k, b, Going(m, here), 26, here - 1).ok
  <2> DEFINE e == Parse(j, New(j), Delimited(b, here))
  <2>1. FieldIn(k, b, Going(m, here), 26, here - 1) = ReadMessage(Going(m, here), f, b, e)
    BY <1>5
  <2>2. ~HasDelimited(b, here)
    BY <1>7, DelimitedCutOff
  <2> HIDE DEF e
  <2>3. ReadMessage(Going(m, here), f, b, e) = Failed(Going(m, here))
    BY <2>2, ReadPart
  <2> QED
    BY <2>1, <2>3, FailedNotOk
<1> HIDE DEF body, m2
<1>8. BodyWhole(k, 26, body, m, m2, fits) /\ BodyCutOff(k, 26, body, m)
  BY <1>6, <1>7 DEF BodyWhole, BodyCutOff
<1>9. Portion(k, <<26>> \o body, m, m2, fits)
  <2>1. 26 \in 1 .. 127
    OBVIOUS
  <2> QED
    BY <1>3, <1>8, <2>1, PieceOfBody
<1> QED
  BY <1>4, <1>9 DEF m2

----------------------------------------------------------------------------
(* Fields that a class does not know. *)
LEMMA VarintShift ==
  ASSUME NEW u \in Seq(Octet), NEW b \in Seq(Octet), NEW d \in Nat, Holds(b, d + 1, u),
         NEW i \in Nat \ {0}, VarintEnd(u, i) # 0
  PROVE  /\ VarintEnd(b, d + i) = d + VarintEnd(u, i)
         /\ VarintValue(b, d + i) = VarintValue(u, i)
<1> DEFINE e == VarintEnd(u, i)
           j == d + i
<1>1. e \in i .. (i + 9) /\ e <= Len(u) /\ Len(u) \in Nat /\ Len(b) \in Nat
  BY VarintEndFacts
<1>2. (d + 1) + Len(u) - 1 <= Len(b) /\ \A k \in 1 .. Len(u) : b[(d + 1) + k - 1] = u[k]
  BY DEF Holds
<1>3. j \in Nat \ {0}
  OBVIOUS
<1> HIDE DEF e
<1>4. SameBytes(b, j, u, i, e - i)
  <2>1. ASSUME NEW k \in 0 .. (e - i) PROVE b[j + k] = u[i + k]
    <3>1. i + k \in 1 .. Len(u) /\ (d + 1) + (i + k) - 1 = j + k
      BY <1>1
    <3>2. b[(d + 1) + (i + k) - 1] = u[i + k]
      BY <1>2, <3>1, Zenon
    <3> QED
      BY <3>1, <3>2
  <2>2. j + (e - i) <= Len(b)
    BY <1>1, <1>2
  <2> QED
    BY <2>1, <2>2 DEF SameBytes
<1> HIDE DEF j
<1>5. VarintEnd(b, j) = j + (e - i) /\ VarintValue(b, j) = VarintValue(u, i)
  BY <1>3, <1>4, SameVarint DEF e
<1>6. j + (e - i) = d + e
  BY <1>1 DEF j
<1> QED
  BY <1>5, <1>6 DEF e, j

LEMMA CutCells ==
  ASSUME NEW b \in Seq(Octet), NEW i \in Nat \ {0}, NEW j \in Nat, j <= Len(b)
  PROVE  /\ SubSeq(b, i, j) \in Seq(Octet)
         /\ Len(SubSeq(b, i, j)) = IF i <= j THEN j - i + 1 ELSE 0
         /\ \A k \in 1 .. (j - i + 1) : SubSeq(b, i, j)[k] = b[i + k - 1]
<1>1. \A k \in i .. j : b[k] \in Octet
  <2>1. \A k \in 1 .. Len(b) : b[k] \in Octet
    BY Octets
  <2> QED
    BY <2>1
<1>2. i \in Int /\ j \in Int
  OBVIOUS
<1> QED
  BY <1>1, <1>2, SubSeqProperties

LEMMA SubSeqSame ==
  ASSUME NEW u \in Seq(Octet), NEW b \in Seq(Octet), NEW d \in Nat, Holds(b, d + 1, u),
         NEW i \in Nat \ {0}, NEW e \in i .. Len(u)
  PROVE  SubSeq(b, d + i, d + e) = SubSeq(u, i, e)
<1> DEFINE f == d + i
           l == d + e
           s == SubSeq(b, f, l)
           t == SubSeq(u, i, e)
<1>6. Len(u) \in Nat /\ Len(b) \in Nat /\ d + Len(u) <= Len(b)
  BY DEF Holds
<1>7. i \in 1 .. Len(u) /\ e \in Nat /\ i <= e /\ e <= Len(u)
  BY <1>6
<1>1. /\ Len(u) \in Nat /\ Len(b) \in Nat /\ d + Len(u) <= Len(b) /\ i \in 1 .. Len(u)
      /\ \A k \in 1 .. Len(u) : b[(d + 1) + k - 1] = u[k]
  BY <1>6, <1>7 DEF Holds
<1>2. /\ s \in Seq(Octet) /\ Len(s) = e - i + 1
      /\ \A k \in 1 .. (e - i + 1) : s[k] = b[(d + i) + k - 1]
  <2>1. f \in Nat \ {0} /\ l \in Nat /\ l <= Len(b) /\ l - f + 1 = e - i + 1 /\ f <= l
    BY <1>6, <1>7
  <2>2. f = d + i
    OBVIOUS
  <2> HIDE DEF f, l
  <2>3. /\ s \in Seq(Octet) /\ Len(s) = IF f <= l THEN l - f + 1 ELSE 0
        /\ \A k \in 1 .. (l - f + 1) : s[k] = b[f + k - 1]
    BY <2>1, CutCells
  <2> QED
    BY <2>1, <2>2, <2>3
<1>3. /\ t \in Seq(Octet) /\ Len(t) = e - i + 1 /\ \A k \in 1 .. (e - i + 1) : t[k] = u[i + k - 1]
  BY <1>1, CutCells
<1> HIDE DEF s, t
<1>4. ASSUME NEW k \in 1 .. (e - i + 1) PROVE s[k] = t[k]
  <2>1. i + k - 1 \in 1 .. Len(u) /\ (d + 1) + (i + k - 1) - 1 = (d + i) + k - 1
    BY <1>6, <1>7
  <2>2. b[(d + 1) + (i + k - 1) - 1] = u[i + k - 1]
    BY <1>1, <2>1, Zenon
  <2> QED
    BY <1>2, <1>3, <2>1, <2>2
<1>5. s = t
  BY <1>2, <1>3, <1>4
<1> QED
  BY <1>5 DEF s, t

(* Where a field ends that is skipped. *)
SkipEnd(b, tag_at, here) ==
  LET type == VarintValue(b, tag_at) % 8
  IN  CASE type = 0 -> VarintEnd(b, here)
        [] type = 1 -> here + 7
        [] type = 2 -> IF HasDelimited(b, here) THEN DelimitedEnd(b, here) ELSE 0
        [] type = 5 -> here + 3
        [] OTHER -> 0

LEMMA SkipIs ==
  ASSUME NEW m, NEW here, NEW tag_at, NEW b
  PROVE  /\ SkipEnd(b, tag_at, here) # 0 /\ SkipEnd(b, tag_at, here) <= Len(b) =>
              SkipField(Going(m, here), tag_at, b)
                = Going(FieldSet(m, "unknown", m.unknown \o SubSeq(b, tag_at, SkipEnd(b, tag_at, here))),
                        SkipEnd(b, tag_at, here) + 1)
         /\ ~(SkipEnd(b, tag_at, here) # 0 /\ SkipEnd(b, tag_at, here) <= Len(b)) =>
              SkipField(Going(m, here), tag_at, b) = Failed(Going(m, here))
<1> DEFINE c == Going(m, here)
           e == SkipEnd(b, tag_at, here)
<1>1. c.m = m /\ c.at = here
  BY GoingFields
<1> HIDE DEF c
<1>2. SkipField(c, tag_at, b) =
        IF e # 0 /\ e <= Len(b)
        THEN Cursor([c.m EXCEPT !.unknown = c.m.unknown \o SubSeq(b, tag_at, e)], e + 1, TRUE)
        ELSE Failed(c)
  BY <1>1 DEF SkipField, SkipEnd
<1> HIDE DEF e
<1>3. [c.m EXCEPT !.unknown = c.m.unknown \o SubSeq(b, tag_at, e)]
        = FieldSet(m, "unknown", m.unknown \o SubSeq(b, tag_at, e))
  BY <1>1, Zenon DEF FieldSet
<1>4. e # 0 /\ e <= Len(b) =>
        SkipField(c, tag_at, b)
          = Cursor(FieldSet(m, "unknown", m.unknown \o SubSeq(b, tag_at, e)), e + 1, TRUE)
  BY <1>2, <1>3, Zenon
<1>5. ~(e # 0 /\ e <= Len(b)) => SkipField(c, tag_at, b) = Failed(c)
  BY <1>2, Zenon
<1>6. \A m3, i : Going(m3, i) = Cursor(m3, i, TRUE)
  BY Zenon DEF Going
<1> QED
  BY <1>4, <1>5, <1>6, Zenon DEF c, e

LEMMA SkipShift ==
  ASSUME NEW u \in Seq(Octet), NEW b \in Seq(Octet), NEW d \in Nat, Holds(b, d + 1, u),
         NEW i \in Nat \ {0}, VarintEnd(u, i) # 0, NEW here \in Nat \ {0},
         SkipEnd(u, i, here) # 0, SkipEnd(u, i, here) <= Len(u)
  PROVE  /\ SkipEnd(u, i, here) \in Nat /\ SkipEnd(u, i, here) >= here
         /\ SkipEnd(b, d + i, d + here) = d + SkipEnd(u, i, here)
<1> DEFINE type == VarintValue(u, i) % 8
<1>1. VarintValue(b, d + i) % 8 = type
  BY VarintShift
<1>2. Len(u) \in Nat /\ Len(b) \in Nat /\ d + Len(u) <= Len(b)
  BY DEF Holds
<1> HIDE DEF type
<1>3. CASE type = 0
  <2>1. SkipEnd(u, i, here) = VarintEnd(u, here) /\ SkipEnd(b, d + i, d + here) = VarintEnd(b, d + here)
    BY <1>1, <1>3 DEF SkipEnd, type
  <2>2. VarintEnd(b, d + here) = d + VarintEnd(u, here)
    BY <2>1, VarintShift
  <2>3. VarintEnd(u, here) \in here .. (here + 9)
    BY <2>1, VarintEndFacts
  <2> QED
    BY <2>1, <2>2, <2>3
<1>4. CASE type = 1
  <2>1. SkipEnd(u, i, here) = here + 7 /\ SkipEnd(b, d + i, d + here) = (d + here) + 7
    BY <1>1, <1>4 DEF SkipEnd, type
  <2> QED
    BY <2>1
<1>5. CASE type = 5
  <2>1. SkipEnd(u, i, here) = here + 3 /\ SkipEnd(b, d + i, d + here) = (d + here) + 3
    BY <1>1, <1>5 DEF SkipEnd, type
  <2> QED
    BY <2>1
<1>6. CASE type = 2
  <2>1. /\ SkipEnd(u, i, here) = IF HasDelimited(u, here) THEN DelimitedEnd(u, here) ELSE 0
        /\ SkipEnd(b, d + i, d + here) =
             IF HasDelimited(b, d + here) THEN DelimitedEnd(b, d + here) ELSE 0
    BY <1>1, <1>6 DEF SkipEnd, type
  <2>2. HasDelimited(u, here) /\ SkipEnd(u, i, here) = DelimitedEnd(u, here)
    BY <2>1
  <2>3. VarintEnd(u, here) # 0
    BY <2>2 DEF HasDelimited
  <2>4. /\ VarintEnd(b, d + here) = d + VarintEnd(u, here)
        /\ VarintValue(b, d + here) = VarintValue(u, here)
    BY <2>3, VarintShift
  <2>5. VarintEnd(u, here) \in here .. (here + 9)
    BY <2>3, VarintEndFacts
  <2>6. VarintValue(u, here) \in Nat
    <3>1. VarintValue(u, here) \in 0 .. (IntSpan - 1)
      BY <2>3, ValueType
    <3> QED
      BY <3>1, SpanFacts
  <2>7. DelimitedEnd(b, d + here) = d + DelimitedEnd(u, here)
        /\ DelimitedEnd(u, here) \in Nat /\ DelimitedEnd(u, here) >= here
    BY <2>4, <2>5, <2>6 DEF DelimitedEnd
  <2>8. HasDelimited(b, d + here)
    BY <1>2, <2>2, <2>4, <2>5, <2>7 DEF HasDelimited
  <2> QED
    BY <2>1, <2>2, <2>7, <2>8
<1>7. CASE type \notin {0, 1, 2, 5}
  <2>1. SkipEnd(u, i, here) = 0
    BY <1>7 DEF SkipEnd, type
  <2> QED
    BY <2>1
<1> QED
  BY <1>3, <1>4, <1>5, <1>6, <1>7

(* Where the next field starts after a new one. *)
LEMMA SkippedIs ==
  ASSUME NEW u \in Seq(Octet), NEW i \in Nat \ {0}, NEW k, NewFieldAt(k, u, i)
  PROVE  /\ VarintEnd(u, i) \in Nat /\ VarintEnd(u, i) >= i
         /\ VarintValue(u, i) \notin Tags(k) \cup {0}
         /\ SkipEnd(u, i, VarintEnd(u, i) + 1) \in (i + 1) .. Len(u)
         /\ Skipped(u, i).at = SkipEnd(u, i, VarintEnd(u, i) + 1) + 1
<1> DEFINE p == VarintEnd(u, i) + 1
           e == SkipEnd(u, i, p)
           m == [unknown |-> << >>]
<1>1. VarintEnd(u, i) # 0 /\ VarintValue(u, i) \notin Tags(k) \cup {0} /\ Skipped(u, i).ok
  BY DEF NewFieldAt
<1>2. VarintEnd(u, i) \in i .. (i + 9)
  BY <1>1, VarintEndFacts
<1>3. VarintEnd(u, i) \in Nat /\ VarintEnd(u, i) >= i /\ p \in Nat \ {0} /\ p >= i + 1
  BY <1>2
<1>4. Skipped(u, i) = SkipField(Going(m, p), i, u)
  BY DEF Skipped, Going
<1> HIDE DEF p, m
<1>5. e # 0 /\ e <= Len(u)
  <2> SUFFICES ASSUME ~(e # 0 /\ e <= Len(u)) PROVE FALSE
    OBVIOUS
  <2>1. SkipField(Going(m, p), i, u) = Failed(Going(m, p))
    BY SkipIs
  <2> QED
    BY <1>1, <1>4, <2>1, FailedNotOk
<1>6. Skipped(u, i) = Going(FieldSet(m, "unknown", m.unknown \o SubSeq(u, i, e)), e + 1)
  BY <1>4, <1>5, SkipIs
<1>7. Skipped(u, i).at = e + 1
  BY <1>6, GoingFields
<1>8. e \in Nat /\ e >= p
  <2>1. Holds(u, 0 + 1, u) /\ 0 \in Nat
    BY HoldsAll
  <2> QED
    BY <1>1, <1>3, <1>5, <2>1, SkipShift
<1>9. e \in (i + 1) .. Len(u)
  <2>1. Len(u) \in Nat
    OBVIOUS
  <2> QED
    BY <1>3, <1>5, <1>8, <2>1
<1> QED
  BY <1>1, <1>3, <1>7, <1>9 DEF p

(* It is the same field, as long, wherever its bytes stand. *)
LEMMA NewFieldShift ==
  ASSUME NEW u \in Seq(Octet), NEW b \in Seq(Octet), NEW d \in Nat, Holds(b, d + 1, u),
         NEW i \in Nat \ {0}, NEW k, NewFieldAt(k, u, i)
  PROVE  /\ VarintEnd(b, d + i) = d + VarintEnd(u, i)
         /\ VarintValue(b, d + i) = VarintValue(u, i)
         /\ SkipEnd(b, d + i, d + (VarintEnd(u, i) + 1)) = d + SkipEnd(u, i, VarintEnd(u, i) + 1)
         /\ d + SkipEnd(u, i, VarintEnd(u, i) + 1) <= Len(b)
<1> DEFINE p == VarintEnd(u, i) + 1
           e == SkipEnd(u, i, p)
<1>1. VarintEnd(u, i) \in Nat /\ VarintEnd(u, i) >= i /\ e \in (i + 1) .. Len(u)
  BY SkippedIs
<1>2. VarintEnd(b, d + i) = d + VarintEnd(u, i) /\ VarintValue(b, d + i) = VarintValue(u, i)
  <2>1. VarintEnd(u, i) # 0
    BY <1>1
  <2> QED
    BY <2>1, VarintShift
<1>3. p \in Nat \ {0} /\ e # 0 /\ e <= Len(u) /\ VarintEnd(u, i) # 0
  BY <1>1
<1> HIDE DEF p
<1>4. SkipEnd(b, d + i, d + p) = d + e
  BY <1>3, SkipShift
<1>5. d + e <= Len(b)
  BY <1>1 DEF Holds
<1> QED
  BY <1>2, <1>4, <1>5 DEF p

LEMMA NewFieldKept ==
  ASSUME NEW u \in Seq(Octet), NEW b \in Seq(Octet), NEW d \in Nat, Holds(b, d + 1, u),
         NEW i \in Nat \ {0}, NEW k, NewFieldAt(k, u, i)
  PROVE  NewFieldAt(k, b, d + i) /\ Skipped(b, d + i).at = d + Skipped(u, i).at
<1> DEFINE p == VarintEnd(u, i) + 1
           e == SkipEnd(u, i, p)
           j == d + i
           m == [unknown |-> << >>]
<1>1. /\ VarintEnd(u, i) \in Nat /\ VarintEnd(u, i) >= i
      /\ VarintValue(u, i) \notin Tags(k) \cup {0} /\ e \in (i + 1) .. Len(u)
      /\ Skipped(u, i).at = e + 1
  BY SkippedIs
<1>2. /\ VarintEnd(b, j) = d + VarintEnd(u, i) /\ VarintValue(b, j) = VarintValue(u, i)
      /\ SkipEnd(b, j, d + p) = d + e /\ d + e <= Len(b)
  BY NewFieldShift
<1>3. VarintEnd(b, j) # 0 /\ VarintEnd(b, j) + 1 = d + p /\ d + e # 0 /\ e \in Nat
  BY <1>1, <1>2
<1>4. Skipped(b, j) = SkipField(Going(m, d + p), j, b)
  BY <1>3 DEF Skipped, Going
<1> HIDE DEF e, j, p, m
<1>5. Skipped(b, j) = Going(FieldSet(m, "unknown", m.unknown \o SubSeq(b, j, d + e)), (d + e) + 1)
  BY <1>2, <1>3, <1>4, SkipIs
<1>6. Skipped(b, j).at = (d + e) + 1 /\ Skipped(b, j).ok
  BY <1>5 DEF Going, Cursor
<1>7. (d + e) + 1 = d + (e + 1)
  BY <1>3
<1> QED
  BY <1>1, <1>2, <1>3, <1>6, <1>7 DEF NewFieldAt, j

(* New fields after new fields. *)
LEMMA NewToJoined ==
  ASSUME NEW k, NEW u \in NewTo(k), NEW v \in NewTo(k)
  PROVE  u \o v \in NewTo(k)
<1> DEFINE w == u \o v
           n == Len(u)
<1>1. u \in Seq(Octet) /\ v \in Seq(Octet)
  BY DEF NewTo
<1>2. w \in Seq(Octet) /\ Len(w) = n + Len(v) /\ n \in Nat /\ Len(v) \in Nat
  BY <1>1, JoinedOctets
<1>3. Holds(w, 1, u) /\ Holds(w, n + 1, v)
  <2>1. Holds(w, 1, w)
    BY <1>2, HoldsAll
  <2>2. Holds(w, 1, u) /\ Holds(w, 1 + Len(u), v)
    BY <1>1, <1>2, <2>1, HoldsParts
  <2>3. 1 + Len(u) = n + 1
    BY <1>2
  <2> QED
    BY <2>2, <2>3
<1>4. PICK S \in SUBSET (1 .. (n + 1)) :
        1 \in S /\ \A i \in S : i <= n => NewFieldAt(k, u, i) /\ Skipped(u, i).at \in S
  BY DEF NewTo
<1>5. PICK T \in SUBSET (1 .. (Len(v) + 1)) :
        1 \in T /\ \A i \in T : i <= Len(v) => NewFieldAt(k, v, i) /\ Skipped(v, i).at \in T
  BY DEF NewTo
<1> DEFINE R == {i \in S : i <= n} \cup {n + i : i \in T}
<1> HIDE DEF n, w
<1>7. \A i \in S : i \in Nat \ {0} /\ i <= n + 1
  BY <1>2
<1>8. \A i \in T : i \in Nat \ {0} /\ i <= Len(v) + 1
  BY <1>2
<1>6. R \in SUBSET (1 .. (Len(w) + 1))
  <2>1. \A i \in S : i <= n => i \in 1 .. (Len(w) + 1)
    BY <1>2, <1>7
  <2>2. \A i \in T : n + i \in 1 .. (Len(w) + 1)
    BY <1>2, <1>8
  <2> QED
    BY <2>1, <2>2
<1>9. n + 1 \in R
  BY <1>5
<1>10. 1 \in R
  <2>1. CASE n = 0
    BY <1>9, <2>1
  <2>2. CASE n # 0
    BY <1>2, <1>4, <2>2
  <2> QED
    BY <2>1, <2>2
<1>11. ASSUME NEW i \in S, i <= n PROVE NewFieldAt(k, w, i) /\ Skipped(w, i).at \in R
  <2>1. NewFieldAt(k, u, i) /\ Skipped(u, i).at \in S /\ i \in Nat \ {0}
    BY <1>4, <1>7, <1>11
  <2>2. Holds(w, 0 + 1, u) /\ 0 \in Nat
    BY <1>3
  <2>3. NewFieldAt(k, w, 0 + i) /\ Skipped(w, 0 + i).at = 0 + Skipped(u, i).at
    BY <1>1, <1>2, <2>1, <2>2, NewFieldKept
  <2>4. 0 + i = i /\ 0 + Skipped(u, i).at = Skipped(u, i).at
    <3>1. \A j \in Nat : 0 + j = j
      OBVIOUS
    <3>2. Skipped(u, i).at \in Nat
      BY <1>7, <2>1
    <3> QED
      BY <2>1, <3>1, <3>2, Zenon
  <2>5. Skipped(u, i).at \in R
    <3>1. CASE Skipped(u, i).at <= n
      BY <2>1, <3>1
    <3>2. CASE ~(Skipped(u, i).at <= n)
      <4>1. Skipped(u, i).at = n + 1
        <5> DEFINE j == Skipped(u, i).at
        <5>1. j \in Nat /\ j <= n + 1 /\ ~(j <= n)
          BY <1>7, <2>1, <3>2
        <5> HIDE DEF j
        <5>2. j = n + 1
          BY <1>2, <5>1
        <5> QED
          BY <5>2 DEF j
      <4> QED
        BY <1>9, <4>1
    <3> QED
      BY <3>1, <3>2
  <2> QED
    BY <2>3, <2>4, <2>5
<1>12. ASSUME NEW i \in T, n + i <= Len(w) PROVE NewFieldAt(k, w, n + i) /\ Skipped(w, n + i).at \in R
  <2>1. i \in Nat \ {0} /\ i <= Len(v)
    BY <1>2, <1>8, <1>12
  <2>2. NewFieldAt(k, v, i) /\ Skipped(v, i).at \in T
    BY <1>5, <2>1
  <2>3. NewFieldAt(k, w, n + i) /\ Skipped(w, n + i).at = n + Skipped(v, i).at
    BY <1>1, <1>2, <1>3, <2>1, <2>2, NewFieldKept
  <2> QED
    BY <2>2, <2>3
<1>13. ASSUME NEW i \in R, i <= Len(w) PROVE NewFieldAt(k, w, i) /\ Skipped(w, i).at \in R
  <2>1. CASE i \in S /\ i <= n
    BY <1>11, <2>1
  <2>2. CASE \E j \in T : i = n + j
    <3>1. PICK j \in T : i = n + j
      BY <2>2
    <3>2. n + j <= Len(w)
      BY <1>13, <3>1
    <3> HIDE DEF R
    <3> QED
      BY <1>12, <3>1, <3>2
  <2> QED
    BY <2>1, <2>2
<1> HIDE DEF R
<1> QED
  BY <1>2, <1>6, <1>10, <1>13 DEF NewTo, w

LEMMA SkipsNew ==
  ASSUME NEW k \in Classes, NEW tag, tag \notin Tags(k), NEW b, NEW c, NEW a
  PROVE  FieldIn(k, b, c, tag, a) = SkipField(c, a, b)
<1>1. CASE k = "StreamInfo"
  <2>1. tag \notin {10, 18, 24, 34, 42, 48, 56, 64, 72}
    BY <1>1 DEF Tags, ByClass
  <2> QED
    BY <1>1, <2>1 DEF FieldIn, ByClass
<1>2. CASE k = "Camera"
  <2>1. tag \notin {10, 18, 26}
    BY <1>2 DEF Tags, ByClass
  <2> QED
    BY <1>2, <2>1 DEF FieldIn, ByClass
<1>3. CASE k = "CameraWatchdog"
  <2>1. tag # 8
    BY <1>3 DEF Tags, ByClass
  <2> QED
    BY <1>3, <2>1 DEF FieldIn, ByClass
<1>4. CASE k = "System_CameraInfo"
  <2>1. tag # 10
    BY <1>4 DEF Tags, ByClass
  <2> QED
    BY <1>4, <2>1 DEF FieldIn, ByClass
<1>5. CASE k = "System"
  <2>1. tag \notin {10, 18, 26}
    BY <1>5 DEF Tags, ByClass
  <2> QED
    BY <1>5, <2>1 DEF FieldIn, ByClass
<1> QED
  BY <1>1, <1>2, <1>3, <1>4, <1>5 DEF Classes

(* A message is a record, and has a place for what it does not know. *)
IsMessage(m) == m = [g \in DOMAIN m |-> m[g]] /\ "unknown" \in DOMAIN m

LEMMA UnknownSet ==
  ASSUME NEW m, IsMessage(m), NEW v, NEW w
  PROVE  /\ IsMessage(FieldSet(m, "unknown", v)) /\ FieldSet(m, "unknown", v).unknown = v
         /\ FieldSet(FieldSet(m, "unknown", v), "unknown", w) = FieldSet(m, "unknown", w)
  BY DEF IsMessage, FieldSet

LEMMA CutJoined ==
  ASSUME NEW u \in Seq(Octet), NEW p \in Nat, NEW e \in Nat, p <= e, e <= Len(u)
  PROVE  SubSeq(u, 1, p) \o SubSeq(u, p + 1, e) = SubSeq(u, 1, e)
<1> DEFINE s == SubSeq(u, 1, p)
           f == p + 1
           t == SubSeq(u, f, e)
           v == SubSeq(u, 1, e)
           w == s \o t
<1>0. Len(u) \in Nat /\ f \in Nat \ {0} /\ f <= e + 1 /\ p <= Len(u) /\ f = p + 1
  OBVIOUS
<1> HIDE DEF f
<1>1. s \in Seq(Octet) /\ Len(s) = p
  <2>1. s \in Seq(Octet) /\ Len(s) = IF 1 <= p THEN p - 1 + 1 ELSE 0
    BY <1>0, CutCells
  <2> HIDE DEF s
  <2> QED
    BY <2>1
<1>2. \A l \in 1 .. p : s[l] = u[l]
  <2> SUFFICES ASSUME NEW l \in 1 .. p PROVE s[l] = u[l]
    OBVIOUS
  <2>1. l \in 1 .. (p - 1 + 1) /\ 1 + l - 1 = l
    OBVIOUS
  <2>2. \A k \in 1 .. (p - 1 + 1) : s[k] = u[1 + k - 1]
    BY <1>0, CutCells
  <2>3. s[l] = u[1 + l - 1]
    BY <2>1, <2>2, Zenon
  <2> QED
    BY <2>1, <2>3
<1>3. v \in Seq(Octet) /\ Len(v) = e
  <2>1. v \in Seq(Octet) /\ Len(v) = IF 1 <= e THEN e - 1 + 1 ELSE 0
    BY <1>0, CutCells
  <2> HIDE DEF v
  <2> QED
    BY <2>1
<1>4. \A l \in 1 .. e : v[l] = u[l]
  <2> SUFFICES ASSUME NEW l \in 1 .. e PROVE v[l] = u[l]
    OBVIOUS
  <2>1. l \in 1 .. (e - 1 + 1) /\ 1 + l - 1 = l
    OBVIOUS
  <2>2. \A k \in 1 .. (e - 1 + 1) : v[k] = u[1 + k - 1]
    BY <1>0, CutCells
  <2>3. v[l] = u[1 + l - 1]
    BY <2>1, <2>2, Zenon
  <2> QED
    BY <2>1, <2>3
<1>5. t \in Seq(Octet) /\ Len(t) = e - p
  <2>1. t \in Seq(Octet) /\ Len(t) = IF f <= e THEN e - f + 1 ELSE 0
    BY <1>0, CutCells
  <2> HIDE DEF t
  <2> QED
    BY <1>0, <2>1
<1>6. \A l \in 1 .. (e - p) : t[l] = u[p + l]
  <2> SUFFICES ASSUME NEW l \in 1 .. (e - p) PROVE t[l] = u[p + l]
    OBVIOUS
  <2>1. l \in 1 .. (e - f + 1) /\ f + l - 1 = p + l
    BY <1>0
  <2>2. \A k \in 1 .. (e - f + 1) : t[k] = u[f + k - 1]
    BY <1>0, CutCells
  <2>3. t[l] = u[f + l - 1]
    BY <2>1, <2>2, Zenon
  <2> QED
    BY <2>1, <2>3
<1> HIDE DEF s, t, v
<1>7. /\ w \in Seq(Octet) /\ Len(w) = Len(s) + Len(t)
      /\ \A l \in 1 .. Len(s) : w[l] = s[l]
      /\ \A l \in 1 .. Len(t) : w[Len(s) + l] = t[l]
  BY <1>1, <1>5, JoinedOctets
<1> HIDE DEF w
<1>8. Len(w) = e
  BY <1>1, <1>5, <1>7
<1>9. ASSUME NEW l \in 1 .. e PROVE w[l] = v[l]
  <2>1. v[l] = u[l]
    BY <1>4
  <2>2. CASE l <= p
    <3>1. l \in 1 .. p /\ l \in 1 .. Len(s)
      BY <1>1, <2>2
    <3>2. w[l] = s[l]
      BY <1>7, <3>1, Zenon
    <3> QED
      BY <1>2, <2>1, <3>1, <3>2
  <2>3. CASE ~(l <= p)
    <3> DEFINE g == l - p
    <3>1. g \in 1 .. (e - p) /\ g \in 1 .. Len(t) /\ Len(s) + g = l /\ p + g = l
      BY <1>1, <1>5, <2>3
    <3> HIDE DEF g
    <3>2. w[Len(s) + g] = t[g]
      BY <1>7, <3>1, Zenon
    <3>3. t[g] = u[p + g]
      BY <1>6, <3>1, Zenon
    <3> QED
      BY <2>1, <3>1, <3>2, <3>3
  <2> QED
    BY <2>2, <2>3
<1>10. w = v
  BY <1>3, <1>7, <1>8, <1>9
<1> QED
  BY <1>10 DEF w, s, t, v, f

LEMMA NewFieldStep ==
  ASSUME NEW k \in Classes, NEW b \in Seq(Octet), NEW d \in Nat, NEW u \in Seq(Octet),
         Holds(b, d + 1, u), NEW i \in Nat \ {0}, NewFieldAt(k, u, i),
         NEW m0, NEW m, Reached(k, b, m0, m, d + i)
  PROVE  LET e == SkipEnd(u, i, VarintEnd(u, i) + 1)
         IN  Reached(k, b, m0, FieldSet(m, "unknown", m.unknown \o SubSeq(u, i, e)), d + (e + 1))
<1> DEFINE p == VarintEnd(u, i) + 1
           e == SkipEnd(u, i, p)
           j == d + i
           m2 == FieldSet(m, "unknown", m.unknown \o SubSeq(u, i, e))
<1>1. /\ VarintEnd(u, i) \in Nat /\ VarintEnd(u, i) >= i
      /\ VarintValue(u, i) \notin Tags(k) \cup {0} /\ e \in (i + 1) .. Len(u)
  BY SkippedIs
<1>2. /\ VarintEnd(b, j) = d + VarintEnd(u, i) /\ VarintValue(b, j) = VarintValue(u, i)
      /\ SkipEnd(b, j, d + p) = d + e /\ d + e <= Len(b)
  BY NewFieldShift
<1>3. VarintEnd(b, j) # 0 /\ VarintEnd(b, j) + 1 = d + p /\ d + e # 0 /\ e \in Nat
  BY <1>1, <1>2
<1>4. SubSeq(b, j, d + e) = SubSeq(u, i, e)
  <2>1. e \in i .. Len(u)
    BY <1>1
  <2> HIDE DEF e
  <2> QED
    BY <2>1, SubSeqSame
<1>5. d + (e + 1) \in (j + 2) .. (Len(b) + 1) /\ j <= Len(b) /\ (d + e) + 1 = d + (e + 1)
  <2>1. Len(b) \in Nat /\ Len(u) \in Nat
    OBVIOUS
  <2> HIDE DEF e
  <2> QED
    BY <1>1, <1>2, <1>3, <2>1
<1> HIDE DEF e, j, p
<1>6. SkipField(Going(m, d + p), j, b) = Going(m2, (d + e) + 1)
  <2> DEFINE q == d + p
  <2>1. SkipEnd(b, j, q) = d + e /\ d + e # 0 /\ d + e <= Len(b)
    BY <1>2, <1>3
  <2> HIDE DEF q, m2
  <2>2. SkipField(Going(m, q), j, b)
          = Going(FieldSet(m, "unknown", m.unknown \o SubSeq(b, j, SkipEnd(b, j, q))),
                  SkipEnd(b, j, q) + 1)
    BY <2>1, SkipIs
  <2>3. SkipField(Going(m, q), j, b)
          = Going(FieldSet(m, "unknown", m.unknown \o SubSeq(u, i, e)), (d + e) + 1)
    BY <1>4, <2>1, <2>2, Zenon
  <2> QED
    BY <2>3 DEF q, m2
<1>7. StepIn(k, b, Going(m, j)) = FieldIn(k, b, Going(m, d + p), VarintValue(u, i), j)
  <2>1. Going(m, j).m = m /\ Going(m, j).at = j
    BY GoingFields
  <2>2. ~(VarintEnd(b, j) = 0 \/ VarintValue(b, j) = 0)
    BY <1>1, <1>2, <1>3
  <2> QED
    BY <1>2, <1>3, <2>1, <2>2 DEF StepIn, Going
<1>8. FieldIn(k, b, Going(m, d + p), VarintValue(u, i), j) = SkipField(Going(m, d + p), j, b)
  <2>1. VarintValue(u, i) \notin Tags(k)
    BY <1>1
  <2> QED
    BY <2>1, SkipsNew
<1> HIDE DEF m2
<1>9. StepIn(k, b, Going(m, j)) = Going(m2, d + (e + 1))
  BY <1>5, <1>6, <1>7, <1>8
<1>10. Reached(k, b, m0, m, j)
  BY DEF j
<1> DEFINE next == d + (e + 1)
<1>11. next \in (j + 2) .. (Len(b) + 1) /\ StepIn(k, b, Going(m, j)) = Going(m2, next)
  BY <1>5, <1>9
<1> HIDE DEF next
<1>12. Reached(k, b, m0, m2, next)
  BY <1>5, <1>10, <1>11, LoopGoes
<1> QED
  BY <1>12 DEF m2, next, e, p

LEMMA NewFieldsRead ==
  ASSUME NEW k \in Classes, NEW b \in Seq(Octet), NEW d \in Nat, NEW u \in NewTo(k),
         Holds(b, d + 1, u), NEW m0, NEW m, IsMessage(m), m.unknown \in Seq(Octet),
         Reached(k, b, m0, m, d + 1)
  PROVE  Reached(k, b, m0, FieldSet(m, "unknown", m.unknown \o u), (d + 1) + Len(u))
<1> DEFINE n == Len(u)
           M(i) == FieldSet(m, "unknown", m.unknown \o SubSeq(u, 1, i - 1))
           There(i) == Reached(k, b, m0, M(i), d + i)
<1>1. u \in Seq(Octet) /\ n \in Nat
  BY DEF NewTo
<1>2. PICK S \in SUBSET (1 .. (n + 1)) :
        1 \in S /\ \A i \in S : i <= n => NewFieldAt(k, u, i) /\ Skipped(u, i).at \in S
  BY DEF NewTo
<1> HIDE DEF n
<1>3. ASSUME NEW i \in S, i <= n, There(i)
      PROVE  Skipped(u, i).at \in S /\ Skipped(u, i).at > i /\ There(Skipped(u, i).at)
  <2> DEFINE e == SkipEnd(u, i, VarintEnd(u, i) + 1)
  <2>1. i \in Nat \ {0} /\ NewFieldAt(k, u, i) /\ Skipped(u, i).at \in S
    BY <1>1, <1>2, <1>3
  <2>2. e \in (i + 1) .. Len(u) /\ Skipped(u, i).at = e + 1
    BY <1>1, <2>1, SkippedIs
  <2>3. Reached(k, b, m0, FieldSet(M(i), "unknown", M(i).unknown \o SubSeq(u, i, e)), d + (e + 1))
    <3> HIDE DEF M
    <3> QED
      BY <1>1, <1>3, <2>1, NewFieldStep
  <2> HIDE DEF e
  <2>4. M(i).unknown = m.unknown \o SubSeq(u, 1, i - 1)
    BY UnknownSet
  <2>5. (m.unknown \o SubSeq(u, 1, i - 1)) \o SubSeq(u, i, e) = m.unknown \o SubSeq(u, 1, e)
    <3>1. e \in i .. Len(u) /\ e \in Nat /\ e <= Len(u) /\ i - 1 \in Nat /\ i - 1 <= Len(u)
      BY <1>1, <2>1, <2>2 DEF n
    <3>2. SubSeq(u, 1, i - 1) \in Seq(Octet) /\ SubSeq(u, i, e) \in Seq(Octet)
      <4> DEFINE q == i - 1
      <4>1. q \in Nat /\ q <= Len(u)
        BY <3>1
      <4> HIDE DEF q
      <4>2. SubSeq(u, 1, q) \in Seq(Octet)
        BY <1>1, <4>1, CutCells
      <4>3. SubSeq(u, i, e) \in Seq(Octet)
        BY <1>1, <2>1, <3>1, CutCells
      <4> QED
        BY <4>2, <4>3 DEF q
    <3>3. SubSeq(u, 1, i - 1) \o SubSeq(u, i, e) = SubSeq(u, 1, e)
      <4> DEFINE q == i - 1
      <4>1. q \in Nat /\ q <= e /\ q + 1 = i
        BY <2>1, <3>1
      <4> HIDE DEF q
      <4>2. SubSeq(u, 1, q) \o SubSeq(u, q + 1, e) = SubSeq(u, 1, e)
        BY <1>1, <3>1, <4>1, CutJoined
      <4> QED
        BY <4>1, <4>2 DEF q
    <3> DEFINE s == SubSeq(u, 1, i - 1)
               t == SubSeq(u, i, e)
    <3> HIDE DEF s, t
    <3>4. (m.unknown \o s) \o t = m.unknown \o (s \o t)
      <4> DEFINE r == m.unknown
      <4>1. r \in Seq(Octet) /\ s \in Seq(Octet) /\ t \in Seq(Octet)
        BY <3>2 DEF s, t
      <4> HIDE DEF r
      <4>2. (r \o s) \o t = r \o (s \o t)
        BY <4>1, ConcatAssociative
      <4> QED
        BY <4>2 DEF r
    <3> QED
      BY <3>3, <3>4 DEF s, t
  <2>6. FieldSet(M(i), "unknown", M(i).unknown \o SubSeq(u, i, e)) = M(e + 1)
    <3>1. (e + 1) - 1 = e
      BY <2>2
    <3>2. FieldSet(M(i), "unknown", m.unknown \o SubSeq(u, 1, e))
            = FieldSet(m, "unknown", m.unknown \o SubSeq(u, 1, e))
      BY UnknownSet
    <3> QED
      BY <2>4, <2>5, <3>1, <3>2
  <2>7. Skipped(u, i).at > i
    BY <2>1, <2>2
  <2> QED
    BY <2>1, <2>2, <2>3, <2>6, <2>7
<1>4. There(1)
  <2>1. SubSeq(u, 1, 1 - 1) = << >>
    BY <1>1
  <2>2. m.unknown \o << >> = m.unknown
    OBVIOUS
  <2>3. FieldSet(m, "unknown", m.unknown) = m
    BY DEF IsMessage, FieldSet
  <2> QED
    BY <2>1, <2>2, <2>3
<1> HIDE DEF There
<1> DEFINE U == {l \in Nat : \A i \in S : (n + 1) - i = l /\ There(i) => There(n + 1)}
<1>5. ASSUME NEW l \in Nat, \A j \in 0 .. (l - 1) : j \in U PROVE l \in U
  <2> SUFFICES ASSUME NEW i \in S, (n + 1) - i = l, There(i) PROVE There(n + 1)
    OBVIOUS
  <2>1. i \in 1 .. (n + 1)
    BY <1>2
  <2>2. CASE i = n + 1
    BY <2>2
  <2>3. CASE i # n + 1
    <3> DEFINE j == Skipped(u, i).at
    <3>1. i <= n
      BY <1>1, <2>1, <2>3
    <3>2. j \in S /\ j > i /\ There(j)
      BY <1>3, <3>1
    <3>3. j \in 1 .. (n + 1)
      BY <1>2, <3>2
    <3> HIDE DEF j
    <3>4. (n + 1) - j \in 0 .. (l - 1)
      BY <1>1, <2>1, <3>2, <3>3
    <3>5. (n + 1) - j \in U
      BY <1>5, <3>4
    <3> QED
      BY <3>2, <3>5
  <2> QED
    BY <2>2, <2>3
<1>6. n \in U
  <2> HIDE DEF U
  <2>1. \A l \in Nat : l \in U
    BY <1>5, Induction
  <2> QED
    BY <1>1, <2>1
<1>7. There(n + 1)
  <2>1. (n + 1) - 1 = n
    BY <1>1
  <2> QED
    BY <1>2, <1>4, <1>6, <2>1
<1>8. SubSeq(u, 1, (n + 1) - 1) = u
  <2>1. (n + 1) - 1 = n
    BY <1>1
  <2>2. SubSeq(u, 1, n) = u
    BY <1>1 DEF n
  <2> QED
    BY <2>1, <2>2
<1>9. d + (n + 1) = (d + 1) + Len(u)
  BY <1>1 DEF n
<1> QED
  BY <1>7, <1>8, <1>9 DEF There

----------------------------------------------------------------------------
(* Loops over a list. *)
Steps(N, S, start, next) == N \in Nat /\ start \in S /\ next \in [1 .. N -> [S -> S]]

IsRun(f, N, S, start, next) ==
  f \in [0 .. N -> S] /\ f[0] = start /\ \A n \in 1 .. N : f[n] = next[n][f[n - 1]]

LEMMA Run ==
  ASSUME NEW N, NEW S, NEW start, NEW next, Steps(N, S, start, next)
  PROVE  \E f : IsRun(f, N, S, start, next)
<1> DEFINE D == 0 .. N
           first == [n \in D |-> start]
           step == [n \in D |-> IF n = 0 THEN [s \in S |-> s] ELSE next[n]]
           p == [n \in D |-> IF n = 0 THEN 0 ELSE n - 1]
<1>0. N \in Nat /\ start \in S /\ next \in [1 .. N -> [S -> S]]
  BY DEF Steps
<1>1. Recurses(D, S, {0}, first, step, p)
  <2>1. D \in SUBSET Nat /\ {0} \in SUBSET D /\ p \in [D -> Nat]
        /\ \A n \in D \ {0} : p[n] \in D /\ p[n] < n
    BY <1>0
  <2>2. first \in [D -> S]
    BY <1>0
  <2>3. step \in [D -> [S -> S]]
    <3>1. ASSUME NEW n \in D PROVE step[n] \in [S -> S]
      <4>1. CASE n = 0
        BY <1>0, <4>1
      <4>2. CASE n # 0
        <5>1. n \in 1 .. N
          BY <4>2
        <5> QED
          BY <1>0, <4>2, <5>1
      <4> QED
        BY <4>1, <4>2
    <3> QED
      BY <3>1
  <2> HIDE DEF D, first, step, p
  <2> QED
    BY <2>1, <2>2, <2>3 DEF Recurses
<1>2. PICK f \in [D -> S] : \A n \in D : f[n] = IF n \in {0} THEN first[n] ELSE step[n][f[p[n]]]
  <2> HIDE DEF D, first, step, p
  <2> QED
    BY <1>1, Recursion
<1>3. f[0] = start
  BY <1>0, <1>2
<1>4. ASSUME NEW n \in 1 .. N PROVE f[n] = next[n][f[n - 1]]
  <2>1. n \in D /\ n \notin {0} /\ p[n] = n - 1 /\ step[n] = next[n]
    BY <1>0
  <2> HIDE DEF D, first, step, p
  <2> QED
    BY <1>2, <2>1
<1> QED
  BY <1>2, <1>3, <1>4 DEF IsRun

IsJoin(g, parts) ==
  /\ g \in [0 .. Len(parts) -> Seq(Octet)] /\ g[0] = << >>
  /\ \A n \in 1 .. Len(parts) : g[n] = g[n - 1] \o parts[n]

LEMMA ConcatenatedIs ==
  ASSUME NEW parts, Len(parts) \in Nat, \A i \in 1 .. Len(parts) : parts[i] \in Seq(Octet)
  PROVE  \E g : IsJoin(g, parts) /\ Concatenated(parts) = g[Len(parts)]
<1> DEFINE N == Len(parts)
           S == Seq(Octet)
           next == [n \in 1 .. N |-> [s \in S |-> s \o parts[n]]]
           Rec(g) == [n \in 0 .. N |-> IF n = 0 THEN << >> ELSE g[n - 1] \o parts[n]]
           g == CHOOSE g : g = Rec(g)
<1>1. Concatenated(parts) = g[N]
  BY DEF Concatenated
<1>2. next \in [1 .. N -> [S -> S]]
  <2>1. ASSUME NEW n \in 1 .. N, NEW s \in S PROVE s \o parts[n] \in S
    BY ConcatProperties
  <2> HIDE DEF S
  <2> QED
    BY <2>1
<1>3. PICK f \in [0 .. N -> S] : f[0] = << >> /\ \A n \in 1 .. N : f[n] = next[n][f[n - 1]]
  <2> DEFINE start == << >>
  <2>1. start \in S /\ N \in Nat
    OBVIOUS
  <2> HIDE DEF S, next, N, start
  <2>2. Steps(N, S, start, next)
    BY <1>2, <2>1 DEF Steps
  <2>3. \E f : IsRun(f, N, S, start, next)
    BY <2>2, Run
  <2> QED
    BY <2>3 DEF IsRun, start
<1>4. ASSUME NEW n \in 1 .. N PROVE f[n] = f[n - 1] \o parts[n]
  <2>1. n - 1 \in 0 .. N
    OBVIOUS
  <2>2. f[n - 1] \in S
    BY <1>3, <2>1
  <2>3. next[n][f[n - 1]] = f[n - 1] \o parts[n]
    <3> HIDE DEF S
    <3> QED
      BY <2>2
  <2> HIDE DEF next
  <2> QED
    BY <1>3, <2>3
<1>5. f = Rec(f)
  <2> HIDE DEF next, S
  <2>1. ASSUME NEW n \in 0 .. N PROVE f[n] = IF n = 0 THEN << >> ELSE f[n - 1] \o parts[n]
    <3>1. n # 0 => n \in 1 .. N
      OBVIOUS
    <3> QED
      BY <1>3, <1>4, <3>1
  <2> QED
    BY <1>3, <2>1
<1>6. g = Rec(g)
  <2> HIDE DEF Rec
  <2> QED
    BY <1>5
<1> HIDE DEF g
<1>7. DOMAIN g = 0 .. N /\ g = [n \in 0 .. N |-> g[n]] /\ g[0] = << >>
  BY <1>6
<1>8. \A n \in 1 .. N : g[n] = g[n - 1] \o parts[n]
  <2> TAKE n \in 1 .. N
  <2>1. n \in 0 .. N /\ n # 0
    OBVIOUS
  <2> QED
    BY <1>6, <2>1
<1>9. \A n \in 0 .. N : g[n] \in S
  <2> DEFINE U == {n \in Nat : n \in 0 .. N => g[n] \in S}
  <2>1. ASSUME NEW n \in Nat, \A i \in 0 .. (n - 1) : i \in U PROVE n \in U
    <3> SUFFICES ASSUME n \in 0 .. N PROVE g[n] \in S
      OBVIOUS
    <3>0. << >> \in S
      OBVIOUS
    <3>1. CASE n = 0
      BY <1>7, <3>0, <3>1, Zenon
    <3>2. CASE n # 0
      <4>1. n - 1 \in 0 .. (n - 1) /\ n - 1 \in 0 .. N /\ n \in 1 .. N
        BY <3>2
      <4>2. g[n - 1] \in S /\ parts[n] \in S
        BY <2>1, <4>1
      <4>3. g[n - 1] \o parts[n] \in S
        BY <4>2, ConcatProperties
      <4> QED
        BY <1>8, <4>1, <4>3
    <3> QED
      BY <3>1, <3>2
  <2> HIDE DEF U
  <2>2. \A n \in Nat : n \in U
    BY <2>1, Induction
  <2> QED
    BY <2>2 DEF U
<1>10. IsJoin(g, parts)
  <2> HIDE DEF Rec
  <2> QED
    BY <1>7, <1>8, <1>9 DEF IsJoin
<1> QED
  BY <1>1, <1>10

LEMMA TotalIs ==
  ASSUME NEW sizes, Len(sizes) \in Nat, \A i \in 1 .. Len(sizes) : sizes[i] \in Nat
  PROVE  \E g \in [0 .. Len(sizes) -> Nat] :
           /\ g[0] = 0 /\ \A n \in 1 .. Len(sizes) : g[n] = g[n - 1] + sizes[n]
           /\ Total(sizes) = g[Len(sizes)]
<1> DEFINE N == Len(sizes)
           next == [n \in 1 .. N |-> [s \in Nat |-> s + sizes[n]]]
           Rec(g) == [n \in 0 .. N |-> IF n = 0 THEN 0 ELSE g[n - 1] + sizes[n]]
           g == CHOOSE g : g = Rec(g)
<1>1. Total(sizes) = g[N]
  BY DEF Total
<1>2. next \in [1 .. N -> [Nat -> Nat]]
  <2>1. ASSUME NEW n \in 1 .. N, NEW s \in Nat PROVE s + sizes[n] \in Nat
    OBVIOUS
  <2> QED
    BY <2>1
<1>3. PICK f \in [0 .. N -> Nat] : f[0] = 0 /\ \A n \in 1 .. N : f[n] = next[n][f[n - 1]]
  <2> DEFINE start == 0
  <2>1. start \in Nat /\ N \in Nat
    OBVIOUS
  <2> HIDE DEF next, N, start
  <2>2. Steps(N, Nat, start, next)
    BY <1>2, <2>1 DEF Steps
  <2>3. \E f : IsRun(f, N, Nat, start, next)
    BY <2>2, Run
  <2> QED
    BY <2>3 DEF IsRun, start
<1>4. ASSUME NEW n \in 1 .. N PROVE f[n] = f[n - 1] + sizes[n]
  <2>1. n - 1 \in 0 .. N
    OBVIOUS
  <2>2. f[n - 1] \in Nat
    BY <1>3, <2>1
  <2>3. next[n][f[n - 1]] = f[n - 1] + sizes[n]
    BY <2>2
  <2> HIDE DEF next
  <2> QED
    BY <1>3, <2>3
<1>5. f = Rec(f)
  <2> HIDE DEF next
  <2>1. ASSUME NEW n \in 0 .. N PROVE f[n] = IF n = 0 THEN 0 ELSE f[n - 1] + sizes[n]
    <3>1. n # 0 => n \in 1 .. N
      OBVIOUS
    <3> QED
      BY <1>3, <1>4, <3>1
  <2> QED
    BY <1>3, <2>1
<1>6. g = Rec(g)
  <2> HIDE DEF Rec
  <2> QED
    BY <1>5
<1> HIDE DEF g
<1>7. DOMAIN g = 0 .. N /\ g = [n \in 0 .. N |-> g[n]] /\ g[0] = 0
  BY <1>6
<1>8. \A n \in 1 .. N : g[n] = g[n - 1] + sizes[n]
  <2> TAKE n \in 1 .. N
  <2>1. n \in 0 .. N /\ n # 0
    OBVIOUS
  <2> QED
    BY <1>6, <2>1
<1>9. \A n \in 0 .. N : g[n] \in Nat
  <2> DEFINE U == {n \in Nat : n \in 0 .. N => g[n] \in Nat}
  <2>1. ASSUME NEW n \in Nat, \A i \in 0 .. (n - 1) : i \in U PROVE n \in U
    <3> SUFFICES ASSUME n \in 0 .. N PROVE g[n] \in Nat
      OBVIOUS
    <3>1. CASE n = 0
      BY <1>7, <3>1
    <3>2. CASE n # 0
      <4>1. n - 1 \in 0 .. (n - 1) /\ n - 1 \in 0 .. N /\ n \in 1 .. N
        BY <3>2
      <4>2. g[n - 1] \in Nat /\ sizes[n] \in Nat
        BY <2>1, <4>1
      <4>3. g[n] = g[n - 1] + sizes[n]
        BY <1>8, <4>1
      <4> QED
        BY <4>2, <4>3
    <3> QED
      BY <3>1, <3>2
  <2> HIDE DEF U
  <2>2. \A n \in Nat : n \in U
    BY <2>1, Induction
  <2> QED
    BY <2>2 DEF U
<1>10. g \in [0 .. N -> Nat]
  <2> HIDE DEF Rec
  <2> QED
    BY <1>7, <1>9
<1> QED
  BY <1>1, <1>7, <1>8, <1>10

(* The bytes of a list are as many as its elements count, with a tag each. *)
LEMMA TotalLength ==
  ASSUME NEW parts, Len(parts) \in Nat, \A i \in 1 .. Len(parts) : parts[i] \in Seq(Octet),
         NEW sizes, Len(sizes) = Len(parts),
         \A i \in 1 .. Len(parts) : sizes[i] \in Nat /\ Len(parts[i]) = 1 + sizes[i]
  PROVE  /\ Concatenated(parts) \in Seq(Octet) /\ Total(sizes) \in Nat
         /\ Len(Concatenated(parts)) = Len(parts) + Total(sizes)
<1> DEFINE N == Len(parts)
<1>1. PICK g : IsJoin(g, parts) /\ Concatenated(parts) = g[N]
  BY ConcatenatedIs
<1>2. PICK h \in [0 .. N -> Nat] :
        /\ h[0] = 0 /\ \A n \in 1 .. N : h[n] = h[n - 1] + sizes[n]
        /\ Total(sizes) = h[N]
  BY TotalIs
<1> DEFINE U == {n \in Nat : n \in 0 .. N => Len(g[n]) = n + h[n]}
<1>3. ASSUME NEW n \in Nat, \A i \in 0 .. (n - 1) : i \in U PROVE n \in U
  <2> SUFFICES ASSUME n \in 0 .. N PROVE Len(g[n]) = n + h[n]
    OBVIOUS
  <2>1. CASE n = 0
    <3>1. g[n] = << >> /\ h[n] = 0
      BY <1>1, <1>2, <2>1 DEF IsJoin
    <3> QED
      BY <2>1, <3>1
  <2>2. CASE n # 0
    <3>1. n - 1 \in 0 .. (n - 1) /\ n - 1 \in 0 .. N /\ n \in 1 .. N
      BY <2>2
    <3>2. Len(g[n - 1]) = (n - 1) + h[n - 1] /\ h[n - 1] \in Nat
      BY <1>2, <1>3, <3>1
    <3>3. g[n - 1] \in Seq(Octet) /\ parts[n] \in Seq(Octet) /\ g[n] = g[n - 1] \o parts[n]
      BY <1>1, <3>1 DEF IsJoin
    <3>4. Len(g[n]) = Len(g[n - 1]) + Len(parts[n])
      BY <3>3, ConcatProperties
    <3>5. Len(parts[n]) = 1 + sizes[n] /\ sizes[n] \in Nat /\ h[n] = h[n - 1] + sizes[n]
      BY <1>2, <3>1
    <3> DEFINE c == Len(g[n - 1])
               d == Len(parts[n])
               e == Len(g[n])
               f == h[n - 1]
               p == sizes[n]
               q == h[n]
    <3>6. /\ c = (n - 1) + f /\ f \in Nat /\ e = c + d /\ d = 1 + p /\ p \in Nat /\ q = f + p
      BY <3>2, <3>4, <3>5, Zenon
    <3> HIDE DEF c, d, e, f, p, q
    <3>7. e = n + q /\ q \in Nat
      BY <3>6
    <3> QED
      BY <3>7 DEF e, q
  <2> QED
    BY <2>1, <2>2
<1>4. \A n \in Nat : n \in U
  <2> HIDE DEF U
  <2> QED
    BY <1>3, Induction
<1>5. Len(g[N]) = N + h[N]
  BY <1>4
<1>6. g[N] \in Seq(Octet) /\ h[N] \in Nat
  BY <1>1, <1>2 DEF IsJoin
<1> QED
  BY <1>1, <1>2, <1>5, <1>6

(* In bytes that hold the whole list, the elements before one stand, and   *)
(* it after them.                                                          *)
LEMMA JoinHolds ==
  ASSUME NEW parts, Len(parts) \in Nat, \A i \in 1 .. Len(parts) : parts[i] \in Seq(Octet),
         NEW g, IsJoin(g, parts), NEW b \in Seq(Octet), NEW here,
         Holds(b, here, g[Len(parts)])
  PROVE  /\ \A n \in 0 .. Len(parts) : Holds(b, here, g[n])
         /\ \A n \in 1 .. Len(parts) : Holds(b, here + Len(g[n - 1]), parts[n])
<1> DEFINE N == Len(parts)
           U == {l \in Nat : l \in 0 .. N => Holds(b, here, g[N - l])}
<1>1. ASSUME NEW n \in 1 .. N, Holds(b, here, g[n])
      PROVE  Holds(b, here, g[n - 1]) /\ Holds(b, here + Len(g[n - 1]), parts[n])
  <2>1. n - 1 \in 0 .. N
    OBVIOUS
  <2>2. g[n - 1] \in Seq(Octet) /\ parts[n] \in Seq(Octet) /\ g[n] = g[n - 1] \o parts[n]
    BY <2>1 DEF IsJoin
  <2> QED
    BY <1>1, <2>2, HoldsParts
<1>2. ASSUME NEW l \in Nat, \A i \in 0 .. (l - 1) : i \in U PROVE l \in U
  <2> SUFFICES ASSUME l \in 0 .. N PROVE Holds(b, here, g[N - l])
    OBVIOUS
  <2>1. CASE l = 0
    <3>1. N - l = N
      BY <2>1
    <3> QED
      BY <3>1
  <2>2. CASE l # 0
    <3> DEFINE n == N - (l - 1)
    <3>1. l - 1 \in 0 .. (l - 1) /\ l - 1 \in 0 .. N /\ n \in 1 .. N /\ n - 1 = N - l
      BY <2>2
    <3>2. Holds(b, here, g[n])
      BY <1>2, <3>1
    <3> HIDE DEF n
    <3> QED
      BY <1>1, <3>1, <3>2
  <2> QED
    BY <2>1, <2>2
<1>3. \A l \in Nat : l \in U
  <2> HIDE DEF U
  <2> QED
    BY <1>2, Induction
<1>4. ASSUME NEW n \in 0 .. N PROVE Holds(b, here, g[n])
  <2> DEFINE l == N - n
  <2>1. l \in Nat /\ l \in 0 .. N /\ N - l = n
    OBVIOUS
  <2> HIDE DEF l
  <2>2. Holds(b, here, g[N - l])
    BY <1>3, <2>1
  <2> QED
    BY <2>1, <2>2
<1> QED
  BY <1>1, <1>4

----------------------------------------------------------------------------
(* The fields that are written, one after another. *)
IsRecord(m) == m = [g \in DOMAIN m |-> m[g]]

LEMMA FieldSetIs ==
  ASSUME NEW m, IsRecord(m), NEW f \in DOMAIN m, NEW v
  PROVE  /\ HasField(m, f)
         /\ IsRecord(FieldSet(m, f, v)) /\ DOMAIN FieldSet(m, f, v) = DOMAIN m
         /\ FieldSet(m, f, v)[f] = v
         /\ \A g \in DOMAIN m : g # f => FieldSet(m, f, v)[g] = m[g]
BY DEF IsRecord, HasField, FieldSet

LEMMA TextBytes ==
  ASSUME NEW number \in 1 .. 9, NEW s \in Seq(Octet), Len(s) < IntSpan
  PROVE  /\ Unless(s = << >>, WriteString(number, s)) \in Seq(Octet)
         /\ Len(Unless(s = << >>, WriteString(number, s))) = UnlessSize(s = << >>, 1 + StringSize(s))
         /\ UnlessSize(s = << >>, 1 + StringSize(s)) \in Nat
<1> DEFINE t == Tag(number, DelimitedType)
           v == Varint[Len(s)]
<1>1. CASE s = << >>
  BY <1>1 DEF Unless, UnlessSize
<1>2. CASE s # << >>
  <2>1. t \in Seq(Octet) /\ Len(t) = 1
    <3>1. number \in Nat /\ 2 \in Nat /\ 8 * number + 2 < 128 /\ 8 * number + 2 \in Octet
      BY DEF Octet
    <3>2. t = <<8 * number + 2>>
      BY <3>1, TagByte DEF DelimitedType
    <3> QED
      BY <3>1, <3>2
  <2>2. v \in Seq(Octet) /\ Len(v) = UInt32Size(Len(s)) /\ Len(v) \in Nat /\ Len(s) \in Nat
    <3>1. Len(s) \in 0 .. (IntSpan - 1)
      BY SpanFacts
    <3> QED
      BY <3>1, SizeOfVarint, VarintBytes
  <2> HIDE DEF t, v
  <2>3. t \o v \in Seq(Octet) /\ Len(t \o v) = Len(t) + Len(v)
    BY <2>1, <2>2, JoinedOctets
  <2>4. (t \o v) \o s \in Seq(Octet) /\ Len((t \o v) \o s) = Len(t \o v) + Len(s)
    BY <2>3, JoinedOctets
  <2>5. Unless(s = << >>, WriteString(number, s)) = (t \o v) \o s
    BY <1>2 DEF Unless, WriteString, t, v
  <2>6. UnlessSize(s = << >>, 1 + StringSize(s)) = 1 + (UInt32Size(Len(s)) + Len(s))
    BY <1>2 DEF UnlessSize, StringSize
  <2> DEFINE w == (t \o v) \o s
             size == 1 + (UInt32Size(Len(s)) + Len(s))
  <2>7. w \in Seq(Octet) /\ Len(w) = size /\ size \in Nat
    <3> DEFINE c == Len(t)
               d == Len(v)
               e == Len(s)
               tv == Len(t \o v)
    <3>1. c = 1 /\ d \in Nat /\ e \in Nat /\ tv = c + d /\ Len(w) = tv + e /\ size = 1 + (d + e)
      BY <2>1, <2>2, <2>3, <2>4, Zenon
    <3> HIDE DEF c, d, e, tv, size
    <3> QED
      BY <2>4, <3>1
  <2> HIDE DEF w, size
  <2> QED
    BY <2>5, <2>6, <2>7, Zenon DEF w, size
<1> QED
  BY <1>1, <1>2

LEMMA NumberBytes ==
  ASSUME NEW number \in 1 .. 9, NEW n \in 0 .. (IntSpan - 1)
  PROVE  /\ Unless(n = 0, WriteUInt32(number, n)) \in Seq(Octet)
         /\ Len(Unless(n = 0, WriteUInt32(number, n))) = UnlessSize(n = 0, 1 + UInt32Size(n))
         /\ UnlessSize(n = 0, 1 + UInt32Size(n)) \in Nat
<1> DEFINE t == Tag(number, VarintType)
           v == Varint[n]
<1>1. CASE n = 0
  BY <1>1 DEF Unless, UnlessSize
<1>2. CASE n # 0
  <2>1. t \in Seq(Octet) /\ Len(t) = 1
    <3>1. number \in Nat /\ 0 \in Nat /\ 8 * number + 0 < 128 /\ 8 * number + 0 \in Octet
      BY DEF Octet
    <3>2. t = <<8 * number + 0>>
      BY <3>1, TagByte DEF VarintType
    <3> QED
      BY <3>1, <3>2
  <2>2. v \in Seq(Octet) /\ Len(v) = UInt32Size(n) /\ Len(v) \in Nat
    <3>1. n \in Nat
      BY SpanFacts
    <3> QED
      BY <3>1, SizeOfVarint, VarintBytes
  <2> HIDE DEF t, v
  <2>3. t \o v \in Seq(Octet) /\ Len(t \o v) = Len(t) + Len(v)
    BY <2>1, <2>2, JoinedOctets
  <2>5. Unless(n = 0, WriteUInt32(number, n)) = t \o v
    BY <1>2 DEF Unless, WriteUInt32, t, v
  <2>6. UnlessSize(n = 0, 1 + UInt32Size(n)) = 1 + UInt32Size(n)
    BY <1>2 DEF UnlessSize
  <2> DEFINE w == t \o v
             size == 1 + UInt32Size(n)
  <2>7. w \in Seq(Octet) /\ Len(w) = size /\ size \in Nat
    <3> DEFINE c == Len(t)
               d == Len(v)
    <3>1. c = 1 /\ d \in Nat /\ Len(w) = c + d /\ size = 1 + d
      BY <2>1, <2>2, <2>3, Zenon
    <3> HIDE DEF c, d, size
    <3> QED
      BY <2>3, <3>1
  <2> HIDE DEF w, size
  <2> QED
    BY <2>5, <2>6, <2>7, Zenon DEF w, size
<1> QED
  BY <1>1, <1>2

LEMMA FlagBytes ==
  ASSUME NEW number \in 1 .. 9, NEW flag \in BOOLEAN
  PROVE  /\ Unless(~flag, WriteBool(number, flag)) \in Seq(Octet)
         /\ Len(Unless(~flag, WriteBool(number, flag))) = UnlessSize(~flag, 1 + 1)
         /\ UnlessSize(~flag, 1 + 1) \in Nat
<1>1. CASE ~flag
  BY <1>1 DEF Unless, UnlessSize
<1>2. CASE flag
  <2>1. number \in Nat /\ 0 \in Nat /\ 8 * number + 0 < 128 /\ 8 * number + 0 \in Octet /\ 1 \in Octet
    BY DEF Octet
  <2>2. Tag(number, VarintType) = <<8 * number + 0>>
    BY <2>1, TagByte DEF VarintType
  <2> DEFINE c == 8 * number + 0
  <2> HIDE DEF c
  <2>0. c \in Octet /\ 1 \in Octet
    BY <2>1 DEF c
  <2> DEFINE t == <<c>>
             v == <<1>>
             w == t \o v
  <2>3. t \in Seq(Octet) /\ v \in Seq(Octet) /\ Len(t) = 1 /\ Len(v) = 1
    BY <2>0
  <2>4. Unless(~flag, WriteBool(number, flag)) = w
    BY <1>2, <2>2 DEF Unless, WriteBool, c
  <2> HIDE DEF t, v
  <2>5. w \in Seq(Octet) /\ Len(w) = Len(t) + Len(v)
    BY <2>3, JoinedOctets
  <2>6. UnlessSize(~flag, 1 + 1) = 2
    BY <1>2 DEF UnlessSize
  <2> HIDE DEF w
  <2>7. Len(w) = 2 /\ 2 \in Nat
    BY <2>3, <2>5
  <2> QED
    BY <2>4, <2>5, <2>6, <2>7, Zenon
<1> QED
  BY <1>1, <1>2

(* One more piece after those before it. *)
Follows(k, b, full, m0, good, R, m, here, before) ==
  /\ b \in Seq(Octet) /\ full \in Seq(Octet) /\ Prefix(b, full)
  /\ before \in Seq(Octet)
  /\ Settled(k, b, m0, good, R, m, here + Len(before))
  /\ m \in R \/ Len(b) = Len(full)

LEMMA PieceNext ==
  ASSUME NEW k, NEW b, NEW full, NEW m0, NEW good \in BOOLEAN, NEW R, NEW m, NEW here \in Nat, NEW before,
         Follows(k, b, full, m0, good, R, m, here, before),
         NEW w, NEW m2, NEW fits \in BOOLEAN, Portion(k, w, m, m2, fits),
         Holds(full, here, before \o w)
  PROVE  Settled(k, b, m0, good /\ fits, R, m2, here + Len(before \o w))
<1>1. /\ b \in Seq(Octet) /\ full \in Seq(Octet) /\ Prefix(b, full)
      /\ before \in Seq(Octet) /\ Settled(k, b, m0, good, R, m, here + Len(before))
      /\ m \in R \/ Len(b) = Len(full)
  BY DEF Follows
<1>2. w \in Seq(Octet)
  BY PieceBytes
<1>3. Holds(full, here + Len(before), w)
  BY <1>1, <1>2, HoldsParts
<1> DEFINE place == here + Len(before)
<1> HIDE DEF place
<1>4. Settled(k, b, m0, good /\ fits, R, m2, place + Len(w))
  BY <1>1, <1>2, <1>3, SettledStep DEF place
<1>5. place + Len(w) = here + Len(before \o w)
  <2>1. Len(before \o w) = Len(before) + Len(w) /\ Len(before) \in Nat /\ Len(w) \in Nat
    BY <1>1, <1>2, JoinedOctets
  <2> QED
    BY <2>1 DEF place
<1> QED
  BY <1>4, <1>5

(* At last, in bytes that are all there, what the class does not know. *)
LEMMA UnknownNext ==
  ASSUME NEW k \in Classes, NEW b \in Seq(Octet), NEW m0, NEW good \in BOOLEAN, NEW R, NEW m,
         NEW here \in Nat \ {0}, NEW before \in Seq(Octet),
         Settled(k, b, m0, good, R, m, here + Len(before)),
         NEW u \in NewTo(k), IsRecord(m), "unknown" \in DOMAIN m, m.unknown \in Seq(Octet),
         Holds(b, here, before \o u)
  PROVE  Settled(k, b, m0, good, R, FieldSet(m, "unknown", m.unknown \o u),
                 here + Len(before \o u))
<1> DEFINE d == here + Len(before) - 1
           m2 == FieldSet(m, "unknown", m.unknown \o u)
           next == here + Len(before \o u)
<1>1. u \in Seq(Octet)
  BY DEF NewTo
<1>2. /\ Len(before \o u) = Len(before) + Len(u) /\ Len(before) \in Nat /\ Len(u) \in Nat
      /\ Holds(b, here + Len(before), u) /\ Len(b) \in Nat
  BY <1>1, JoinedOctets, HoldsParts
<1>3. d \in Nat /\ d + 1 = here + Len(before) /\ next = (d + 1) + Len(u) /\ next \in Nat \ {0}
  BY <1>2
<1>4. next - 1 <= Len(b) /\ (d + 1) - 1 <= Len(b)
  BY <1>1, <1>2, <1>3 DEF Holds
<1> HIDE DEF d, m2, next
<1>5. Settled(k, b, m0, good, R, m, d + 1) /\ Holds(b, d + 1, u)
  BY <1>2, <1>3
<1>6. IsMessage(m)
  BY DEF IsMessage, IsRecord
<1>7. CASE good
  <2>1. Reached(k, b, m0, m, d + 1)
    BY <1>4, <1>5, <1>7 DEF Settled
  <2>2. Reached(k, b, m0, m2, (d + 1) + Len(u))
    BY <1>3, <1>5, <1>6, <2>1, NewFieldsRead DEF m2
  <2>3. Settled(k, b, m0, good, R, m2, next)
    BY <1>3, <1>4, <1>7, <2>2 DEF Settled
  <2> QED
    BY <2>3 DEF m2, next
<1>8. CASE ~good
  <2>1. ~Loop(k, m0, b)[LastStep(b)].ok
    BY <1>4, <1>5, <1>8 DEF Settled
  <2>2. Settled(k, b, m0, good, R, m2, next)
    BY <1>3, <1>4, <1>8, <2>1 DEF Settled
  <2> QED
    BY <2>2 DEF m2, next
<1> QED
  BY <1>7, <1>8

(* The end of all the bytes. *)
LEMMA SettledEnd ==
  ASSUME NEW k, NEW b \in Seq(Octet), NEW m0, NEW good \in BOOLEAN, NEW R, NEW m,
         Settled(k, b, m0, good, R, m, Len(b) + 1)
  PROVE  /\ good => Loop(k, m0, b)[LastStep(b)] = Going(m, Len(b) + 1)
         /\ ~good => ~Loop(k, m0, b)[LastStep(b)].ok
<1>1. Len(b) \in Nat /\ (Len(b) + 1) - 1 <= Len(b)
  OBVIOUS
<1>2. good => Reached(k, b, m0, m, Len(b) + 1)
  BY <1>1 DEF Settled
<1>3. ~good => ~Loop(k, m0, b)[LastStep(b)].ok
  BY <1>1 DEF Settled
<1> QED
  BY <1>2, <1>3, LoopEnds

LEMMA SettledStart ==
  ASSUME NEW k, NEW b \in Seq(Octet), NEW m0, NEW R
  PROVE  Settled(k, b, m0, TRUE, R, m0, 1)
BY LoopStarts DEF Settled
=============================================================================
