--------------------------- MODULE DecoderProofs ----------------------------
(***************************************************************************)
(* Proofs about the decoder: the pictures it is given, and the timers it   *)
(* is paced by.                                                            *)
(*                                                                         *)
(* VideoPath and the decoder in it, for every length of picture, every     *)
(* room and every size a client may ask for: the decoder's two queues stay *)
(* in step, what is converted and sent stays inside its buffer, and the    *)
(* picture the decoder takes is the one that H264Sink collected.  The      *)
(* first part is about DecoderFrames alone.                                *)
(*                                                                         *)
(* TimerLockers: that every locker has a timer that ticks at its length,   *)
(* for any number of decoders and works, any rates and any number of slots *)
(* that is enough for the names: whichever lists go and come back          *)
(* meanwhile.                                                              *)
(***************************************************************************)
EXTENDS VideoPath, TimerLockers, Integers, FiniteSetTheorems, FunctionTheorems, TLAPS

Sources == [id : 1..MaxPictures, length : Lengths]

(* Where the pictures of s begin in the bytes of b. *)
Cut(s, b, o) ==
  /\ o \in [1..(Len(s) + 1) -> Nat]
  /\ o[1] = 0 /\ o[Len(s) + 1] = Len(b)
  /\ \A i \in 1..Len(s) : o[i + 1] = o[i] + s[i].length
  /\ \A i, j \in 1..(Len(s) + 1) : i <= j => o[i] <= o[j]
  /\ \A i \in 1..Len(s) : \A k \in (o[i] + 1)..o[i + 1] : b[k] = s[i].id

(* m_queue_stream is the pictures of m_queue_src, one after the other. *)
InStep == \E o : Cut(src, stream, o)

(* Until the buffer is looked at again, dst has the one that is there. *)
DstFresh ==
  thread \in {"decode", "alloc"} =>
    /\ dst.size = room /\ dst.data = (room > 0) /\ dst.current = dst.data
    /\ thread = "alloc" => original > 0

(* In a round without a change, dst has the frame info. *)
DstTrue ==
  steady /\ thread \in {"decode", "alloc", "callback"} => dst.info = info /\ ~Changing

(* A frame that is asked for, and has a buffer by GetCalcBufferSize. *)
Asked(i) ==
  /\ i.decode /\ i.format \in Known /\ i.width > 0 /\ i.height > 0
  /\ CalcBufferSize(i) >= LeastData /\ WholePairs(i)

(* A buffer that is large enough for what dst says was converted into. *)
Converted ==
  thread = "alloc" /\ steady /\ Asked(dst.info) /\ room >= CalcBufferSize(dst.info)
  => /\ image.id = item.id /\ image.length <= CalcBufferSize(dst.info)
     /\ image.format = dst.info.format
     /\ image.width = dst.info.width /\ image.height = dst.info.height
----------------------------------------------------------------------------
(* Sizes, and the two ways of counting the bytes of a picture.             *)
LEMMA TimesMonotone ==
  ASSUME NEW a \in Nat, NEW b \in Nat, NEW h \in Nat, a <= b
  PROVE  a * h <= b * h
  BY SMT

LEMMA ProductIsNat == ASSUME NEW a \in Nat, NEW b \in Nat PROVE a * b \in Nat
  BY SMT

LEMMA ProductPositive ==
  ASSUME NEW a \in Nat \ {0}, NEW b \in Nat \ {0} PROVE a * b > 0
  BY SMT

LEMMA WholeWords ==
  ASSUME NEW w \in Nat
  PROVE  /\ w * 3 \in Nat /\ ((w * 3 + 3) \div 4) * 4 \in Nat
         /\ w * 3 <= ((w * 3 + 3) \div 4) * 4
  BY SMT

LEMMA PairsOf ==
  ASSUME NEW w \in Nat
  PROVE  /\ Pairs(w) \in Nat
         /\ w % 2 = 0 => w = 2 * Pairs(w)
  BY SMT DEF Pairs

(* The places of yuv pictures whose edges are twice a and b. *)
LEMMA DoubleEdges ==
  ASSUME NEW a \in Nat, NEW b \in Nat, NEW h \in Nat
  PROVE  /\ ((2 * a) * h) * 2 = (a * 4) * h
         /\ ((2 * a) * (2 * b)) \div 2 = 2 * (a * b)
<1>1. ((2 * a) * h) * 2 = (a * 4) * h
  BY SMT
<1>2. a * b \in Nat
  BY ProductIsNat
<1>3. (2 * a) * (2 * b) = 4 * (a * b)
  BY SMT
<1> DEFINE n == a * b
<1> HIDE DEF n
<1>4. (4 * n) \div 2 = 2 * n
  BY <1>2 DEF n
<1> QED
  BY <1>1, <1>3, <1>4 DEF n

LEMMA InfoTypes == Requests \cup {NoInfo} \subseteq FrameInfos
<1>1. Requests \subseteq FrameInfos
  BY FramesAssumption
<1>2. NoInfo \in FrameInfos
  BY DEF FrameInfos, NoInfo
<1> QED
  BY <1>1, <1>2

LEMMA SizeTypes ==
  ASSUME NEW i \in FrameInfos
  PROVE  ImageBufferSize(i) \in Nat /\ CalcBufferSize(i) \in Nat
<1> DEFINE w == i.width
           h == i.height
           p == w * h
<1>1. w \in Nat /\ h \in Nat
  BY DEF FrameInfos
<1>2. /\ p \in Nat /\ p * 2 \in Nat /\ p \div 2 \in Nat /\ p + (p \div 2) \in Nat
  <2>1. p \in Nat
    BY <1>1, ProductIsNat
  <2> HIDE DEF p
  <2> QED
    BY <2>1
<1>3. (w * 3) * h \in Nat /\ (((w * 3 + 3) \div 4) * 4) * h \in Nat
  BY <1>1, WholeWords, ProductIsNat
<1>4. Pairs(w) \in Nat /\ Pairs(h) \in Nat
  BY <1>1, PairsOf
<1>5. (Pairs(w) * 4) * h \in Nat /\ p + 2 * (Pairs(w) * Pairs(h)) \in Nat
  <2>1. Pairs(w) * 4 \in Nat /\ Pairs(w) * Pairs(h) \in Nat
    BY <1>4, ProductIsNat
  <2>2. (Pairs(w) * 4) * h \in Nat
    BY <2>1, <1>1, ProductIsNat
  <2> DEFINE q == Pairs(w) * Pairs(h)
  <2> HIDE DEF p, q
  <2>3. p + 2 * q \in Nat
    BY <2>1, <1>2 DEF q
  <2> QED
    BY <2>2, <2>3 DEF q
<1>6. ImageBufferSize(i) \in Nat
  <2> HIDE DEF p
  <2>1. ImageBufferSize(i) \in {(w * 3) * h, (Pairs(w) * 4) * h, w * h + 2 * (Pairs(w) * Pairs(h)), 0}
    BY Zenon DEF ImageBufferSize
  <2> QED
    BY <2>1, <1>3, <1>5 DEF p
<1>7. CalcBufferSize(i) \in Nat
  <2>1. CalcBufferSize(i) \in
          {(((w * 3 + 3) \div 4) * 4) * h, (w * h) * 2, w * h + ((w * h) \div 2), 0}
    BY Zenon DEF CalcBufferSize
  <2> QED
    BY <2>1, <1>2, <1>3
<1> QED
  BY <1>6, <1>7

(* What FFmpeg writes has room, unless pixels are left without a pair. *)
LEMMA CalcCovers ==
  ASSUME NEW i \in FrameInfos, i.format \in Known, WholePairs(i)
  PROVE  ImageBufferSize(i) <= CalcBufferSize(i)
<1> DEFINE w == i.width
           h == i.height
           a == Pairs(w)
           b == Pairs(h)
<1>1. w \in Nat /\ h \in Nat /\ a \in Nat /\ b \in Nat
  BY PairsOf DEF FrameInfos
<1>2. CASE i.format = "rgb"
  <2>1. ImageBufferSize(i) = (w * 3) * h /\ CalcBufferSize(i) = (((w * 3 + 3) \div 4) * 4) * h
    BY <1>2 DEF ImageBufferSize, CalcBufferSize
  <2> HIDE DEF w, h
  <2> QED
    BY <2>1, <1>1, WholeWords, TimesMonotone
<1>3. CASE i.format = "yuy2"
  <2>1. ImageBufferSize(i) = (a * 4) * h /\ CalcBufferSize(i) = (w * h) * 2
    BY <1>3 DEF ImageBufferSize, CalcBufferSize
  <2>2. w = 2 * a
    BY <1>1, <1>3, PairsOf DEF WholePairs
  <2>3. CalcBufferSize(i) = (a * 4) * h
    <3> HIDE DEF w, h, a
    <3> QED
      BY <2>1, <2>2, <1>1, DoubleEdges
  <2>4. ImageBufferSize(i) \in Nat
    BY SizeTypes
  <2> QED
    BY <2>1, <2>3, <2>4
<1>4. CASE i.format = "yv12"
  <2>1. /\ ImageBufferSize(i) = w * h + 2 * (a * b)
        /\ CalcBufferSize(i) = w * h + ((w * h) \div 2)
    BY <1>4 DEF ImageBufferSize, CalcBufferSize
  <2>2. w = 2 * a /\ h = 2 * b
    BY <1>1, <1>4, PairsOf DEF WholePairs
  <2>3. (w * h) \div 2 = 2 * (a * b)
    <3> HIDE DEF w, h, a, b
    <3> QED
      BY <2>2, <1>1, DoubleEdges
  <2>4. ImageBufferSize(i) \in Nat
    BY SizeTypes
  <2> QED
    BY <2>1, <2>3, <2>4
<1> QED
  BY <1>2, <1>3, <1>4 DEF Known

(* A frame that has a size and a format needs a buffer. *)
LEMMA ImagePositive ==
  ASSUME NEW i \in FrameInfos, i.format \in Known, i.width > 0, i.height > 0
  PROVE  ImageBufferSize(i) > 0
<1> DEFINE w == i.width
           h == i.height
<1>1. w \in Nat \ {0} /\ h \in Nat \ {0}
  BY DEF FrameInfos
<1>2. Pairs(w) \in Nat \ {0} /\ Pairs(h) \in Nat \ {0}
  BY <1>1 DEF Pairs
<1>3. w * 3 \in Nat \ {0} /\ Pairs(w) * 4 \in Nat \ {0}
  <2> DEFINE a == Pairs(w)
  <2>1. w \in Nat \ {0} /\ a \in Nat \ {0}
    BY <1>1, <1>2
  <2> HIDE DEF w, a
  <2>2. w * 3 \in Nat \ {0} /\ a * 4 \in Nat \ {0}
    BY <2>1
  <2> QED
    BY <2>2 DEF a
<1>4. (w * 3) * h > 0 /\ (Pairs(w) * 4) * h > 0 /\ w * h > 0
  BY <1>1, <1>3, ProductPositive
<1>5. w * h \in Nat /\ Pairs(w) * Pairs(h) \in Nat
  BY <1>1, <1>2, ProductIsNat
<1>6. w * h + 2 * (Pairs(w) * Pairs(h)) > 0
  <2> DEFINE p == w * h
             q == Pairs(w) * Pairs(h)
  <2>1. p \in Nat /\ q \in Nat /\ p > 0
    BY <1>4, <1>5
  <2> HIDE DEF p, q
  <2>2. p + 2 * q > 0
    BY <2>1
  <2> QED
    BY <2>2 DEF p, q
<1>7. ImageBufferSize(i) \in {(w * 3) * h, (Pairs(w) * 4) * h, w * h + 2 * (Pairs(w) * Pairs(h))}
  BY DEF ImageBufferSize, Known
<1> QED
  BY <1>4, <1>6, <1>7
----------------------------------------------------------------------------
(* Sequences: a push, a pop, and a cut.                                    *)
LEMMA Pushed ==
  ASSUME NEW S, NEW q \in Seq(S), NEW e \in S
  PROVE  /\ Append(q, e) \in Seq(S) /\ Len(Append(q, e)) = Len(q) + 1
         /\ Append(q, e)[Len(q) + 1] = e
         /\ \A i \in 1..Len(q) : Append(q, e)[i] = q[i]
  OBVIOUS

LEMMA Popped ==
  ASSUME NEW S, NEW q \in Seq(S), q # << >>
  PROVE  /\ Tail(q) \in Seq(S) /\ Len(Tail(q)) = Len(q) - 1
         /\ Head(q) \in S /\ Head(q) = q[1] /\ Len(q) \in Nat \ {0}
         /\ \A i \in 1..(Len(q) - 1) : Tail(q)[i] = q[i + 1]
  OBVIOUS

LEMMA Joined ==
  ASSUME NEW S, NEW a \in Seq(S), NEW b \in Seq(S)
  PROVE  /\ a \o b \in Seq(S) /\ Len(a \o b) = Len(a) + Len(b)
         /\ \A k \in 1..Len(a) : (a \o b)[k] = a[k]
         /\ \A k \in 1..Len(b) : (a \o b)[Len(a) + k] = b[k]
  OBVIOUS

LEMMA Parted ==
  ASSUME NEW S, NEW b \in Seq(S), NEW n \in 0..Len(b)
  PROVE  /\ SubSeq(b, 1, n) \in Seq(S) /\ Len(SubSeq(b, 1, n)) = n
         /\ \A k \in 1..n : SubSeq(b, 1, n)[k] = b[k]
         /\ SubSeq(b, n + 1, Len(b)) \in Seq(S)
         /\ Len(SubSeq(b, n + 1, Len(b))) = Len(b) - n
         /\ \A k \in 1..(Len(b) - n) : SubSeq(b, n + 1, Len(b))[k] = b[n + k]
  OBVIOUS
----------------------------------------------------------------------------
(* Types.                                                                  *)
LEMMA InitType == FramesInit => FramesTypeOK
<1> SUFFICES ASSUME FramesInit PROVE FramesTypeOK
  OBVIOUS
<1>1. src \in Seq(Sources) /\ stream \in Seq(1..MaxPictures) /\ Len(stream) <= QueueRoom
      /\ bytes \in Seq(1..MaxPictures)
  BY FramesAssumption DEF FramesInit
<1>2. 0 \in 0..MaxPictures /\ 0 \in 0..MaxChanges /\ 0 \in Nat
  BY FramesAssumption
<1> QED
  BY <1>1, <1>2 DEF FramesInit, FramesTypeOK, Sources, NoItem, NoDst, NoImage

LEMMA PushType ==
  ASSUME FramesTypeOK, NEW n \in Lengths, QueuePush(n)
  PROVE  FramesTypeOK'
<1> USE FramesAssumption
<1>1. pictures + 1 \in 1..MaxPictures /\ n \in Nat \ {0}
  BY SMTT(20) DEF FramesTypeOK, QueuePush, QueuePushWhen
<1>2. PushBytes(n) \in Seq(1..MaxPictures) /\ Len(PushBytes(n)) = n
  BY <1>1 DEF PushBytes
<1>3. stream' \in Seq(1..MaxPictures) /\ Len(stream') <= QueueRoom
  <2>1. stream \o PushBytes(n) \in Seq(1..MaxPictures)
        /\ Len(stream \o PushBytes(n)) = Len(stream) + n
    <3>1. stream \in Seq(1..MaxPictures)
      BY DEF FramesTypeOK
    <3> QED
      BY <1>2, <3>1, Joined
  <2> QED
    BY <2>1 DEF FramesTypeOK, QueuePush, QueuePushWhen, HasRoom
<1>4. src' \in Seq(Sources)
  <2>1. [id |-> pictures + 1, length |-> n] \in Sources
    BY <1>1 DEF Sources
  <2>2. src \in Seq(Sources)
    BY DEF FramesTypeOK, Sources
  <2> QED
    BY <2>1, <2>2, Pushed DEF QueuePush, QueuePushWhen
<1> QED
  BY <1>1, <1>3, <1>4
  DEF FramesTypeOK, QueuePush, QueuePushWhen, Sources, infos, buffers

LEMMA PopType ==
  ASSUME FramesTypeOK, PopSource
  PROVE  FramesTypeOK'
<1> USE FramesAssumption
<1>1. Head(src) \in Sources /\ src' \in Seq(Sources)
  <2>1. src \in Seq(Sources)
    BY DEF FramesTypeOK, Sources
  <2> QED
    BY <2>1, Popped DEF PopSource
<1>2. Head(src).length \in Nat /\ Head(src) \in [id : 0..MaxPictures, length : Nat]
  <2>1. Lengths \subseteq Nat /\ 1..MaxPictures \subseteq 0..MaxPictures
    OBVIOUS
  <2> QED
    BY <1>1, <2>1 DEF Sources
<1>3. /\ stream' \in Seq(1..MaxPictures) /\ bytes' \in Seq(1..MaxPictures)
      /\ Len(stream') <= QueueRoom
  <2>1. CASE Head(src).length <= Len(stream)
    <3> DEFINE n == Head(src).length
               S == 1..MaxPictures
    <3>1. n \in 0..Len(stream) /\ stream \in Seq(S)
      BY <1>2, <2>1, SMTT(20) DEF FramesTypeOK
    <3>2. bytes' = SubSeq(stream, 1, n) /\ stream' = SubSeq(stream, n + 1, Len(stream))
      BY <2>1 DEF PopSource
    <3> HIDE DEF n, S
    <3>3. /\ stream' \in Seq(S) /\ bytes' \in Seq(S)
          /\ Len(stream') = Len(stream) - n
      <4>1. /\ SubSeq(stream, 1, n) \in Seq(S) /\ SubSeq(stream, n + 1, Len(stream)) \in Seq(S)
            /\ Len(SubSeq(stream, n + 1, Len(stream))) = Len(stream) - n
        BY <3>1, Parted
      <4> QED
        BY <3>2, <4>1
    <3>4. Len(stream) \in Nat /\ Len(stream) <= QueueRoom /\ QueueRoom \in Nat
      BY DEF FramesTypeOK
    <3> QED
      BY <1>2, <3>3, <3>4 DEF n, S
  <2>2. CASE ~(Head(src).length <= Len(stream))
    BY <2>2 DEF FramesTypeOK, PopSource
  <2> QED
    BY <2>1, <2>2
<1> QED
  BY <1>1, <1>2, <1>3 DEF FramesTypeOK, PopSource, Step, Sources, infos, buffers

LEMMA SeenTypes == FramesTypeOK => Seen \subseteq FrameInfos
<1> SUFFICES ASSUME FramesTypeOK, NEW i \in Seen PROVE i \in FrameInfos
  OBVIOUS
<1>1. info \in FrameInfos
  BY InfoTypes DEF FramesTypeOK
<1>2. CASE ~Changing
  BY <1>1, <1>2 DEF Seen
<1>3. CASE Changing
  <2>1. change[1] \in FrameInfos
    <3>1. PICK r \in Requests : change = <<r>>
      BY <1>3 DEF FramesTypeOK, Changing
    <3> QED
      BY <3>1, InfoTypes
  <2> QED
    BY <1>1, <1>3, <2>1 DEF Seen, FrameInfos
<1> QED
  BY <1>2, <1>3

LEMMA DecodeType ==
  ASSUME FramesTypeOK, Decode
  PROVE  FramesTypeOK'
<1>1. image' \in [id : 0..MaxPictures, format : Known \cup {"none"},
                width : Nat, height : Nat, length : Nat]
  <2>1. PICK i \in Seen : IF NotDecoded(i) THEN UNCHANGED image ELSE Convert(i)
    BY DEF Decode
  <2>2. i \in FrameInfos
    BY SeenTypes
  <2>3. i.width \in Nat /\ i.height \in Nat /\ ImageBufferSize(i) \in Nat
    BY <2>2, SizeTypes DEF FrameInfos
  <2>4. item.id \in 0..MaxPictures
    BY DEF FramesTypeOK
  <2> QED
    BY <2>1, <2>3, <2>4 DEF FramesTypeOK, Convert
<1> QED
  BY <1>1 DEF FramesTypeOK, Decode, Step, queues, infos

LEMMA AllocType ==
  ASSUME FramesTypeOK, SetAllocBuffer \/ KeepBuffer
  PROVE  FramesTypeOK'
<1>1. CalcBufferSize(info) \in Nat
  BY InfoTypes, SizeTypes DEF FramesTypeOK
<1>2. CASE SetAllocBuffer
  BY <1>1, <1>2 DEF FramesTypeOK, SetAllocBuffer, AllocThen, Step, queues, infos
<1>3. CASE KeepBuffer
  BY <1>1, <1>3 DEF FramesTypeOK, KeepBuffer, BufferSuffices, Step, queues, infos, buffers
<1> QED
  BY <1>2, <1>3

LEMMA TypeStep == FramesTypeOK /\ [FramesNext]_frameVars => FramesTypeOK'
<1> SUFFICES ASSUME FramesTypeOK, [FramesNext]_frameVars PROVE FramesTypeOK'
  OBVIOUS
<1> USE FramesAssumption
<1>1. ASSUME NEW n \in Lengths, QueuePush(n) PROVE FramesTypeOK'
  BY <1>1, PushType
<1>2. ASSUME NEW i \in Requests, SetFrameInfo(i) PROVE FramesTypeOK'
  <2>1. changes + 1 \in 0..MaxChanges
    BY <1>2, SMTT(20) DEF FramesTypeOK, SetFrameInfo
  <2> QED
    BY <1>2, <2>1 DEF FramesTypeOK, SetFrameInfo, queues, buffers
<1>3. CASE FrameInfoSet
  <2>1. PICK r \in Requests : change = <<r>>
    BY <1>3 DEF FramesTypeOK, FrameInfoSet, Changing
  <2>2. info' \in Requests /\ change' = << >>
    BY <1>3, <2>1 DEF FrameInfoSet
  <2> QED
    BY <1>3, <2>2 DEF FramesTypeOK, FrameInfoSet, queues, buffers
<1>4. CASE PopSource
  BY <1>4, PopType
<1>5. CASE SetDstBufferInfo
  BY <1>5 DEF FramesTypeOK, SetDstBufferInfo, Step, queues, infos, buffers
<1>6. CASE Decode
  BY <1>6, DecodeType
<1>7. CASE DecodeFails
  BY <1>7 DEF FramesTypeOK, DecodeFails, Step, queues, infos, buffers
<1>8. CASE SetAllocBuffer \/ KeepBuffer
  BY <1>8, AllocType
<1>9. CASE Callback
  BY <1>9 DEF FramesTypeOK, Callback, Step, queues, infos, buffers
<1>10. << >> \in Seq(Sources) /\ << >> \in Seq(1..MaxPictures) /\ Len(<< >>) <= QueueRoom
       /\ 0 \in 0..MaxPictures
  OBVIOUS
<1>11. CASE Restart
  BY <1>10, <1>11 DEF FramesTypeOK, Restart, Step, queues, infos, NoItem, NoDst, NoImage
<1>12. CASE Replace
  BY <1>10, <1>12 DEF FramesTypeOK, Replace, Step, Sources, NoItem, NoDst, NoImage
<1>13. CASE UNCHANGED frameVars
  BY <1>13 DEF FramesTypeOK, frameVars, queues, infos, buffers
<1> QED
  BY <1>1, <1>2, <1>3, <1>4, <1>5, <1>6, <1>7, <1>8, <1>9, <1>11, <1>12, <1>13 DEF FramesNext
----------------------------------------------------------------------------
(* The two queues.                                                         *)
LEMMA PushKeepsCut ==
  ASSUME NEW s \in Seq(Sources), NEW b \in Seq(1..MaxPictures), NEW o, Cut(s, b, o),
         NEW e \in Sources, NEW c \in Seq(1..MaxPictures),
         Len(c) = e.length, \A k \in 1..Len(c) : c[k] = e.id
  PROVE  \E p : Cut(Append(s, e), b \o c, p)
<1> DEFINE n == Len(s)
           p == [i \in 1..(n + 2) |-> IF i = n + 2 THEN Len(b) + Len(c) ELSE o[i]]
<1>1. n \in Nat /\ Len(b) \in Nat /\ Len(c) \in Nat /\ e.length = Len(c)
  OBVIOUS
<1>2. /\ Len(Append(s, e)) = n + 1 /\ Append(s, e)[n + 1] = e
      /\ \A i \in 1..n : Append(s, e)[i] = s[i]
  BY Pushed
<1>3. /\ Len(b \o c) = Len(b) + Len(c)
      /\ \A k \in 1..Len(b) : (b \o c)[k] = b[k]
      /\ \A k \in 1..Len(c) : (b \o c)[Len(b) + k] = c[k]
  BY Joined
<1>4. /\ o \in [1..(n + 1) -> Nat] /\ o[1] = 0 /\ o[n + 1] = Len(b)
      /\ \A i \in 1..n : o[i + 1] = o[i] + s[i].length
      /\ \A i, j \in 1..(n + 1) : i <= j => o[i] <= o[j]
      /\ \A i \in 1..n : \A k \in (o[i] + 1)..o[i + 1] : b[k] = s[i].id
  BY DEF Cut
<1>5. /\ p \in [1..(n + 2) -> Nat] /\ p[n + 2] = Len(b) + Len(c)
      /\ \A i \in 1..(n + 1) : p[i] = o[i]
  BY <1>1, <1>4
<1> HIDE DEF p
<1>6. \A i \in 1..(n + 1) : p[i + 1] = p[i] + Append(s, e)[i].length
  <2> SUFFICES ASSUME NEW i \in 1..(n + 1) PROVE p[i + 1] = p[i] + Append(s, e)[i].length
    OBVIOUS
  <2>1. CASE i = n + 1
    BY <2>1, <1>1, <1>2, <1>4, <1>5
  <2>2. CASE i # n + 1
    <3>1. i \in 1..n /\ i + 1 \in 1..(n + 1) /\ i \in 1..(n + 1)
      BY <2>2, <1>1
    <3> QED
      BY <3>1, <1>2, <1>4, <1>5
  <2> QED
    BY <2>1, <2>2
<1>7. \A i, j \in 1..(n + 2) : i <= j => p[i] <= p[j]
  <2> SUFFICES ASSUME NEW i \in 1..(n + 2), NEW j \in 1..(n + 2), i <= j PROVE p[i] <= p[j]
    OBVIOUS
  <2>1. CASE i = n + 2
    BY <2>1, <1>1, <1>5
  <2>2. CASE i # n + 2 /\ j = n + 2
    <3>1. i \in 1..(n + 1) /\ n + 1 \in 1..(n + 1) /\ i <= n + 1
      BY <2>2, <1>1
    <3>2. p[i] = o[i] /\ o[i] <= Len(b) /\ o[i] \in Nat
      BY <3>1, <1>4, <1>5
    <3> QED
      BY <2>2, <3>2, <1>1, <1>5
  <2>3. CASE j # n + 2
    <3>1. i \in 1..(n + 1) /\ j \in 1..(n + 1)
      BY <2>3, <1>1
    <3> QED
      BY <3>1, <1>4, <1>5
  <2> QED
    BY <2>1, <2>2, <2>3
<1>8. \A i \in 1..(n + 1) : \A k \in (p[i] + 1)..p[i + 1] : (b \o c)[k] = Append(s, e)[i].id
  <2> SUFFICES ASSUME NEW i \in 1..(n + 1), NEW k \in (p[i] + 1)..p[i + 1]
               PROVE (b \o c)[k] = Append(s, e)[i].id
    OBVIOUS
  <2>1. CASE i = n + 1
    <3>1. p[i] = Len(b) /\ p[i + 1] = Len(b) + Len(c) /\ Append(s, e)[i] = e
      <4>1. n + 1 \in 1..(n + 1) /\ (n + 1) + 1 = n + 2
        BY <1>1
      <4> QED
        BY <4>1, <2>1, <1>2, <1>4, <1>5
    <3>2. k - Len(b) \in 1..Len(c) /\ k = Len(b) + (k - Len(b))
      BY <3>1, <1>1
    <3> QED
      BY <3>1, <3>2, <1>3
  <2>2. CASE i # n + 1
    <3>1. i \in 1..n /\ i + 1 \in 1..(n + 1) /\ i \in 1..(n + 1) /\ n + 1 \in 1..(n + 1)
          /\ i + 1 <= n + 1
      BY <2>2, <1>1
    <3>2. /\ p[i] = o[i] /\ p[i + 1] = o[i + 1] /\ o[i] \in Nat /\ o[i + 1] \in Nat
          /\ o[i + 1] <= Len(b) /\ Append(s, e)[i] = s[i]
      BY <3>1, <1>2, <1>4, <1>5
    <3>3. k \in (o[i] + 1)..o[i + 1] /\ k \in 1..Len(b)
      BY <3>2, <1>1
    <3> QED
      BY <3>1, <3>2, <3>3, <1>3, <1>4
  <2> QED
    BY <2>1, <2>2
<1>9. 1 \in 1..(n + 1) /\ (n + 1) + 1 = n + 2
  BY <1>1
<1>10. Cut(Append(s, e), b \o c, p)
  BY <1>2, <1>3, <1>4, <1>5, <1>6, <1>7, <1>8, <1>9 DEF Cut
<1> QED
  BY <1>10

LEMMA PopKeepsCut ==
  ASSUME NEW s \in Seq(Sources), s # << >>, NEW b \in Seq(1..MaxPictures), NEW o, Cut(s, b, o)
  PROVE  /\ s[1].length \in 0..Len(b)
         /\ \A k \in 1..s[1].length : b[k] = s[1].id
         /\ \E p : Cut(Tail(s), SubSeq(b, s[1].length + 1, Len(b)), p)
<1> DEFINE n == Len(s)
           m == s[1].length
           p == [i \in 1..n |-> o[i + 1] - m]
<1>1. /\ n \in Nat \ {0} /\ Len(b) \in Nat /\ s[1] \in Sources
      /\ Len(Tail(s)) = n - 1 /\ \A i \in 1..(n - 1) : Tail(s)[i] = s[i + 1]
  BY Popped
<1>2. m \in Nat
  BY <1>1, FramesAssumption DEF Sources
<1>3. /\ o \in [1..(n + 1) -> Nat] /\ o[1] = 0 /\ o[n + 1] = Len(b)
      /\ \A i \in 1..n : o[i + 1] = o[i] + s[i].length
      /\ \A i, j \in 1..(n + 1) : i <= j => o[i] <= o[j]
      /\ \A i \in 1..n : \A k \in (o[i] + 1)..o[i + 1] : b[k] = s[i].id
  BY DEF Cut
<1>4. o[2] = m
  <2>1. 1 \in 1..n /\ 1 + 1 = 2
    BY <1>1
  <2> QED
    BY <2>1, <1>2, <1>3
<1>5. \A i \in 1..n : o[i + 1] \in Nat /\ m <= o[i + 1] /\ o[i + 1] <= Len(b)
  <2> SUFFICES ASSUME NEW i \in 1..n
               PROVE  o[i + 1] \in Nat /\ m <= o[i + 1] /\ o[i + 1] <= Len(b)
    OBVIOUS
  <2>1. /\ i + 1 \in 1..(n + 1) /\ 2 \in 1..(n + 1) /\ n + 1 \in 1..(n + 1)
        /\ 2 <= i + 1 /\ i + 1 <= n + 1
    BY <1>1
  <2> QED
    BY <2>1, <1>3, <1>4
<1>6. m \in 0..Len(b)
  BY <1>1, <1>2, <1>5
<1>7. \A k \in 1..m : b[k] = s[1].id
  <2>1. 1 \in 1..n /\ 1 + 1 = 2 /\ 0 + 1 = 1
    BY <1>1
  <2> QED
    BY <2>1, <1>3, <1>4
<1>8. /\ Len(SubSeq(b, m + 1, Len(b))) = Len(b) - m
      /\ \A k \in 1..(Len(b) - m) : SubSeq(b, m + 1, Len(b))[k] = b[m + k]
  <2> HIDE DEF m
  <2> QED
    BY <1>6, Parted
<1>9. p \in [1..n -> Nat] /\ \A i \in 1..n : p[i] = o[i + 1] - m
  BY <1>1, <1>2, <1>5
<1> HIDE DEF p
<1>10. p[1] = 0 /\ p[n] = Len(b) - m
  <2>1. 1 \in 1..n /\ n \in 1..n /\ 1 + 1 = 2
    BY <1>1
  <2> QED
    BY <2>1, <1>2, <1>3, <1>4, <1>9
<1>11. \A i \in 1..(n - 1) : p[i + 1] = p[i] + Tail(s)[i].length
  <2> SUFFICES ASSUME NEW i \in 1..(n - 1) PROVE p[i + 1] = p[i] + Tail(s)[i].length
    OBVIOUS
  <2>1. i \in 1..n /\ i + 1 \in 1..n
    BY <1>1
  <2>2. o[(i + 1) + 1] = o[i + 1] + s[i + 1].length /\ Tail(s)[i] = s[i + 1]
    BY <2>1, <1>1, <1>3
  <2>3. s[i + 1].length \in Nat
    <3>1. s[i + 1] \in Sources
      BY <2>1
    <3> QED
      BY <3>1, FramesAssumption DEF Sources
  <2>4. p[i] = o[i + 1] - m /\ p[i + 1] = o[(i + 1) + 1] - m /\ o[i + 1] \in Nat
    BY <2>1, <1>5, <1>9
  <2> QED
    BY <2>2, <2>3, <2>4, <1>2
<1>12. \A i, j \in 1..n : i <= j => p[i] <= p[j]
  <2> SUFFICES ASSUME NEW i \in 1..n, NEW j \in 1..n, i <= j PROVE p[i] <= p[j]
    OBVIOUS
  <2>1. i + 1 \in 1..(n + 1) /\ j + 1 \in 1..(n + 1) /\ i + 1 <= j + 1
    BY <1>1
  <2>2. o[i + 1] <= o[j + 1] /\ o[i + 1] \in Nat /\ o[j + 1] \in Nat
    BY <2>1, <1>3
  <2> QED
    BY <2>2, <1>2, <1>9, SMTT(20)
<1>13. \A i \in 1..(n - 1) : \A k \in (p[i] + 1)..p[i + 1] :
         SubSeq(b, m + 1, Len(b))[k] = Tail(s)[i].id
  <2> SUFFICES ASSUME NEW i \in 1..(n - 1), NEW k \in (p[i] + 1)..p[i + 1]
               PROVE  SubSeq(b, m + 1, Len(b))[k] = Tail(s)[i].id
    OBVIOUS
  <2>1. i \in 1..n /\ i + 1 \in 1..n
    BY <1>1
  <2>2. /\ p[i] = o[i + 1] - m /\ p[i + 1] = o[(i + 1) + 1] - m
        /\ o[i + 1] \in Nat /\ o[(i + 1) + 1] \in Nat
        /\ m <= o[i + 1] /\ o[(i + 1) + 1] <= Len(b)
    BY <2>1, <1>5, <1>9
  <2>3. k \in 1..(Len(b) - m) /\ m + k \in (o[i + 1] + 1)..o[(i + 1) + 1]
    <3> DEFINE q == o[i + 1]
               r == o[(i + 1) + 1]
               l == Len(b)
    <3>1. /\ k \in Int /\ (q - m) + 1 <= k /\ k <= r - m
          /\ {q, r, m, l} \subseteq Nat /\ m <= q /\ r <= l
      BY <2>2, <1>1, <1>2
    <3> HIDE DEF m, q, r, l
    <3>2. k \in 1..(l - m) /\ m + k \in (q + 1)..r
      BY <3>1
    <3> QED
      BY <3>2 DEF q, r, l
  <2>4. b[m + k] = s[i + 1].id
    <3>1. \A j \in (o[i + 1] + 1)..o[(i + 1) + 1] : b[j] = s[i + 1].id
      BY <2>1, <1>3
    <3> QED
      BY <2>3, <3>1
  <2> QED
    BY <2>3, <2>4, <1>1, <1>8
<1>14. (n - 1) + 1 = n
  BY <1>1
<1>15. Cut(Tail(s), SubSeq(b, m + 1, Len(b)), p)
  BY <1>1, <1>8, <1>9, <1>10, <1>11, <1>12, <1>13, <1>14 DEF Cut
<1> QED
  BY <1>6, <1>7, <1>15

LEMMA QueuesStep ==
  ASSUME FramesTypeOK, InStep, OnePicture, [FramesNext]_frameVars
  PROVE  InStep' /\ OnePicture'
<1>1. src \in Seq(Sources) /\ stream \in Seq(1..MaxPictures)
  BY DEF FramesTypeOK, Sources
<1>2. ASSUME NEW n \in Lengths, QueuePush(n) PROVE InStep' /\ OnePicture'
  <2>1. OnePicture'
    BY <1>2 DEF OnePicture, QueuePush, QueuePushWhen
  <2>2. CASE ~HasRoom(n)
    BY <1>2, <2>1, <2>2 DEF InStep, QueuePush, QueuePushWhen
  <2>3. CASE HasRoom(n)
    <3>1. pictures + 1 \in 1..MaxPictures /\ n \in Nat
      BY <1>2, FramesAssumption, SMTT(20) DEF FramesTypeOK, QueuePush, QueuePushWhen
    <3> DEFINE e == [id |-> pictures + 1, length |-> n]
    <3>2. e \in Sources /\ e.id = pictures + 1 /\ e.length = n
      BY <3>1 DEF Sources
    <3>3. /\ PushBytes(n) \in Seq(1..MaxPictures) /\ Len(PushBytes(n)) = n
          /\ \A k \in 1..n : PushBytes(n)[k] = pictures + 1
      BY <3>1 DEF PushBytes
    <3>4. src' = Append(src, e) /\ stream' = stream \o PushBytes(n)
      BY <1>2, <2>3 DEF QueuePush, QueuePushWhen
    <3>5. PICK o : Cut(src, stream, o)
      BY DEF InStep
    <3>6. \E p : Cut(Append(src, e), stream \o PushBytes(n), p)
      BY <1>1, <3>2, <3>3, <3>5, PushKeepsCut
    <3> QED
      BY <2>1, <3>4, <3>6 DEF InStep
  <2> QED
    BY <2>2, <2>3
<1>3. CASE PopSource
  <2>1. src # << >> /\ Head(src) = src[1]
    BY <1>1, <1>3, Popped DEF PopSource
  <2>2. PICK o : Cut(src, stream, o)
    BY DEF InStep
  <2>3. /\ src[1].length \in 0..Len(stream)
        /\ \A k \in 1..src[1].length : stream[k] = src[1].id
        /\ \E p : Cut(Tail(src), SubSeq(stream, src[1].length + 1, Len(stream)), p)
    BY <1>1, <2>1, <2>2, PopKeepsCut
  <2>4. src[1].length <= Len(stream)
    BY <2>3, <1>1
  <2>5. /\ item' = src[1] /\ src' = Tail(src)
        /\ bytes' = SubSeq(stream, 1, src[1].length)
        /\ stream' = SubSeq(stream, src[1].length + 1, Len(stream))
    BY <1>3, <2>1, <2>4 DEF PopSource
  <2>6. /\ Len(bytes') = src[1].length
        /\ \A k \in 1..src[1].length : bytes'[k] = stream[k]
        /\ bytes' \in Seq(1..MaxPictures)
    BY <1>1, <2>3, <2>5, Parted
  <2>7. DOMAIN (bytes') = 1..src[1].length
    BY <2>6
  <2>8. OnePicture'
    BY <2>3, <2>5, <2>6, <2>7 DEF OnePicture
  <2> QED
    BY <2>3, <2>5, <2>8 DEF InStep
<1>4. CASE Replace
  <2>1. src' = << >> /\ stream' = << >> /\ thread' = "pop"
    BY <1>4 DEF Replace, Step
  <2> DEFINE p == [i \in 1..1 |-> 0]
  <2>2. Cut(<< >>, << >>, p)
    <3>1. Len(<< >>) = 0 /\ 0 + 1 = 1 /\ 1..0 = {}
      OBVIOUS
    <3>2. p \in [1..1 -> Nat] /\ p[1] = 0
      OBVIOUS
    <3>3. \A i, j \in 1..1 : i = 1 /\ j = 1
      OBVIOUS
    <3> HIDE DEF p
    <3>4. \A i, j \in 1..1 : i <= j => p[i] <= p[j]
      BY <3>2, <3>3
    <3> QED
      BY <3>1, <3>2, <3>4 DEF Cut
  <2>3. InStep'
    BY <2>1, <2>2 DEF InStep
  <2> QED
    BY <2>1, <2>3 DEF OnePicture
<1>5. CASE UNCHANGED <<queues, item, bytes>> /\ (thread' = "pop" \/ thread # "pop")
  BY <1>5 DEF InStep, OnePicture, queues
<1>6. CASE Restart
  BY <1>6 DEF InStep, OnePicture, Restart, Step, queues
<1>7. ASSUME NEW i \in Requests, SetFrameInfo(i) PROVE InStep' /\ OnePicture'
  BY <1>7 DEF SetFrameInfo, InStep, OnePicture, queues
<1>8. CASE FrameInfoSet \/ UNCHANGED frameVars
  BY <1>8 DEF FrameInfoSet, InStep, OnePicture, queues, frameVars
<1>9. CASE SetDstBufferInfo \/ Decode \/ DecodeFails \/ SetAllocBuffer \/ KeepBuffer \/ Callback
  BY <1>5, <1>9 DEF SetDstBufferInfo, Decode, DecodeFails, SetAllocBuffer, AllocThen,
                    KeepBuffer, BufferSuffices, Callback, Step
<1> QED
  BY <1>2, <1>3, <1>4, <1>6, <1>7, <1>8, <1>9 DEF FramesNext
----------------------------------------------------------------------------
(* The buffer.                                                             *)
BufferInv == DstFresh /\ ConvertsInside /\ SendsInside
TruthInv == DstTrue /\ Converted /\ SendsWhatItSays

LEMMA BufferStep ==
  ASSUME FramesTypeOK, BufferInv, [FramesNext]_frameVars
  PROVE  BufferInv'
<1> USE DEF BufferInv
<1>1. ASSUME NEW n \in Lengths, QueuePush(n) PROVE BufferInv'
  BY <1>1 DEF QueuePush, QueuePushWhen, DstFresh, ConvertsInside, SendsInside, buffers
<1>2. ASSUME NEW i \in Requests, SetFrameInfo(i) PROVE BufferInv'
  BY <1>2 DEF SetFrameInfo, DstFresh, ConvertsInside, SendsInside, buffers
<1>3. CASE FrameInfoSet \/ PopSource \/ DecodeFails \/ Callback \/ UNCHANGED frameVars
  BY <1>3 DEF FrameInfoSet, PopSource, DecodeFails, Callback, Step, DstFresh,
              ConvertsInside, SendsInside, buffers, frameVars
<1>4. CASE SetDstBufferInfo
  BY <1>4 DEF SetDstBufferInfo, Step, DstFresh, ConvertsInside, SendsInside, buffers
<1>5. CASE Decode
  <2>1. DstFresh' /\ SendsInside'
    BY <1>5, FramesAssumption DEF Decode, Step, DstFresh, SendsInside
  <2>2. ConvertsInside'
    BY <1>5 DEF Decode, Step, NotDecoded, Fits, Convert, DstFresh, ConvertsInside
  <2> QED
    BY <2>1, <2>2
<1>6. CASE SetAllocBuffer
  <2>1. CalcBufferSize(info) \in Nat
    BY InfoTypes, SizeTypes DEF FramesTypeOK
  <2>2. room < CalcBufferSize(info) /\ room' = CalcBufferSize(info) /\ thread' = "pop"
        /\ image' = image
    BY <1>6 DEF SetAllocBuffer, AllocThen, Step
  <2>3. image.length \in Nat /\ room \in Nat
    BY DEF FramesTypeOK
  <2> QED
    BY <2>1, <2>2, <2>3 DEF DstFresh, ConvertsInside, SendsInside
<1>7. CASE KeepBuffer
  <2>1. CalcBufferSize(info) \in Nat /\ room \in Nat
    BY InfoTypes, SizeTypes DEF FramesTypeOK
  <2>2. /\ thread = "alloc" /\ thread' = "callback" /\ room' = room /\ image' = image
        /\ ~(Wanted /\ room < CalcBufferSize(info))
        /\ dst' = [dst EXCEPT !.size = IF Wanted THEN CalcBufferSize(info) ELSE dst.size]
    BY <1>7 DEF KeepBuffer, BufferSuffices, Step, buffers
  <2>3. /\ dst'.data = dst.data /\ dst'.current = dst.current
        /\ dst'.size = IF Wanted THEN CalcBufferSize(info) ELSE dst.size
    BY <2>2 DEF FramesTypeOK
  <2>4. dst.size = room /\ dst.current = dst.data
    BY <2>2 DEF DstFresh
  <2> QED
    BY <2>1, <2>2, <2>3, <2>4 DEF DstFresh, ConvertsInside, SendsInside
<1>8. CASE Restart \/ Replace
  BY <1>8 DEF Restart, Replace, Step, NoImage, DstFresh, ConvertsInside, SendsInside
<1> QED
  BY <1>1, <1>2, <1>3, <1>4, <1>5, <1>6, <1>7, <1>8 DEF FramesNext

LEMMA TruthStep ==
  ASSUME FramesTypeOK, BufferInv, TruthInv, [FramesNext]_frameVars
  PROVE  TruthInv'
<1> USE DEF TruthInv
<1>1. ASSUME NEW n \in Lengths, QueuePush(n) PROVE TruthInv'
  BY <1>1 DEF QueuePush, QueuePushWhen, DstTrue, Converted, SendsWhatItSays, Due, AsItSays, Changing,
              buffers, infos
<1>2. ASSUME NEW i \in Requests, SetFrameInfo(i) PROVE TruthInv'
  BY <1>2 DEF SetFrameInfo, DstTrue, Converted, SendsWhatItSays, Due, AsItSays
<1>3. CASE FrameInfoSet
  BY <1>3 DEF FrameInfoSet, DstTrue, Converted, SendsWhatItSays, Due, AsItSays, buffers
<1>4. CASE PopSource \/ DecodeFails \/ Callback \/ Restart \/ Replace \/ SetAllocBuffer
  BY <1>4 DEF PopSource, DecodeFails, Callback, Restart, Replace, SetAllocBuffer, AllocThen,
              Step, DstTrue, Converted, SendsWhatItSays, Due, AsItSays
<1>5. CASE UNCHANGED frameVars
  BY <1>5 DEF frameVars, DstTrue, Converted, SendsWhatItSays, Due, AsItSays, Changing, buffers, infos
<1>6. CASE SetDstBufferInfo
  BY <1>6 DEF SetDstBufferInfo, Step, DstTrue, Converted, SendsWhatItSays, Due, AsItSays, Changing, infos
<1>7. CASE Decode
  <2>1. DstTrue' /\ SendsWhatItSays'
    BY <1>7 DEF Decode, Step, DstTrue, SendsWhatItSays, Due, Changing, infos
  <2>2. SUFFICES ASSUME steady, Asked(dst.info), room >= CalcBufferSize(dst.info)
                 PROVE  /\ image'.id = item.id /\ image'.length <= CalcBufferSize(dst.info)
                        /\ image'.format = dst.info.format
                        /\ image'.width = dst.info.width /\ image'.height = dst.info.height
    BY <1>7, <2>1 DEF Decode, Converted
  <2>3. dst.info = info /\ ~Changing /\ dst.size = room /\ dst.data = (room > 0)
    BY <1>7, <2>2 DEF Decode, Step, DstTrue, BufferInv, DstFresh
  <2>4. dst.info \in FrameInfos /\ room \in Nat /\ LeastData \in Nat
    BY InfoTypes, FramesAssumption DEF FramesTypeOK
  <2>5. /\ ImageBufferSize(dst.info) > 0
        /\ CalcBufferSize(dst.info) \in Nat /\ ImageBufferSize(dst.info) \in Nat
        /\ ImageBufferSize(dst.info) <= CalcBufferSize(dst.info)
    BY <2>2, <2>4, ImagePositive, CalcCovers, SizeTypes DEF Asked
  <2>6. dst.data /\ dst.size >= LeastData /\ dst.size >= ImageBufferSize(dst.info)
    <3>1. room > 0 /\ room >= LeastData /\ room >= ImageBufferSize(dst.info)
      BY <2>2, <2>4, <2>5 DEF Asked
    <3> QED
      BY <2>3, <3>1
  <2>7. ~NotDecoded(info)
    BY <2>2, <2>3, <2>6 DEF NotDecoded, Fits, Asked, Known
  <2>8. Seen = {info}
    BY <2>3 DEF Seen
  <2>9. Convert(dst.info)
    BY <1>7, <2>3, <2>7, <2>8 DEF Decode
  <2> QED
    BY <2>5, <2>9 DEF Convert
<1>8. CASE KeepBuffer
  <2>1. /\ thread = "alloc" /\ thread' = "callback"
        /\ ~(Wanted /\ room < CalcBufferSize(info))
        /\ dst' = [dst EXCEPT !.size = IF Wanted THEN CalcBufferSize(info) ELSE dst.size]
        /\ UNCHANGED <<info, change, original, item, image, room, steady>>
    BY <1>8 DEF KeepBuffer, BufferSuffices, Step, buffers, infos
  <2>2. /\ dst'.data = dst.data /\ dst'.info = dst.info
        /\ dst'.size = IF Wanted THEN CalcBufferSize(info) ELSE dst.size
    BY <2>1 DEF FramesTypeOK
  <2>3. DstTrue' /\ Converted'
    BY <2>1, <2>2 DEF DstTrue, Converted, Changing
  <2>4. SUFFICES ASSUME steady, Asked(dst.info) PROVE AsItSays'
    BY <2>1, <2>2, <2>3 DEF SendsWhatItSays, Due, Asked
  <2>5. dst.info = info /\ dst.size = room /\ dst.data = (room > 0) /\ original > 0
    BY <2>1, <2>4 DEF DstTrue, BufferInv, DstFresh
  <2>6. dst.info \in FrameInfos /\ room \in Nat
    BY InfoTypes DEF FramesTypeOK
  <2>7. /\ ImageBufferSize(dst.info) > 0
        /\ CalcBufferSize(dst.info) \in Nat /\ ImageBufferSize(dst.info) \in Nat
        /\ ImageBufferSize(dst.info) <= CalcBufferSize(dst.info)
    BY <2>4, <2>6, ImagePositive, CalcCovers, SizeTypes DEF Asked
  <2>8. Wanted
    BY <2>4, <2>5 DEF Wanted, Asked, Known
  <2>9. room >= CalcBufferSize(dst.info) /\ dst'.size = CalcBufferSize(dst.info)
    BY <2>1, <2>2, <2>5, <2>6, <2>7, <2>8
  <2>10. dst.data
    <3>1. room > 0
      BY <2>6, <2>7, <2>9
    <3> QED
      BY <2>5, <3>1
  <2>11. /\ image.id = item.id /\ image.length <= CalcBufferSize(dst.info)
         /\ image.format = dst.info.format
         /\ image.width = dst.info.width /\ image.height = dst.info.height
    BY <2>1, <2>4, <2>9 DEF Converted
  <2> QED
    BY <2>1, <2>2, <2>9, <2>10, <2>11 DEF AsItSays
<1> QED
  BY <1>1, <1>2, <1>3, <1>4, <1>5, <1>6, <1>7, <1>8 DEF FramesNext
----------------------------------------------------------------------------
LEMMA InitInv == FramesInit => FramesTypeOK /\ InStep /\ OnePicture /\ BufferInv /\ TruthInv
<1> SUFFICES ASSUME FramesInit PROVE FramesTypeOK /\ InStep /\ OnePicture /\ BufferInv /\ TruthInv
  OBVIOUS
<1>1. FramesTypeOK
  BY InitType
<1> DEFINE p == [i \in 1..1 |-> 0]
<1>2. Cut(<< >>, << >>, p)
  <2>1. Len(<< >>) = 0 /\ 0 + 1 = 1 /\ 1..0 = {}
    OBVIOUS
  <2>2. p \in [1..1 -> Nat] /\ p[1] = 0
    OBVIOUS
  <2>3. \A i, j \in 1..1 : i = 1 /\ j = 1
    OBVIOUS
  <2> HIDE DEF p
  <2>4. \A i, j \in 1..1 : i <= j => p[i] <= p[j]
    BY <2>2, <2>3
  <2> QED
    BY <2>1, <2>2, <2>4 DEF Cut
<1>3. InStep
  BY <1>2 DEF FramesInit, InStep
<1>4. OnePicture /\ BufferInv /\ TruthInv
  BY DEF FramesInit, NoImage, OnePicture, BufferInv, TruthInv, DstFresh, ConvertsInside,
         SendsInside, DstTrue, Converted, SendsWhatItSays, Due
<1> QED
  BY <1>1, <1>3, <1>4

LEMMA FramesInv == FramesSpec => [](FramesTypeOK /\ InStep /\ OnePicture /\ BufferInv /\ TruthInv)
<1>1. FramesTypeOK /\ InStep /\ OnePicture /\ BufferInv /\ TruthInv /\ [FramesNext]_frameVars
        => (FramesTypeOK /\ InStep /\ OnePicture /\ BufferInv /\ TruthInv)'
  BY TypeStep, QueuesStep, BufferStep, TruthStep
<1> QED
  BY <1>1, InitInv, PTL DEF FramesSpec

(* Every variable of the decoder keeps its range, for any lengths of       *)
(* pictures, any room of the queue and any sizes asked for.                *)
THEOREM FramesTypeCorrect == FramesSpec => []FramesTypeOK
  BY FramesInv, PTL

(* What ThreadLoop takes from the two queues is one whole picture, and its *)
(* own, whatever QueuePush lost for want of room, across restarts.         *)
THEOREM FramesOnePicture == FramesSpec => []OnePicture
  BY FramesInv, PTL

(* Decode converts inside arr_buffer_dst although it reads the frame info  *)
(* without the mutex, for any sizes that a request may change it to, and   *)
(* SendFrame is given the buffer that is there, and a size within it.      *)
THEOREM FramesStaysInside == FramesSpec => []StaysInside
<1>1. BufferInv => StaysInside
  BY DEF BufferInv, StaysInside
<1> QED
  BY <1>1, FramesInv, PTL

(* A frame whose info did not change in the round is sent whole, with the  *)
(* format, the size and the picture its header says, for any requests, if  *)
(* its edges are even where its format has pixels in pairs.                *)
THEOREM FramesSendsWhatItSays == FramesSpec => []SendsWhatItSays
<1>1. TruthInv => SendsWhatItSays
  BY DEF TruthInv
<1> QED
  BY <1>1, FramesInv, PTL
----------------------------------------------------------------------------
(* A set of natural numbers has a least one, and so they can be counted    *)
(* up: a set that has a number whenever it has the ones before it has all. *)
LEMMA Least ==
  ASSUME NEW S \in SUBSET Nat, S # {}
  PROVE  \E i \in S : \A j \in S : i <= j
<1> DEFINE Below(m) == {k \in S : k <= m}
           T == {Below(m) : m \in S}
<1>1. T \subseteq FiniteSubsetsOf(S) /\ T # {}
  <2>1. ASSUME NEW m \in S PROVE IsFiniteSet(Below(m)) /\ Below(m) \subseteq S
    <3>1. m \in Nat /\ Below(m) \in SUBSET Nat /\ \A s \in Below(m) : s <= m
      OBVIOUS
    <3>2. IsFiniteSet(Below(m))
      BY <3>1, FS_BoundedSetOfNaturals
    <3> QED
      BY <3>2
  <2>2. \A U \in T : \E m \in S : U = Below(m)
    OBVIOUS
  <2>3. T # {}
    OBVIOUS
  <2> HIDE DEF T, Below
  <2> QED
    BY <2>1, <2>2, <2>3 DEF FiniteSubsetsOf
<1>2. PICK B \in T : \A C \in T : ~(<<C, B>> \in StrictSubsetOrdering(S))
  BY <1>1, FS_StrictSubsetOrderingWellFounded, WFMin
<1>3. PICK m \in S : B = Below(m)
  OBVIOUS
<1>4. ASSUME NEW j \in S PROVE m <= j
  <2>0. \A k \in S : k \in Nat
    OBVIOUS
  <2>1. SUFFICES ASSUME j < m PROVE FALSE
    BY <2>0
  <2>2. Below(j) \subseteq Below(m) /\ m \in Below(m) /\ m \notin Below(j)
    <3>1. m \in Nat /\ j \in Nat /\ m <= m /\ ~(m <= j)
      BY <2>0, <2>1
    <3>2. \A k \in S : k <= j => k <= m
      BY <2>0, <2>1, <3>1
    <3> QED
      BY <3>1, <3>2, Zenon
  <2>3. <<Below(j), Below(m)>> \in (SUBSET S) \X (SUBSET S)
    OBVIOUS
  <2>4. <<Below(j), Below(m)>> \in StrictSubsetOrdering(S)
    <3> HIDE DEF Below
    <3> QED
      BY <2>2, <2>3 DEF StrictSubsetOrdering
  <2> QED
    BY <1>2, <1>3, <2>4
<1> QED
  BY <1>4

LEMMA Induction ==
  ASSUME NEW S,
         \A n \in Nat : (\A k \in 0 .. (n - 1) : k \in S) => n \in S
  PROVE  \A n \in Nat : n \in S
<1> SUFFICES ASSUME Nat \ S # {} PROVE FALSE
  OBVIOUS
<1>1. PICK n \in Nat \ S : \A k \in Nat \ S : n <= k
  BY Least
<1>2. \A k \in 0 .. (n - 1) : k \in S
  <2> SUFFICES ASSUME NEW k \in 0 .. (n - 1), k \notin S PROVE FALSE
    OBVIOUS
  <2>1. k \in Nat \ S /\ k < n
    OBVIOUS
  <2> QED
    BY <1>1, <2>1
<1> QED
  BY <1>1, <1>2

LEMMA MaxIn ==
  ASSUME NEW n \in Nat, NEW s \in SUBSET (1 .. n), s # {}
  PROVE  Max(s) \in s
<1> DEFINE B == {m \in Nat : \A y \in s : y <= m}
<1>0. \A y \in s : y \in Nat /\ y >= 1
  OBVIOUS
<1>1. n \in B
  OBVIOUS
<1>2. PICK m \in B : \A k \in B : m <= k
  <2>1. B \in SUBSET Nat /\ B # {}
    BY <1>1
  <2> HIDE DEF B
  <2> QED
    BY <2>1, Least
<1>3. m \in s
  <2> SUFFICES ASSUME m \notin s PROVE FALSE
    OBVIOUS
  <2>1. m \in Nat /\ \A y \in s : y <= m - 1
    BY <1>0
  <2>2. m # 0
    <3>1. PICK y \in s : TRUE
      OBVIOUS
    <3>2. y \in Nat /\ y >= 1 /\ y <= m - 1
      BY <1>0, <2>1
    <3> QED
      BY <3>2
  <2>3. m - 1 \in B /\ ~(m <= m - 1)
    BY <2>1, <2>2
  <2> QED
    BY <1>2, <2>3
<1>4. \A y \in s : m >= y
  BY <1>0
<1> QED
  BY <1>3, <1>4 DEF Max
----------------------------------------------------------------------------
(* The folds of H264Sink: each is a function on sets of places, of which   *)
(* the sets 1..k are of interest.                                          *)
FoldOf(g, base, next, k) ==
  \A s \in SUBSET (1 .. k) :
    g[s] = IF s = {} THEN base ELSE next[Max(s)][g[s \ {Max(s)}]]

LEMMA FoldExists ==
  ASSUME NEW S, NEW base \in S, NEW n \in Nat, NEW next \in [1 .. n -> [S -> S]]
  PROVE  \E g \in [SUBSET (1 .. n) -> S] : FoldOf(g, base, next, n)
<1> USE DEF FoldOf
<1> DEFINE Ok(g, k) == FoldOf(g, base, next, k)
           U == {k \in Nat : k <= n => \E g \in [SUBSET (1 .. k) -> S] : Ok(g, k)}
<1>1. ASSUME NEW k \in Nat, \A j \in 0 .. (k - 1) : j \in U PROVE k \in U
  <2> SUFFICES ASSUME k <= n PROVE \E g \in [SUBSET (1 .. k) -> S] : Ok(g, k)
    OBVIOUS
  <2>1. CASE k = 0
    <3> DEFINE g == [s \in SUBSET (1 .. k) |-> base]
    <3>1. \A s \in SUBSET (1 .. k) : s = {}
      BY <2>1
    <3>2. Ok(g, k)
      BY <3>1
    <3> QED
      BY <3>2
  <2>2. CASE k # 0
    <3>1. k - 1 \in 0 .. (k - 1) /\ k - 1 \in Nat /\ k - 1 <= n /\ k \in 1 .. n
      BY <2>2
    <3>2. PICK f \in [SUBSET (1 .. (k - 1)) -> S] : Ok(f, k - 1)
      BY <1>1, <3>1
    <3> DEFINE g == [s \in SUBSET (1 .. k) |-> IF k \in s THEN next[k][f[s \ {k}]] ELSE f[s]]
    <3>3. ASSUME NEW s \in SUBSET (1 .. k)
          PROVE  s \ {k} \in SUBSET (1 .. (k - 1))
                 /\ (k \notin s => s \in SUBSET (1 .. (k - 1)))
      BY <2>2
    <3>4. next[k] \in [S -> S]
      BY <3>1
    <3>5. g \in [SUBSET (1 .. k) -> S]
      BY <3>3, <3>4
    <3>6. ASSUME NEW s \in SUBSET (1 .. k)
          PROVE  g[s] = IF s = {} THEN base ELSE next[Max(s)][g[s \ {Max(s)}]]
      <4>1. CASE k \in s
        <5>1. Max(s) = k
          <6>1. \A y \in s : y \in Nat /\ k >= y
            OBVIOUS
          <6>2. \A x \in s : (\A y \in s : x >= y) => x = k
            BY <4>1, <6>1
          <6> QED
            BY <4>1, <6>1, <6>2 DEF Max
        <5>2. g[s] = next[k][f[s \ {k}]] /\ s # {}
          BY <4>1
        <5>3. g[s \ {k}] = f[s \ {k}]
          OBVIOUS
        <5> HIDE DEF g
        <5> QED
          BY <5>1, <5>2, <5>3
      <4>2. CASE k \notin s
        <5>1. s \in SUBSET (1 .. (k - 1)) /\ g[s] = f[s]
          BY <3>3, <4>2
        <5>2. \A m : g[s \ {m}] = f[s \ {m}]
          BY <4>2
        <5>3. f[s] = IF s = {} THEN base ELSE next[Max(s)][f[s \ {Max(s)}]]
          BY <3>2, <5>1
        <5> HIDE DEF g
        <5> QED
          BY <5>1, <5>2, <5>3
      <4> QED
        BY <4>1, <4>2
    <3> HIDE DEF g
    <3> QED
      BY <3>5, <3>6
  <2> QED
    BY <2>1, <2>2
<1> HIDE DEF U
<1>2. \A k \in Nat : k \in U
  BY <1>1, Induction
<1> HIDE DEF FoldOf
<1>3. n \in U /\ n <= n
  BY <1>2
<1> QED
  BY <1>3 DEF U

LEMMA MaxOfFirst ==
  ASSUME NEW k \in Nat \ {0}
  PROVE  /\ 1 .. k # {} /\ Max(1 .. k) = k
         /\ (1 .. k) \ {k} = 1 .. (k - 1)
<1>1. k \in 1 .. k /\ \A y \in 1 .. k : k >= y
  OBVIOUS
<1>2. \A x \in 1 .. k : (\A y \in 1 .. k : x >= y) => x = k
  OBVIOUS
<1>3. Max(1 .. k) = k
  BY <1>1, <1>2 DEF Max
<1>4. (1 .. k) \ {k} = 1 .. (k - 1)
  OBVIOUS
<1> QED
  BY <1>1, <1>3, <1>4

(* The pieces that a buffer of H264Sink may hold, and the fold that counts *)
(* them.                                                                   *)
Pieces ==
  [what : {"code", "header", "body", "sps", "pps"}, nal : Nat, size : Nat]

SizeStep(g, p) ==
  g = [s \in SUBSET (DOMAIN p) |-> IF s = {} THEN 0 ELSE g[s \ {Max(s)}] + p[Max(s)].size]
SizeIter(p) == CHOOSE g : SizeStep(g, p)

LEMMA SizesOfPieces ==
  ASSUME NEW p \in Seq(Pieces)
  PROVE  /\ Len(p) \in Nat /\ DOMAIN p = 1 .. Len(p)
         /\ \A i \in 1 .. Len(p) : p[i] \in Pieces /\ p[i].size \in Nat
<1>1. \A i \in 1 .. Len(p) : p[i] \in Pieces
  OBVIOUS
<1>2. \A x \in Pieces : x.size \in Nat
  BY DEF Pieces
<1> QED
  BY <1>1, <1>2

LEMMA SizeIs ==
  ASSUME NEW p \in Seq(Pieces)
  PROVE  /\ SizeOf(p) = SizeIter(p)[1 .. Len(p)]
         /\ SizeIter(p)[{}] = 0
         /\ \A k \in 1 .. Len(p) :
              SizeIter(p)[1 .. k] = SizeIter(p)[1 .. (k - 1)] + p[k].size
<1>1. Len(p) \in Nat /\ DOMAIN p = 1 .. Len(p) /\ \A i \in 1 .. Len(p) : p[i].size \in Nat
  BY SizesOfPieces
<1> DEFINE next == [i \in 1 .. Len(p) |-> [v \in Nat |-> v + p[i].size]]
           n == Len(p)
<1>2. PICK g \in [SUBSET (1 .. n) -> Nat] : FoldOf(g, 0, next, n)
  <2>1. next \in [1 .. n -> [Nat -> Nat]]
    BY <1>1
  <2> HIDE DEF next, n
  <2>2. 0 \in Nat /\ n \in Nat
    BY <1>1 DEF n
  <2> QED
    BY <2>1, <2>2, FoldExists
<1>3. \A s \in SUBSET (1 .. n) : s # {} => Max(s) \in 1 .. n
  <2> SUFFICES ASSUME NEW s \in SUBSET (1 .. n), s # {} PROVE Max(s) \in 1 .. n
    OBVIOUS
  <2> QED
    BY <1>1, MaxIn
<1>4. SizeStep(g, p)
  <2>1. ASSUME NEW s \in SUBSET (1 .. n)
        PROVE  g[s] = IF s = {} THEN 0 ELSE g[s \ {Max(s)}] + p[Max(s)].size
    <3>1. s \ {Max(s)} \in SUBSET (1 .. n) /\ g[s \ {Max(s)}] \in Nat
      OBVIOUS
    <3>2. s # {} => next[Max(s)][g[s \ {Max(s)}]] = g[s \ {Max(s)}] + p[Max(s)].size
      BY <1>3, <3>1
    <3> HIDE DEF next
    <3> QED
      BY <1>2, <3>2 DEF FoldOf
  <2> HIDE DEF next
  <2> QED
    BY <1>1, <2>1 DEF SizeStep
<1>5. SizeStep(SizeIter(p), p)
  BY <1>4 DEF SizeIter
<1>6. SizeOf(p) = SizeIter(p)[1 .. Len(p)]
  BY <1>1 DEF SizeOf, FoldLeft, MapThenFoldSet, SizeIter, SizeStep
<1> DEFINE h == SizeIter(p)
<1> HIDE DEF h, next
<1>7. \A s \in SUBSET (1 .. n) : h[s] = IF s = {} THEN 0 ELSE h[s \ {Max(s)}] + p[Max(s)].size
  BY <1>1, <1>5 DEF h, SizeStep
<1>8. ASSUME NEW k \in 1 .. n PROVE h[1 .. k] = h[1 .. (k - 1)] + p[k].size
  <2>1. k \in Nat \ {0} /\ 1 .. k \in SUBSET (1 .. n)
    BY <1>1
  <2> QED
    BY <1>7, <2>1, MaxOfFirst
<1> QED
  BY <1>6, <1>7, <1>8 DEF h

(* The size of a buffer grows by that of the piece. *)
LEMMA SizesAgree ==
  ASSUME NEW p \in Seq(Pieces), NEW q \in Seq(Pieces), Len(p) <= Len(q),
         \A i \in 1 .. Len(p) : q[i] = p[i]
  PROVE  \A k \in 0 .. Len(p) : SizeIter(p)[1 .. k] \in Nat /\ SizeIter(q)[1 .. k] = SizeIter(p)[1 .. k]
<1> DEFINE U == {k \in Nat : k <= Len(p) =>
                   SizeIter(p)[1 .. k] \in Nat /\ SizeIter(q)[1 .. k] = SizeIter(p)[1 .. k]}
<1>0. Len(p) \in Nat /\ Len(q) \in Nat /\ \A i \in 1 .. Len(p) : p[i].size \in Nat
  BY SizesOfPieces
<1>1. ASSUME NEW k \in Nat, \A j \in 0 .. (k - 1) : j \in U PROVE k \in U
  <2> SUFFICES ASSUME k <= Len(p)
               PROVE  SizeIter(p)[1 .. k] \in Nat /\ SizeIter(q)[1 .. k] = SizeIter(p)[1 .. k]
    OBVIOUS
  <2>1. CASE k = 0
    <3>1. 1 .. k = {}
      BY <2>1
    <3>2. SizeIter(p)[{}] = 0 /\ SizeIter(q)[{}] = 0
      BY SizeIs
    <3> QED
      BY <3>1, <3>2
  <2>2. CASE k # 0
    <3>1. k - 1 \in U /\ k - 1 <= Len(p) /\ k \in 1 .. Len(p) /\ k \in 1 .. Len(q)
      BY <1>0, <1>1, <2>2
    <3>2. /\ SizeIter(p)[1 .. k] = SizeIter(p)[1 .. (k - 1)] + p[k].size
          /\ SizeIter(q)[1 .. k] = SizeIter(q)[1 .. (k - 1)] + q[k].size
      BY <3>1, SizeIs
    <3>3. SizeIter(p)[1 .. (k - 1)] \in Nat
          /\ SizeIter(q)[1 .. (k - 1)] = SizeIter(p)[1 .. (k - 1)]
      BY <3>1
    <3> QED
      BY <1>0, <3>1, <3>2, <3>3
  <2> QED
    BY <2>1, <2>2
<1> HIDE DEF U
<1>2. \A k \in Nat : k \in U
  BY <1>1, Induction
<1> QED
  BY <1>0, <1>2 DEF U

LEMMA SizeAppend ==
  ASSUME NEW p \in Seq(Pieces), NEW x \in Pieces
  PROVE  SizeOf(p) \in Nat /\ SizeOf(Append(p, x)) = SizeOf(p) + x.size
<1> DEFINE q == Append(p, x)
           n == Len(p)
<1>1. /\ q \in Seq(Pieces) /\ Len(q) = n + 1 /\ q[n + 1] = x /\ n \in Nat
      /\ \A i \in 1 .. n : q[i] = p[i]
  OBVIOUS
<1> HIDE DEF q
<1>2. SizeIter(p)[1 .. n] \in Nat /\ SizeIter(q)[1 .. n] = SizeIter(p)[1 .. n]
  <2>1. n \in 0 .. Len(p) /\ Len(p) <= Len(q)
    BY <1>1
  <2> QED
    BY <1>1, <2>1, SizesAgree
<1>3. SizeIter(q)[1 .. (n + 1)] = SizeIter(q)[1 .. n] + q[n + 1].size
  <2>1. n + 1 \in 1 .. Len(q) /\ (n + 1) - 1 = n
    BY <1>1
  <2> QED
    BY <1>1, <2>1, SizeIs
<1>4. SizeOf(p) = SizeIter(p)[1 .. n] /\ SizeOf(q) = SizeIter(q)[1 .. (n + 1)]
  BY <1>1, SizeIs
<1> QED
  BY <1>1, <1>2, <1>3, <1>4 DEF q

LEMMA SizeEmpty == SizeOf(<< >>) = 0
<1>1. << >> \in Seq(Pieces) /\ Len(<< >>) = 0 /\ 1 .. 0 = {}
  OBVIOUS
<1> QED
  BY <1>1, SizeIs

(* A buffer never holds more than its room. *)
LEMMA AppendKeeps ==
  ASSUME NEW b \in Seq(Pieces), NEW x \in Pieces, NEW limit \in Nat
  PROVE  /\ append(b, x, limit) \in Seq(Pieces)
         /\ SizeOf(b) \in Nat /\ SizeOf(append(b, x, limit)) \in Nat
         /\ SizeOf(b) <= SizeOf(append(b, x, limit))
         /\ SizeOf(b) <= limit => SizeOf(append(b, x, limit)) <= limit
<1>1. x.size \in Nat
  BY DEF Pieces
<1>2. Append(b, x) \in Seq(Pieces)
  OBVIOUS
<1>3. SizeOf(b) \in Nat /\ SizeOf(Append(b, x)) = SizeOf(b) + x.size
  BY SizeAppend
<1> QED
  BY <1>1, <1>2, <1>3 DEF append

LEMMA CodeIsPiece == Code \in Pieces /\ Code.size = CodeSize /\ CodeSize \in Nat
<1>1. CodeSize \in Nat
  BY SinkAssumption
<1> QED
  BY <1>1 DEF Code, Piece, Pieces

(* A record of the description, and the header that is folded from them.   *)
Records == [type : STRING, size : Nat]

AddRecord(buffer, r) ==
  IF r.size = 0 \/ r.type \notin {"sps", "pps"} THEN buffer
  ELSE append(append(buffer, Code, HeaderRoom), Piece(r.type, 0, r.size), HeaderRoom)

LEMMA AddRecordType ==
  ASSUME NEW b \in Seq(Pieces), NEW r \in Records
  PROVE  AddRecord(b, r) \in Seq(Pieces)
<1>1. HeaderRoom \in Nat
  BY SinkAssumption
<1>2. CASE r.size = 0 \/ r.type \notin {"sps", "pps"}
  BY <1>2 DEF AddRecord
<1>3. CASE ~(r.size = 0 \/ r.type \notin {"sps", "pps"})
  <2>1. Piece(r.type, 0, r.size) \in Pieces
    BY <1>3 DEF Piece, Pieces, Records
  <2>2. append(b, Code, HeaderRoom) \in Seq(Pieces)
    BY <1>1, AppendKeeps, CodeIsPiece
  <2>3. append(append(b, Code, HeaderRoom), Piece(r.type, 0, r.size), HeaderRoom) \in Seq(Pieces)
    BY <1>1, <2>1, <2>2, AppendKeeps
  <2> QED
    BY <1>3, <2>3 DEF AddRecord
<1> QED
  BY <1>2, <1>3

RecordStep(g, records) ==
  g = [s \in SUBSET (DOMAIN records) |->
         IF s = {} THEN << >> ELSE AddRecord(g[s \ {Max(s)}], records[Max(s)])]
RecordIter(records) == CHOOSE g : RecordStep(g, records)

LEMMA HeaderType ==
  ASSUME NEW records \in Seq(Records)
  PROVE  setSpropRecords(records) \in Seq(Pieces)
<1> DEFINE n == Len(records)
           next == [i \in 1 .. n |-> [v \in Seq(Pieces) |-> AddRecord(v, records[i])]]
<1>1. n \in Nat /\ DOMAIN records = 1 .. n /\ \A i \in 1 .. n : records[i] \in Records
  OBVIOUS
<1>2. PICK g \in [SUBSET (1 .. n) -> Seq(Pieces)] : FoldOf(g, << >>, next, n)
  <2>1. next \in [1 .. n -> [Seq(Pieces) -> Seq(Pieces)]]
    BY <1>1, AddRecordType
  <2>2. << >> \in Seq(Pieces)
    OBVIOUS
  <2> HIDE DEF next, n
  <2> QED
    BY <1>1, <2>1, <2>2, FoldExists
<1>3. \A s \in SUBSET (1 .. n) : s # {} => Max(s) \in 1 .. n
  <2> SUFFICES ASSUME NEW s \in SUBSET (1 .. n), s # {} PROVE Max(s) \in 1 .. n
    OBVIOUS
  <2> QED
    BY <1>1, MaxIn
<1>4. RecordStep(g, records)
  <2>1. ASSUME NEW s \in SUBSET (1 .. n)
        PROVE  g[s] = IF s = {} THEN << >> ELSE AddRecord(g[s \ {Max(s)}], records[Max(s)])
    <3>0. s \ {Max(s)} \in SUBSET (1 .. n)
      OBVIOUS
    <3>1. g[s \ {Max(s)}] \in Seq(Pieces)
      <4> HIDE DEF next, n
      <4> QED
        BY <3>0
    <3>2. s # {} => next[Max(s)][g[s \ {Max(s)}]] = AddRecord(g[s \ {Max(s)}], records[Max(s)])
      BY <1>3, <3>1
    <3> HIDE DEF next
    <3> QED
      BY <1>2, <3>2 DEF FoldOf
  <2> HIDE DEF next
  <2> QED
    BY <1>1, <2>1 DEF RecordStep
<1>5. RecordStep(RecordIter(records), records)
  BY <1>4 DEF RecordIter
<1>6. setSpropRecords(records) = RecordIter(records)[1 .. n]
  BY <1>1 DEF setSpropRecords, FoldLeft, MapThenFoldSet, RecordIter, RecordStep, AddRecord
<1> DEFINE h == RecordIter(records)
           U == {k \in Nat : k <= n => h[1 .. k] \in Seq(Pieces)}
<1> HIDE DEF h, next
<1>7. \A s \in SUBSET (1 .. n) :
        h[s] = IF s = {} THEN << >> ELSE AddRecord(h[s \ {Max(s)}], records[Max(s)])
  BY <1>1, <1>5 DEF h, RecordStep
<1>8. ASSUME NEW k \in Nat, \A j \in 0 .. (k - 1) : j \in U PROVE k \in U
  <2> SUFFICES ASSUME k <= n PROVE h[1 .. k] \in Seq(Pieces)
    OBVIOUS
  <2>1. CASE k = 0
    <3>1. 1 .. k = {} /\ {} \in SUBSET (1 .. n) /\ << >> \in Seq(Pieces)
      BY <2>1
    <3>2. h[{}] = << >>
      BY <1>7
    <3> QED
      BY <3>1, <3>2
  <2>2. CASE k # 0
    <3>1. k - 1 \in U /\ k - 1 <= n /\ k \in 1 .. n /\ k \in Nat \ {0}
      BY <1>1, <1>8, <2>2
    <3>2. 1 .. k \in SUBSET (1 .. n)
      BY <1>1
    <3>3. h[1 .. k] = AddRecord(h[1 .. (k - 1)], records[k])
      BY <1>7, <3>1, <3>2, MaxOfFirst
    <3> QED
      BY <1>1, <3>1, <3>3, AddRecordType
  <2> QED
    BY <2>1, <2>2
<1>9. \A k \in Nat : k \in U
  <2> HIDE DEF U
  <2> QED
    BY <1>8, Induction
<1> QED
  BY <1>1, <1>6, <1>9 DEF h
----------------------------------------------------------------------------
(* The NAL units of a camera, and Units for any sequence of them.          *)
Nals == [unit : NalUnits \cup {LostUnit}, marker : BOOLEAN]

ArrivedIn(ns, n) == ns[n].unit # LostUnit
BodyIn(ns, n) == Piece("body", n, Min({ns[n].unit.size, PacketRoom}))

UnitsStep(f, ns, from, to) ==
  f = [n \in from .. to |->
         IF n = from THEN << >>
         ELSE IF ArrivedIn(ns, n) THEN Append(Append(f[n - 1], Code), BodyIn(ns, n))
         ELSE f[n - 1]]
UnitsFun(ns, from, to) == CHOOSE f : UnitsStep(f, ns, from, to)
UnitsIn(ns, from, to) == UnitsFun(ns, from, to)[to]

LEMMA UnitsNow == \A from, to : Units(from, to) = UnitsIn(nals, from, to)
  BY DEF Units, UnitsIn, UnitsFun, UnitsStep, ArrivedIn, BodyIn, Arrived, Body

LEMMA MinIs ==
  ASSUME NEW a \in Nat, NEW b \in Nat
  PROVE  Min({a, b}) = (IF a <= b THEN a ELSE b) /\ Min({a, b}) \in Nat
<1> DEFINE m == IF a <= b THEN a ELSE b
<1>1. m \in {a, b} /\ \A y \in {a, b} : m <= y
  OBVIOUS
<1>2. \A x \in {a, b} : (\A y \in {a, b} : x <= y) => x = m
  OBVIOUS
<1> QED
  BY <1>1, <1>2 DEF Min

LEMMA NalSizes ==
  ASSUME NEW ns \in Seq(Nals), NEW n \in 1 .. Len(ns)
  PROVE  ns[n].unit.size \in Nat /\ BodyIn(ns, n) \in Pieces
<1>1. ns[n] \in Nals
  OBVIOUS
<1>2. ns[n].unit.size \in Nat
  BY <1>1, SinkAssumption DEF Nals, LostUnit
<1>3. Min({ns[n].unit.size, PacketRoom}) \in Nat
  BY <1>2, MinIs, SinkAssumption
<1> QED
  BY <1>2, <1>3 DEF BodyIn, Piece, Pieces

(* There is such a function, and what it says of a place depends on the    *)
(* NAL units up to that place only.                                        *)
LEMMA UnitsExist ==
  ASSUME NEW ns, NEW from \in Nat, NEW to \in Nat, from <= to
  PROVE  \E f : UnitsStep(f, ns, from, to)
<1> DEFINE U == {k \in Nat : \E f : UnitsStep(f, ns, from, from + k)}
<1>1. ASSUME NEW k \in Nat, \A j \in 0 .. (k - 1) : j \in U PROVE k \in U
  <2> SUFFICES \E f : UnitsStep(f, ns, from, from + k)
    OBVIOUS
  <2>1. CASE k = 0
    <3> DEFINE f == [n \in from .. (from + k) |-> << >>]
    <3>1. \A n \in from .. (from + k) : n = from
      BY <2>1
    <3>2. UnitsStep(f, ns, from, from + k)
      BY <3>1 DEF UnitsStep
    <3> QED
      BY <3>2
  <2>2. CASE k # 0
    <3>1. k - 1 \in U
      BY <1>1, <2>2
    <3>2. PICK g : UnitsStep(g, ns, from, from + (k - 1))
      BY <3>1
    <3> DEFINE last == from + k
               Next1(h, n) == IF n = from THEN << >>
                              ELSE IF ArrivedIn(ns, n) THEN Append(Append(h[n - 1], Code), BodyIn(ns, n))
                              ELSE h[n - 1]
               f == [n \in from .. last |-> IF n = last THEN Next1(g, last) ELSE g[n]]
    <3>3. last \in Nat /\ last # from /\ from + (k - 1) = last - 1
      BY <2>2
    <3>4. \A n \in from .. (last - 1) : g[n] = Next1(g, n)
      BY <3>2, <3>3 DEF UnitsStep
    <3>5. \A n \in from .. last : n # from => n - 1 \in from .. (last - 1) /\ n - 1 \in from .. last /\ n - 1 # last
      BY <3>3
    <3>6. \A n \in from .. last : n # from => f[n - 1] = g[n - 1]
      BY <3>5
    <3>7. ASSUME NEW n \in from .. last PROVE f[n] = Next1(f, n)
      <4>1. CASE n = last
        BY <3>3, <3>6, <4>1
      <4>2. CASE n # last
        <5>1. n \in from .. (last - 1) /\ f[n] = g[n]
          BY <3>3, <4>2
        <5>2. g[n] = Next1(g, n)
          BY <3>4, <5>1
        <5>3. n # from => f[n - 1] = g[n - 1]
          BY <3>6
        <5> HIDE DEF f
        <5> QED
          BY <5>1, <5>2, <5>3
      <4> QED
        BY <4>1, <4>2
    <3>8. UnitsStep(f, ns, from, last)
      BY <3>7 DEF UnitsStep
    <3> HIDE DEF f
    <3> QED
      BY <3>8
  <2> QED
    BY <2>1, <2>2
<1>2. \A k \in Nat : k \in U
  <2> HIDE DEF U
  <2> QED
    BY <1>1, Induction
<1>3. to - from \in U /\ from + (to - from) = to
  BY <1>2
<1> QED
  BY <1>3

LEMMA UnitsAgree ==
  ASSUME NEW ns, NEW ms, NEW f, NEW g,
         NEW from \in Nat, NEW a \in Nat, NEW b \in Nat, from <= a, a <= b,
         \A n \in (from + 1) .. a : ns[n] = ms[n],
         UnitsStep(f, ns, from, a), UnitsStep(g, ms, from, b)
  PROVE  f[a] = g[a]
<1> DEFINE U == {k \in Nat : from + k <= a => f[from + k] = g[from + k]}
           Next1(h, n) == IF n = from THEN << >>
                          ELSE IF ArrivedIn(ns, n) THEN Append(Append(h[n - 1], Code), BodyIn(ns, n))
                          ELSE h[n - 1]
<1>1. \A n \in from .. a : f[n] = Next1(f, n)
  BY DEF UnitsStep
<1>2. \A n \in from .. a : g[n] = Next1(g, n)
  <2> SUFFICES ASSUME NEW n \in from .. a PROVE g[n] = Next1(g, n)
    OBVIOUS
  <2>1. n \in from .. b /\ (n # from => n \in (from + 1) .. a)
    OBVIOUS
  <2>2. g[n] = IF n = from THEN << >>
               ELSE IF ArrivedIn(ms, n) THEN Append(Append(g[n - 1], Code), BodyIn(ms, n))
               ELSE g[n - 1]
    BY <2>1 DEF UnitsStep
  <2>3. n # from => ns[n] = ms[n]
    BY <2>1
  <2> QED
    BY <2>2, <2>3 DEF ArrivedIn, BodyIn
<1>3. ASSUME NEW k \in Nat, \A j \in 0 .. (k - 1) : j \in U PROVE k \in U
  <2> SUFFICES ASSUME from + k <= a PROVE f[from + k] = g[from + k]
    OBVIOUS
  <2>0. from + k \in from .. a
    OBVIOUS
  <2>1. CASE k = 0
    BY <1>1, <1>2, <2>0, <2>1
  <2>2. CASE k # 0
    <3>1. k - 1 \in U /\ from + (k - 1) <= a /\ (from + k) - 1 = from + (k - 1)
      BY <1>3, <2>2
    <3>2. f[(from + k) - 1] = g[(from + k) - 1]
      BY <3>1
    <3> QED
      BY <1>1, <1>2, <2>0, <3>2
  <2> QED
    BY <2>1, <2>2
<1>4. \A k \in Nat : k \in U
  <2> HIDE DEF U
  <2> QED
    BY <1>3, Induction
<1>5. a - from \in U /\ from + (a - from) = a
  BY <1>4
<1> QED
  BY <1>5

LEMMA UnitsFunIs ==
  ASSUME NEW ns, NEW from \in Nat, NEW to \in Nat, from <= to
  PROVE  UnitsStep(UnitsFun(ns, from, to), ns, from, to)
<1>1. PICK f : UnitsStep(f, ns, from, to)
  BY UnitsExist
<1> QED
  BY <1>1 DEF UnitsFun

LEMMA UnitsSame ==
  ASSUME NEW ns, NEW ms, NEW from \in Nat, NEW to \in Nat, from <= to,
         \A n \in (from + 1) .. to : ns[n] = ms[n]
  PROVE  UnitsIn(ns, from, to) = UnitsIn(ms, from, to)
<1>1. UnitsStep(UnitsFun(ns, from, to), ns, from, to) /\ UnitsStep(UnitsFun(ms, from, to), ms, from, to)
  BY UnitsFunIs
<1>2. to <= to
  OBVIOUS
<1> QED
  BY <1>1, <1>2, UnitsAgree DEF UnitsIn

LEMMA UnitsStart ==
  ASSUME NEW ns, NEW from \in Nat
  PROVE  UnitsIn(ns, from, from) = << >>
<1>1. UnitsStep(UnitsFun(ns, from, from), ns, from, from)
  BY UnitsFunIs
<1>2. from \in from .. from
  OBVIOUS
<1> QED
  BY <1>1, <1>2 DEF UnitsIn, UnitsStep

LEMMA UnitsGrow ==
  ASSUME NEW ns, NEW from \in Nat, NEW to \in Nat, from <= to
  PROVE  UnitsIn(ns, from, to + 1) =
           IF ArrivedIn(ns, to + 1)
           THEN Append(Append(UnitsIn(ns, from, to), Code), BodyIn(ns, to + 1))
           ELSE UnitsIn(ns, from, to)
<1> DEFINE g == UnitsFun(ns, from, to + 1)
<1>1. UnitsStep(UnitsFun(ns, from, to), ns, from, to) /\ UnitsStep(g, ns, from, to + 1)
  <2>1. to + 1 \in Nat /\ from <= to + 1
    OBVIOUS
  <2> QED
    BY <2>1, UnitsFunIs
<1>2. g[to] = UnitsIn(ns, from, to)
  <2>1. to + 1 \in Nat /\ to <= to + 1
    OBVIOUS
  <2>2. \A n \in (from + 1) .. to : ns[n] = ns[n]
    OBVIOUS
  <2> HIDE DEF g
  <2>3. ASSUME NEW b \in Nat, to <= b, NEW f, NEW h,
               UnitsStep(f, ns, from, to), UnitsStep(h, ns, from, b)
        PROVE  f[to] = h[to]
    BY <2>2, <2>3, UnitsAgree
  <2> QED
    BY <1>1, <2>1, <2>3 DEF UnitsIn
<1> HIDE DEF g
<1>3. g[to + 1] = IF ArrivedIn(ns, to + 1) THEN Append(Append(g[to], Code), BodyIn(ns, to + 1)) ELSE g[to]
  <2>1. to + 1 \in from .. (to + 1) /\ to + 1 # from /\ (to + 1) - 1 = to
    OBVIOUS
  <2> QED
    BY <1>1, <2>1 DEF UnitsStep
<1> QED
  BY <1>2, <1>3 DEF UnitsIn, g

LEMMA UnitsType ==
  ASSUME NEW ns \in Seq(Nals), NEW from \in Nat, NEW to \in Nat, from <= to, to <= Len(ns)
  PROVE  UnitsIn(ns, from, to) \in Seq(Pieces)
<1> DEFINE U == {k \in Nat : from + k <= to => UnitsIn(ns, from, from + k) \in Seq(Pieces)}
<1>1. ASSUME NEW k \in Nat, \A j \in 0 .. (k - 1) : j \in U PROVE k \in U
  <2> SUFFICES ASSUME from + k <= to PROVE UnitsIn(ns, from, from + k) \in Seq(Pieces)
    OBVIOUS
  <2>1. CASE k = 0
    <3>1. from + k = from /\ << >> \in Seq(Pieces)
      BY <2>1
    <3> QED
      BY <3>1, UnitsStart
  <2>2. CASE k # 0
    <3> DEFINE last == from + (k - 1)
    <3>0. k - 1 \in Nat /\ k - 1 \in U
      <4>1. k - 1 \in 0 .. (k - 1)
        BY <2>2
      <4> HIDE DEF U
      <4> QED
        BY <1>1, <2>2, <4>1
    <3>1. last <= to /\ last \in Nat /\ from <= last
          /\ from + k = last + 1 /\ last + 1 \in 1 .. Len(ns)
      <4>1. Len(ns) \in Nat
        OBVIOUS
      <4> HIDE DEF U
      <4> QED
        BY <2>2, <3>0, <4>1
    <3>2. UnitsIn(ns, from, last) \in Seq(Pieces)
      BY <3>0, <3>1
    <3>3. BodyIn(ns, last + 1) \in Pieces /\ Code \in Pieces
      BY <3>1, NalSizes, CodeIsPiece
    <3> HIDE DEF last
    <3>4. Append(Append(UnitsIn(ns, from, last), Code), BodyIn(ns, last + 1)) \in Seq(Pieces)
      BY <3>2, <3>3
    <3>5. UnitsIn(ns, from, last + 1) =
            IF ArrivedIn(ns, last + 1)
            THEN Append(Append(UnitsIn(ns, from, last), Code), BodyIn(ns, last + 1))
            ELSE UnitsIn(ns, from, last)
      BY <3>1, UnitsGrow
    <3> QED
      BY <3>1, <3>2, <3>4, <3>5
  <2> QED
    BY <2>1, <2>2
<1>2. \A k \in Nat : k \in U
  <2> HIDE DEF U
  <2> QED
    BY <1>1, Induction
<1>3. to - from \in Nat /\ from + (to - from) = to
  OBVIOUS
<1>4. to - from \in U
  BY <1>2, <1>3
<1> QED
  BY <1>3, <1>4
----------------------------------------------------------------------------
(* A delivered picture, and what DeliversUnit says of it.                  *)
Pictures ==
  [pieces : Seq(Pieces), key_frame : BOOLEAN, header : Seq(Pieces), since : Nat, upto : Nat]

WholeIn(ns, d) ==
  Append(Append(Append(UnitsIn(ns, d.since, d.upto - 1), Piece("header", 0, SizeOf(d.header))),
                Code), BodyIn(ns, d.upto))

InOrderIn(ns, pieces, from, to) ==
  /\ \A i \in DOMAIN pieces :
       pieces[i].what = "body" => pieces[i].nal \in (from + 1) .. to /\ ArrivedIn(ns, pieces[i].nal)
  /\ \A i, j \in DOMAIN pieces :
       pieces[i].what = "body" /\ pieces[j].what = "body" /\ i < j => pieces[i].nal < pieces[j].nal

LEMMA WholeNow == \A d : Whole(d) = WholeIn(nals, d)
  BY UnitsNow DEF Whole, WholeIn, Body, BodyIn

LEMMA InOrderNow ==
  \A pieces, from, to : InOrder(pieces, from, to) <=> InOrderIn(nals, pieces, from, to)
  BY DEF InOrder, InOrderIn, Arrived, ArrivedIn

GoodIn(ns, d) ==
  /\ d.since < d.upto /\ d.upto <= Len(ns)
  /\ SizeOf(d.pieces) \in 1 .. ReceivedRoom
  /\ SizeOf(WholeIn(ns, d)) <= ReceivedRoom => d.pieces = WholeIn(ns, d)
  /\ InOrderIn(ns, d.pieces, d.since, d.upto)
  /\ d.key_frame <=> isKeyFrame(ns[d.upto].unit.type)

(* What comes later says nothing else of a picture.                        *)
LEMMA GoodStays ==
  ASSUME NEW ns \in Seq(Nals), NEW x \in Nals, NEW d \in Pictures, GoodIn(ns, d)
  PROVE  GoodIn(Append(ns, x), d)
<1> DEFINE ms == Append(ns, x)
<1>0. Len(ns) \in Nat /\ Len(ms) = Len(ns) + 1 /\ \A n \in 1 .. Len(ns) : ms[n] = ns[n]
  OBVIOUS
<1> HIDE DEF ms
<1>1. /\ Len(ns) \in Nat /\ Len(ms) = Len(ns) + 1 /\ \A n \in 1 .. Len(ns) : ms[n] = ns[n]
      /\ d.since \in Nat /\ d.upto \in Nat
  BY <1>0 DEF Pictures
<1>2. d.upto - 1 \in Nat /\ d.since <= d.upto - 1 /\ d.upto \in 1 .. Len(ns)
  BY <1>1 DEF GoodIn
<1>3. UnitsIn(ns, d.since, d.upto - 1) = UnitsIn(ms, d.since, d.upto - 1)
  <2> DEFINE from == d.since
             to == d.upto - 1
  <2>1. from \in Nat /\ to \in Nat /\ from <= to /\ to <= Len(ns)
    BY <1>1, <1>2
  <2> HIDE DEF from, to
  <2>2. \A n \in (from + 1) .. to : n \in 1 .. Len(ns)
    BY <1>1, <2>1
  <2>3. \A n \in (from + 1) .. to : ns[n] = ms[n]
    BY <1>1, <2>2
  <2>4. UnitsIn(ns, from, to) = UnitsIn(ms, from, to)
    BY <2>1, <2>3, UnitsSame
  <2> QED
    BY <2>4 DEF from, to
<1>4. ms[d.upto] = ns[d.upto]
  BY <1>1, <1>2
<1>5. WholeIn(ms, d) = WholeIn(ns, d)
  BY <1>3, <1>4 DEF WholeIn, BodyIn
<1>6. InOrderIn(ms, d.pieces, d.since, d.upto)
  <2>1. \A i \in (d.since + 1) .. d.upto : ms[i] = ns[i]
    BY <1>1, <1>2
  <2>2. InOrderIn(ns, d.pieces, d.since, d.upto)
    BY DEF GoodIn
  <2> QED
    BY <2>1, <2>2 DEF InOrderIn, ArrivedIn
<1>7. d.upto <= Len(ms) /\ d.since < d.upto
  BY <1>1, <1>2
<1> QED
  BY <1>4, <1>5, <1>6, <1>7 DEF GoodIn, ms

(* A buffer that is collecting the NAL units after the one `from`.         *)
CollectedIn(ns, from, buffer) ==
  /\ buffer \in Seq(Pieces) /\ SizeOf(buffer) <= ReceivedRoom
  /\ SizeOf(UnitsIn(ns, from, Len(ns))) <= ReceivedRoom => buffer = UnitsIn(ns, from, Len(ns))
  /\ InOrderIn(ns, buffer, from, Len(ns))

LEMMA RoomIsNat == ReceivedRoom \in Nat
  BY SinkAssumption

LEMMA NothingCollected ==
  ASSUME NEW ns \in Seq(Nals)
  PROVE  CollectedIn(ns, Len(ns), << >>)
<1>1. << >> \in Seq(Pieces) /\ SizeOf(<< >>) = 0 /\ Len(ns) \in Nat /\ DOMAIN << >> = {}
  BY SizeEmpty
<1>2. UnitsIn(ns, Len(ns), Len(ns)) = << >>
  BY <1>1, UnitsStart
<1>3. InOrderIn(ns, << >>, Len(ns), Len(ns))
  BY <1>1 DEF InOrderIn
<1> QED
  BY <1>1, <1>2, <1>3, RoomIsNat DEF CollectedIn

LEMMA OtherPiece ==
  ASSUME NEW ns, NEW p \in Seq(Pieces), NEW x \in Pieces, NEW from, NEW to,
         x.what # "body", InOrderIn(ns, p, from, to)
  PROVE  InOrderIn(ns, append(p, x, ReceivedRoom), from, to)
<1> DEFINE q == Append(p, x)
<1>1. /\ DOMAIN p = 1 .. Len(p) /\ DOMAIN q = 1 .. (Len(p) + 1) /\ Len(p) \in Nat
      /\ \A i \in 1 .. Len(p) : q[i] = p[i]
      /\ q[Len(p) + 1] = x
  OBVIOUS
<1> HIDE DEF q
<1>2. \A i \in DOMAIN q : q[i].what = "body" => i \in DOMAIN p /\ q[i] = p[i]
  BY <1>1
<1>3. InOrderIn(ns, q, from, to)
  BY <1>2 DEF InOrderIn
<1> QED
  BY <1>3 DEF append, q

LEMMA NextBody ==
  ASSUME NEW ns \in Seq(Nals), NEW x \in Nals, x.unit # LostUnit,
         NEW p \in Seq(Pieces), NEW size \in Nat, NEW from \in 0 .. Len(ns),
         InOrderIn(ns, p, from, Len(ns))
  PROVE  LET y == Piece("body", Len(ns) + 1, size)
         IN  InOrderIn(Append(ns, x), append(p, y, ReceivedRoom), from, Len(ns) + 1)
<1> DEFINE n == Len(ns)
           ms == Append(ns, x)
           y == Piece("body", n + 1, size)
           q == Append(p, y)
<1>1. /\ DOMAIN p = 1 .. Len(p) /\ DOMAIN q = 1 .. (Len(p) + 1) /\ Len(p) \in Nat /\ n \in Nat
      /\ \A i \in 1 .. Len(p) : q[i] = p[i]
      /\ q[Len(p) + 1] = y
      /\ \A i \in 1 .. n : ms[i] = ns[i]
      /\ ms[n + 1] = x
  OBVIOUS
<1>2. y.what = "body" /\ y.nal = n + 1
  BY DEF Piece
<1> HIDE DEF n, ms, y, q
<1>3. /\ \A i \in DOMAIN p : p[i].what = "body" => p[i].nal \in (from + 1) .. n /\ ArrivedIn(ns, p[i].nal)
      /\ \A i, j \in DOMAIN p :
           p[i].what = "body" /\ p[j].what = "body" /\ i < j => p[i].nal < p[j].nal
  BY DEF InOrderIn, n
<1>4. \A k \in (from + 1) .. n : k \in 1 .. n /\ k \in (from + 1) .. (n + 1) /\ ms[k] = ns[k]
  BY <1>1
<1>5. ArrivedIn(ms, n + 1) /\ n + 1 \in (from + 1) .. (n + 1)
  BY <1>1 DEF ArrivedIn, n
<1>6. InOrderIn(ms, p, from, n + 1)
  BY <1>3, <1>4 DEF InOrderIn, ArrivedIn
<1>7. InOrderIn(ms, q, from, n + 1)
  <2>1. ASSUME NEW i \in DOMAIN q, q[i].what = "body"
        PROVE  q[i].nal \in (from + 1) .. (n + 1) /\ ArrivedIn(ms, q[i].nal)
    <3>1. CASE i = Len(p) + 1
      BY <1>1, <1>2, <1>5, <3>1
    <3>2. CASE i # Len(p) + 1
      <4>1. i \in DOMAIN p /\ q[i] = p[i]
        BY <1>1, <3>2
      <4> QED
        BY <1>6, <2>1, <4>1 DEF InOrderIn
    <3> QED
      BY <3>1, <3>2
  <2>2. ASSUME NEW i \in DOMAIN q, NEW j \in DOMAIN q, i < j,
               q[i].what = "body", q[j].what = "body"
        PROVE  q[i].nal < q[j].nal
    <3>1. i \in DOMAIN p /\ q[i] = p[i]
      BY <1>1, <2>2
    <3>2. CASE j = Len(p) + 1
      <4>1. q[j].nal = n + 1 /\ q[i].nal \in (from + 1) .. n
        BY <1>1, <1>2, <1>3, <2>2, <3>1, <3>2
      <4> QED
        BY <1>1, <4>1 DEF n
    <3>3. CASE j # Len(p) + 1
      <4>1. j \in DOMAIN p /\ q[j] = p[j]
        BY <1>1, <3>3
      <4> QED
        BY <1>3, <2>2, <3>1, <4>1
    <3> QED
      BY <3>2, <3>3
  <2> QED
    BY <2>1, <2>2 DEF InOrderIn
<1>8. InOrderIn(ms, append(p, y, ReceivedRoom), from, n + 1)
  BY <1>6, <1>7 DEF append, q
<1> QED
  BY <1>8 DEF n, ms, y

(* What fits is appended. *)
LEMMA AppendFits ==
  ASSUME NEW b \in Seq(Pieces), NEW x \in Pieces, SizeOf(Append(b, x)) <= ReceivedRoom
  PROVE  /\ append(b, x, ReceivedRoom) = Append(b, x)
         /\ SizeOf(b) <= ReceivedRoom /\ SizeOf(b) \in Nat
<1>1. x.size \in Nat /\ SizeOf(b) \in Nat /\ SizeOf(Append(b, x)) = SizeOf(b) + x.size
  BY SizeAppend DEF Pieces
<1> QED
  BY <1>1, RoomIsNat DEF append

LEMMA NalLost ==
  ASSUME NEW ns \in Seq(Nals), NEW x \in Nals, x.unit = LostUnit,
         NEW from \in 0 .. Len(ns), NEW b, CollectedIn(ns, from, b)
  PROVE  CollectedIn(Append(ns, x), from, b)
<1> DEFINE n == Len(ns)
           ms == Append(ns, x)
<1>1. /\ n \in Nat /\ Len(ms) = n + 1 /\ ms[n + 1] = x /\ from \in Nat /\ from <= n
      /\ \A i \in 1 .. n : ms[i] = ns[i]
  OBVIOUS
<1> HIDE DEF n, ms
<1>2. UnitsIn(ms, from, n) = UnitsIn(ns, from, n)
  <2>1. \A i \in (from + 1) .. n : ms[i] = ns[i]
    BY <1>1
  <2> QED
    BY <1>1, <2>1, UnitsSame
<1>3. UnitsIn(ms, from, n + 1) = UnitsIn(ms, from, n)
  <2>1. ~ArrivedIn(ms, n + 1)
    BY <1>1 DEF ArrivedIn
  <2> QED
    BY <1>1, <2>1, UnitsGrow
<1>4. InOrderIn(ms, b, from, n + 1)
  <2>1. \A i \in (from + 1) .. n : ms[i] = ns[i] /\ i \in (from + 1) .. (n + 1)
    BY <1>1
  <2>2. InOrderIn(ns, b, from, n)
    BY DEF CollectedIn, n
  <2> QED
    BY <2>1, <2>2 DEF InOrderIn, ArrivedIn
<1> QED
  BY <1>1, <1>2, <1>3, <1>4 DEF CollectedIn, n, ms

(* What Units is of one NAL unit more.                                     *)
LEMMA UnitsArrived ==
  ASSUME NEW ns \in Seq(Nals), NEW x \in Nals, x.unit # LostUnit, NEW from \in 0 .. Len(ns)
  PROVE  LET ms == Append(ns, x)
             n == Len(ns)
             y == Piece("body", n + 1, Min({x.unit.size, PacketRoom}))
         IN  /\ y \in Pieces /\ BodyIn(ms, n + 1) = y
             /\ UnitsIn(ns, from, n) \in Seq(Pieces)
             /\ UnitsIn(ms, from, n) = UnitsIn(ns, from, n)
             /\ UnitsIn(ms, from, n + 1) = Append(Append(UnitsIn(ns, from, n), Code), y)
<1> DEFINE ms == Append(ns, x)
           n == Len(ns)
           y == Piece("body", n + 1, Min({x.unit.size, PacketRoom}))
<1>1. /\ n \in Nat /\ Len(ms) = n + 1 /\ ms[n + 1] = x /\ from \in Nat /\ from <= n
      /\ ms \in Seq(Nals)
      /\ \A i \in 1 .. n : ms[i] = ns[i]
  OBVIOUS
<1>2. BodyIn(ms, n + 1) = y
  BY <1>1 DEF BodyIn
<1> HIDE DEF ms, n, y
<1>3. y \in Pieces
  <2>1. n + 1 \in 1 .. Len(ms)
    BY <1>1
  <2> QED
    BY <1>1, <1>2, <2>1, NalSizes
<1>4. UnitsIn(ms, from, n) = UnitsIn(ns, from, n)
  <2>1. \A i \in (from + 1) .. n : ms[i] = ns[i]
    BY <1>1
  <2> QED
    BY <1>1, <2>1, UnitsSame
<1>5. UnitsIn(ms, from, n + 1) = Append(Append(UnitsIn(ns, from, n), Code), y)
  <2>1. ArrivedIn(ms, n + 1)
    BY <1>1 DEF ArrivedIn
  <2> QED
    BY <1>1, <1>2, <1>4, <2>1, UnitsGrow
<1>6. UnitsIn(ns, from, n) \in Seq(Pieces)
  <2>1. n <= Len(ns)
    BY <1>1 DEF n
  <2> QED
    BY <1>1, <2>1, UnitsType
<1> QED
  BY <1>2, <1>3, <1>4, <1>5, <1>6 DEF ms, n, y

(* The start code and the NAL unit, appended to any buffer.                *)
LEMMA BodyAppended ==
  ASSUME NEW b \in Seq(Pieces), NEW nal, NEW size, Piece("body", nal, size) \in Pieces,
         SizeOf(b) <= ReceivedRoom
  PROVE  LET q == appendH264BodyPacket(b, nal, size)
             whole == Append(Append(b, Code), Piece("body", nal, size))
         IN  /\ q \in Seq(Pieces) /\ SizeOf(q) \in 1 .. ReceivedRoom
             /\ SizeOf(whole) <= ReceivedRoom => q = whole
<1> DEFINE y == Piece("body", nal, size)
           c == append(b, Code, ReceivedRoom)
           q == append(c, y, ReceivedRoom)
           coded == Append(b, Code)
           whole == Append(coded, y)
<1>0. Code \in Pieces /\ Code.size = CodeSize /\ CodeSize \in 1 .. ReceivedRoom /\ ReceivedRoom \in Nat
  BY CodeIsPiece, RoomIsNat, PathAssumption
<1>1. c \in Seq(Pieces) /\ SizeOf(c) \in Nat /\ SizeOf(c) <= ReceivedRoom
  BY <1>0, AppendKeeps
<1>2. SizeOf(b) \in Nat /\ coded \in Seq(Pieces) /\ SizeOf(coded) = SizeOf(b) + CodeSize
  <2>1. coded \in Seq(Pieces)
    BY <1>0
  <2> QED
    BY <1>0, <2>1, SizeAppend
<1>3. SizeOf(c) >= 1
  BY <1>0, <1>2 DEF append
<1>4. q \in Seq(Pieces) /\ SizeOf(q) \in Nat /\ SizeOf(c) <= SizeOf(q) /\ SizeOf(q) <= ReceivedRoom
  <2> HIDE DEF c, y
  <2> QED
    BY <1>0, <1>1, AppendKeeps DEF y
<1>5. ASSUME SizeOf(whole) <= ReceivedRoom PROVE q = whole
  <2> HIDE DEF coded, y
  <2>1. append(coded, y, ReceivedRoom) = whole /\ SizeOf(coded) <= ReceivedRoom
    BY <1>2, <1>5, AppendFits DEF y
  <2>2. c = coded
    BY <1>0, <2>1, AppendFits DEF coded
  <2> QED
    BY <2>1, <2>2
<1> QED
  BY <1>0, <1>1, <1>3, <1>4, <1>5 DEF appendH264BodyPacket

LEMMA NalCollected ==
  ASSUME NEW ns \in Seq(Nals), NEW x \in Nals, x.unit # LostUnit,
         NEW from \in 0 .. Len(ns), NEW b, CollectedIn(ns, from, b)
  PROVE  CollectedIn(Append(ns, x), from,
                     appendH264BodyPacket(b, Len(ns) + 1, Min({x.unit.size, PacketRoom})))
<1> DEFINE ms == Append(ns, x)
           n == Len(ns)
           k == Min({x.unit.size, PacketRoom})
           y == Piece("body", n + 1, k)
           q == appendH264BodyPacket(b, n + 1, k)
           before == UnitsIn(ns, from, n)
           after == UnitsIn(ms, from, n + 1)
<1>1. /\ y \in Pieces /\ before \in Seq(Pieces)
      /\ after = Append(Append(before, Code), y)
  BY UnitsArrived
<1>2. /\ b \in Seq(Pieces) /\ SizeOf(b) <= ReceivedRoom
      /\ SizeOf(before) <= ReceivedRoom => b = before
      /\ InOrderIn(ns, b, from, n)
  BY DEF CollectedIn
<1>3. Len(ms) = n + 1
  OBVIOUS
<1>4. k \in Nat
  BY <1>1 DEF Piece, Pieces
<1> HIDE DEF ms, k, before, after
<1>5. /\ q \in Seq(Pieces) /\ SizeOf(q) <= ReceivedRoom
      /\ SizeOf(Append(Append(b, Code), y)) <= ReceivedRoom => q = Append(Append(b, Code), y)
  <2>1. SizeOf(q) \in 1 .. ReceivedRoom => SizeOf(q) <= ReceivedRoom
    BY RoomIsNat
  <2> HIDE DEF n
  <2> QED
    BY <1>1, <1>2, <2>1, BodyAppended
<1>6. ASSUME SizeOf(after) <= ReceivedRoom PROVE q = after
  <2>1. SizeOf(before) <= ReceivedRoom
    <3>1. Append(before, Code) \in Seq(Pieces) /\ Code \in Pieces
      BY <1>1, CodeIsPiece
    <3>2. SizeOf(Append(before, Code)) <= ReceivedRoom
      <4> HIDE DEF y
      <4> QED
        BY <1>1, <1>6, <3>1, AppendFits
    <3> QED
      BY <1>1, <3>1, <3>2, AppendFits
  <2> QED
    BY <1>1, <1>2, <1>5, <1>6, <2>1
<1>7. InOrderIn(ms, q, from, n + 1)
  <2>1. append(b, Code, ReceivedRoom) \in Seq(Pieces)
    BY <1>2, AppendKeeps, CodeIsPiece, RoomIsNat
  <2>2. Code.what # "body"
    BY DEF Code, Piece
  <2>3. InOrderIn(ns, append(b, Code, ReceivedRoom), from, n)
    BY <1>2, <2>2, OtherPiece, CodeIsPiece
  <2> QED
    BY <1>4, <2>1, <2>3, NextBody DEF ms, appendH264BodyPacket
<1> QED
  BY <1>3, <1>5, <1>6, <1>7 DEF CollectedIn, ms, k, after

LEMMA KeyFrameTold == \A t : isKeyFrame(t) \in BOOLEAN
  BY DEF isKeyFrame

(* The picture that is given away when the marker arrives. *)
LEMMA PictureCollected ==
  ASSUME NEW ns \in Seq(Nals), NEW x \in Nals, x.unit # LostUnit,
         NEW from \in 0 .. Len(ns), NEW b, CollectedIn(ns, from, b),
         NEW h \in Seq(Pieces)
  PROVE  LET first == append(b, Piece("header", 0, SizeOf(h)), ReceivedRoom)
             n == Len(ns)
             d == [pieces |-> appendH264BodyPacket(first, n + 1, Min({x.unit.size, PacketRoom})),
                   key_frame |-> isKeyFrame(x.unit.type), header |-> h,
                   since |-> from, upto |-> n + 1]
         IN  d \in Pictures /\ GoodIn(Append(ns, x), d)
<1> DEFINE ms == Append(ns, x)
           n == Len(ns)
           k == Min({x.unit.size, PacketRoom})
           y == Piece("body", n + 1, k)
           hd == Piece("header", 0, SizeOf(h))
           first == append(b, hd, ReceivedRoom)
           q == appendH264BodyPacket(first, n + 1, k)
           key == isKeyFrame(x.unit.type)
           d == [pieces |-> q, key_frame |-> key, header |-> h, since |-> from, upto |-> n + 1]
           before == UnitsIn(ns, from, n)
<1>1. /\ y \in Pieces /\ before \in Seq(Pieces)
      /\ BodyIn(ms, n + 1) = y /\ UnitsIn(ms, from, n) = before
  BY UnitsArrived
<1>2. /\ b \in Seq(Pieces) /\ SizeOf(b) <= ReceivedRoom
      /\ SizeOf(before) <= ReceivedRoom => b = before
      /\ InOrderIn(ns, b, from, n)
  BY DEF CollectedIn
<1>3. /\ Len(ms) = n + 1 /\ n \in Nat /\ from \in Nat /\ from <= n /\ (n + 1) - 1 = n
      /\ ms[n + 1] = x
  OBVIOUS
<1>4. k \in Nat
  BY <1>1 DEF Piece, Pieces
<1>5. hd \in Pieces /\ hd.what # "body"
  <2>1. SizeOf(h) \in Nat
    BY SizeAppend, CodeIsPiece
  <2> QED
    BY <2>1 DEF Piece, Pieces
<1>6. first \in Seq(Pieces) /\ SizeOf(first) <= ReceivedRoom
  <2> HIDE DEF hd
  <2> QED
    BY <1>2, <1>5, AppendKeeps, RoomIsNat
<1> HIDE DEF ms, k, before
<1>7. /\ q \in Seq(Pieces) /\ SizeOf(q) \in 1 .. ReceivedRoom
      /\ SizeOf(Append(Append(first, Code), y)) <= ReceivedRoom => q = Append(Append(first, Code), y)
  <2> HIDE DEF n, first
  <2> QED
    BY <1>1, <1>6, BodyAppended
<1>8. /\ d.pieces = q /\ d.header = h /\ d.since = from /\ d.upto = n + 1 /\ d.key_frame = key
      /\ d \in Pictures
  <2>1. key \in BOOLEAN
    BY KeyFrameTold
  <2>2. n + 1 \in Nat
    BY <1>3
  <2> HIDE DEF key, q, n
  <2> QED
    BY <1>3, <1>7, <2>1, <2>2 DEF Pictures
<1>9. d.key_frame <=> isKeyFrame(ms[n + 1].unit.type)
  BY <1>3, <1>8
<1> HIDE DEF d
<1>10. WholeIn(ms, d) = Append(Append(Append(before, hd), Code), y)
  BY <1>1, <1>3, <1>8 DEF WholeIn
<1>11. ASSUME SizeOf(WholeIn(ms, d)) <= ReceivedRoom PROVE q = WholeIn(ms, d)
  <2> HIDE DEF hd, y, q
  <2>1. Append(before, hd) \in Seq(Pieces) /\ Code \in Pieces
    BY <1>1, <1>5, CodeIsPiece
  <2>2. Append(Append(before, hd), Code) \in Seq(Pieces)
    BY <2>1
  <2>3. SizeOf(Append(Append(before, hd), Code)) <= ReceivedRoom
    BY <1>1, <1>10, <1>11, <2>2, AppendFits
  <2>4. SizeOf(Append(before, hd)) <= ReceivedRoom
    BY <2>1, <2>3, AppendFits
  <2>5. SizeOf(before) <= ReceivedRoom /\ append(before, hd, ReceivedRoom) = Append(before, hd)
    BY <1>1, <1>5, <2>4, AppendFits
  <2>6. first = Append(before, hd)
    BY <1>2, <2>5
  <2> QED
    BY <1>7, <1>10, <1>11, <2>6
<1>12. InOrderIn(ms, q, from, n + 1)
  <2>1. append(first, Code, ReceivedRoom) \in Seq(Pieces)
    BY <1>6, AppendKeeps, CodeIsPiece, RoomIsNat
  <2>2. Code.what # "body"
    BY DEF Code, Piece
  <2>3. InOrderIn(ns, first, from, n)
    <3> HIDE DEF hd
    <3> QED
      BY <1>2, <1>5, OtherPiece
  <2>4. InOrderIn(ns, append(first, Code, ReceivedRoom), from, n)
    <3> HIDE DEF first
    <3> QED
      BY <1>6, <2>2, <2>3, OtherPiece, CodeIsPiece
  <2> HIDE DEF first
  <2> QED
    BY <1>4, <2>1, <2>4, NextBody DEF ms, appendH264BodyPacket
<1>13. GoodIn(ms, d)
  BY <1>3, <1>7, <1>8, <1>9, <1>11, <1>12 DEF GoodIn
<1> QED
  BY <1>8, <1>13 DEF d, ms, k
----------------------------------------------------------------------------
(* H264Sink at any time: what it is collecting, and what it delivered.     *)
SinkInv ==
  /\ header \in Seq(Pieces)
  /\ nals \in Seq(Nals) /\ since \in 0 .. Len(nals)
  /\ CollectedIn(nals, since, received)
  /\ delivered \in Seq(Pictures)
  /\ \A i \in 1 .. Len(delivered) : GoodIn(nals, delivered[i])
  /\ \A i \in 1 .. Len(delivered) :
       delivered[i].upto <= IF i = Len(delivered) THEN since ELSE delivered[i + 1].since

(* A picture is queued under its number, with the length of its buffer.    *)
Queued(x) == x.id \in 1 .. Len(delivered) /\ x.length = SizeOf(delivered[x.id].pieces)

PairInv ==
  /\ pictures = Len(delivered)
  /\ \A i \in 1 .. Len(src) : Queued(src[i])
  /\ thread # "pop" => Queued(item)

LEMMA HeaderStays ==
  ASSUME NEW s \in Sprops PROVE setSpropRecords(s) \in Seq(Pieces)
<1>1. s \in Seq(Records)
  BY SinkAssumption DEF Records
<1> QED
  BY <1>1, HeaderType

LEMMA SinkInitInv == PathInit => SinkInv /\ PairInv
<1> SUFFICES ASSUME PathInit PROVE SinkInv /\ PairInv
  OBVIOUS
<1>1. header \in Seq(Pieces)
  BY HeaderStays DEF PathInit, SinkInit
<1>2. nals = << >> /\ since = 0 /\ received = << >> /\ delivered = << >>
  BY DEF PathInit, SinkInit
<1>3. << >> \in Seq(Nals) /\ Len(<< >>) = 0 /\ << >> \in Seq(Pictures)
  OBVIOUS
<1>4. CollectedIn(nals, since, received)
  BY <1>2, <1>3, NothingCollected
<1>5. SinkInv
  BY <1>1, <1>2, <1>3, <1>4 DEF SinkInv
<1>6. PairInv
  BY <1>2, <1>3 DEF PathInit, FramesInit, PairInv
<1> QED
  BY <1>5, <1>6

(* The sink after another NAL unit that ended no picture.                  *)
LEMMA SinkGrows ==
  ASSUME SinkInv, NEW x \in Nals, nals' = Append(nals, x),
         UNCHANGED <<header, since, delivered>>, CollectedIn(nals', since, received')
  PROVE  SinkInv'
<1>1. /\ nals' \in Seq(Nals) /\ since \in 0 .. Len(nals')
      /\ delivered \in Seq(Pictures)
  BY DEF SinkInv
<1>2. ASSUME NEW i \in 1 .. Len(delivered) PROVE GoodIn(nals', delivered[i])
  <2>1. delivered[i] \in Pictures /\ GoodIn(nals, delivered[i]) /\ nals \in Seq(Nals)
    BY DEF SinkInv
  <2> QED
    BY <2>1, GoodStays
<1> QED
  BY <1>1, <1>2 DEF SinkInv

LEMMA NewSinkKeeps == SinkInv /\ NewSink => SinkInv'
<1> SUFFICES ASSUME SinkInv, NewSink PROVE SinkInv'
  OBVIOUS
<1>1. header' \in Seq(Pieces)
  BY HeaderStays DEF NewSink
<1>2. /\ received' = << >> /\ since' = Len(nals) /\ nals' = nals /\ delivered' = delivered
      /\ nals \in Seq(Nals) /\ Len(nals) \in Nat /\ since \in 0 .. Len(nals)
  BY DEF NewSink, SinkInv
<1>3. CollectedIn(nals, since', received')
  BY <1>2, NothingCollected
<1>4. ASSUME NEW i \in 1 .. Len(delivered)
      PROVE  delivered[i].upto <= IF i = Len(delivered) THEN since' ELSE delivered[i + 1].since
  <2>1. delivered[i].upto <= IF i = Len(delivered) THEN since ELSE delivered[i + 1].since
    BY DEF SinkInv
  <2>2. delivered[i] \in Pictures
    BY DEF SinkInv
  <2>3. delivered[i].upto \in Nat
    BY <2>2 DEF Pictures
  <2> QED
    BY <1>2, <2>1, <2>3
<1> QED
  BY <1>1, <1>2, <1>3, <1>4 DEF SinkInv

LEMMA CollectNalKeeps ==
  ASSUME SinkInv, NEW unit \in NalUnits, CollectNal(unit) PROVE SinkInv'
<1> DEFINE x == [unit |-> unit, marker |-> FALSE]
<1>1. x \in Nals /\ x.unit = unit /\ unit # LostUnit
  BY SinkAssumption DEF Nals, LostUnit
<1>2. nals' = Append(nals, x) /\ UNCHANGED <<header, since, delivered>>
  BY DEF CollectNal, Sends
<1>3. received' = appendH264BodyPacket(received, Len(nals) + 1, Min({unit.size, PacketRoom}))
  BY DEF CollectNal, Collected, continuePlaying
<1> HIDE DEF x
<1>4. CollectedIn(Append(nals, x), since, received')
  BY <1>1, <1>3, NalCollected DEF SinkInv
<1> QED
  BY <1>1, <1>2, <1>4, SinkGrows

LEMMA LoseNalKeeps ==
  ASSUME SinkInv, NEW marker \in BOOLEAN, LoseNal(marker) PROVE SinkInv'
<1> DEFINE x == [unit |-> LostUnit, marker |-> marker]
<1>1. x \in Nals /\ x.unit = LostUnit
  BY DEF Nals
<1>2. nals' = Append(nals, x) /\ UNCHANGED <<header, since, delivered>> /\ received' = received
  BY DEF LoseNal, Sends
<1> HIDE DEF x
<1>3. CollectedIn(Append(nals, x), since, received)
  BY <1>1, NalLost DEF SinkInv
<1> QED
  BY <1>1, <1>2, <1>3, SinkGrows

(* The picture that a NAL unit with the marker completes. *)
Completed(unit) ==
  [pieces |-> Collected(continuePlaying(unit.size), TRUE),
   key_frame |-> isKeyFrame(unit.type), header |-> header,
   since |-> since, upto |-> Len(nals) + 1]

LEMMA CompletedIsGood ==
  ASSUME SinkInv, NEW unit \in NalUnits, NEW marker \in BOOLEAN
  PROVE  LET x == [unit |-> unit, marker |-> marker]
         IN  /\ x \in Nals
             /\ Completed(unit) \in Pictures
             /\ GoodIn(Append(nals, x), Completed(unit))
<1> DEFINE x == [unit |-> unit, marker |-> marker]
<1>1. x \in Nals /\ x.unit = unit /\ unit # LostUnit
  BY SinkAssumption DEF Nals, LostUnit
<1> DEFINE first == append(received, Piece("header", 0, SizeOf(header)), ReceivedRoom)
           d == [pieces |-> appendH264BodyPacket(first, Len(nals) + 1, Min({x.unit.size, PacketRoom})),
                 key_frame |-> isKeyFrame(x.unit.type), header |-> header,
                 since |-> since, upto |-> Len(nals) + 1]
<1>2. Completed(unit) = d
  BY <1>1 DEF Completed, Collected, continuePlaying, appendH264HeaderPacket
<1> HIDE DEF x
<1>3. d \in Pictures /\ GoodIn(Append(nals, x), d)
  <2>1. /\ nals \in Seq(Nals) /\ since \in 0 .. Len(nals) /\ header \in Seq(Pieces)
        /\ CollectedIn(nals, since, received)
    BY DEF SinkInv
  <2> QED
    BY <1>1, <2>1, PictureCollected
<1> HIDE DEF d
<1> QED
  BY <1>1, <1>2, <1>3 DEF x

LEMMA FinishPictureKeeps ==
  ASSUME SinkInv, NEW unit \in NalUnits, FinishPicture(unit) PROVE SinkInv'
<1> DEFINE x == [unit |-> unit, marker |-> TRUE]
           d == Completed(unit)
           n == Len(nals)
           m == Len(delivered)
<1>1. /\ nals' = Append(nals, x) /\ delivered' = Append(delivered, d)
      /\ received' = << >> /\ since' = n + 1 /\ header' = header
  BY DEF FinishPicture, FinishKeeping, Sends, Completed
<1>2. x \in Nals /\ d \in Pictures /\ GoodIn(Append(nals, x), d)
  BY CompletedIsGood
<1>3. d.since = since /\ d.upto = n + 1
  BY DEF Completed
<1> HIDE DEF x, d
<1>4. /\ nals \in Seq(Nals) /\ delivered \in Seq(Pictures) /\ since \in 0 .. n
      /\ n \in Nat /\ m \in Nat /\ header \in Seq(Pieces)
  BY DEF SinkInv
<1>5. nals' \in Seq(Nals) /\ Len(nals') = n + 1
  BY <1>1, <1>2, <1>4
<1>6. /\ delivered' \in Seq(Pictures) /\ Len(delivered') = m + 1
      /\ delivered'[m + 1] = d /\ \A i \in 1 .. m : delivered'[i] = delivered[i]
  BY <1>1, <1>2, <1>4
<1>7. CollectedIn(nals', since', received')
  BY <1>1, <1>5, NothingCollected
<1>8. ASSUME NEW i \in 1 .. (m + 1) PROVE GoodIn(nals', delivered'[i])
  <2>1. CASE i = m + 1
    BY <1>1, <1>2, <1>6, <2>1
  <2>2. CASE i # m + 1
    <3>1. i \in 1 .. m
      BY <1>4, <2>2
    <3>2. delivered[i] \in Pictures /\ GoodIn(nals, delivered[i])
      BY <1>4, <3>1 DEF SinkInv
    <3>3. GoodIn(Append(nals, x), delivered[i])
      BY <1>2, <1>4, <3>2, GoodStays
    <3> QED
      BY <1>1, <1>6, <3>1, <3>3
  <2> QED
    BY <2>1, <2>2
<1>9. ASSUME NEW i \in 1 .. (m + 1)
      PROVE  delivered'[i].upto <= IF i = m + 1 THEN since' ELSE delivered'[i + 1].since
  <2>1. CASE i = m + 1
    BY <1>1, <1>3, <1>4, <1>6, <2>1
  <2>2. CASE i = m /\ i # m + 1
    <3>1. i \in 1 .. m /\ delivered'[i] = delivered[i] /\ delivered'[i + 1].since = since
      BY <1>3, <1>4, <1>6, <2>2
    <3>2. delivered[i].upto <= since
      BY <2>2, <3>1 DEF SinkInv
    <3> QED
      BY <2>2, <3>1, <3>2
  <2>3. CASE i # m /\ i # m + 1
    <3>1. i \in 1 .. m /\ i + 1 \in 1 .. m
      BY <1>4, <2>3
    <3>2. delivered[i].upto <= delivered[i + 1].since
      BY <2>3, <3>1 DEF SinkInv
    <3> QED
      BY <1>6, <2>3, <3>1, <3>2
  <2> QED
    BY <2>1, <2>2, <2>3
<1>10. since' \in 0 .. Len(nals')
  BY <1>1, <1>4, <1>5
<1> QED
  BY <1>1, <1>4, <1>5, <1>6, <1>7, <1>8, <1>9, <1>10 DEF SinkInv

LEMMA SinkStepKeeps == SinkInv /\ [PathNext]_pathVars => SinkInv'
<1> SUFFICES ASSUME SinkInv, [PathNext]_pathVars PROVE SinkInv'
  OBVIOUS
<1>1. ASSUME NEW unit \in NalUnits, OnVideoFrameReceived(unit) PROVE SinkInv'
  BY <1>1, FinishPictureKeeps DEF OnVideoFrameReceived
<1>2. ASSUME NEW unit \in NalUnits, CollectNal(unit) PROVE SinkInv'
  BY <1>2, CollectNalKeeps
<1>3. ASSUME NEW marker \in BOOLEAN, LoseNal(marker) PROVE SinkInv'
  BY <1>3, LoseNalKeeps
<1>4. CASE NewSink
  BY <1>4, NewSinkKeeps
<1>5. CASE UNCHANGED sink
  BY <1>5 DEF sink, SinkInv
<1> QED
  BY <1>1, <1>2, <1>3, <1>4, <1>5 DEF PathNext, SinkStep, pathVars
----------------------------------------------------------------------------
(* The decoder beside the sink. *)
LEMMA StepOfDecoder == SinkInv /\ [PathNext]_pathVars => [FramesNext]_frameVars
<1> SUFFICES ASSUME SinkInv, [PathNext]_pathVars PROVE [FramesNext]_frameVars
  OBVIOUS
<1>1. ASSUME NEW unit \in NalUnits, OnVideoFrameReceived(unit) PROVE FramesNext
  <2> DEFINE d == Completed(unit)
             n == SizeOf(Collected(continuePlaying(unit.size), TRUE))
  <2>1. SizeOf(d.pieces) \in 1 .. ReceivedRoom
    BY CompletedIsGood DEF GoodIn
  <2>2. n \in Lengths
    BY <2>1, PathAssumption DEF Completed
  <2>3. QueuePush(n)
    BY <1>1 DEF OnVideoFrameReceived
  <2> HIDE DEF n
  <2> QED
    BY <2>2, <2>3 DEF FramesNext
<1>2. CASE SinkStep /\ UNCHANGED frameVars
  BY <1>2
<1>3. CASE DecoderStep /\ UNCHANGED sink
  BY <1>3 DEF DecoderStep, FramesNext
<1>4. CASE UNCHANGED pathVars
  BY <1>4 DEF pathVars
<1> QED
  BY <1>1, <1>2, <1>3, <1>4 DEF PathNext

LEMMA PairKept ==
  ASSUME PairInv, FramesTypeOK, UNCHANGED <<delivered, pictures>>,
         \A i \in 1 .. Len(src') : \E j \in 1 .. Len(src) : src'[i] = src[j],
         thread' # "pop" =>
           \/ thread # "pop" /\ item' = item
           \/ src # << >> /\ item' = src[1]
  PROVE  PairInv'
<1>1. \A x : Queued(x)' <=> Queued(x)
  BY DEF Queued
<1>2. \A i \in 1 .. Len(src') : Queued(src'[i])
  BY DEF PairInv
<1>3. ASSUME thread' # "pop" PROVE Queued(item')
  <2>1. CASE thread # "pop" /\ item' = item
    BY <2>1 DEF PairInv
  <2>2. CASE src # << >> /\ item' = src[1]
    <3>1. 1 \in 1 .. Len(src)
      BY <2>2 DEF FramesTypeOK
    <3> QED
      BY <2>2, <3>1 DEF PairInv
  <2> QED
    BY <1>3, <2>1, <2>2
<1>4. (\A i \in 1 .. Len(src) : Queued(src[i]))'
  BY <1>2 DEF Queued
<1>5. (thread # "pop" => Queued(item))'
  BY <1>3 DEF Queued
<1>6. (pictures = Len(delivered))'
  BY DEF PairInv
<1> QED
  BY <1>4, <1>5, <1>6 DEF PairInv

LEMMA PairPushed ==
  ASSUME PairInv, FramesTypeOK, SinkInv, NEW unit \in NalUnits, OnVideoFrameReceived(unit)
  PROVE  PairInv'
<1> DEFINE d == Completed(unit)
           n == SizeOf(d.pieces)
           m == Len(delivered)
<1>1. delivered' = Append(delivered, d) /\ d \in Pictures
  BY CompletedIsGood DEF OnVideoFrameReceived, FinishPicture, FinishKeeping, Completed
<1>2. QueuePush(n)
  BY DEF OnVideoFrameReceived, Completed
<1>3. /\ pictures' = pictures + 1 /\ thread' = thread /\ item' = item
      /\ src' = IF HasRoom(n) THEN Append(src, [id |-> pictures + 1, length |-> n]) ELSE src
  BY <1>2 DEF QueuePush, QueuePushWhen
<1> HIDE DEF d
<1>4. delivered \in Seq(Pictures) /\ m \in Nat /\ pictures = m
  BY DEF SinkInv, PairInv
<1>5. /\ Len(delivered') = m + 1 /\ delivered'[m + 1] = d
      /\ \A i \in 1 .. m : delivered'[i] = delivered[i]
  BY <1>1, <1>4
<1>6. \A x : Queued(x) => x.id \in 1 .. (m + 1) /\ x.length = SizeOf(delivered'[x.id].pieces)
  BY <1>4, <1>5 DEF Queued
<1> DEFINE e == [id |-> m + 1, length |-> n]
<1>7. e.id \in 1 .. (m + 1) /\ e.length = SizeOf(delivered'[e.id].pieces)
  BY <1>4, <1>5
<1>8. ASSUME NEW i \in 1 .. Len(src')
      PROVE  src'[i].id \in 1 .. (m + 1) /\ src'[i].length = SizeOf(delivered'[src'[i].id].pieces)
  <2>1. src \in Seq([id : 1 .. MaxPictures, length : Lengths])
    BY DEF FramesTypeOK
  <2>2. CASE src' = src
    BY <1>6, <2>2 DEF PairInv
  <2>3. CASE src' = Append(src, e)
    <3> HIDE DEF e
    <3>1. Len(src) \in Nat /\ Len(src') = Len(src) + 1 /\ src'[Len(src) + 1] = e
          /\ \A j \in 1 .. Len(src) : src'[j] = src[j]
      BY <2>1, <2>3
    <3>2. CASE i = Len(src) + 1
      BY <1>7, <3>1, <3>2
    <3>3. CASE i # Len(src) + 1
      <4>1. i \in 1 .. Len(src) /\ src'[i] = src[i]
        BY <3>1, <3>3
      <4> QED
        BY <1>6, <4>1 DEF PairInv
    <3> QED
      BY <3>2, <3>3
  <2> QED
    BY <1>3, <1>4, <2>2, <2>3
<1>9. thread' # "pop" => item'.id \in 1 .. (m + 1) /\ item'.length = SizeOf(delivered'[item'.id].pieces)
  BY <1>3, <1>6 DEF PairInv
<1> QED
  BY <1>3, <1>4, <1>5, <1>8, <1>9 DEF PairInv, Queued

LEMMA PairStep ==
  ASSUME PairInv, SinkInv, FramesTypeOK, [PathNext]_pathVars PROVE PairInv'
<1>1. ASSUME NEW unit \in NalUnits, OnVideoFrameReceived(unit) PROVE PairInv'
  BY <1>1, PairPushed
<1>2. CASE UNCHANGED frameVars /\ UNCHANGED delivered
  BY <1>2, PairKept DEF frameVars, queues
<1>3. SinkStep => UNCHANGED delivered
  BY DEF SinkStep, NewSink, CollectNal, LoseNal
<1>4. CASE DecoderStep /\ UNCHANGED sink
  <2>0. delivered' = delivered /\ src \in Seq([id : 1 .. MaxPictures, length : Lengths])
    BY <1>4 DEF sink, FramesTypeOK
  <2>1. CASE PopSource
    <3>1. src # << >> /\ item' = src[1] /\ src' = Tail(src) /\ pictures' = pictures
      BY <2>1 DEF PopSource
    <3>2. \A i \in 1 .. Len(src') : \E j \in 1 .. Len(src) : src'[i] = src[j]
      <4>1. ASSUME NEW i \in 1 .. Len(Tail(src)) PROVE i + 1 \in 1 .. Len(src) /\ Tail(src)[i] = src[i + 1]
        BY <2>0, <3>1
      <4> QED
        BY <3>1, <4>1
    <3> QED
      BY <2>0, <3>1, <3>2, PairKept
  <2>2. CASE Replace
    <3>1. src' = << >> /\ thread' = "pop" /\ pictures' = pictures /\ Len(<< >>) = 0
      BY <2>2 DEF Replace, Step
    <3> QED
      BY <2>0, <3>1, PairKept
  <2>3. CASE Restart
    <3>1. src' = src /\ thread' = "pop" /\ pictures' = pictures
      BY <2>3 DEF Restart, Step, queues
    <3> QED
      BY <2>0, <3>1, PairKept
  <2>4. CASE /\ src' = src /\ item' = item /\ pictures' = pictures
             /\ thread' # "pop" => thread # "pop"
    BY <2>0, <2>4, PairKept
  <2>5. ASSUME NEW i \in Requests, SetFrameInfo(i)
        PROVE  src' = src /\ item' = item /\ pictures' = pictures /\ (thread' # "pop" => thread # "pop")
    BY <2>5 DEF SetFrameInfo, queues
  <2>6. CASE FrameInfoSet
    BY <2>4, <2>6 DEF FrameInfoSet, queues
  <2>7. CASE SetDstBufferInfo
    BY <2>4, <2>7 DEF SetDstBufferInfo, queues, Step
  <2>8. CASE Decode
    BY <2>4, <2>8 DEF Decode, queues, Step
  <2>9. CASE DecodeFails
    BY <2>4, <2>9 DEF DecodeFails, queues, Step
  <2>10. CASE SetAllocBuffer
    BY <2>4, <2>10 DEF SetAllocBuffer, AllocThen, queues, Step
  <2>11. CASE KeepBuffer
    BY <2>4, <2>11 DEF KeepBuffer, BufferSuffices, queues, Step
  <2>12. CASE Callback
    BY <2>4, <2>12 DEF Callback, queues, Step
  <2> QED
    BY <1>4, <2>1, <2>2, <2>3, <2>4, <2>5, <2>6, <2>7, <2>8, <2>9, <2>10, <2>11, <2>12
       DEF DecoderStep
<1> QED
  BY <1>1, <1>2, <1>3, <1>4 DEF PathNext, pathVars, sink

LEMMA PairDelivers == PairInv /\ SinkInv => DeliversUnit
<1> SUFFICES ASSUME PairInv, SinkInv, thread # "pop"
             PROVE  LET d == delivered[item.id]
                    IN  /\ item.length = SizeOf(d.pieces) /\ SizeOf(d.pieces) <= ReceivedRoom
                        /\ IF SizeOf(Whole(d)) <= ReceivedRoom
                           THEN d.pieces = Whole(d)
                           ELSE InOrder(d.pieces, d.since, d.upto)
                        /\ item.id > 1 => delivered[item.id - 1].upto <= d.since
                        /\ d.key_frame <=> nals[d.upto].unit.type = "idr"
  BY DEF DeliversUnit
<1> DEFINE k == item.id
           d == delivered[k]
<1>1. k \in 1 .. Len(delivered) /\ item.length = SizeOf(d.pieces)
  BY DEF PairInv, Queued
<1> HIDE DEF k
<1>2. GoodIn(nals, d)
  BY <1>1 DEF SinkInv
<1>3. k > 1 => delivered[k - 1].upto <= d.since
  <2> SUFFICES ASSUME k > 1 PROVE delivered[k - 1].upto <= d.since
    OBVIOUS
  <2>1. delivered \in Seq(Pictures)
    BY DEF SinkInv
  <2>2. k - 1 \in 1 .. Len(delivered) /\ k - 1 # Len(delivered) /\ (k - 1) + 1 = k
    BY <1>1, <2>1
  <2>3. delivered[k - 1].upto <= delivered[(k - 1) + 1].since
    BY <2>2 DEF SinkInv
  <2> QED
    BY <2>2, <2>3
<1> HIDE DEF d
<1>4. SizeOf(d.pieces) <= ReceivedRoom
  <2>1. SizeOf(d.pieces) \in 1 .. ReceivedRoom
    BY <1>2 DEF GoodIn
  <2> QED
    BY <2>1, RoomIsNat
<1>5. IF SizeOf(Whole(d)) <= ReceivedRoom
      THEN d.pieces = Whole(d) ELSE InOrder(d.pieces, d.since, d.upto)
  <2>1. Whole(d) = WholeIn(nals, d)
    BY WholeNow
  <2>2. InOrder(d.pieces, d.since, d.upto)
    BY <1>2, InOrderNow DEF GoodIn
  <2> QED
    BY <1>2, <2>1, <2>2 DEF GoodIn
<1>6. d.key_frame <=> nals[d.upto].unit.type = "idr"
  BY <1>2 DEF GoodIn, isKeyFrame
<1> QED
  BY <1>1, <1>3, <1>4, <1>5, <1>6 DEF d, k

LEMMA SinkCorrect == PathSpec => []SinkInv
<1>1. PathInit => SinkInv
  BY SinkInitInv
<1> QED
  BY <1>1, SinkStepKeeps, PTL DEF PathSpec

(* The decoder, fed by H264Sink through OnVideoFrameReceived, is one that  *)
(* is fed any picture, so what is proved of DecoderFrames holds of it: the *)
(* buffer that is pushed is never empty and never longer than              *)
(* m_received_buffer.                                                      *)
THEOREM PathImplementsDecoder == PathSpec => FramesSpec
<1>1. PathInit => FramesInit
  BY DEF PathInit
<1> QED
  BY <1>1, SinkCorrect, StepOfDecoder, PTL DEF PathSpec, FramesSpec

(* The picture that ThreadLoop takes is the one that H264Sink collected:   *)
(* every NAL unit that arrived since the last delivery, with the header    *)
(* before the last, none of an earlier picture and none twice, if          *)
(* m_received_buffer has room for them, and otherwise some of them in      *)
(* their order; for any NAL units, records, rooms and losses.              *)
THEOREM PathDeliversUnit == PathSpec => []DeliversUnit
<1>1. PathSpec => []FramesTypeOK
  BY PathImplementsDecoder, FramesTypeCorrect, PTL
<1>2. PathInit => PairInv
  BY SinkInitInv
<1>3. PairInv /\ SinkInv /\ FramesTypeOK /\ [PathNext]_pathVars => PairInv'
  BY PairStep
<1> QED
  BY <1>1, <1>2, <1>3, SinkCorrect, PairDelivers, PTL DEF PathSpec
----------------------------------------------------------------------------
(* The timers. *)
Indices == 0 .. (Slots - 1)
Periods == {ms \in Nat : ms >= MinResolution}

LockerType == [period : Periods, count : Nat, signal : {0, 1}]

ManagerType(m) ==
  /\ m = [timers |-> m.timers, lists |-> m.lists, lockers |-> m.lockers]
  /\ m.timers \in [Indices -> Nat]
  /\ DOMAIN m.lists \subseteq Periods
  /\ DOMAIN m.lockers \subseteq Names
  /\ \A n \in DOMAIN m.lockers : m.lockers[n] \in LockerType

(* The timers that are set and the lists are each other's. *)
Timed(m) ==
  /\ \A d \in DOMAIN m.lists : m.lists[d] \in Indices /\ m.timers[m.lists[d]] = d
  /\ \A i \in Indices :
       m.timers[i] # 0 => m.timers[i] \in DOMAIN m.lists /\ m.lists[m.timers[i]] = i

Needed(m) == {ListOf(m.lockers[n]) : n \in DOMAIN m.lockers}

Sound(m) == ManagerType(m) /\ Timed(m) /\ DOMAIN m.lists = Needed(m)

TimersInv == Sound(State)
----------------------------------------------------------------------------
(* The tick of a period is at least the resolution, and divides it. *)
LEMMA DivisorOfPeriod ==
  ASSUME NEW ms \in Periods
  PROVE  GetDivisor(ms) \in Periods /\ GetDivisor(ms) \in Nat \ {0}
         /\ ms % GetDivisor(ms) = 0
<1> DEFINE ds == DivisorsFrom(MinResolution, ms)
<1>1. ms \in Nat \ {0} /\ MinResolution \in Nat \ {0} /\ MinResolution <= ms
  BY TimerAssumption DEF Periods
<1>2. ms % ms = 0
  BY <1>1
<1>3. ms \in ds /\ \A d \in ds : d \in Periods /\ d \in Nat \ {0} /\ ms % d = 0
  BY <1>1, <1>2 DEF DivisorsFrom, Periods
<1> HIDE DEF ds
<1>4. ds \in SUBSET Nat /\ ds # {}
  BY <1>3
<1>5. \E d \in ds : \A e \in ds : d <= e
  BY <1>4, Least
<1>6. GetDivisor(ms) = CHOOSE d \in ds : \A e \in ds : d <= e
  BY DEF GetDivisor, ds
<1>7. GetDivisor(ms) \in ds
  BY <1>5, <1>6
<1> QED
  BY <1>3, <1>7

LEMMA AtLeastPeriod == \A ms \in Nat : AtLeast(ms) \in Periods
  BY TimerAssumption DEF AtLeast, Periods

LEMMA PeriodOfFps == \A fps \in DecodingFps : PeriodOf(fps) \in Periods
<1> SUFFICES ASSUME NEW fps \in DecodingFps PROVE PeriodOf(fps) \in Periods
  OBVIOUS
<1>1. Second \in Nat /\ fps \in Nat \ {0}
  BY TimerAssumption
<1>2. Second \div fps \in Nat
  BY <1>1
<1> QED
  BY <1>2, AtLeastPeriod DEF PeriodOf
----------------------------------------------------------------------------
(* The manager's operations. *)

(* With a name to spare there is a slot to spare: every timer that is set  *)
(* has a list of its own, and every list a locker.                         *)
LEMMA ListsPerName ==
  ASSUME NEW m, ManagerType(m), NEW name \in Names, name \notin DOMAIN m.lockers
  PROVE  IsFiniteSet(Needed(m)) /\ Cardinality(Needed(m)) < Slots
<1>1. IsFiniteSet(Names) /\ Cardinality(Names) \in Nat
      /\ Slots \in Nat /\ Cardinality(Names) <= Slots
  <2>1. NameOf \in Surjection(Users, Names)
    BY TimerAssumption, Fun_IsSurj DEF Names
  <2> QED
    BY <2>1, TimerAssumption, FS_Surjection, FS_CardinalityType
<1>2. /\ IsFiniteSet(Names \ {name})
      /\ Cardinality(Names \ {name}) = Cardinality(Names) - 1
  BY <1>1, FS_RemoveElement
<1>3. DOMAIN m.lockers \in SUBSET (Names \ {name})
  BY DEF ManagerType
<1>4. IsFiniteSet(DOMAIN m.lockers)
      /\ Cardinality(DOMAIN m.lockers) <= Cardinality(Names) - 1
  BY <1>2, <1>3, FS_Subset
<1> DEFINE f == [n \in DOMAIN m.lockers |-> ListOf(m.lockers[n])]
<1>5. f \in Surjection(DOMAIN m.lockers, Needed(m))
  <2>1. f \in [DOMAIN m.lockers -> Needed(m)]
    BY DEF Needed
  <2>2. \A t \in Needed(m) : \E n \in DOMAIN m.lockers : f[n] = t
    BY DEF Needed
  <2> HIDE DEF f
  <2> QED
    BY <2>1, <2>2, Fun_IsSurj
<1> HIDE DEF f
<1>6. IsFiniteSet(Needed(m)) /\ Cardinality(Needed(m)) <= Cardinality(DOMAIN m.lockers)
  BY <1>4, <1>5, FS_Surjection
<1>7. Cardinality(Needed(m)) \in Nat /\ Cardinality(DOMAIN m.lockers) \in Nat
  BY <1>4, <1>6, FS_CardinalityType
<1> QED
  BY <1>1, <1>4, <1>6, <1>7

LEMMA FreeSlot ==
  ASSUME NEW m, ManagerType(m), Timed(m),
         IsFiniteSet(DOMAIN m.lists), Cardinality(DOMAIN m.lists) < Slots
  PROVE  CreateTimerId(m.timers) \in Indices /\ m.timers[CreateTimerId(m.timers)] = 0
<1> DEFINE free == {i \in Indices : m.timers[i] = 0}
<1>1. free # {}
  <2> SUFFICES ASSUME \A i \in Indices : m.timers[i] # 0 PROVE FALSE
    OBVIOUS
  <2>1. m.timers \in [Indices -> DOMAIN m.lists]
    BY DEF ManagerType, Timed
  <2>2. \A i, j \in Indices : m.timers[i] = m.timers[j] => i = j
    BY DEF Timed
  <2>3. m.timers \in Injection(Indices, DOMAIN m.lists)
    BY <2>1, <2>2, Fun_IsInj
  <2>4. IsFiniteSet(Indices) /\ Cardinality(Indices) <= Cardinality(DOMAIN m.lists)
    BY <2>3, FS_Injection
  <2>5. Slots \in Nat /\ Cardinality(Indices) = Slots
    <3>1. Slots \in Nat /\ 0 \in Int /\ Slots - 1 \in Int
      BY TimerAssumption
    <3>2. Cardinality(0 .. (Slots - 1)) = IF 0 > Slots - 1 THEN 0 ELSE Slots - 1 - 0 + 1
      BY <3>1, FS_Interval
    <3> QED
      BY <3>1, <3>2 DEF Indices
  <2>6. Cardinality(DOMAIN m.lists) \in Nat
    BY FS_CardinalityType
  <2> QED
    BY <2>4, <2>5, <2>6
<1>2. free \in SUBSET Nat
  BY DEF Indices
<1>3. \A i \in free : i \in Indices /\ m.timers[i] = 0
  OBVIOUS
<1>4. CreateTimerId(m.timers) = IF free = {} THEN Slots
                                ELSE CHOOSE i \in free : \A j \in free : i <= j
  BY DEF CreateTimerId, Indices
<1> HIDE DEF free
<1>5. \E i \in free : \A j \in free : i <= j
  BY <1>1, <1>2, Least
<1>6. CreateTimerId(m.timers) \in free
  BY <1>1, <1>4, <1>5
<1> QED
  BY <1>3, <1>6

(* FinalizeList, on the list that lost a locker: the timer stays exactly   *)
(* if another locker of the same tick does.                                *)
LEMMA FinalizeKeeps ==
  ASSUME NEW m, ManagerType(m), Timed(m), NEW d,
         d \in DOMAIN m.lists, DOMAIN m.lists = Needed(m) \cup {d}
  PROVE  /\ Sound(FinalizeList(m, d))
         /\ FinalizeList(m, d).lockers = m.lockers
<1>1. CASE \E n \in DOMAIN m.lockers : ListOf(m.lockers[n]) = d
  <2>1. FinalizeList(m, d) = m
    BY <1>1 DEF FinalizeList, Emptied
  <2>2. d \in Needed(m)
    BY <1>1 DEF Needed
  <2> QED
    BY <2>1, <2>2 DEF Sound
<1>2. CASE ~ \E n \in DOMAIN m.lockers : ListOf(m.lockers[n]) = d
  <2> DEFINE r == FinalizeList(m, d)
             i == m.lists[d]
  <2>0. i \in Indices /\ m.timers[i] = d /\ d # 0 /\ m.timers \in [Indices -> Nat]
    BY TimerAssumption DEF Timed, ManagerType, Periods
  <2>1. m = [timers |-> m.timers, lists |-> m.lists, lockers |-> m.lockers]
    BY DEF ManagerType
  <2>2. r = [m EXCEPT !.timers[m.lists[d]] = 0,
                      !.lists = Restrict(@, DOMAIN @ \ {d})]
    BY <1>2 DEF FinalizeList, Emptied
  <2>3. r = [timers |-> [m.timers EXCEPT ![i] = 0],
             lists |-> Restrict(m.lists, DOMAIN m.lists \ {d}),
             lockers |-> m.lockers]
    BY <2>1, <2>2
  <2> HIDE DEF r
  <2>4. /\ r.timers = [m.timers EXCEPT ![i] = 0]
        /\ r.lists = [e \in DOMAIN m.lists \ {d} |-> m.lists[e]]
        /\ r.lockers = m.lockers
        /\ r = [timers |-> r.timers, lists |-> r.lists, lockers |-> r.lockers]
    BY <2>3 DEF Restrict
  <2>5. ManagerType(r)
    BY <2>0, <2>4 DEF ManagerType
  <2>6. Timed(r)
    BY <2>0, <2>4 DEF Timed
  <2>7. d \notin Needed(m) /\ Needed(r) = Needed(m)
    BY <1>2, <2>4 DEF Needed
  <2>8. DOMAIN r.lists = Needed(r)
    BY <2>4, <2>7
  <2> QED
    BY <2>4, <2>5, <2>6, <2>8 DEF Sound, r
<1> QED
  BY <1>1, <1>2

(* DeleteTimerLocker. *)
LEMMA DeletedSound ==
  ASSUME NEW m, Sound(m), NEW name \in Names
  PROVE  /\ Sound(Deleted(m, name))
         /\ name \notin DOMAIN Deleted(m, name).lockers
<1>1. CASE name \notin DOMAIN m.lockers
  BY <1>1 DEF Deleted
<1>2. CASE name \in DOMAIN m.lockers
  <2> DEFINE d == ListOf(m.lockers[name])
             r == [m EXCEPT !.lockers = Restrict(@, DOMAIN @ \ {name})]
  <2>1. Deleted(m, name) = FinalizeList(r, d)
    BY <1>2 DEF Deleted
  <2>2. /\ ManagerType(m) /\ Timed(m) /\ DOMAIN m.lists = Needed(m)
        /\ m = [timers |-> m.timers, lists |-> m.lists, lockers |-> m.lockers]
    BY DEF Sound, ManagerType
  <2>3. r = [timers |-> m.timers, lists |-> m.lists,
             lockers |-> Restrict(m.lockers, DOMAIN m.lockers \ {name})]
    BY <2>2
  <2> HIDE DEF r
  <2>4. /\ r.timers = m.timers /\ r.lists = m.lists
        /\ r.lockers = [n \in DOMAIN m.lockers \ {name} |-> m.lockers[n]]
        /\ r = [timers |-> r.timers, lists |-> r.lists, lockers |-> r.lockers]
    BY <2>3 DEF Restrict
  <2>5. ManagerType(r)
    BY <2>2, <2>4 DEF ManagerType
  <2>6. Timed(r)
    BY <2>2, <2>4 DEF Timed
  <2>7. d \in Needed(m) /\ Needed(m) = Needed(r) \cup {d}
    BY <1>2, <2>4 DEF Needed
  <2>8. d \in DOMAIN r.lists /\ DOMAIN r.lists = Needed(r) \cup {d}
    BY <2>2, <2>4, <2>7
  <2>9. Sound(FinalizeList(r, d)) /\ FinalizeList(r, d).lockers = r.lockers
    BY <2>5, <2>6, <2>8, FinalizeKeeps
  <2> QED
    BY <2>1, <2>4, <2>9
<1> QED
  BY <1>1, <1>2

(* GetList, with a slot to spare. *)
LEMMA WithListTimed ==
  ASSUME NEW m, ManagerType(m), Timed(m), NEW d \in Periods,
         IsFiniteSet(DOMAIN m.lists), Cardinality(DOMAIN m.lists) < Slots
  PROVE  /\ ManagerType(WithList(m, d)) /\ Timed(WithList(m, d))
         /\ DOMAIN WithList(m, d).lists = DOMAIN m.lists \cup {d}
         /\ WithList(m, d).lockers = m.lockers
<1>1. CASE d \in DOMAIN m.lists
  <2>1. WithList(m, d) = m /\ DOMAIN m.lists = DOMAIN m.lists \cup {d}
    BY <1>1 DEF WithList
  <2> QED
    BY <2>1
<1>2. CASE d \notin DOMAIN m.lists
  <2> DEFINE r == WithList(m, d)
             i == CreateTimerId(m.timers)
  <2>0. i \in Indices /\ m.timers[i] = 0 /\ d \in Nat /\ d # 0
        /\ m.timers \in [Indices -> Nat]
    BY FreeSlot, TimerAssumption DEF ManagerType, Periods
  <2>1. m = [timers |-> m.timers, lists |-> m.lists, lockers |-> m.lockers]
    BY DEF ManagerType
  <2>2. CreateTimer(m.timers, d) = [m.timers EXCEPT ![i] = d]
    BY <2>0 DEF CreateTimer
  <2>3. r = [timers |-> CreateTimer(m.timers, d),
             lists |-> [e \in DOMAIN m.lists \cup {d} |-> IF e = d THEN i ELSE m.lists[e]],
             lockers |-> m.lockers]
    BY <1>2, <2>1 DEF WithList
  <2> HIDE DEF r, i
  <2>4. /\ r.timers = [m.timers EXCEPT ![i] = d]
        /\ r.lists = [e \in DOMAIN m.lists \cup {d} |-> IF e = d THEN i ELSE m.lists[e]]
        /\ r.lockers = m.lockers
        /\ r = [timers |-> r.timers, lists |-> r.lists, lockers |-> r.lockers]
    BY <2>2, <2>3
  <2>5. ManagerType(r)
    BY <2>0, <2>4 DEF ManagerType
  <2>6. Timed(r)
    <3>1. \A e \in DOMAIN m.lists : e # 0 /\ e # d /\ m.lists[e] \in Indices
                                     /\ m.timers[m.lists[e]] = e
      BY <1>2, TimerAssumption DEF Timed, ManagerType, Periods
    <3>2. \A e \in DOMAIN m.lists : m.lists[e] # i
      BY <2>0, <3>1
    <3>3. \A e \in DOMAIN r.lists : r.lists[e] \in Indices /\ r.timers[r.lists[e]] = e
      BY <2>0, <2>4, <3>1, <3>2
    <3>4. \A j \in Indices :
            r.timers[j] # 0 => r.timers[j] \in DOMAIN r.lists /\ r.lists[r.timers[j]] = j
      BY <1>2, <2>0, <2>4 DEF Timed
    <3> QED
      BY <3>3, <3>4 DEF Timed
  <2> QED
    BY <2>4, <2>5, <2>6 DEF r
<1> QED
  BY <1>1, <1>2

(* GetTimerLockerByTime. *)
LEMMA GetTimerLockerSound ==
  ASSUME NEW m, Sound(m), NEW name \in Names, NEW ms \in Periods
  PROVE  Sound(GetTimerLockerByTime(m, name, ms))
<1> DEFINE k == Deleted(m, name)
           d == GetDivisor(ms)
           l == WithList(k, d)
           made == [period |-> ms, count |-> 0, signal |-> 0]
           r == GetTimerLockerByTime(m, name, ms)
<1>1. Sound(k) /\ name \notin DOMAIN k.lockers
  BY DeletedSound
<1>2. /\ ManagerType(k) /\ Timed(k) /\ DOMAIN k.lists = Needed(k)
      /\ IsFiniteSet(DOMAIN k.lists) /\ Cardinality(DOMAIN k.lists) < Slots
  BY <1>1, ListsPerName DEF Sound
<1>3. d \in Periods /\ d \in Nat \ {0}
  BY DivisorOfPeriod
<1>4. /\ ManagerType(l) /\ Timed(l) /\ DOMAIN l.lists = Needed(k) \cup {d}
      /\ l.lockers = k.lockers
  BY <1>2, <1>3, WithListTimed
<1>5. made \in LockerType /\ ListOf(made) = d
  BY <1>3 DEF LockerType, ListOf
<1> HIDE DEF k, l, made
<1>6. r = [l EXCEPT !.lockers = [n \in DOMAIN @ \cup {name} |->
                                   IF n = name THEN made ELSE @[n]]]
  BY DEF GetTimerLockerByTime, WithLocker, k, l, made
<1>7. l = [timers |-> l.timers, lists |-> l.lists, lockers |-> l.lockers]
  BY <1>4 DEF ManagerType
<1> HIDE DEF r, d
<1>8. /\ r.timers = l.timers /\ r.lists = l.lists
      /\ r.lockers = [n \in DOMAIN l.lockers \cup {name} |->
                        IF n = name THEN made ELSE l.lockers[n]]
      /\ r = [timers |-> r.timers, lists |-> r.lists, lockers |-> r.lockers]
  BY <1>6, <1>7
<1>9. ManagerType(r)
  BY <1>4, <1>5, <1>8 DEF ManagerType
<1>10. Timed(r)
  BY <1>4, <1>8 DEF Timed
<1>11. Needed(r) = Needed(k) \cup {d}
  BY <1>1, <1>4, <1>5, <1>8 DEF Needed
<1> QED
  BY <1>4, <1>8, <1>9, <1>10, <1>11 DEF Sound, r
----------------------------------------------------------------------------
(* The steps. *)
LEMMA ManagerBecomes ==
  ASSUME NEW m, Sound(m), Becomes(m)
  PROVE  TimersInv'
<1>1. m = [timers |-> m.timers, lists |-> m.lists, lockers |-> m.lockers]
  BY DEF Sound, ManagerType
<1>2. State' = m
  BY <1>1 DEF State, Becomes
<1> QED
  BY <1>2 DEF TimersInv

(* Lockers that change without a period changing keep their lists. *)
LEMMA LockersChange ==
  ASSUME TimersInv, timers' = timers, lists' = lists,
         DOMAIN lockers' = DOMAIN lockers,
         \A n \in DOMAIN lockers :
           lockers'[n] \in LockerType /\ lockers'[n].period = lockers[n].period
  PROVE  TimersInv'
<1> DEFINE m == State
           r == State'
<1>1. /\ m.timers = timers /\ m.lists = lists /\ m.lockers = lockers
      /\ r.timers = timers /\ r.lists = lists /\ r.lockers = lockers'
      /\ r = [timers |-> r.timers, lists |-> r.lists, lockers |-> r.lockers]
  BY DEF State
<1> HIDE DEF m, r
<1>2. Sound(m)
  BY DEF TimersInv, m
<1>3. ManagerType(r)
  BY <1>1, <1>2 DEF Sound, ManagerType
<1>4. Timed(r)
  BY <1>1, <1>2 DEF Sound, Timed
<1>5. Needed(r) = Needed(m)
  BY <1>1 DEF Needed, ListOf
<1>6. Sound(r)
  BY <1>1, <1>2, <1>3, <1>4, <1>5 DEF Sound
<1> QED
  BY <1>6 DEF TimersInv, r

LEMMA TimersStart == TimersInit => TimersInv
<1> SUFFICES ASSUME TimersInit PROVE Sound(State)
  BY DEF TimersInv
<1> DEFINE m == State
<1>1. /\ m.timers = [i \in Indices |-> 0] /\ m.lists = << >> /\ m.lockers = << >>
      /\ m = [timers |-> m.timers, lists |-> m.lists, lockers |-> m.lockers]
  BY DEF TimersInit, State, Indices
<1> HIDE DEF m
<1>2. DOMAIN m.lists = {} /\ DOMAIN m.lockers = {}
  BY <1>1
<1>3. ManagerType(m)
  BY <1>1, <1>2 DEF ManagerType
<1>4. Timed(m)
  BY <1>1, <1>2 DEF Timed
<1>5. Needed(m) = {}
  BY <1>2 DEF Needed
<1> QED
  BY <1>2, <1>3, <1>4, <1>5 DEF Sound, m

(* A tick of its own list changes no locker's period. *)
LEMMA TickTyped ==
  ASSUME NEW locker \in LockerType
  PROVE  /\ Tick(locker, ListOf(locker)) \in LockerType
         /\ Tick(locker, ListOf(locker)).period = locker.period
<1>1. locker.period \in Periods /\ locker.count \in Nat
  BY DEF LockerType
<1>2. ListOf(locker) \in Nat
  BY <1>1, DivisorOfPeriod DEF ListOf
<1>3. locker.count + ListOf(locker) \in Nat
  BY <1>1, <1>2
<1> QED
  BY <1>3 DEF LockerType, Tick

LEMMA TimersStep == TimersInv /\ [TimersNext]_timerVars => TimersInv'
<1> SUFFICES ASSUME TimersInv, [TimersNext]_timerVars PROVE TimersInv'
  OBVIOUS
<1>0. /\ Sound(State)
      /\ DOMAIN lockers \subseteq Names
      /\ \A n \in DOMAIN lockers : lockers[n] \in LockerType
  BY DEF TimersInv, Sound, ManagerType, State
<1>1. ASSUME UNCHANGED manager PROVE TimersInv'
  BY <1>1 DEF TimersInv, State, manager
<1>2. ASSUME CallbackTimer PROVE TimersInv'
  <2>1. timers' = timers /\ lists' = lists
    BY <1>2 DEF CallbackTimer
  <2>2. CASE lockers' = lockers
    BY <1>1, <2>1, <2>2 DEF manager
  <2>3. CASE lockers' = SendEvent(flight.value)
    <3>1. DOMAIN lockers' = DOMAIN lockers
      BY <2>3 DEF SendEvent
    <3>2. ASSUME NEW n \in DOMAIN lockers
          PROVE  lockers'[n] \in LockerType /\ lockers'[n].period = lockers[n].period
      <4>1. \/ lockers'[n] = lockers[n]
            \/ lockers'[n] = Tick(lockers[n], ListOf(lockers[n]))
        BY <2>3, <3>2 DEF SendEvent
      <4> QED
        BY <1>0, <3>2, <4>1, TickTyped
    <3> QED
      BY <2>1, <3>1, <3>2, LockersChange
  <2> QED
    BY <1>2, <2>2, <2>3 DEF CallbackTimer
<1>3. ASSUME NEW u \in Decoders, Wait(u) PROVE TimersInv'
  <2>1. timers' = timers /\ lists' = lists
        /\ lockers' = [lockers EXCEPT ![NameOf[u]].signal = 0]
    BY <1>3 DEF Wait
  <2>2. DOMAIN lockers' = DOMAIN lockers
    BY <2>1
  <2>3. ASSUME NEW n \in DOMAIN lockers
        PROVE  lockers'[n] \in LockerType /\ lockers'[n].period = lockers[n].period
    <3>1. \/ lockers'[n] = lockers[n]
          \/ lockers'[n] = [lockers[n] EXCEPT !.signal = 0]
      BY <2>1, <2>3
    <3>2. lockers[n] \in LockerType
      BY <1>0, <2>3
    <3> QED
      BY <3>1, <3>2 DEF LockerType, ListOf
  <2> QED
    BY <2>1, <2>2, <2>3, LockersChange
<1>4. ASSUME NEW u \in Users, NEW ms \in Periods,
             Becomes(GetTimerLockerByTime(State, NameOf[u], ms))
      PROVE  TimersInv'
  BY <1>0, <1>4, GetTimerLockerSound, ManagerBecomes DEF Names
<1>5. ASSUME NEW u \in Users, Becomes(Deleted(State, NameOf[u])) PROVE TimersInv'
  BY <1>0, <1>5, DeletedSound, ManagerBecomes DEF Names
<1>6. ASSUME TimerThread PROVE TimersInv'
  BY <1>1, <1>2, <1>6 DEF TimerThread, CallBack, Expire
<1>7. ASSUME NEW u \in Decoders, DecoderThread(u) \/ Stop(u) PROVE TimersInv'
  <2>0. u \in Users
    BY DEF Users
  <2>1. ASSUME StartLoop(u) PROVE TimersInv'
    <3>1. PICK fps \in DecodingFps :
            Becomes(GetTimerLockerByTime(State, NameOf[u], PeriodOf(fps)))
      BY <2>1 DEF StartLoop
    <3> QED
      BY <1>4, <2>0, <3>1, PeriodOfFps
  <2>2. ASSUME ChangeFps(u) PROVE TimersInv'
    <3>1. PICK fps \in DecodingFps :
            Becomes(GetTimerLockerByTime(State, NameOf[u], PeriodOf(fps)))
      BY <2>2 DEF ChangeFps
    <3> QED
      BY <1>4, <2>0, <3>1, PeriodOfFps
  <2>3. ASSUME EndLoop(u) PROVE TimersInv'
    BY <1>5, <2>0, <2>3 DEF EndLoop
  <2>4. ASSUME SameFps(u) \/ UseStale(u) \/ Stop(u) PROVE TimersInv'
    BY <1>1, <2>4 DEF SameFps, UseStale, Stop
  <2> QED
    BY <1>3, <1>7, <2>1, <2>2, <2>3, <2>4 DEF DecoderThread
<1>8. ASSUME NEW w \in Works, AddWork(w) \/ DeleteWork(w) PROVE TimersInv'
  <2>0. w \in Users /\ AtLeast(WorkPeriod) \in Periods
    BY TimerAssumption, AtLeastPeriod DEF Users
  <2>1. ASSUME AddWork(w) PROVE TimersInv'
    BY <1>4, <2>0, <2>1 DEF AddWork
  <2>2. ASSUME DeleteWork(w) PROVE TimersInv'
    BY <1>5, <2>0, <2>2 DEF DeleteWork
  <2> QED
    BY <1>8, <2>1, <2>2
<1>9. CASE UNCHANGED timerVars
  BY <1>1, <1>9 DEF timerVars
<1> QED
  BY <1>6, <1>7, <1>8, <1>9 DEF TimersNext

LEMMA TimersInductive == TimersSpec => []TimersInv
  BY TimersStart, TimersStep, PTL DEF TimersSpec
----------------------------------------------------------------------------
(* Every list has a timer of its own that ticks at its length, and a list  *)
(* is there exactly while some locker needs it, whichever lockers were     *)
(* replaced and deleted.                                                   *)
THEOREM TimersListsHaveTimers == TimersSpec => []ListsHaveTimers
<1>1. TimersInv => ListsHaveTimers
  <2> SUFFICES ASSUME TimersInv PROVE ListsHaveTimers
    OBVIOUS
  <2>1. /\ timers \in [Indices -> Nat]
        /\ \A d \in DOMAIN lists : lists[d] \in Indices /\ timers[lists[d]] = d
        /\ \A i \in Indices :
             timers[i] # 0 => timers[i] \in DOMAIN lists /\ lists[timers[i]] = i
        /\ DOMAIN lists = {ListOf(lockers[n]) : n \in DOMAIN lockers}
    BY DEF TimersInv, Sound, ManagerType, Timed, Needed, State
  <2> QED
    BY <2>1 DEF ListsHaveTimers
<1> QED
  BY <1>1, TimersInductive, PTL

(* CreateTimerId always finds a free slot of m_timers, if there is a slot  *)
(* for each name: a locker's predecessor is deleted first.                 *)
THEOREM TimersSlotsSuffice == TimersSpec => []SlotsSuffice
<1>1. TimersInv => SlotsSuffice
  <2> SUFFICES ASSUME TimersInv PROVE SlotsSuffice
    OBVIOUS
  <2>1. \A d \in DOMAIN lists : lists[d] \in Indices
    BY DEF TimersInv, Sound, Timed, State
  <2> QED
    BY <2>1, TimerAssumption DEF SlotsSuffice, Indices
<1> QED
  BY <1>1, TimersInductive, PTL
=============================================================================
