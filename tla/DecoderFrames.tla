--------------------------- MODULE DecoderFrames ---------------------------
(***************************************************************************)
(* A decoder between three threads: the session's thread pushes encoded    *)
(* pictures (QueuePush), the decoder's thread decodes them, converts them  *)
(* to the size a client asked for and calls back, and the receive worker   *)
(* changes that size at any moment (SetFrameInfo).                         *)
(*                                                                         *)
(* A picture is in two queues, its bytes in m_queue_stream and its length  *)
(* in m_queue_src; a byte is the number of its picture.  There is one kind *)
(* of frame beside the original, which has a size, that of the stream, but *)
(* is never converted: nothing sets its decode flag.  SetFrameInfo writes  *)
(* under m_frame_info_mutex, but DecoderImpl_FFmpeg::Decode reads without  *)
(* it: it may see some members of the old and some of the new value.       *)
(***************************************************************************)
EXTENDS Naturals, Sequences

CONSTANTS
  Lengths,      (* lengths of encoded pictures                             *)
  QueueRoom,    (* bytes that m_queue_stream takes                         *)
  Requests,     (* frame infos that clients ask for                        *)
  StreamSizes,  (* sizes that a stream's pictures may have                 *)
  LeastData,    (* the 128 bytes below which nothing is converted          *)
  MaxPictures,  (* bound: pictures pushed in one behaviour                 *)
  MaxChanges    (* bound: calls of SetFrameInfo in one behaviour           *)

(* FrameInfo.  BGR24 and RGB24 are one format here, "rgb"; a format that   *)
(* the decoder does not know is "other".                                   *)
Known == {"rgb", "yuy2", "yv12"}
FrameInfos ==
  [format : Known \cup {"none", "other"}, width : Nat, height : Nat, decode : BOOLEAN]
NoInfo == [format |-> "none", width |-> 0, height |-> 0, decode |-> FALSE]

ASSUME FramesAssumption ==
  /\ Lengths \subseteq Nat \ {0} /\ Requests \subseteq FrameInfos
  /\ StreamSizes \subseteq Nat \ {0}
  /\ {QueueRoom, LeastData, MaxPictures, MaxChanges} \subseteq Nat

(* Bytes of a picture as FFmpeg counts them, where pixels that share their *)
(* colours come in pairs, and as the decoder does, with the lines of an    *)
(* RGB picture in whole words.                                             *)
Pairs(n) == (n + 1) \div 2
ImageBufferSize(i) ==
  CASE i.format = "rgb"  -> (i.width * 3) * i.height
    [] i.format = "yuy2" -> (Pairs(i.width) * 4) * i.height
    [] i.format = "yv12" -> i.width * i.height + 2 * (Pairs(i.width) * Pairs(i.height))
    [] OTHER             -> 0
CalcBufferSize(i) ==
  CASE i.format = "rgb"  -> (((i.width * 3 + 3) \div 4) * 4) * i.height
    [] i.format = "yuy2" -> (i.width * i.height) * 2
    [] i.format = "yv12" -> i.width * i.height + ((i.width * i.height) \div 2)
    [] OTHER             -> 0

VARIABLES
  src,       (* m_queue_src: [id, length] of each picture                  *)
  stream,    (* m_queue_stream: bytes                                      *)
  info,      (* the frame info, and what SetFrameInfo is writing           *)
  change,
  original,  (* FT_ORIGINAL: the size of the stream, 0 until it is known   *)
  thread,    (* where the decoder's thread is                              *)
  item,      (* src_item, and the bytes it took for it                     *)
  bytes,
  room,      (* arr_buffer_dst: its size, and what was converted into it   *)
  image,
  dst,       (* DecoderVideoDest: info, original, data (a buffer was       *)
             (* there), current (it is the one that is there now), size    *)
  steady,    (* the frame info has not changed since dst was set           *)
  pictures, changes

queues == <<src, stream>>
infos == <<info, change>>
buffers == <<room, image>>
frameVars == <<queues, infos, original, thread, item, bytes, buffers, dst, steady, pictures, changes>>

NoItem == [id |-> 0, length |-> 0]
NoDst == [info |-> NoInfo, original |-> 0, data |-> FALSE, current |-> FALSE, size |-> 0]
NoImage == [id |-> 0, format |-> "none", width |-> 0, height |-> 0, length |-> 0]

FramesInit ==
  /\ src = << >> /\ stream = << >>
  /\ info = NoInfo /\ change = << >> /\ original = 0
  /\ thread = "pop" /\ item = NoItem /\ bytes = << >>
  /\ room = 0 /\ image = NoImage /\ dst = NoDst /\ steady = TRUE
  /\ pictures = 0 /\ changes = 0

Changing == change # << >>      (* m_frame_info_mutex is taken             *)
----------------------------------------------------------------------------
(* QueuePush, under m_queue_mutex.  A picture that does not fit is lost.   *)
PushBytes(n) == [k \in 1..n |-> pictures + 1]

HasRoom(n) == Len(stream) + n <= QueueRoom

QueuePushWhen(n, taken, listed) ==
  /\ pictures < MaxPictures
  /\ pictures' = pictures + 1
  /\ stream' = IF taken THEN stream \o PushBytes(n) ELSE stream
  /\ src' = IF listed THEN Append(src, [id |-> pictures + 1, length |-> n]) ELSE src
  /\ UNCHANGED <<infos, original, thread, item, bytes, buffers, dst, steady, changes>>

(* Mutant: a picture is listed although the queue did not take it. *)
QueuePushAlways(n) == QueuePushWhen(n, HasRoom(n), TRUE)

QueuePush(n) == QueuePushWhen(n, HasRoom(n), HasRoom(n))

(* SetFrameInfo: takes the mutex, writes the members, lets it go. *)
SetFrameInfo(i) ==
  /\ ~Changing /\ changes < MaxChanges
  /\ change' = <<i>>
  /\ changes' = changes + 1
  /\ steady' = FALSE
  /\ UNCHANGED <<queues, info, original, thread, item, bytes, buffers, dst, pictures>>

FrameInfoSet ==
  /\ Changing
  /\ info' = change[1] /\ change' = << >>
  /\ UNCHANGED <<queues, original, thread, item, bytes, buffers, dst, steady, pictures, changes>>
----------------------------------------------------------------------------
(* One round of ThreadLoop.                                                *)
Step(from, to) == thread = from /\ thread' = to

(* Front and Pop, under m_queue_mutex.  If there were fewer bytes, both    *)
(* would fail, unnoticed, and the bytes be those of the last picture.      *)
PopSource ==
  /\ Step("pop", "set_dst") /\ src # << >>
  /\ item' = Head(src) /\ src' = Tail(src)
  /\ IF Head(src).length <= Len(stream)
     THEN /\ bytes' = SubSeq(stream, 1, Head(src).length)
          /\ stream' = SubSeq(stream, Head(src).length + 1, Len(stream))
     ELSE UNCHANGED <<bytes, stream>>
  /\ UNCHANGED <<infos, original, buffers, dst, steady, pictures, changes>>

SetDstBufferInfo ==
  /\ Step("set_dst", "decode") /\ ~Changing
  /\ dst' = [info |-> info, original |-> original, data |-> room > 0, current |-> room > 0, size |-> room]
  /\ steady' = TRUE
  /\ UNCHANGED <<queues, infos, original, item, bytes, buffers, pictures, changes>>

(* What Decode may see of the frame info. *)
Seen ==
  IF Changing
  THEN [format : {info.format, change[1].format}, width : {info.width, change[1].width},
        height : {info.height, change[1].height}, decode : {info.decode, change[1].decode}]
  ELSE {info}

Fits(i) == dst.size >= ImageBufferSize(i)

NotDecoded(i) ==
  ~(dst.data /\ dst.size >= LeastData /\ i.decode /\ i.format # "none" /\ Fits(i))

(* FFmpeg converts into a picture that has a size and a format it knows.   *)
Convert(i) ==
  /\ i.format \in Known /\ i.width > 0 /\ i.height > 0
  /\ image' = [id |-> item.id, format |-> i.format, width |-> i.width, height |-> i.height,
               length |-> ImageBufferSize(i)]

(* The size of the stream is written without the mutex, after this round's *)
(* dst took it.                                                            *)
Decode ==
  /\ Step("decode", "alloc")
  /\ original' \in StreamSizes
  /\ \E i \in Seen : IF NotDecoded(i) THEN UNCHANGED image ELSE Convert(i)
  /\ UNCHANGED <<queues, infos, item, bytes, room, dst, steady, pictures, changes>>

(* FFmpeg needs more, or fails; or the conversion fails, and the size of   *)
(* the stream is written.  The picture is lost.                            *)
DecodeFails ==
  /\ Step("decode", "pop")
  /\ original' \in StreamSizes \cup {original}
  /\ UNCHANGED <<queues, infos, item, bytes, buffers, dst, steady, pictures, changes>>

(* SetAllocBuffer is called when the stream's size is known. *)
Wanted ==
  /\ original > 0
  /\ info.format # "none" /\ info.decode /\ info.width # 0 /\ info.height # 0

(* A buffer that was too small is replaced, and the picture is given up.   *)
AllocThen(goes_on, size) ==
  /\ Step("alloc", goes_on) /\ ~Changing
  /\ Wanted /\ room < CalcBufferSize(info)
  /\ room' = CalcBufferSize(info)
  /\ dst' = [dst EXCEPT !.current = FALSE, !.size = size]
  /\ UNCHANGED <<queues, infos, original, item, bytes, image, steady, pictures, changes>>

(* Mutant: the round goes on with the buffer it had. *)
SetAllocBufferGoesOn == AllocThen("callback", CalcBufferSize(info))

SetAllocBuffer == AllocThen("pop", CalcBufferSize(info))

BufferSuffices(size) ==
  /\ Step("alloc", "callback") /\ ~Changing
  /\ ~(Wanted /\ room < CalcBufferSize(info))
  /\ dst' = [dst EXCEPT !.size = size]
  /\ UNCHANGED <<queues, infos, original, item, bytes, buffers, steady, pictures, changes>>

(* Mutant: the size of a frame is that of its buffer. *)
KeepBufferWhole == BufferSuffices(dst.size)

KeepBuffer == BufferSuffices(IF Wanted THEN CalcBufferSize(info) ELSE dst.size)

(* callback_decompress: SendFrame sends dst.size bytes of the buffer. *)
Callback ==
  /\ Step("callback", "pop")
  /\ UNCHANGED <<queues, infos, original, item, bytes, buffers, dst, steady, pictures, changes>>
----------------------------------------------------------------------------
(* Deactivate and Activate: the thread ends between two rounds; the next   *)
(* one has new buffers, and the queues as they are.                        *)
Restart ==
  /\ Step("pop", "pop") /\ room > 0
  /\ room' = 0 /\ image' = NoImage /\ dst' = NoDst
  /\ item' = NoItem /\ bytes' = << >>
  /\ UNCHANGED <<queues, infos, original, steady, pictures, changes>>

(* Finalize, and a new decoder, by the thread that changes the frame info. *)
Replace ==
  /\ Step("pop", "pop") /\ ~Changing
  /\ room' = 0 /\ image' = NoImage /\ dst' = NoDst
  /\ item' = NoItem /\ bytes' = << >>
  /\ src' = << >> /\ stream' = << >> /\ info' = NoInfo /\ original' = 0
  /\ UNCHANGED <<change, steady, pictures, changes>>

FramesNext ==
  \/ \E n \in Lengths : QueuePush(n)
  \/ \E i \in Requests : SetFrameInfo(i)
  \/ FrameInfoSet
  \/ PopSource \/ SetDstBufferInfo \/ Decode \/ DecodeFails \/ SetAllocBuffer
  \/ KeepBuffer \/ Callback \/ Restart \/ Replace

FramesSpec == FramesInit /\ [][FramesNext]_frameVars
----------------------------------------------------------------------------
(* Every variable keeps its range. *)
FramesTypeOK ==
  /\ src \in Seq([id : 1..MaxPictures, length : Lengths])
  /\ stream \in Seq(1..MaxPictures) /\ Len(stream) <= QueueRoom
  /\ info \in Requests \cup {NoInfo} /\ original \in StreamSizes \cup {0}
  /\ change = << >> \/ \E i \in Requests : change = <<i>>
  /\ thread \in {"pop", "set_dst", "decode", "alloc", "callback"}
  /\ item \in [id : 0..MaxPictures, length : Nat]
  /\ bytes \in Seq(1..MaxPictures)
  /\ room \in Nat
  /\ image \in [id : 0..MaxPictures, format : Known \cup {"none"},
                width : Nat, height : Nat, length : Nat]
  /\ dst \in [info : Requests \cup {NoInfo}, original : StreamSizes \cup {0},
              data : BOOLEAN, current : BOOLEAN, size : Nat]
  /\ steady \in BOOLEAN
  /\ pictures \in 0..MaxPictures /\ changes \in 0..MaxChanges

(* The two queues stay in step, whatever was lost for want of room: what   *)
(* the decoder takes is one whole picture, and its own.                    *)
OnePicture ==
  thread # "pop" =>
    Len(bytes) = item.length /\ \A k \in DOMAIN bytes : bytes[k] = item.id

ConvertsInside == image.length <= room
SendsInside == thread = "callback" /\ dst.data => dst.current /\ dst.size <= room

(* A conversion writes inside the buffer, whichever members of a frame     *)
(* info that is being changed it saw; and the frame that is sent is in the *)
(* buffer that is there, and all of it, whenever the size was changed.     *)
StaysInside == ConvertsInside /\ SendsInside

(* The frame that is sent was converted from the picture just decoded, is  *)
(* what its header says and comes whole.                                   *)
AsItSays ==
  LET i == dst.info
  IN  /\ dst.data /\ image.length <= dst.size /\ dst.size = CalcBufferSize(i)
      /\ image.id = item.id
      /\ image.format = i.format /\ image.width = i.width /\ image.height = i.height

(* A frame is sent that was asked for before the round began. *)
Due ==
  LET i == dst.info
  IN  /\ thread = "callback" /\ steady
      /\ i.decode /\ i.format \in Known /\ i.width > 0 /\ i.height > 0
      /\ CalcBufferSize(i) >= LeastData

(* No pixel is left without the one it shares its colours with. *)
WholePairs(i) ==
  /\ i.format \in {"yuy2", "yv12"} => i.width % 2 = 0
  /\ i.format = "yv12" => i.height % 2 = 0

(* Unless the frame info changed in this round, a frame that is wanted,    *)
(* and whose pixels come in pairs where its format has them so, is         *)
(* converted from the picture just decoded and sent whole under its own    *)
(* format and size.                                                        *)
SendsWhatItSays == Due /\ WholePairs(dst.info) => AsItSays
=============================================================================
