---------------------------- MODULE PacketCodec ----------------------------
(***************************************************************************)
(* How a packet becomes bytes and is read back: a PacketStruct writes its  *)
(* fields with CPacketWriter into the sender's buffer, which is used again *)
(* for every packet, and the receive worker takes the bytes apart with     *)
(* CPacketReader, one block at a time.                                     *)
(*                                                                         *)
(* Bytes are cells.  STX, ETX, a length, a name and a delimiter take one   *)
(* cell each; a field's value is its text, of any number of cells, the     *)
(* cells that also delimit included.  A number is written as its decimal   *)
(* digits (to_string) and read back from them (stoi).                      *)
(***************************************************************************)
EXTENDS Integers, Sequences, Functions

CONSTANTS
  Types,        (* the kinds of packets that are sent                      *)
  Texts,        (* texts of a field that are out of the ordinary           *)
  Numbers,      (* such numbers                                            *)
  BufferSize,   (* of m_packet_buffer when the sender is activated         *)
  LeastSize,    (* the 1024 bytes of CPacketWriter::Start                  *)
  MaxPackets    (* bound: packets in one behaviour                         *)

Char(x) == <<"char", x>>
Length(n) == <<"length", n>>
STX == Char("STX")
ETX == Char("ETX")
StartBlockDelimiter == Char("NUL")
BlockDataDelimiter == Char(":")
Stale == StartBlockDelimiter    (* resize fills with zeros                  *)

PosMainLength == 2
PosMainName == 3

ASSUME CodecAssumption ==
  /\ \A t \in Texts : t \in Seq({"char"} \X STRING)
  /\ Numbers \subseteq Int
  /\ LeastSize \in Nat \ (0..4)
  /\ {BufferSize, MaxPackets} \subseteq Nat
----------------------------------------------------------------------------
(* The fields of each packet, in the order in which they are written.      *)
FrameFields ==
  <<"GUID", "StreamIndex", "OrderNum", "SWidth", "SHeight", "FrameType", "FPixelFormat",
    "FWidth", "FHeight", "VCodecId", "FrameData">>
ProcessInfoReqFields == <<"QueueName", "SyncCount">>
ProcessInfoFields == <<"Name", "PID", "PacketVersion">>
StreamInfoFields == <<"SetupFile">>
StreamRequestFields ==
  <<"QueueName", "StreamIndex", "VideoStreaming", "FrameType", "PixelFormat", "Width",
    "Height">>
StreamStatusFields == <<"StreamIndex", "Status">>

CreateFactory ==
  [PACKEK_TYPE_FRAME            |-> FrameFields,
   PACKEK_TYPE_PROCESS_INFO_REQ |-> ProcessInfoReqFields,
   PACKEK_TYPE_PROCESS_INFO     |-> ProcessInfoFields,
   PACKEK_TYPE_STREAM_INFO      |-> StreamInfoFields,
   PACKEK_TYPE_STREAM_REQUEST   |-> StreamRequestFields,
   PACKEK_TYPE_STREAM_STATUS    |-> StreamStatusFields]

ASSUME TypesAssumption == Types \subseteq DOMAIN CreateFactory

(* Their C++ types: string or bytes, bool, and int.                        *)
TextFields == {"GUID", "FrameData", "QueueName", "Name", "PacketVersion", "SetupFile"}
FlagFields == {"VideoStreaming"}

(* A packet: its kind, and a value for each field, which is an ordinary    *)
(* one but for one field.                                                  *)
OneOf(f, text, flag, number) ==
  IF f \in TextFields THEN text ELSE IF f \in FlagFields THEN flag ELSE number
Plain(f) == OneOf(f, <<Char("1")>>, TRUE, 1)
Values(f) == OneOf(f, Texts, BOOLEAN, Numbers)
Struct(type, f, v) ==
  [type |-> type,
   value |-> [g \in Range(CreateFactory[type]) |-> IF g = f THEN v ELSE Plain(g)]]

(* std::to_string and std::stoi. *)
Digits == <<"0", "1", "2", "3", "4", "5", "6", "7", "8", "9">>
Decimal[n \in Nat] ==
  (IF n < 10 THEN << >> ELSE Decimal[n \div 10]) \o <<Char(Digits[(n % 10) + 1])>>
DecimalText(n) == IF n < 0 THEN <<Char("-")>> \o Decimal[-n] ELSE Decimal[n]

DigitOf(c) == CHOOSE k \in 0..9 : Char(Digits[k + 1]) = c
Unsigned(t) ==
  LET value[i \in 0..Len(t)] == IF i = 0 THEN 0 ELSE 10 * value[i - 1] + DigitOf(t[i])
  IN  value[Len(t)]
Stoi(t) == IF Head(t) = Char("-") THEN -Unsigned(Tail(t)) ELSE Unsigned(t)

(* The overloads of Write and Read by the type of their argument. *)
TextOf(f, v) == OneOf(f, v, DecimalText(IF v THEN 1 ELSE 0), DecimalText(v))
ValueOf(f, t) == OneOf(f, t, Stoi(t) # 0, Stoi(t))

VARIABLES
  writer,    (* where the sender is: "idle", "open", "sent"                *)
  struct,    (* the packet it sends                                        *)
  left,      (* the fields it has still to write                           *)
  buffer,    (* its buffer, and m_pos in it                                *)
  pos,
  whole,     (* everything was written inside the buffer                   *)
  reader,    (* where the receive worker is: "idle", "blocks", "read",     *)
             (* "refused"                                                  *)
  packet,    (* what it took from the queue                                *)
  at,        (* nPos of DoAnalyze                                          *)
  items,     (* m_block_items                                              *)
  packets

sender == <<writer, struct, left, buffer, pos, whole, packets>>
receiver == <<reader, packet, at, items>>
codec == <<sender, receiver>>

PacketsInit ==
  /\ writer = "idle" /\ struct = << >> /\ left = << >>
  /\ buffer = [i \in 1..BufferSize |-> Stale] /\ pos = 0 /\ whole = TRUE
  /\ reader = "idle" /\ packet = << >> /\ at = 0 /\ items = << >>
  /\ packets = 0
----------------------------------------------------------------------------
(* CPacketWriter.  m_pos is pos: the next cell to write is pos + 1.        *)
Resized(b, n) == b \o [i \in 1..(n - Len(b)) |-> Stale]

(* WriteCurBuffer, into a buffer that is large enough. *)
Written(b, p, cells) ==
  [i \in 1..Len(b) |-> IF i \in (p + 1)..(p + Len(cells)) THEN cells[i - p] ELSE b[i]]

(* The cell of the main length is left as it is. *)
StartCells(b, name) == <<STX, b[PosMainLength], Char(name), StartBlockDelimiter>>

Start(s) ==
  LET b == IF Len(buffer) < LeastSize THEN Resized(buffer, LeastSize) ELSE buffer
      cells == StartCells(b, s.type)
  IN  /\ buffer' = Written(b, 0, cells)
      /\ pos' = Len(cells)

Writer(s) ==
  /\ writer = "idle" /\ packets < MaxPackets
  /\ writer' = "open"
  /\ struct' = s /\ left' = CreateFactory[s.type]
  /\ whole' = TRUE
  /\ packets' = packets + 1
  /\ Start(s)
  /\ UNCHANGED receiver

BlockHeaderLength == 3

(* Mutant: the buffer grows only for a block that is larger than it. *)
CheckBufferLate(len) == IF len > Len(buffer) THEN Resized(buffer, Len(buffer) + len) ELSE buffer

CheckBuffer(len) ==
  IF pos + len > Len(buffer) THEN Resized(buffer, Len(buffer) + len) ELSE buffer

(* Mutant: the length of a block is that of its data. *)
BlockDataOnly(name, data) ==
  <<Length(Len(data)), Char(name), BlockDataDelimiter>> \o data

Block(name, data) ==
  <<Length(BlockHeaderLength + Len(data)), Char(name), BlockDataDelimiter>> \o data

WriteField ==
  LET cells == Block(Head(left), TextOf(Head(left), struct.value[Head(left)]))
      b == CheckBuffer(Len(cells))
  IN  /\ writer = "open" /\ left # << >>
      /\ left' = Tail(left)
      /\ buffer' = Written(b, pos, cells)
      /\ pos' = pos + Len(cells)
      /\ whole' = (whole /\ pos + Len(cells) <= Len(b))
      /\ UNCHANGED <<writer, struct, packets, receiver>>

(* ETX is written without CheckBuffer.  Past the end of the buffer, what   *)
(* is sent may be ETX or what the memory's other user wrote there.         *)
EndCell == IF pos < Len(buffer) THEN {ETX} ELSE {ETX, Stale}

(* The packet enters the queue as GetPos() bytes from the buffer, and the  *)
(* reader takes as many as the packet says it has.                         *)
End ==
  /\ writer = "open" /\ left = << >>
  /\ \E etx \in EndCell :
       LET b == Written(Written(buffer, pos, <<etx>>), PosMainLength - 1, <<Length(pos + 1)>>)
       IN  /\ buffer' = b
           /\ packet' = SubSeq(IF pos < Len(b) THEN b ELSE Append(b, etx), 1, pos + 1)
  /\ pos' = pos + 1
  /\ whole' = (whole /\ pos < Len(buffer))
  /\ writer' = "sent"
  /\ UNCHANGED <<struct, left, packets, reader, at, items>>
----------------------------------------------------------------------------
(* CPacketReader.                                                          *)
MainLength == packet[PosMainLength][2]
HasSTX == packet[1] = STX
HasETX == packet[MainLength] = ETX

(* The first delimiter after a name, which has one character at least. *)
NameEnd(from, delimiter) ==
  CHOOSE i \in (from + 1)..Len(packet) :
    packet[i] = delimiter /\ \A k \in (from + 1)..(i - 1) : packet[k] # delimiter

MainName == SubSeq(packet, PosMainName, NameEnd(PosMainName, StartBlockDelimiter) - 1)

(* A block at place p: its name, its data, and the length it gives itself. *)
BlockLength(p) == packet[p][2]
BlockItem(p) ==
  LET e == NameEnd(p + 1, BlockDataDelimiter)
  IN  [name |-> SubSeq(packet, p + 1, e - 1),
       data |-> SubSeq(packet, e + 1, p + BlockLength(p) - 1)]

(* DoAnalyze, up to its loop. *)
DoAnalyze ==
  /\ writer = "sent" /\ reader = "idle"
  /\ IF HasSTX /\ HasETX
     THEN /\ reader' = "blocks"
          /\ at' = PosMainName + Len(MainName) + 1
     ELSE /\ reader' = "refused" /\ UNCHANGED at
  /\ items' = << >>
  /\ UNCHANGED <<packet, sender>>

BlocksEnd == MainLength

NextBlock ==
  /\ reader = "blocks" /\ at < BlocksEnd
  /\ items' = Append(items, BlockItem(at))
  /\ at' = at + BlockLength(at)
  /\ UNCHANGED <<reader, packet, sender>>

AnalyzeEnds ==
  /\ reader = "blocks" /\ at >= BlocksEnd
  /\ reader' = "read"
  /\ UNCHANGED <<packet, at, items, sender>>

(* CPacketReader::Read: the first block of that name. *)
Read(name) ==
  LET found == {i \in DOMAIN items : items[i].name = <<Char(name)>>}
  IN  items[CHOOSE i \in found : \A k \in found : i <= k].data

(* The packet is handled, the next one may be sent. *)
Done ==
  /\ reader \in {"read", "refused"}
  /\ writer' = "idle" /\ reader' = "idle"
  /\ packet' = << >> /\ items' = << >> /\ at' = 0
  /\ struct' = << >>
  /\ UNCHANGED <<left, buffer, pos, whole, packets>>

PacketsNext ==
  \/ \E type \in Types : \E f \in Range(CreateFactory[type]) :
       \E v \in Values(f) : Writer(Struct(type, f, v))
  \/ WriteField \/ End
  \/ DoAnalyze \/ NextBlock \/ AnalyzeEnds \/ Done

PacketsSpec == PacketsInit /\ [][PacketsNext]_codec

----------------------------------------------------------------------------
Fields == CreateFactory[struct.type]

(* What the reader has taken apart is what was written, field by field,    *)
(* though the buffer holds what an earlier packet left and a text may hold *)
(* every delimiter; at the end each field is found by its name, with the   *)
(* value it had.                                                           *)
ReadsBack ==
  /\ reader = "blocks" =>
       /\ Len(items) <= Len(Fields)
       /\ \A i \in DOMAIN items :
            items[i] = [name |-> <<Char(Fields[i])>>,
                        data |-> TextOf(Fields[i], struct.value[Fields[i]])]
  /\ reader = "read" =>
       /\ MainName = <<Char(struct.type)>>
       /\ Len(items) = Len(Fields)
       /\ \A f \in Range(Fields) : ValueOf(f, Read(f)) = struct.value[f]

(* Only ETX is ever written outside the buffer: every block is written     *)
(* inside it, whatever was left in it and however little room the blocks   *)
(* before it left, and a packet is refused by the reader only if its ETX   *)
(* did not fit.                                                            *)
OnlyETXOverruns ==
  /\ writer = "open" => whole /\ pos <= Len(buffer)
  /\ reader = "refused" => ~whole
=============================================================================
