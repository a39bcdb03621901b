----------------------------- MODULE WireFormat -----------------------------
(***************************************************************************)
(* What the generated code of CameraInfoFile.pb.cc takes from the protocol *)
(* buffer library, and the conversion of names to UTF-8 and back.          *)
(*                                                                         *)
(* A byte is a number of 0..255 and a std::string a sequence of bytes.  A  *)
(* wide string is the sequence of its characters.  A uint32 is taken       *)
(* modulo IntSpan.                                                         *)
(***************************************************************************)
EXTENDS Integers, Sequences, FiniteSetsExt

CONSTANT IntSpan     (* the numbers of a uint32: 2^32 in the program *)

ASSUME WireAssumption ==
  /\ IntSpan \in Nat /\ IntSpan > 128 * 128 /\ IntSpan % 2 = 0
  /\ IntSpan \div 4 <= 1024 * 1024 * 1024

(* A byte of a text or a file. *)
Octet == 0..255

(* The conversions between int and uint32 of an assignment. *)
ToUInt32(i) == i % IntSpan
ToInt(u) == IF u < IntSpan \div 2 THEN u ELSE u - IntSpan
(* Loops over a sequence that put its parts together, or add them up.      *)
Concatenated(parts) ==
  LET first[n \in 0..Len(parts)] == IF n = 0 THEN << >> ELSE first[n - 1] \o parts[n]
  IN  first[Len(parts)]
Total(sizes) ==
  LET first[n \in 0..Len(sizes)] == IF n = 0 THEN 0 ELSE first[n - 1] + sizes[n]
  IN  first[Len(sizes)]
----------------------------------------------------------------------------
(* Writing.                                                                *)
Varint[n \in Nat] == IF n < 128 THEN <<n>> ELSE <<128 + (n % 128)>> \o Varint[n \div 128]
UInt32Size(n) ==
  CASE n < 128 -> 1
    [] n >= 128 /\ n < 128 * 128 -> 2
    [] n >= 128 * 128 /\ n < 128 * 128 * 128 -> 3
    [] n >= 128 * 128 * 128 /\ n < 128 * 128 * 128 * 128 -> 4
    [] n >= 128 * 128 * 128 * 128 -> 5

VarintType == 0
DelimitedType == 2
Tag(number, type) == Varint[8 * number + type]

WriteString(number, s) == Tag(number, DelimitedType) \o Varint[Len(s)] \o s
WriteUInt32(number, n) == Tag(number, VarintType) \o Varint[n]
WriteBool(number, b) == Tag(number, VarintType) \o <<IF b THEN 1 ELSE 0>>

(* A message inside another one: its length is the one ByteSizeLong left   *)
(* in _cached_size_.                                                       *)
WriteMessage(number, cached_size, bytes) ==
  Tag(number, DelimitedType) \o Varint[cached_size] \o bytes

StringSize(s) == UInt32Size(Len(s)) + Len(s)
MessageSize(size) == UInt32Size(size) + size

(* A field is written, or counted, unless it has its default value. *)
Unless(default, bytes) == IF default THEN << >> ELSE bytes
UnlessSize(default, size) == IF default THEN 0 ELSE size
----------------------------------------------------------------------------
(* UTF-8: the bytes of a character, and the characters of bytes.  A byte   *)
(* after the first one has six bits.                                       *)
Bits(c, n) == (c \div n) % 64

Utf8(c) ==
  IF c < 128 THEN <<c>>
  ELSE IF c < 32 * 64 THEN <<192 + (c \div 64), 128 + Bits(c, 1)>>
  ELSE IF c < 16 * 64 * 64 THEN <<224 + (c \div (64 * 64)), 128 + Bits(c, 64), 128 + Bits(c, 1)>>
  ELSE <<240 + (c \div (64 * 64 * 64)), 128 + Bits(c, 64 * 64), 128 + Bits(c, 64), 128 + Bits(c, 1)>>

Utf8Length(lead) ==
  IF lead < 128 THEN 1 ELSE IF lead < 224 THEN 2 ELSE IF lead < 240 THEN 3 ELSE 4

(* The character that a lead byte and the bytes after it make. *)
Utf8Char(s, i) ==
  LET c(k) == s[i + k] - 128
      n == Utf8Length(s[i])
  IN  CASE n = 1 -> s[i]
        [] n = 2 -> (s[i] - 192) * 64 + c(1)
        [] n = 3 -> ((s[i] - 224) * 64 + c(1)) * 64 + c(2)
        [] n = 4 -> (((s[i] - 240) * 64 + c(1)) * 64 + c(2)) * 64 + c(3)

(* A code point: 17 planes, without the surrogates. *)
IsCharacter(c) ==
  c \in Nat /\ c < 17 * 16 * 64 * 64 /\ c \notin (216 * 256)..(224 * 256 - 1)

(* What starts at place i is the encoding of a character. *)
WellFormedAt(s, i) ==
  LET end == i + Utf8Length(s[i]) - 1
  IN  /\ end <= Len(s)
      /\ IsCharacter(Utf8Char(s, i))
      /\ Utf8(Utf8Char(s, i)) = SubSeq(s, i, end)

(* Every byte belongs to a character.  No byte belongs to two: those after *)
(* a character's first one start none.                                     *)
IsStructurallyValidUTF8(s) ==
  \A i \in 1..Len(s) :
    \E lead \in 1..i : WellFormedAt(s, lead) /\ i < lead + Utf8Length(s[lead])

(* A character for every byte that does not go on with the one before it.  *)
Utf8Decoded(s) ==
  LET upto[i \in 0..Len(s)] ==
        IF i = 0 THEN << >>
        ELSE IF s[i] \in 128..191 THEN upto[i - 1]
        ELSE Append(upto[i - 1], Utf8Char(s, i))
  IN  upto[Len(s)]

convert_unicode_to_utf8(src) == Concatenated([i \in DOMAIN src |-> Utf8(src[i])])
convert_utf8_to_unicode(src) == Utf8Decoded(src)
----------------------------------------------------------------------------
(* Reading.  A cursor is the message so far, the next place in the bytes,  *)
(* and whether nothing has failed.                                         *)
Cursor(m, at, ok) == [m |-> m, at |-> at, ok |-> ok]
Failed(c) == Cursor(c.m, c.at, FALSE)

(* The last byte of the varint at a place, 0 if there is none. *)
VarintEnd(b, at) ==
  LET ends == {i \in at..(at + 9) : i <= Len(b) /\ b[i] < 128}
  IN  IF ends = {} THEN 0 ELSE Min(ends)

VarintValue(b, at) ==
  LET last[n \in 0..(VarintEnd(b, at) - at)] ==
        ((b[VarintEnd(b, at) - n] % 128) + (IF n = 0 THEN 0 ELSE 128 * last[n - 1])) % IntSpan
  IN  last[VarintEnd(b, at) - at]

(* The bytes of what a length at a place announces; they may be missing. *)
DelimitedStart(b, at) == VarintEnd(b, at) + 1
DelimitedEnd(b, at) == VarintEnd(b, at) + VarintValue(b, at)
HasDelimited(b, at) == VarintEnd(b, at) # 0 /\ DelimitedEnd(b, at) <= Len(b)
Delimited(b, at) == SubSeq(b, DelimitedStart(b, at), DelimitedEnd(b, at))

(* Mutant: what is there of a string is taken. *)
ReadStringThatIsThere(c, f, b) ==
  LET end == Min({DelimitedEnd(b, c.at), Len(b)})
      there == SubSeq(b, DelimitedStart(b, c.at), end)
  IN  IF VarintEnd(b, c.at) # 0 /\ IsStructurallyValidUTF8(there)
      THEN Cursor([c.m EXCEPT ![f] = there], end + 1, TRUE)
      ELSE Failed(c)

(* ReadString and VerifyUtf8String. *)
ReadString(c, f, b) ==
  IF HasDelimited(b, c.at) /\ IsStructurallyValidUTF8(Delimited(b, c.at))
  THEN Cursor([c.m EXCEPT ![f] = Delimited(b, c.at)], DelimitedEnd(b, c.at) + 1, TRUE)
  ELSE Failed(c)

ReadUInt32(c, f, b) ==
  IF VarintEnd(b, c.at) # 0
  THEN Cursor([c.m EXCEPT ![f] = VarintValue(b, c.at)], VarintEnd(b, c.at) + 1, TRUE)
  ELSE Failed(c)

ReadBool(c, f, b) ==
  IF VarintEnd(b, c.at) # 0
  THEN Cursor([c.m EXCEPT ![f] = \E i \in c.at..VarintEnd(b, c.at) : b[i] % 128 # 0],
              VarintEnd(b, c.at) + 1, TRUE)
  ELSE Failed(c)

(* ReadMessage into a new element of a repeated field: what it parses to   *)
(* must be ok, to its end.                                                 *)
ReadMessage(c, f, b, element) ==
  IF HasDelimited(b, c.at) /\ element.ok
  THEN Cursor([c.m EXCEPT ![f] = Append(@, element.m)], DelimitedEnd(b, c.at) + 1, TRUE)
  ELSE Failed(c)

(* A field this version does not know is kept as it is.  The wire types    *)
(* are a varint, eight bytes, a length, and four bytes; the groups of old  *)
(* are left out.                                                           *)
SkipField(c, tag_at, b) ==
  LET type == VarintValue(b, tag_at) % 8
      end == CASE type = 0 -> VarintEnd(b, c.at)
               [] type = 1 -> c.at + 7
               [] type = 2 -> IF HasDelimited(b, c.at) THEN DelimitedEnd(b, c.at) ELSE 0
               [] type = 5 -> c.at + 3
               [] OTHER -> 0
  IN  IF end # 0 /\ end <= Len(b)
      THEN Cursor([c.m EXCEPT !.unknown = @ \o SubSeq(b, tag_at, end)], end + 1, TRUE)
      ELSE Failed(c)

(* The loop of MergePartialFromCodedStream over the fields, to the end of  *)
(* the bytes.  A tag of 0 before it ends the loop, and the message is not  *)
(* consumed entirely, which the callers take as a failure.  A field takes  *)
(* two bytes at least.                                                     *)
ParseFields(m, b, Field(_, _, _)) ==
  LET Step(c) ==
        LET end == VarintEnd(b, c.at)
            tag == VarintValue(b, c.at)
        IN  IF end = 0 \/ tag = 0 THEN Failed(c)
            ELSE Field(Cursor(c.m, end + 1, TRUE), tag, c.at)
      fields == (Len(b) + 1) \div 2
      after[n \in 0..fields] ==
        IF n = 0 THEN Cursor(m, 1, TRUE)
        ELSE LET c == after[n - 1] IN IF c.ok /\ c.at <= Len(b) THEN Step(c) ELSE c
  IN  after[fields]
=============================================================================
