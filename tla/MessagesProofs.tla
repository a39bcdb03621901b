--------------------------- MODULE MessagesProofs ---------------------------
(***************************************************************************)
(* Proofs about the messages and their files, for every message, name and  *)
(* number that fits.                                                       *)
(*                                                                         *)
(* The objects (MessageObjects): the generated functions of a class agree  *)
(* with each other on whatever any calls made.                             *)
(*                                                                         *)
(* The files (CameraFile): a file that is whole is loaded as it was saved, *)
(* and one that is not is never loaded as something that nobody saved.     *)
(***************************************************************************)
EXTENDS FormatsProofs, CameraFile

(* The fields of each class. *)
LEMMA ReadsStream ==
  /\ ReadsText("StreamInfo", 10, "url") /\ ReadsText("StreamInfo", 18, "ip")
  /\ ReadsText("StreamInfo", 34, "user_id") /\ ReadsText("StreamInfo", 42, "user_pw")
  /\ ReadsNumber("StreamInfo", 24, "port") /\ ReadsNumber("StreamInfo", 56, "stream_accumulate_time")
  /\ ReadsNumber("StreamInfo", 64, "fps")
  /\ ReadsFlag("StreamInfo", 48, "tcp") /\ ReadsFlag("StreamInfo", 72, "stream_used")
BY DEF ReadsText, ReadsNumber, ReadsFlag, FieldIn, ByClass

LEMMA ReadsCamera ==
  /\ ReadsText("Camera", 10, "camera_guid") /\ ReadsText("Camera", 18, "camera_name")
  /\ ReadsPart("Camera", "stream_info", "StreamInfo")
BY DEF ReadsText, ReadsPart, FieldIn, ByClass, Parse, New

LEMMA ReadsWatchdog == ReadsNumber("CameraWatchdog", 8, "pid")
BY DEF ReadsNumber, FieldIn, ByClass

LEMMA ReadsSystemCamera == ReadsText("System_CameraInfo", 10, "camera_guid")
BY DEF ReadsText, FieldIn, ByClass

LEMMA ReadsSystem ==
  /\ ReadsText("System", 10, "system_guid") /\ ReadsText("System", 18, "system_name")
  /\ ReadsPart("System", "cameras", "System_CameraInfo")
BY DEF ReadsText, ReadsPart, FieldIn, ByClass, Parse, New

(* What the fields hold, valid texts or not. *)
Raw == {s \in Seq(Octet) : Len(s) < IntSpan}
RawStreams ==
  [url : Raw, ip : Raw, user_id : Raw, user_pw : Raw, port : UInt32,
   stream_accumulate_time : UInt32, tcp : BOOLEAN, stream_used : BOOLEAN, fps : UInt32,
   unknown : NewTo("StreamInfo")]
RawSystemCameras == [camera_guid : Raw, unknown : NewTo("System_CameraInfo")]
RawWatchdogs == [pid : UInt32, unknown : NewTo("CameraWatchdog")]

StreamTextsValid(m) ==
  /\ IsStructurallyValidUTF8(m.url) /\ IsStructurallyValidUTF8(m.ip)
  /\ IsStructurallyValidUTF8(m.user_id) /\ IsStructurallyValidUTF8(m.user_pw)

LEMMA RawIs == ASSUME NEW s \in Raw PROVE s \in Seq(Octet) /\ Len(s) < IntSpan /\ Len(s) \in Nat
BY DEF Raw

LEMMA RawStreamIs ==
  ASSUME NEW m \in RawStreams
  PROVE  /\ IsRecord(m)
         /\ DOMAIN m = {"url", "ip", "user_id", "user_pw", "port", "stream_accumulate_time", "tcp",
                        "stream_used", "fps", "unknown"}
         /\ m.url \in Raw /\ m.ip \in Raw /\ m.user_id \in Raw /\ m.user_pw \in Raw
         /\ m.port \in UInt32 /\ m.stream_accumulate_time \in UInt32 /\ m.fps \in UInt32
         /\ m.tcp \in BOOLEAN /\ m.stream_used \in BOOLEAN /\ m.unknown \in NewTo("StreamInfo")
<1> DEFINE T == Raw
           U == UInt32
           V == NewTo("StreamInfo")
<1> HIDE DEF T, U, V
<1>1. m \in [url : T, ip : T, user_id : T, user_pw : T, port : U, stream_accumulate_time : U,
             tcp : BOOLEAN, stream_used : BOOLEAN, fps : U, unknown : V]
  BY DEF RawStreams, T, U, V
<1> QED
  BY <1>1 DEF IsRecord, T, U, V

(* The bytes of a stream, as long as it counts. *)
LEMMA StreamBytes ==
  ASSUME NEW y0 \in RawStreams
  PROVE  /\ StreamInfo_SerializeWithCachedSizes(y0) \in Seq(Octet)
         /\ Len(StreamInfo_SerializeWithCachedSizes(y0)) = StreamInfo_ByteSizeLong(y0)
         /\ StreamInfo_ByteSizeLong(y0) \in Nat
<1> DEFINE u == y0.unknown
           w1 == Unless(y0.url = << >>, WriteString(1, y0.url))
           w2 == Unless(y0.ip = << >>, WriteString(2, y0.ip))
           w3 == Unless(y0.port = 0, WriteUInt32(3, y0.port))
           w4 == Unless(y0.user_id = << >>, WriteString(4, y0.user_id))
           w5 == Unless(y0.user_pw = << >>, WriteString(5, y0.user_pw))
           w6 == Unless(~y0.tcp, WriteBool(6, y0.tcp))
           w7 == Unless(y0.stream_accumulate_time = 0, WriteUInt32(7, y0.stream_accumulate_time))
           w8 == Unless(y0.fps = 0, WriteUInt32(8, y0.fps))
           w9 == Unless(~y0.stream_used, WriteBool(9, y0.stream_used))
           n1 == UnlessSize(y0.url = << >>, 1 + StringSize(y0.url))
           n2 == UnlessSize(y0.ip = << >>, 1 + StringSize(y0.ip))
           n3 == UnlessSize(y0.port = 0, 1 + UInt32Size(y0.port))
           n4 == UnlessSize(y0.user_id = << >>, 1 + StringSize(y0.user_id))
           n5 == UnlessSize(y0.user_pw = << >>, 1 + StringSize(y0.user_pw))
           n6 == UnlessSize(~y0.tcp, 1 + 1)
           n7 == UnlessSize(y0.stream_accumulate_time = 0, 1 + UInt32Size(y0.stream_accumulate_time))
           n8 == UnlessSize(y0.fps = 0, 1 + UInt32Size(y0.fps))
           n9 == UnlessSize(~y0.stream_used, 1 + 1)
<1>1. u \in Seq(Octet) /\ Len(u) \in Nat
  <2>1. u \in NewTo("StreamInfo")
    BY RawStreamIs
  <2> QED
    BY <2>1 DEF NewTo
<1>2. w1 \in Seq(Octet) /\ Len(w1) = n1 /\ n1 \in Nat
  <2>1. y0.url \in Seq(Octet) /\ Len(y0.url) < IntSpan /\ 1 \in 1 .. 9
    BY RawStreamIs, RawIs
  <2> QED
    BY <2>1, TextBytes
<1>3. w2 \in Seq(Octet) /\ Len(w2) = n2 /\ n2 \in Nat
  <2>1. y0.ip \in Seq(Octet) /\ Len(y0.ip) < IntSpan /\ 2 \in 1 .. 9
    BY RawStreamIs, RawIs
  <2> QED
    BY <2>1, TextBytes
<1>4. w3 \in Seq(Octet) /\ Len(w3) = n3 /\ n3 \in Nat
  <2>1. y0.port \in 0 .. (IntSpan - 1) /\ 3 \in 1 .. 9
    BY RawStreamIs DEF UInt32
  <2> QED
    BY <2>1, NumberBytes
<1>5. w4 \in Seq(Octet) /\ Len(w4) = n4 /\ n4 \in Nat
  <2>1. y0.user_id \in Seq(Octet) /\ Len(y0.user_id) < IntSpan /\ 4 \in 1 .. 9
    BY RawStreamIs, RawIs
  <2> QED
    BY <2>1, TextBytes
<1>6. w5 \in Seq(Octet) /\ Len(w5) = n5 /\ n5 \in Nat
  <2>1. y0.user_pw \in Seq(Octet) /\ Len(y0.user_pw) < IntSpan /\ 5 \in 1 .. 9
    BY RawStreamIs, RawIs
  <2> QED
    BY <2>1, TextBytes
<1>7. w6 \in Seq(Octet) /\ Len(w6) = n6 /\ n6 \in Nat
  <2>1. y0.tcp \in BOOLEAN /\ 6 \in 1 .. 9
    BY RawStreamIs
  <2> QED
    BY <2>1, FlagBytes
<1>8. w7 \in Seq(Octet) /\ Len(w7) = n7 /\ n7 \in Nat
  <2>1. y0.stream_accumulate_time \in 0 .. (IntSpan - 1) /\ 7 \in 1 .. 9
    BY RawStreamIs DEF UInt32
  <2> QED
    BY <2>1, NumberBytes
<1>9. w8 \in Seq(Octet) /\ Len(w8) = n8 /\ n8 \in Nat
  <2>1. y0.fps \in 0 .. (IntSpan - 1) /\ 8 \in 1 .. 9
    BY RawStreamIs DEF UInt32
  <2> QED
    BY <2>1, NumberBytes
<1>10. w9 \in Seq(Octet) /\ Len(w9) = n9 /\ n9 \in Nat
  <2>1. y0.stream_used \in BOOLEAN /\ 9 \in 1 .. 9
    BY RawStreamIs
  <2> QED
    BY <2>1, FlagBytes
<1>11. StreamInfo_SerializeWithCachedSizes(y0) =
         w1 \o w2 \o w3 \o w4 \o w5 \o w6 \o w7 \o w8 \o w9 \o u
  BY DEF StreamInfo_SerializeWithCachedSizes
<1>12. StreamInfo_ByteSizeLong(y0) = Len(u) + n1 + n2 + n4 + n5 + n3 + n7 + n6 + n9 + n8
  BY DEF StreamInfo_ByteSizeLong
<1> HIDE DEF u, w1, w2, w3, w4, w5, w6, w7, w8, w9, n1, n2, n3, n4, n5, n6, n7, n8, n9
<1> DEFINE v2 == w1 \o w2
<1>13. v2 \in Seq(Octet) /\ Len(v2) = Len(w1) + n2
  BY <1>2, <1>3, JoinedOctets
<1> HIDE DEF v2
<1> DEFINE v3 == v2 \o w3
<1>14. v3 \in Seq(Octet) /\ Len(v3) = Len(v2) + n3
  BY <1>13, <1>4, JoinedOctets
<1> HIDE DEF v3
<1> DEFINE v4 == v3 \o w4
<1>15. v4 \in Seq(Octet) /\ Len(v4) = Len(v3) + n4
  BY <1>14, <1>5, JoinedOctets
<1> HIDE DEF v4
<1> DEFINE v5 == v4 \o w5
<1>16. v5 \in Seq(Octet) /\ Len(v5) = Len(v4) + n5
  BY <1>15, <1>6, JoinedOctets
<1> HIDE DEF v5
<1> DEFINE v6 == v5 \o w6
<1>17. v6 \in Seq(Octet) /\ Len(v6) = Len(v5) + n6
  BY <1>16, <1>7, JoinedOctets
<1> HIDE DEF v6
<1> DEFINE v7 == v6 \o w7
<1>18. v7 \in Seq(Octet) /\ Len(v7) = Len(v6) + n7
  BY <1>17, <1>8, JoinedOctets
<1> HIDE DEF v7
<1> DEFINE v8 == v7 \o w8
<1>19. v8 \in Seq(Octet) /\ Len(v8) = Len(v7) + n8
  BY <1>18, <1>9, JoinedOctets
<1> HIDE DEF v8
<1> DEFINE v9 == v8 \o w9
<1>20. v9 \in Seq(Octet) /\ Len(v9) = Len(v8) + n9
  BY <1>19, <1>10, JoinedOctets
<1> HIDE DEF v9
<1> DEFINE s == v9 \o u
<1>21. s \in Seq(Octet) /\ Len(s) = Len(v9) + Len(u)
  BY <1>1, <1>20, JoinedOctets
<1>22. s = StreamInfo_SerializeWithCachedSizes(y0)
  BY <1>11 DEF v2, v3, v4, v5, v6, v7, v8, v9
<1> HIDE DEF s
<1> DEFINE l == Len(s)
           c == Len(u)
           c1 == Len(w1)
           c2 == Len(v2)
           c3 == Len(v3)
           c4 == Len(v4)
           c5 == Len(v5)
           c6 == Len(v6)
           c7 == Len(v7)
           c8 == Len(v8)
           c9 == Len(v9)
<1>23. l = c9 + c /\ c \in Nat /\ c1 = n1
  BY <1>1, <1>2, <1>21
<1>24. c2 = c1 + n2 /\ c3 = c2 + n3 /\ c4 = c3 + n4 /\ c5 = c4 + n5 /\ c6 = c5 + n6 /\ c7 = c6 + n7 /\ c8 = c7 + n8 /\ c9 = c8 + n9
  BY <1>13, <1>14, <1>15, <1>16, <1>17, <1>18, <1>19, <1>20
<1>25. n1 \in Nat /\ n2 \in Nat /\ n3 \in Nat /\ n4 \in Nat /\ n5 \in Nat /\ n6 \in Nat /\ n7 \in Nat /\ n8 \in Nat /\ n9 \in Nat
  BY <1>2, <1>3, <1>4, <1>5, <1>6, <1>7, <1>8, <1>9, <1>10
<1>26. StreamInfo_ByteSizeLong(y0) = c + n1 + n2 + n4 + n5 + n3 + n7 + n6 + n9 + n8
  BY <1>12
<1> HIDE DEF l, c, c1, c2, c3, c4, c5, c6, c7, c8, c9
<1>27. l = StreamInfo_ByteSizeLong(y0) /\ l \in Nat
  BY <1>23, <1>24, <1>25, <1>26
<1> QED
  BY <1>21, <1>22, <1>27 DEF l

(* A stream is read after what was read of another one. *)
LEMMA StreamReads ==
  ASSUME NEW b \in Seq(Octet), NEW m0, NEW good \in BOOLEAN, NEW m \in RawStreams,
         NEW here \in Nat \ {0}, Settled("StreamInfo", b, m0, good, {}, m, here),
         NEW y0 \in RawStreams, Holds(b, here, StreamInfo_SerializeWithCachedSizes(y0))
  PROVE  Settled("StreamInfo", b, m0, good /\ StreamTextsValid(y0), {}, StreamInfo_MergeFrom(m, y0),
                 here + Len(StreamInfo_SerializeWithCachedSizes(y0)))
<1> DEFINE k == "StreamInfo"
           u == y0.unknown
           w1 == Unless(y0.url = << >>, WriteString(1, y0.url))
           w2 == Unless(y0.ip = << >>, WriteString(2, y0.ip))
           w3 == Unless(y0.port = 0, WriteUInt32(3, y0.port))
           w4 == Unless(y0.user_id = << >>, WriteString(4, y0.user_id))
           w5 == Unless(y0.user_pw = << >>, WriteString(5, y0.user_pw))
           w6 == Unless(~y0.tcp, WriteBool(6, y0.tcp))
           w7 == Unless(y0.stream_accumulate_time = 0, WriteUInt32(7, y0.stream_accumulate_time))
           w8 == Unless(y0.fps = 0, WriteUInt32(8, y0.fps))
           w9 == Unless(~y0.stream_used, WriteBool(9, y0.stream_used))
           v0 == << >>
           m_0 == m
           g0 == good
           v1 == v0 \o w1
           c1 == Assigned(m_0["url"], y0.url, << >>)
           m_1 == FieldSet(m_0, "url", c1)
           g1 == g0 /\ IsStructurallyValidUTF8(y0.url)
           v2 == v1 \o w2
           c2 == Assigned(m_1["ip"], y0.ip, << >>)
           m_2 == FieldSet(m_1, "ip", c2)
           g2 == g1 /\ IsStructurallyValidUTF8(y0.ip)
           v3 == v2 \o w3
           c3 == Assigned(m_2["port"], y0.port, 0)
           m_3 == FieldSet(m_2, "port", c3)
           g3 == g2
           v4 == v3 \o w4
           c4 == Assigned(m_3["user_id"], y0.user_id, << >>)
           m_4 == FieldSet(m_3, "user_id", c4)
           g4 == g3 /\ IsStructurallyValidUTF8(y0.user_id)
           v5 == v4 \o w5
           c5 == Assigned(m_4["user_pw"], y0.user_pw, << >>)
           m_5 == FieldSet(m_4, "user_pw", c5)
           g5 == g4 /\ IsStructurallyValidUTF8(y0.user_pw)
           v6 == v5 \o w6
           c6 == Assigned(m_5["tcp"], y0.tcp, FALSE)
           m_6 == FieldSet(m_5, "tcp", c6)
           g6 == g5
           v7 == v6 \o w7
           c7 == Assigned(m_6["stream_accumulate_time"], y0.stream_accumulate_time, 0)
           m_7 == FieldSet(m_6, "stream_accumulate_time", c7)
           g7 == g6
           v8 == v7 \o w8
           c8 == Assigned(m_7["fps"], y0.fps, 0)
           m_8 == FieldSet(m_7, "fps", c8)
           g8 == g7
           v9 == v8 \o w9
           c9 == Assigned(m_8["stream_used"], y0.stream_used, FALSE)
           m_9 == FieldSet(m_8, "stream_used", c9)
           g9 == g8
           c10 == m_9.unknown \o u
           m_10 == FieldSet(m_9, "unknown", c10)
<1>1. u \in Seq(Octet) /\ u \in NewTo(k)
  <2>1. u \in NewTo("StreamInfo")
    BY RawStreamIs
  <2> QED
    BY <2>1 DEF NewTo
<1>2. w1 \in Seq(Octet)
  <2>1. y0.url \in Seq(Octet) /\ Len(y0.url) < IntSpan /\ 1 \in 1 .. 9
    BY RawStreamIs, RawIs
  <2> QED
    BY <2>1, TextBytes
<1>3. w2 \in Seq(Octet)
  <2>1. y0.ip \in Seq(Octet) /\ Len(y0.ip) < IntSpan /\ 2 \in 1 .. 9
    BY RawStreamIs, RawIs
  <2> QED
    BY <2>1, TextBytes
<1>4. w3 \in Seq(Octet)
  <2>1. y0.port \in 0 .. (IntSpan - 1) /\ 3 \in 1 .. 9
    BY RawStreamIs DEF UInt32
  <2> QED
    BY <2>1, NumberBytes
<1>5. w4 \in Seq(Octet)
  <2>1. y0.user_id \in Seq(Octet) /\ Len(y0.user_id) < IntSpan /\ 4 \in 1 .. 9
    BY RawStreamIs, RawIs
  <2> QED
    BY <2>1, TextBytes
<1>6. w5 \in Seq(Octet)
  <2>1. y0.user_pw \in Seq(Octet) /\ Len(y0.user_pw) < IntSpan /\ 5 \in 1 .. 9
    BY RawStreamIs, RawIs
  <2> QED
    BY <2>1, TextBytes
<1>7. w6 \in Seq(Octet)
  <2>1. y0.tcp \in BOOLEAN /\ 6 \in 1 .. 9
    BY RawStreamIs
  <2> QED
    BY <2>1, FlagBytes
<1>8. w7 \in Seq(Octet)
  <2>1. y0.stream_accumulate_time \in 0 .. (IntSpan - 1) /\ 7 \in 1 .. 9
    BY RawStreamIs DEF UInt32
  <2> QED
    BY <2>1, NumberBytes
<1>9. w8 \in Seq(Octet)
  <2>1. y0.fps \in 0 .. (IntSpan - 1) /\ 8 \in 1 .. 9
    BY RawStreamIs DEF UInt32
  <2> QED
    BY <2>1, NumberBytes
<1>10. w9 \in Seq(Octet)
  <2>1. y0.stream_used \in BOOLEAN /\ 9 \in 1 .. 9
    BY RawStreamIs
  <2> QED
    BY <2>1, FlagBytes
<1>11. StreamInfo_SerializeWithCachedSizes(y0) = v9 \o u
  <2>1. v0 \o w1 = w1
    <3> HIDE DEF w1
    <3> QED
      BY <1>2
  <2>2. StreamInfo_SerializeWithCachedSizes(y0) =
          w1 \o w2 \o w3 \o w4 \o w5 \o w6 \o w7 \o w8 \o w9 \o u
    BY DEF StreamInfo_SerializeWithCachedSizes
  <2> HIDE DEF u, w1, w2, w3, w4, w5, w6, w7, w8, w9, v0
  <2> QED
    BY <2>1, <2>2
<1> HIDE DEF u, w1, w2, w3, w4, w5, w6, w7, w8, w9
<1>12. v0 \in Seq(Octet)
  OBVIOUS
<1>13. v1 \in Seq(Octet)
  BY <1>12, <1>2, JoinedOctets
<1>14. v2 \in Seq(Octet)
  BY <1>13, <1>3, JoinedOctets
<1>15. v3 \in Seq(Octet)
  BY <1>14, <1>4, JoinedOctets
<1>16. v4 \in Seq(Octet)
  BY <1>15, <1>5, JoinedOctets
<1>17. v5 \in Seq(Octet)
  BY <1>16, <1>6, JoinedOctets
<1>18. v6 \in Seq(Octet)
  BY <1>17, <1>7, JoinedOctets
<1>19. v7 \in Seq(Octet)
  BY <1>18, <1>8, JoinedOctets
<1>20. v8 \in Seq(Octet)
  BY <1>19, <1>9, JoinedOctets
<1>21. v9 \in Seq(Octet)
  BY <1>20, <1>10, JoinedOctets
<1> HIDE DEF v0, v1, v2, v3, v4, v5, v6, v7, v8, v9
<1>22. Holds(b, here, v9 \o u)
  BY <1>11
<1>23. Holds(b, here, v9)
  BY <1>1, <1>21, <1>22, HoldsParts
<1>24. Holds(b, here, v8)
  <2>1. Holds(b, here, v8 \o w9)
    BY <1>23 DEF v9
  <2> QED
    BY <2>1, <1>20, <1>10, HoldsParts
<1>25. Holds(b, here, v7)
  <2>1. Holds(b, here, v7 \o w8)
    BY <1>24 DEF v8
  <2> QED
    BY <2>1, <1>19, <1>9, HoldsParts
<1>26. Holds(b, here, v6)
  <2>1. Holds(b, here, v6 \o w7)
    BY <1>25 DEF v7
  <2> QED
    BY <2>1, <1>18, <1>8, HoldsParts
<1>27. Holds(b, here, v5)
  <2>1. Holds(b, here, v5 \o w6)
    BY <1>26 DEF v6
  <2> QED
    BY <2>1, <1>17, <1>7, HoldsParts
<1>28. Holds(b, here, v4)
  <2>1. Holds(b, here, v4 \o w5)
    BY <1>27 DEF v5
  <2> QED
    BY <2>1, <1>16, <1>6, HoldsParts
<1>29. Holds(b, here, v3)
  <2>1. Holds(b, here, v3 \o w4)
    BY <1>28 DEF v4
  <2> QED
    BY <2>1, <1>15, <1>5, HoldsParts
<1>30. Holds(b, here, v2)
  <2>1. Holds(b, here, v2 \o w3)
    BY <1>29 DEF v3
  <2> QED
    BY <2>1, <1>14, <1>4, HoldsParts
<1>31. Holds(b, here, v1)
  <2>1. Holds(b, here, v1 \o w2)
    BY <1>30 DEF v2
  <2> QED
    BY <2>1, <1>13, <1>3, HoldsParts
<1>32. /\ IsRecord(m_0) /\ DOMAIN m_0 = DOMAIN m /\ g0 \in BOOLEAN
      /\ Settled(k, b, m0, g0, {}, m_0, here + Len(v0))
  BY RawStreamIs DEF v0
<1>33. /\ "unknown" \in DOMAIN m /\ Prefix(b, b)
      /\ "url" \in DOMAIN m
      /\ "ip" \in DOMAIN m
      /\ "port" \in DOMAIN m
      /\ "user_id" \in DOMAIN m
      /\ "user_pw" \in DOMAIN m
      /\ "tcp" \in DOMAIN m
      /\ "stream_accumulate_time" \in DOMAIN m
      /\ "fps" \in DOMAIN m
      /\ "stream_used" \in DOMAIN m
  BY RawStreamIs, PrefixAll
<1> HIDE DEF k
<1> HIDE DEF m_0, g0
<1>34. /\ IsRecord(m_1) /\ DOMAIN m_1 = DOMAIN m /\ HasField(m_0, "url")
      /\ m_1["url"] = c1
      /\ \A g \in DOMAIN m : g # "url" => m_1[g] = m_0[g]
  <2> HIDE DEF c1
  <2> QED
    BY <1>32, <1>33, FieldSetIs
<1>35. g1 \in BOOLEAN /\ Settled(k, b, m0, g1, {}, m_1, here + Len(v1))
  <2> DEFINE number == 1
  <2>1. ReadsText(k, 8 * number + 2, "url") /\ number \in 1 .. 9
    <3>1. 8 * 1 + 2 = 10
      OBVIOUS
    <3> QED
      BY <3>1, ReadsStream DEF k
  <2> DEFINE w == Unless(y0.url = << >>, WriteString(number, y0.url))
  <2>0. w1 = w
    BY DEF w1
  <2> HIDE DEF number
  <2>2. y0.url \in Seq(Octet) /\ Len(y0.url) < IntSpan
    BY RawStreamIs, RawIs
  <2>3. Follows(k, b, b, m0, g0, {}, m_0, here, v0) /\ g0 \in BOOLEAN
    BY <1>32, <1>33, <1>12 DEF Follows
  <2>4. Holds(b, here, v0 \o w)
    BY <1>31, <2>0 DEF v1
  <2> DEFINE fits == IsStructurallyValidUTF8(y0.url)
  <2>5. Portion(k, w, m_0, m_1, fits)
    BY <1>34, <2>1, <2>2, TextPiece
  <2>6. fits \in BOOLEAN /\ g1 = (g0 /\ fits) /\ g1 \in BOOLEAN
    BY <2>3 DEF IsStructurallyValidUTF8
  <2> HIDE DEF g1, m_1, w, fits
  <2>7. here \in Nat
    OBVIOUS
  <2>8. Settled(k, b, m0, g0 /\ fits, {}, m_1, here + Len(v0 \o w))
    BY <2>3, <2>4, <2>5, <2>6, <2>7, PieceNext
  <2> QED
    BY <2>0, <2>6, <2>8 DEF v1
<1> HIDE DEF m_1, g1
<1>36. /\ IsRecord(m_2) /\ DOMAIN m_2 = DOMAIN m /\ HasField(m_1, "ip")
      /\ m_2["ip"] = c2
      /\ \A g \in DOMAIN m : g # "ip" => m_2[g] = m_1[g]
  <2> HIDE DEF c2
  <2> QED
    BY <1>34, <1>33, FieldSetIs
<1>37. g2 \in BOOLEAN /\ Settled(k, b, m0, g2, {}, m_2, here + Len(v2))
  <2> DEFINE number == 2
  <2>1. ReadsText(k, 8 * number + 2, "ip") /\ number \in 1 .. 9
    <3>1. 8 * 2 + 2 = 18
      OBVIOUS
    <3> QED
      BY <3>1, ReadsStream DEF k
  <2> DEFINE w == Unless(y0.ip = << >>, WriteString(number, y0.ip))
  <2>0. w2 = w
    BY DEF w2
  <2> HIDE DEF number
  <2>2. y0.ip \in Seq(Octet) /\ Len(y0.ip) < IntSpan
    BY RawStreamIs, RawIs
  <2>3. Follows(k, b, b, m0, g1, {}, m_1, here, v1) /\ g1 \in BOOLEAN
    BY <1>35, <1>33, <1>13 DEF Follows
  <2>4. Holds(b, here, v1 \o w)
    BY <1>30, <2>0 DEF v2
  <2> DEFINE fits == IsStructurallyValidUTF8(y0.ip)
  <2>5. Portion(k, w, m_1, m_2, fits)
    BY <1>36, <2>1, <2>2, TextPiece
  <2>6. fits \in BOOLEAN /\ g2 = (g1 /\ fits) /\ g2 \in BOOLEAN
    BY <2>3 DEF IsStructurallyValidUTF8
  <2> HIDE DEF g2, m_2, w, fits
  <2>7. here \in Nat
    OBVIOUS
  <2>8. Settled(k, b, m0, g1 /\ fits, {}, m_2, here + Len(v1 \o w))
    BY <2>3, <2>4, <2>5, <2>6, <2>7, PieceNext
  <2> QED
    BY <2>0, <2>6, <2>8 DEF v2
<1> HIDE DEF m_2, g2
<1>38. /\ IsRecord(m_3) /\ DOMAIN m_3 = DOMAIN m /\ HasField(m_2, "port")
      /\ m_3["port"] = c3
      /\ \A g \in DOMAIN m : g # "port" => m_3[g] = m_2[g]
  <2> HIDE DEF c3
  <2> QED
    BY <1>36, <1>33, FieldSetIs
<1>39. g3 \in BOOLEAN /\ Settled(k, b, m0, g3, {}, m_3, here + Len(v3))
  <2> DEFINE number == 3
  <2>1. ReadsNumber(k, 8 * number, "port") /\ number \in 1 .. 9
    <3>1. 8 * 3 = 24
      OBVIOUS
    <3> QED
      BY <3>1, ReadsStream DEF k
  <2> DEFINE w == Unless(y0.port = 0, WriteUInt32(number, y0.port))
  <2>0. w3 = w
    BY DEF w3
  <2> HIDE DEF number
  <2>2. y0.port \in 0 .. (IntSpan - 1)
    BY RawStreamIs DEF UInt32
  <2>3. Follows(k, b, b, m0, g2, {}, m_2, here, v2) /\ g2 \in BOOLEAN
    BY <1>37, <1>33, <1>14 DEF Follows
  <2>4. Holds(b, here, v2 \o w)
    BY <1>29, <2>0 DEF v3
  <2> DEFINE fits == TRUE
  <2>5. Portion(k, w, m_2, m_3, fits)
    BY <1>38, <2>1, <2>2, NumberPiece
  <2>6. fits \in BOOLEAN /\ g3 = (g2 /\ fits) /\ g3 \in BOOLEAN
    BY <2>3
  <2> HIDE DEF g3, m_3, w, fits
  <2>7. here \in Nat
    OBVIOUS
  <2>8. Settled(k, b, m0, g2 /\ fits, {}, m_3, here + Len(v2 \o w))
    BY <2>3, <2>4, <2>5, <2>6, <2>7, PieceNext
  <2> QED
    BY <2>0, <2>6, <2>8 DEF v3
<1> HIDE DEF m_3, g3
<1>40. /\ IsRecord(m_4) /\ DOMAIN m_4 = DOMAIN m /\ HasField(m_3, "user_id")
      /\ m_4["user_id"] = c4
      /\ \A g \in DOMAIN m : g # "user_id" => m_4[g] = m_3[g]
  <2> HIDE DEF c4
  <2> QED
    BY <1>38, <1>33, FieldSetIs
<1>41. g4 \in BOOLEAN /\ Settled(k, b, m0, g4, {}, m_4, here + Len(v4))
  <2> DEFINE number == 4
  <2>1. ReadsText(k, 8 * number + 2, "user_id") /\ number \in 1 .. 9
    <3>1. 8 * 4 + 2 = 34
      OBVIOUS
    <3> QED
      BY <3>1, ReadsStream DEF k
  <2> DEFINE w == Unless(y0.user_id = << >>, WriteString(number, y0.user_id))
  <2>0. w4 = w
    BY DEF w4
  <2> HIDE DEF number
  <2>2. y0.user_id \in Seq(Octet) /\ Len(y0.user_id) < IntSpan
    BY RawStreamIs, RawIs
  <2>3. Follows(k, b, b, m0, g3, {}, m_3, here, v3) /\ g3 \in BOOLEAN
    BY <1>39, <1>33, <1>15 DEF Follows
  <2>4. Holds(b, here, v3 \o w)
    BY <1>28, <2>0 DEF v4
  <2> DEFINE fits == IsStructurallyValidUTF8(y0.user_id)
  <2>5. Portion(k, w, m_3, m_4, fits)
    BY <1>40, <2>1, <2>2, TextPiece
  <2>6. fits \in BOOLEAN /\ g4 = (g3 /\ fits) /\ g4 \in BOOLEAN
    BY <2>3 DEF IsStructurallyValidUTF8
  <2> HIDE DEF g4, m_4, w, fits
  <2>7. here \in Nat
    OBVIOUS
  <2>8. Settled(k, b, m0, g3 /\ fits, {}, m_4, here + Len(v3 \o w))
    BY <2>3, <2>4, <2>5, <2>6, <2>7, PieceNext
  <2> QED
    BY <2>0, <2>6, <2>8 DEF v4
<1> HIDE DEF m_4, g4
<1>42. /\ IsRecord(m_5) /\ DOMAIN m_5 = DOMAIN m /\ HasField(m_4, "user_pw")
      /\ m_5["user_pw"] = c5
      /\ \A g \in DOMAIN m : g # "user_pw" => m_5[g] = m_4[g]
  <2> HIDE DEF c5
  <2> QED
    BY <1>40, <1>33, FieldSetIs
<1>43. g5 \in BOOLEAN /\ Settled(k, b, m0, g5, {}, m_5, here + Len(v5))
  <2> DEFINE number == 5
  <2>1. ReadsText(k, 8 * number + 2, "user_pw") /\ number \in 1 .. 9
    <3>1. 8 * 5 + 2 = 42
      OBVIOUS
    <3> QED
      BY <3>1, ReadsStream DEF k
  <2> DEFINE w == Unless(y0.user_pw = << >>, WriteString(number, y0.user_pw))
  <2>0. w5 = w
    BY DEF w5
  <2> HIDE DEF number
  <2>2. y0.user_pw \in Seq(Octet) /\ Len(y0.user_pw) < IntSpan
    BY RawStreamIs, RawIs
  <2>3. Follows(k, b, b, m0, g4, {}, m_4, here, v4) /\ g4 \in BOOLEAN
    BY <1>41, <1>33, <1>16 DEF Follows
  <2>4. Holds(b, here, v4 \o w)
    BY <1>27, <2>0 DEF v5
  <2> DEFINE fits == IsStructurallyValidUTF8(y0.user_pw)
  <2>5. Portion(k, w, m_4, m_5, fits)
    BY <1>42, <2>1, <2>2, TextPiece
  <2>6. fits \in BOOLEAN /\ g5 = (g4 /\ fits) /\ g5 \in BOOLEAN
    BY <2>3 DEF IsStructurallyValidUTF8
  <2> HIDE DEF g5, m_5, w, fits
  <2>7. here \in Nat
    OBVIOUS
  <2>8. Settled(k, b, m0, g4 /\ fits, {}, m_5, here + Len(v4 \o w))
    BY <2>3, <2>4, <2>5, <2>6, <2>7, PieceNext
  <2> QED
    BY <2>0, <2>6, <2>8 DEF v5
<1> HIDE DEF m_5, g5
<1>44. /\ IsRecord(m_6) /\ DOMAIN m_6 = DOMAIN m /\ HasField(m_5, "tcp")
      /\ m_6["tcp"] = c6
      /\ \A g \in DOMAIN m : g # "tcp" => m_6[g] = m_5[g]
  <2> HIDE DEF c6
  <2> QED
    BY <1>42, <1>33, FieldSetIs
<1>45. g6 \in BOOLEAN /\ Settled(k, b, m0, g6, {}, m_6, here + Len(v6))
  <2> DEFINE number == 6
  <2>1. ReadsFlag(k, 8 * number, "tcp") /\ number \in 1 .. 9
    <3>1. 8 * 6 = 48
      OBVIOUS
    <3> QED
      BY <3>1, ReadsStream DEF k
  <2> DEFINE w == Unless(~y0.tcp, WriteBool(number, y0.tcp))
  <2>0. w6 = w
    BY DEF w6
  <2> HIDE DEF number
  <2>2. y0.tcp \in BOOLEAN
    BY RawStreamIs
  <2>3. Follows(k, b, b, m0, g5, {}, m_5, here, v5) /\ g5 \in BOOLEAN
    BY <1>43, <1>33, <1>17 DEF Follows
  <2>4. Holds(b, here, v5 \o w)
    BY <1>26, <2>0 DEF v6
  <2> DEFINE fits == TRUE
  <2>5. Portion(k, w, m_5, m_6, fits)
    BY <1>44, <2>1, <2>2, FlagPiece
  <2>6. fits \in BOOLEAN /\ g6 = (g5 /\ fits) /\ g6 \in BOOLEAN
    BY <2>3
  <2> HIDE DEF g6, m_6, w, fits
  <2>7. here \in Nat
    OBVIOUS
  <2>8. Settled(k, b, m0, g5 /\ fits, {}, m_6, here + Len(v5 \o w))
    BY <2>3, <2>4, <2>5, <2>6, <2>7, PieceNext
  <2> QED
    BY <2>0, <2>6, <2>8 DEF v6
<1> HIDE DEF m_6, g6
<1>46. /\ IsRecord(m_7) /\ DOMAIN m_7 = DOMAIN m /\ HasField(m_6, "stream_accumulate_time")
      /\ m_7["stream_accumulate_time"] = c7
      /\ \A g \in DOMAIN m : g # "stream_accumulate_time" => m_7[g] = m_6[g]
  <2> HIDE DEF c7
  <2> QED
    BY <1>44, <1>33, FieldSetIs
<1>47. g7 \in BOOLEAN /\ Settled(k, b, m0, g7, {}, m_7, here + Len(v7))
  <2> DEFINE number == 7
  <2>1. ReadsNumber(k, 8 * number, "stream_accumulate_time") /\ number \in 1 .. 9
    <3>1. 8 * 7 = 56
      OBVIOUS
    <3> QED
      BY <3>1, ReadsStream DEF k
  <2> DEFINE w == Unless(y0.stream_accumulate_time = 0, WriteUInt32(number, y0.stream_accumulate_time))
  <2>0. w7 = w
    BY DEF w7
  <2> HIDE DEF number
  <2>2. y0.stream_accumulate_time \in 0 .. (IntSpan - 1)
    BY RawStreamIs DEF UInt32
  <2>3. Follows(k, b, b, m0, g6, {}, m_6, here, v6) /\ g6 \in BOOLEAN
    BY <1>45, <1>33, <1>18 DEF Follows
  <2>4. Holds(b, here, v6 \o w)
    BY <1>25, <2>0 DEF v7
  <2> DEFINE fits == TRUE
  <2>5. Portion(k, w, m_6, m_7, fits)
    BY <1>46, <2>1, <2>2, NumberPiece
  <2>6. fits \in BOOLEAN /\ g7 = (g6 /\ fits) /\ g7 \in BOOLEAN
    BY <2>3
  <2> HIDE DEF g7, m_7, w, fits
  <2>7. here \in Nat
    OBVIOUS
  <2>8. Settled(k, b, m0, g6 /\ fits, {}, m_7, here + Len(v6 \o w))
    BY <2>3, <2>4, <2>5, <2>6, <2>7, PieceNext
  <2> QED
    BY <2>0, <2>6, <2>8 DEF v7
<1> HIDE DEF m_7, g7
<1>48. /\ IsRecord(m_8) /\ DOMAIN m_8 = DOMAIN m /\ HasField(m_7, "fps")
      /\ m_8["fps"] = c8
      /\ \A g \in DOMAIN m : g # "fps" => m_8[g] = m_7[g]
  <2> HIDE DEF c8
  <2> QED
    BY <1>46, <1>33, FieldSetIs
<1>49. g8 \in BOOLEAN /\ Settled(k, b, m0, g8, {}, m_8, here + Len(v8))
  <2> DEFINE number == 8
  <2>1. ReadsNumber(k, 8 * number, "fps") /\ number \in 1 .. 9
    <3>1. 8 * 8 = 64
      OBVIOUS
    <3> QED
      BY <3>1, ReadsStream DEF k
  <2> DEFINE w == Unless(y0.fps = 0, WriteUInt32(number, y0.fps))
  <2>0. w8 = w
    BY DEF w8
  <2> HIDE DEF number
  <2>2. y0.fps \in 0 .. (IntSpan - 1)
    BY RawStreamIs DEF UInt32
  <2>3. Follows(k, b, b, m0, g7, {}, m_7, here, v7) /\ g7 \in BOOLEAN
    BY <1>47, <1>33, <1>19 DEF Follows
  <2>4. Holds(b, here, v7 \o w)
    BY <1>24, <2>0 DEF v8
  <2> DEFINE fits == TRUE
  <2>5. Portion(k, w, m_7, m_8, fits)
    BY <1>48, <2>1, <2>2, NumberPiece
  <2>6. fits \in BOOLEAN /\ g8 = (g7 /\ fits) /\ g8 \in BOOLEAN
    BY <2>3
  <2> HIDE DEF g8, m_8, w, fits
  <2>7. here \in Nat
    OBVIOUS
  <2>8. Settled(k, b, m0, g7 /\ fits, {}, m_8, here + Len(v7 \o w))
    BY <2>3, <2>4, <2>5, <2>6, <2>7, PieceNext
  <2> QED
    BY <2>0, <2>6, <2>8 DEF v8
<1> HIDE DEF m_8, g8
<1>50. /\ IsRecord(m_9) /\ DOMAIN m_9 = DOMAIN m /\ HasField(m_8, "stream_used")
      /\ m_9["stream_used"] = c9
      /\ \A g \in DOMAIN m : g # "stream_used" => m_9[g] = m_8[g]
  <2> HIDE DEF c9
  <2> QED
    BY <1>48, <1>33, FieldSetIs
<1>51. g9 \in BOOLEAN /\ Settled(k, b, m0, g9, {}, m_9, here + Len(v9))
  <2> DEFINE number == 9
  <2>1. ReadsFlag(k, 8 * number, "stream_used") /\ number \in 1 .. 9
    <3>1. 8 * 9 = 72
      OBVIOUS
    <3> QED
      BY <3>1, ReadsStream DEF k
  <2> DEFINE w == Unless(~y0.stream_used, WriteBool(number, y0.stream_used))
  <2>0. w9 = w
    BY DEF w9
  <2> HIDE DEF number
  <2>2. y0.stream_used \in BOOLEAN
    BY RawStreamIs
  <2>3. Follows(k, b, b, m0, g8, {}, m_8, here, v8) /\ g8 \in BOOLEAN
    BY <1>49, <1>33, <1>20 DEF Follows
  <2>4. Holds(b, here, v8 \o w)
    BY <1>23, <2>0 DEF v9
  <2> DEFINE fits == TRUE
  <2>5. Portion(k, w, m_8, m_9, fits)
    BY <1>50, <2>1, <2>2, FlagPiece
  <2>6. fits \in BOOLEAN /\ g9 = (g8 /\ fits) /\ g9 \in BOOLEAN
    BY <2>3
  <2> HIDE DEF g9, m_9, w, fits
  <2>7. here \in Nat
    OBVIOUS
  <2>8. Settled(k, b, m0, g8 /\ fits, {}, m_9, here + Len(v8 \o w))
    BY <2>3, <2>4, <2>5, <2>6, <2>7, PieceNext
  <2> QED
    BY <2>0, <2>6, <2>8 DEF v9
<1> HIDE DEF m_9, g9
<1>52. m_9.unknown = m.unknown /\ m.unknown \in Seq(Octet)
  <2>1. m.unknown \in Seq(Octet)
    BY RawStreamIs DEF NewTo
  <2> QED
    BY <1>33, <2>1, <1>34, <1>36, <1>38, <1>40, <1>42, <1>44, <1>46, <1>48, <1>50 DEF m_0
<1>53. Settled(k, b, m0, g9, {}, m_10, here + Len(v9 \o u))
  <2>1. k \in Classes
    BY DEF k, Classes
  <2> QED
    BY <1>1, <1>21, <1>22, <1>33, <1>50, <1>51, <1>52, <2>1, UnknownNext
<1>54. /\ IsRecord(m_10) /\ DOMAIN m_10 = DOMAIN m /\ m_10["unknown"] = m.unknown \o u
       /\ \A g \in DOMAIN m : g # "unknown" => m_10[g] = m_9[g]
  <2>1. c10 = m.unknown \o u
    BY <1>52
  <2>2. IsRecord(m_9) /\ "unknown" \in DOMAIN m_9 /\ DOMAIN m_9 = DOMAIN m
    BY <1>33, <1>50
  <2> HIDE DEF c10
  <2>3. IsRecord(m_10) /\ DOMAIN m_10 = DOMAIN m_9 /\ m_10["unknown"] = c10
        /\ \A g \in DOMAIN m_9 : g # "unknown" => m_10[g] = m_9[g]
    BY <2>2, FieldSetIs
  <2> QED
    BY <2>1, <2>2, <2>3
<1> HIDE DEF m_10
<1> DEFINE z == StreamInfo_MergeFrom(m, y0)
<1>55. /\ IsRecord(z) /\ DOMAIN z = DOMAIN m /\ z.unknown = m.unknown \o y0.unknown
       /\ z.url = Assigned(m.url, y0.url, << >>)
       /\ z.ip = Assigned(m.ip, y0.ip, << >>)
       /\ z.port = Assigned(m.port, y0.port, 0)
       /\ z.user_id = Assigned(m.user_id, y0.user_id, << >>)
       /\ z.user_pw = Assigned(m.user_pw, y0.user_pw, << >>)
       /\ z.tcp = Assigned(m.tcp, y0.tcp, FALSE)
       /\ z.stream_accumulate_time = Assigned(m.stream_accumulate_time, y0.stream_accumulate_time, 0)
       /\ z.fps = Assigned(m.fps, y0.fps, 0)
       /\ z.stream_used = Assigned(m.stream_used, y0.stream_used, FALSE)
  <2>1. IsRecord(m) /\ DOMAIN m = {"url", "ip", "user_id", "user_pw", "port",
                  "stream_accumulate_time", "tcp", "stream_used", "fps", "unknown"}
    BY RawStreamIs
  <2> QED
    BY <2>1, ZenonT(30) DEF StreamInfo_MergeFrom, IsRecord
<1> HIDE DEF z
<1>56. m_10["url"] = z["url"]
  <2>1. m_10["url"] = m_1["url"]
    BY <1>33, <1>54, <1>36, <1>38, <1>40, <1>42, <1>44, <1>46, <1>48, <1>50
  <2>2. m_0["url"] = m["url"]
    BY <1>33 DEF m_0
  <2>3. m_1["url"] = c1
    BY <1>34
  <2> QED
    BY <1>55, <2>1, <2>2, <2>3
<1>57. m_10["ip"] = z["ip"]
  <2>1. m_10["ip"] = m_2["ip"]
    BY <1>33, <1>54, <1>38, <1>40, <1>42, <1>44, <1>46, <1>48, <1>50
  <2>2. m_1["ip"] = m["ip"]
    BY <1>33, <1>34 DEF m_0
  <2>3. m_2["ip"] = c2
    BY <1>36
  <2> QED
    BY <1>55, <2>1, <2>2, <2>3
<1>58. m_10["port"] = z["port"]
  <2>1. m_10["port"] = m_3["port"]
    BY <1>33, <1>54, <1>40, <1>42, <1>44, <1>46, <1>48, <1>50
  <2>2. m_2["port"] = m["port"]
    BY <1>33, <1>34, <1>36 DEF m_0
  <2>3. m_3["port"] = c3
    BY <1>38
  <2> QED
    BY <1>55, <2>1, <2>2, <2>3
<1>59. m_10["user_id"] = z["user_id"]
  <2>1. m_10["user_id"] = m_4["user_id"]
    BY <1>33, <1>54, <1>42, <1>44, <1>46, <1>48, <1>50
  <2>2. m_3["user_id"] = m["user_id"]
    BY <1>33, <1>34, <1>36, <1>38 DEF m_0
  <2>3. m_4["user_id"] = c4
    BY <1>40
  <2> QED
    BY <1>55, <2>1, <2>2, <2>3
<1>60. m_10["user_pw"] = z["user_pw"]
  <2>1. m_10["user_pw"] = m_5["user_pw"]
    BY <1>33, <1>54, <1>44, <1>46, <1>48, <1>50
  <2>2. m_4["user_pw"] = m["user_pw"]
    BY <1>33, <1>34, <1>36, <1>38, <1>40 DEF m_0
  <2>3. m_5["user_pw"] = c5
    BY <1>42
  <2> QED
    BY <1>55, <2>1, <2>2, <2>3
<1>61. m_10["tcp"] = z["tcp"]
  <2>1. m_10["tcp"] = m_6["tcp"]
    BY <1>33, <1>54, <1>46, <1>48, <1>50
  <2>2. m_5["tcp"] = m["tcp"]
    BY <1>33, <1>34, <1>36, <1>38, <1>40, <1>42 DEF m_0
  <2>3. m_6["tcp"] = c6
    BY <1>44
  <2> QED
    BY <1>55, <2>1, <2>2, <2>3
<1>62. m_10["stream_accumulate_time"] = z["stream_accumulate_time"]
  <2>1. m_10["stream_accumulate_time"] = m_7["stream_accumulate_time"]
    BY <1>33, <1>54, <1>48, <1>50
  <2>2. m_6["stream_accumulate_time"] = m["stream_accumulate_time"]
    BY <1>33, <1>34, <1>36, <1>38, <1>40, <1>42, <1>44 DEF m_0
  <2>3. m_7["stream_accumulate_time"] = c7
    BY <1>46
  <2> QED
    BY <1>55, <2>1, <2>2, <2>3
<1>63. m_10["fps"] = z["fps"]
  <2>1. m_10["fps"] = m_8["fps"]
    BY <1>33, <1>54, <1>50
  <2>2. m_7["fps"] = m["fps"]
    BY <1>33, <1>34, <1>36, <1>38, <1>40, <1>42, <1>44, <1>46 DEF m_0
  <2>3. m_8["fps"] = c8
    BY <1>48
  <2> QED
    BY <1>55, <2>1, <2>2, <2>3
<1>64. m_10["stream_used"] = z["stream_used"]
  <2>1. m_10["stream_used"] = m_9["stream_used"]
    BY <1>33, <1>54, <1>50, ZenonT(30)
  <2>2. m_8["stream_used"] = m["stream_used"]
    BY <1>33, <1>34, <1>36, <1>38, <1>40, <1>42, <1>44, <1>46, <1>48 DEF m_0
  <2>3. m_9["stream_used"] = c9
    BY <1>50
  <2> QED
    BY <1>55, <2>1, <2>2, <2>3
<1>65. m_10 = z
  <2>1. \A g \in DOMAIN m : m_10[g] = z[g]
    <3>1. DOMAIN m = {"url", "ip", "user_id", "user_pw", "port",
                  "stream_accumulate_time", "tcp", "stream_used", "fps", "unknown"}
      BY RawStreamIs
    <3> QED
      BY <1>54, <1>55, <1>56, <1>57, <1>58, <1>59, <1>60, <1>61, <1>62, <1>63, <1>64, <3>1 DEF u
  <2> QED
    BY <1>54, <1>55, <2>1 DEF IsRecord
<1>66. g9 = (good /\ StreamTextsValid(y0))
  BY DEF g9, g8, g7, g6, g5, g4, g3, g2, g1, g0, StreamTextsValid, IsStructurallyValidUTF8
<1> QED
  BY <1>11, <1>53, <1>65, <1>66 DEF z, k

----------------------------------------------------------------------------
(* The classes of one field. *)
LEMMA RawSystemCameraIs ==
  ASSUME NEW m \in RawSystemCameras
  PROVE  /\ IsRecord(m) /\ DOMAIN m = {"camera_guid", "unknown"}
         /\ m.camera_guid \in Raw /\ m.unknown \in NewTo("System_CameraInfo")
<1> DEFINE T == Raw
           V == NewTo("System_CameraInfo")
<1> HIDE DEF T, V
<1>1. m \in [camera_guid : T, unknown : V]
  BY DEF RawSystemCameras, T, V
<1> QED
  BY <1>1 DEF IsRecord, T, V

LEMMA RawWatchdogIs ==
  ASSUME NEW m \in RawWatchdogs
  PROVE  /\ IsRecord(m) /\ DOMAIN m = {"pid", "unknown"}
         /\ m.pid \in UInt32 /\ m.unknown \in NewTo("CameraWatchdog")
<1> DEFINE T == UInt32
           V == NewTo("CameraWatchdog")
<1> HIDE DEF T, V
<1>1. m \in [pid : T, unknown : V]
  BY DEF RawWatchdogs, T, V
<1> QED
  BY <1>1 DEF IsRecord, T, V

LEMMA SystemCameraBytes ==
  ASSUME NEW y0 \in RawSystemCameras
  PROVE  /\ System_CameraInfo_SerializeWithCachedSizes(y0) \in Seq(Octet)
         /\ Len(System_CameraInfo_SerializeWithCachedSizes(y0)) = System_CameraInfo_ByteSizeLong(y0)
         /\ System_CameraInfo_ByteSizeLong(y0) \in Nat
<1> DEFINE u == y0.unknown
           w == Unless(y0.camera_guid = << >>, WriteString(1, y0.camera_guid))
           n == UnlessSize(y0.camera_guid = << >>, 1 + StringSize(y0.camera_guid))
<1>1. u \in Seq(Octet) /\ Len(u) \in Nat
  <2>1. u \in NewTo("System_CameraInfo")
    BY RawSystemCameraIs
  <2> QED
    BY <2>1 DEF NewTo
<1>2. w \in Seq(Octet) /\ Len(w) = n /\ n \in Nat
  <2>1. y0.camera_guid \in Seq(Octet) /\ Len(y0.camera_guid) < IntSpan /\ 1 \in 1 .. 9
    BY RawSystemCameraIs, RawIs
  <2> QED
    BY <2>1, TextBytes
<1>3. System_CameraInfo_SerializeWithCachedSizes(y0) = w \o u
  BY DEF System_CameraInfo_SerializeWithCachedSizes
<1>4. System_CameraInfo_ByteSizeLong(y0) = Len(u) + n
  BY DEF System_CameraInfo_ByteSizeLong
<1> HIDE DEF u, w, n
<1>5. w \o u \in Seq(Octet) /\ Len(w \o u) = Len(w) + Len(u)
  BY <1>1, <1>2, JoinedOctets
<1> QED
  BY <1>1, <1>2, <1>3, <1>4, <1>5

LEMMA WatchdogBytes ==
  ASSUME NEW y0 \in RawWatchdogs
  PROVE  /\ CameraWatchdog_SerializeWithCachedSizes(y0) \in Seq(Octet)
         /\ Len(CameraWatchdog_SerializeWithCachedSizes(y0)) = CameraWatchdog_ByteSizeLong(y0)
<1> DEFINE u == y0.unknown
           w == Unless(y0.pid = 0, WriteUInt32(1, y0.pid))
           n == UnlessSize(y0.pid = 0, 1 + UInt32Size(y0.pid))
<1>1. u \in Seq(Octet) /\ Len(u) \in Nat
  <2>1. u \in NewTo("CameraWatchdog")
    BY RawWatchdogIs
  <2> QED
    BY <2>1 DEF NewTo
<1>2. w \in Seq(Octet) /\ Len(w) = n /\ n \in Nat
  <2>1. y0.pid \in 0 .. (IntSpan - 1) /\ 1 \in 1 .. 9
    BY RawWatchdogIs DEF UInt32
  <2> QED
    BY <2>1, NumberBytes
<1>3. CameraWatchdog_SerializeWithCachedSizes(y0) = w \o u
  BY DEF CameraWatchdog_SerializeWithCachedSizes
<1>4. CameraWatchdog_ByteSizeLong(y0) = Len(u) + n
  BY DEF CameraWatchdog_ByteSizeLong
<1> HIDE DEF u, w, n
<1>5. w \o u \in Seq(Octet) /\ Len(w \o u) = Len(w) + Len(u)
  BY <1>1, <1>2, JoinedOctets
<1> QED
  BY <1>1, <1>2, <1>3, <1>4, <1>5

(* The one field, in bytes that may be cut off. *)
LEMMA GuidReads ==
  ASSUME NEW k, NEW f, ReadsText(k, 10, f),
         NEW b \in Seq(Octet), NEW full \in Seq(Octet), Prefix(b, full),
         NEW m0, NEW good \in BOOLEAN, NEW R, NEW m, NEW here, Settled(k, b, m0, good, R, m, here),
         HasField(m, f), NEW s \in Raw, m \in R \/ Len(b) = Len(full),
         Holds(full, here, Unless(s = << >>, WriteString(1, s)))
  PROVE  Settled(k, b, m0, good /\ IsStructurallyValidUTF8(s), R,
                 FieldSet(m, f, Assigned(m[f], s, << >>)),
                 here + Len(Unless(s = << >>, WriteString(1, s))))
<1> DEFINE number == 1
           w == Unless(s = << >>, WriteString(number, s))
           m2 == FieldSet(m, f, Assigned(m[f], s, << >>))
           fits == IsStructurallyValidUTF8(s)
<1>1. number \in 1 .. 9 /\ ReadsText(k, 8 * number + 2, f)
  <2>1. 8 * number + 2 = 10
    OBVIOUS
  <2> QED
    BY <2>1
<1>2. Holds(full, here, w)
  OBVIOUS
<1>3. w = Unless(s = << >>, WriteString(1, s))
  OBVIOUS
<1> HIDE DEF number
<1>4. Portion(k, w, m, m2, fits)
  BY <1>1, RawIs, TextPiece
<1>5. fits \in BOOLEAN
  BY DEF IsStructurallyValidUTF8
<1> HIDE DEF w, m2, fits
<1>6. Settled(k, b, m0, good /\ fits, R, m2, here + Len(w))
  BY <1>2, <1>4, <1>5, SettledStep
<1> QED
  BY <1>3, <1>6 DEF m2, fits

LEMMA PidReads ==
  ASSUME NEW b \in Seq(Octet), NEW full \in Seq(Octet), Prefix(b, full),
         NEW m0, NEW good \in BOOLEAN, NEW R, NEW m, NEW here,
         Settled("CameraWatchdog", b, m0, good, R, m, here),
         HasField(m, "pid"), NEW n \in UInt32, m \in R \/ Len(b) = Len(full),
         Holds(full, here, Unless(n = 0, WriteUInt32(1, n)))
  PROVE  Settled("CameraWatchdog", b, m0, good, R, FieldSet(m, "pid", Assigned(m["pid"], n, 0)),
                 here + Len(Unless(n = 0, WriteUInt32(1, n))))
<1> DEFINE number == 1
           k == "CameraWatchdog"
           w == Unless(n = 0, WriteUInt32(number, n))
           m2 == FieldSet(m, "pid", Assigned(m["pid"], n, 0))
           fits == TRUE
<1>1. number \in 1 .. 9 /\ ReadsNumber(k, 8 * number, "pid")
  <2>1. 8 * number = 8
    OBVIOUS
  <2> QED
    BY <2>1, ReadsWatchdog
<1>2. Holds(full, here, w) /\ Settled(k, b, m0, good, R, m, here)
  OBVIOUS
<1>3. w = Unless(n = 0, WriteUInt32(1, n))
  OBVIOUS
<1> HIDE DEF number, k
<1>4. Portion(k, w, m, m2, fits)
  BY <1>1, NumberPiece DEF UInt32
<1>5. fits \in BOOLEAN /\ (good /\ fits) = good
  OBVIOUS
<1> HIDE DEF w, m2, fits
<1>6. Settled(k, b, m0, good /\ fits, R, m2, here + Len(w))
  BY <1>2, <1>4, <1>5, SettledStep
<1> QED
  BY <1>3, <1>5, <1>6 DEF m2, k

LEMMA SystemCameraReads ==
  ASSUME NEW b \in Seq(Octet), NEW m0, NEW good \in BOOLEAN, NEW m \in RawSystemCameras,
         NEW here \in Nat \ {0}, Settled("System_CameraInfo", b, m0, good, {}, m, here),
         NEW y0 \in RawSystemCameras,
         Holds(b, here, System_CameraInfo_SerializeWithCachedSizes(y0))
  PROVE  Settled("System_CameraInfo", b, m0, good /\ IsStructurallyValidUTF8(y0.camera_guid), {},
                 System_CameraInfo_MergeFrom(m, y0),
                 here + Len(System_CameraInfo_SerializeWithCachedSizes(y0)))
<1> DEFINE k == "System_CameraInfo"
           f == "camera_guid"
           s == y0.camera_guid
           u == y0.unknown
           w == Unless(s = << >>, WriteString(1, s))
           c1 == Assigned(m[f], s, << >>)
           m1 == FieldSet(m, f, c1)
           c2 == m1.unknown \o u
           m2 == FieldSet(m1, "unknown", c2)
           g1 == good /\ IsStructurallyValidUTF8(s)
<1>1. System_CameraInfo_SerializeWithCachedSizes(y0) = w \o u
  BY DEF System_CameraInfo_SerializeWithCachedSizes
<1>2. s \in Raw /\ u \in NewTo(k) /\ u \in Seq(Octet)
  <2>1. s \in Raw /\ u \in NewTo("System_CameraInfo")
    BY RawSystemCameraIs
  <2> QED
    BY <2>1 DEF NewTo
<1>3. w \in Seq(Octet)
  <2>1. s \in Seq(Octet) /\ Len(s) < IntSpan /\ 1 \in 1 .. 9
    BY <1>2, RawIs
  <2> HIDE DEF s
  <2> QED
    BY <2>1, TextBytes
<1>4. Holds(b, here, w \o u)
  BY <1>1
<1>5. /\ IsRecord(m) /\ DOMAIN m = {"camera_guid", "unknown"} /\ m.unknown \in Seq(Octet)
      /\ f \in DOMAIN m /\ "unknown" \in DOMAIN m /\ f # "unknown"
  <2>1. m.unknown \in NewTo("System_CameraInfo")
    BY RawSystemCameraIs
  <2> QED
    BY <2>1, RawSystemCameraIs DEF NewTo
<1>6. k \in Classes /\ ReadsText(k, 10, f) /\ Prefix(b, b)
  BY ReadsSystemCamera, PrefixAll DEF Classes
<1>7. Settled(k, b, m0, good, {}, m, here)
  OBVIOUS
<1>8. g1 \in BOOLEAN
  BY DEF IsStructurallyValidUTF8
<1> HIDE DEF k, f, u
<1>9. Holds(b, here, w)
  <2> HIDE DEF w
  <2> QED
    BY <1>2, <1>3, <1>4, HoldsParts
<1>10. HasField(m, f) /\ IsRecord(m1) /\ DOMAIN m1 = DOMAIN m /\ m1[f] = c1 /\ m1.unknown = m.unknown
  <2> HIDE DEF c1
  <2>1. /\ HasField(m, f) /\ IsRecord(m1) /\ DOMAIN m1 = DOMAIN m /\ m1[f] = c1
        /\ \A g \in DOMAIN m : g # f => m1[g] = m[g]
    BY <1>5, FieldSetIs
  <2> HIDE DEF m1
  <2> QED
    BY <1>5, <2>1
<1>11. Settled(k, b, m0, g1, {}, m1, here + Len(w))
  <2>1. ReadsText(k, 10, f) /\ Prefix(b, b) /\ HasField(m, f) /\ s \in Raw /\ Holds(b, here, w)
    BY <1>2, <1>6, <1>9, <1>10
  <2> HIDE DEF s
  <2>2. Settled(k, b, m0, good /\ IsStructurallyValidUTF8(s), {},
                FieldSet(m, f, Assigned(m[f], s, << >>)),
                here + Len(Unless(s = << >>, WriteString(1, s))))
    BY <1>7, <2>1, GuidReads
  <2> QED
    BY <2>2
<1> HIDE DEF m1, w, g1
<1>12. Settled(k, b, m0, g1, {}, m2, here + Len(w \o u))
  BY <1>2, <1>3, <1>4, <1>5, <1>6, <1>8, <1>10, <1>11, UnknownNext
<1>13. m2 = System_CameraInfo_MergeFrom(m, y0)
  <2>1. c2 = m.unknown \o u
    BY <1>10
  <2> HIDE DEF c1, c2
  <2>2. /\ IsRecord(m2) /\ DOMAIN m2 = DOMAIN m /\ m2.unknown = c2 /\ m2[f] = c1
    <3>1. "unknown" \in DOMAIN m1 /\ f \in DOMAIN m1
      BY <1>5, <1>10
    <3>2. /\ IsRecord(m2) /\ DOMAIN m2 = DOMAIN m1 /\ m2["unknown"] = c2
          /\ \A g \in DOMAIN m1 : g # "unknown" => m2[g] = m1[g]
      BY <1>10, <3>1, FieldSetIs
    <3> QED
      BY <1>5, <1>10, <3>1, <3>2
  <2> DEFINE z == System_CameraInfo_MergeFrom(m, y0)
  <2>3. /\ IsRecord(z) /\ DOMAIN z = DOMAIN m /\ z.unknown = m.unknown \o u /\ z[f] = c1
    BY <1>5 DEF System_CameraInfo_MergeFrom, IsRecord, u, c1, f
  <2> HIDE DEF z, m2
  <2>4. \A g \in DOMAIN m : m2[g] = z[g]
    BY <1>5, <2>1, <2>2, <2>3 DEF f
  <2> QED
    BY <2>2, <2>3, <2>4 DEF IsRecord, z
<1> QED
  BY <1>1, <1>12, <1>13 DEF g1, k

LEMMA WatchdogReads ==
  ASSUME NEW b \in Seq(Octet), NEW m0, NEW good \in BOOLEAN, NEW m \in RawWatchdogs,
         NEW here \in Nat \ {0}, Settled("CameraWatchdog", b, m0, good, {}, m, here),
         NEW y0 \in RawWatchdogs, Holds(b, here, CameraWatchdog_SerializeWithCachedSizes(y0))
  PROVE  Settled("CameraWatchdog", b, m0, good, {}, CameraWatchdog_MergeFrom(m, y0),
                 here + Len(CameraWatchdog_SerializeWithCachedSizes(y0)))
<1> DEFINE k == "CameraWatchdog"
           f == "pid"
           s == y0.pid
           u == y0.unknown
           w == Unless(s = 0, WriteUInt32(1, s))
           c1 == Assigned(m[f], s, 0)
           m1 == FieldSet(m, f, c1)
           c2 == m1.unknown \o u
           m2 == FieldSet(m1, "unknown", c2)
<1>1. CameraWatchdog_SerializeWithCachedSizes(y0) = w \o u
  BY DEF CameraWatchdog_SerializeWithCachedSizes
<1>2. s \in UInt32 /\ u \in NewTo(k) /\ u \in Seq(Octet)
  <2>1. s \in UInt32 /\ u \in NewTo("CameraWatchdog")
    BY RawWatchdogIs
  <2> QED
    BY <2>1 DEF NewTo
<1>3. w \in Seq(Octet)
  <2>1. s \in 0 .. (IntSpan - 1) /\ 1 \in 1 .. 9
    BY <1>2 DEF UInt32
  <2> HIDE DEF s
  <2> QED
    BY <2>1, NumberBytes
<1>4. Holds(b, here, w \o u)
  BY <1>1
<1>5. /\ IsRecord(m) /\ DOMAIN m = {"pid", "unknown"} /\ m.unknown \in Seq(Octet)
      /\ f \in DOMAIN m /\ "unknown" \in DOMAIN m /\ f # "unknown"
  <2>1. m.unknown \in NewTo("CameraWatchdog")
    BY RawWatchdogIs
  <2> QED
    BY <2>1, RawWatchdogIs DEF NewTo
<1>6. k \in Classes /\ Prefix(b, b)
  BY PrefixAll DEF Classes
<1> HIDE DEF u
<1>9. Holds(b, here, w)
  <2> HIDE DEF w
  <2> QED
    BY <1>2, <1>3, <1>4, HoldsParts
<1>10. HasField(m, f) /\ IsRecord(m1) /\ DOMAIN m1 = DOMAIN m /\ m1[f] = c1 /\ m1.unknown = m.unknown
  <2> HIDE DEF c1, f
  <2>1. /\ HasField(m, f) /\ IsRecord(m1) /\ DOMAIN m1 = DOMAIN m /\ m1[f] = c1
        /\ \A g \in DOMAIN m : g # f => m1[g] = m[g]
    BY <1>5, FieldSetIs
  <2> HIDE DEF m1
  <2> QED
    BY <1>5, <2>1
<1>11. Settled(k, b, m0, good, {}, m1, here + Len(w))
  <2> HIDE DEF s
  <2> QED
    BY <1>2, <1>6, <1>9, <1>10, PidReads
<1> HIDE DEF m1, w, k, f
<1>12. Settled(k, b, m0, good, {}, m2, here + Len(w \o u))
  BY <1>2, <1>3, <1>4, <1>5, <1>6, <1>10, <1>11, UnknownNext
<1>13. m2 = CameraWatchdog_MergeFrom(m, y0)
  <2>1. c2 = m.unknown \o u
    BY <1>10
  <2> HIDE DEF c1, c2
  <2>2. /\ IsRecord(m2) /\ DOMAIN m2 = DOMAIN m /\ m2.unknown = c2 /\ m2[f] = c1
    <3>1. "unknown" \in DOMAIN m1 /\ f \in DOMAIN m1
      BY <1>5, <1>10
    <3>2. /\ IsRecord(m2) /\ DOMAIN m2 = DOMAIN m1 /\ m2["unknown"] = c2
          /\ \A g \in DOMAIN m1 : g # "unknown" => m2[g] = m1[g]
      BY <1>10, <3>1, FieldSetIs
    <3> QED
      BY <1>5, <1>10, <3>1, <3>2
  <2> DEFINE z == CameraWatchdog_MergeFrom(m, y0)
  <2>3. /\ IsRecord(z) /\ DOMAIN z = DOMAIN m /\ z.unknown = m.unknown \o u /\ z[f] = c1
    BY <1>5 DEF CameraWatchdog_MergeFrom, IsRecord, u, c1, f
  <2> HIDE DEF z, m2
  <2>4. \A g \in DOMAIN m : m2[g] = z[g]
    BY <1>5, <2>1, <2>2, <2>3 DEF f
  <2> QED
    BY <2>2, <2>3, <2>4 DEF IsRecord, z
<1> QED
  BY <1>1, <1>12, <1>13 DEF k

----------------------------------------------------------------------------
(* The classes that hold others: two texts and a list. *)
HolderText(guid, name, parts) ==
  Unless(guid = << >>, WriteString(1, guid)) \o Unless(name = << >>, WriteString(2, name))
    \o Concatenated(parts)

Guided(m, fg, guid) == FieldSet(m, fg, Assigned(m[fg], guid, << >>))
Named(m, fg, fn, guid, name) ==
  FieldSet(Guided(m, fg, guid), fn, Assigned(Guided(m, fg, guid)[fn], name, << >>))
WithParts(m, f, nodes, n) == FieldSet(m, f, m[f] \o SubSeq(nodes, 1, n))

(* The bytes s of each element, and what they are read as. *)
PartsRead(j, s, nodes, fits) ==
  /\ Len(nodes) \in Nat /\ fits \in [1 .. Len(nodes) -> BOOLEAN]
  /\ \A i \in 1 .. Len(nodes) :
       /\ s[i] \in Seq(Octet) /\ Len(s[i]) < IntSpan
       /\ fits[i] => Parse(j, New(j), s[i]).ok /\ Parse(j, New(j), s[i]).m = nodes[i]
       /\ ~fits[i] => ~Parse(j, New(j), s[i]).ok

PartsWritten(parts, s, n) ==
  Len(parts) = n /\ \A i \in 1 .. n : parts[i] = WriteMessage(3, Len(s[i]), s[i])
PartsIn(b, full, m, f, nodes, R) ==
  Len(b) = Len(full) \/ \A n \in 0 .. (Len(nodes) - 1) : WithParts(m, f, nodes, n) \in R
AllFit(fits, n) == \A i \in 1 .. n : fits[i]

LEMMA AppendCut ==
  ASSUME NEW T, NEW a \in Seq(T), NEW s \in Seq(T), NEW n \in 1 .. Len(s)
  PROVE  Append(a \o SubSeq(s, 1, n - 1), s[n]) = a \o SubSeq(s, 1, n)
<1> DEFINE p == n - 1
           c == SubSeq(s, 1, p)
           d == SubSeq(s, 1, n)
           l == a \o c
           r == a \o d
           q == Append(l, s[n])
<1>0. Len(s) \in Nat /\ n \in Nat /\ n <= Len(s) /\ p \in Nat /\ p <= Len(s) /\ n = p + 1 /\ s[n] \in T
  OBVIOUS
<1> HIDE DEF p
<1>1. c \in Seq(T) /\ Len(c) = p /\ \A i \in 1 .. p : c[i] = s[i]
  BY <1>0
<1>2. d \in Seq(T) /\ Len(d) = n /\ \A i \in 1 .. n : d[i] = s[i]
  BY <1>0
<1> HIDE DEF c, d
<1>3. /\ l \in Seq(T) /\ Len(l) = Len(a) + p /\ Len(a) \in Nat
      /\ \A i \in 1 .. Len(a) : l[i] = a[i]
      /\ \A i \in 1 .. p : l[Len(a) + i] = c[i]
  BY <1>1, JoinedCells
<1>4. /\ r \in Seq(T) /\ Len(r) = Len(a) + n
      /\ \A i \in 1 .. Len(a) : r[i] = a[i]
      /\ \A i \in 1 .. n : r[Len(a) + i] = d[i]
  <2>0. d \in Seq(T)
    BY <1>2
  <2>1. /\ r \in Seq(T) /\ Len(r) = Len(a) + Len(d)
        /\ \A i \in 1 .. Len(a) : r[i] = a[i]
        /\ \A i \in 1 .. Len(d) : r[Len(a) + i] = d[i]
    BY <2>0, JoinedCells
  <2> HIDE DEF r
  <2> QED
    BY <1>2, <2>1
<1> HIDE DEF l, r
<1>5. /\ q \in Seq(T) /\ Len(q) = Len(l) + 1
      /\ \A i \in 1 .. Len(l) : q[i] = l[i]
      /\ q[Len(l) + 1] = s[n]
  <2> DEFINE e == s[n]
  <2>1. e \in T
    BY <1>0
  <2> HIDE DEF e
  <2>2. /\ Append(l, e) \in Seq(T) /\ Len(Append(l, e)) = Len(l) + 1
        /\ \A i \in 1 .. Len(l) : Append(l, e)[i] = l[i]
        /\ Append(l, e)[Len(l) + 1] = e
    BY <1>3, <2>1
  <2> QED
    BY <2>2 DEF e
<1> HIDE DEF q
<1>6. Len(q) = Len(r)
  BY <1>0, <1>3, <1>4, <1>5
<1>7. ASSUME NEW i \in 1 .. Len(r) PROVE q[i] = r[i]
  <2>1. CASE i <= Len(a)
    <3>1. i \in 1 .. Len(a) /\ i \in 1 .. Len(l)
      BY <1>0, <1>3, <2>1
    <3> QED
      BY <1>3, <1>4, <1>5, <3>1
  <2>2. CASE i > Len(a) /\ i < Len(a) + n
    <3> DEFINE e == i - Len(a)
    <3>1. e \in 1 .. p /\ e \in 1 .. n /\ Len(a) + e = i /\ i \in 1 .. Len(l)
      BY <1>0, <1>3, <1>4, <2>2
    <3> HIDE DEF e
    <3>2. l[Len(a) + e] = c[e] /\ r[Len(a) + e] = d[e] /\ q[i] = l[i]
      BY <1>3, <1>4, <1>5, <3>1
    <3> QED
      BY <1>1, <1>2, <3>1, <3>2
  <2>3. CASE i = Len(a) + n
    <3>1. i = Len(l) + 1 /\ n \in 1 .. n
      BY <1>0, <1>3, <2>3
    <3>2. r[Len(a) + n] = d[n] /\ d[n] = s[n]
      BY <1>2, <1>4, <3>1
    <3> QED
      BY <1>5, <2>3, <3>1, <3>2
  <2>4. i <= Len(a) \/ (i > Len(a) /\ i < Len(a) + n) \/ i = Len(a) + n
    BY <1>0, <1>3, <1>4
  <2> QED
    BY <2>1, <2>2, <2>3, <2>4
<1>8. q = r
  <2>1. q = [i \in 1 .. Len(r) |-> q[i]] /\ r = [i \in 1 .. Len(r) |-> r[i]]
    BY <1>4, <1>5, <1>6
  <2>2. [i \in 1 .. Len(r) |-> q[i]] = [i \in 1 .. Len(r) |-> r[i]]
    BY <1>7
  <2> QED
    BY <2>1, <2>2, Zenon
<1> QED
  BY <1>8 DEF q, r, l, c, d, p

LEMMA OneMorePart ==
  ASSUME NEW m, IsRecord(m), NEW f \in DOMAIN m, NEW T, NEW nodes \in Seq(T), m[f] \in Seq(T),
         NEW n \in 1 .. Len(nodes)
  PROVE  FieldSet(WithParts(m, f, nodes, n - 1), f,
                  Append(WithParts(m, f, nodes, n - 1)[f], nodes[n]))
           = WithParts(m, f, nodes, n)
<1> DEFINE v == m[f] \o SubSeq(nodes, 1, n - 1)
           w == m[f] \o SubSeq(nodes, 1, n)
<1>1. Append(v, nodes[n]) = w
  <2> DEFINE a == m[f]
  <2>1. a \in Seq(T)
    OBVIOUS
  <2> HIDE DEF a
  <2>2. Append(a \o SubSeq(nodes, 1, n - 1), nodes[n]) = a \o SubSeq(nodes, 1, n)
    BY <2>1, AppendCut
  <2> QED
    BY <2>2 DEF a
<1>2. WithParts(m, f, nodes, n - 1) = FieldSet(m, f, v) /\ WithParts(m, f, nodes, n) = FieldSet(m, f, w)
  BY DEF WithParts
<1> HIDE DEF v, w
<1>3. FieldSet(m, f, v)[f] = v
  BY FieldSetIs
<1>4. FieldSet(FieldSet(m, f, v), f, w) = FieldSet(m, f, w)
  BY DEF FieldSet, IsRecord
<1> QED
  BY <1>1, <1>2, <1>3, <1>4

(* A list of parts. *)
LEMMA PartsSettled ==
  ASSUME NEW k, NEW f, NEW j, ReadsPart(k, f, j),
         NEW b \in Seq(Octet), NEW full \in Seq(Octet), Prefix(b, full),
         NEW m0, NEW good \in BOOLEAN, NEW R, NEW m, NEW here \in Nat,
         Settled(k, b, m0, good, R, m, here), IsRecord(m), f \in DOMAIN m,
         NEW T, NEW nodes \in Seq(T), m[f] \in Seq(T), NEW s, NEW fits, PartsRead(j, s, nodes, fits),
         NEW parts, PartsWritten(parts, s, Len(nodes)), PartsIn(b, full, m, f, nodes, R),
         Holds(full, here, Concatenated(parts))
  PROVE  /\ Concatenated(parts) \in Seq(Octet)
         /\ Settled(k, b, m0, good /\ AllFit(fits, Len(nodes)), R,
                    WithParts(m, f, nodes, Len(nodes)), here + Len(Concatenated(parts)))
<1> DEFINE N == Len(nodes)
           M(n) == WithParts(m, f, nodes, n)
           G(n) == good /\ AllFit(fits, n)
<1>0. Len(parts) = N /\ \A i \in 1 .. N : parts[i] = WriteMessage(3, Len(s[i]), s[i])
  BY DEF PartsWritten
<1>1. /\ N \in Nat /\ fits \in [1 .. N -> BOOLEAN]
      /\ \A i \in 1 .. N :
           /\ s[i] \in Seq(Octet) /\ Len(s[i]) < IntSpan
           /\ fits[i] => Parse(j, New(j), s[i]).ok /\ Parse(j, New(j), s[i]).m = nodes[i]
           /\ ~fits[i] => ~Parse(j, New(j), s[i]).ok
  BY DEF PartsRead
<1>2. ASSUME NEW n \in 1 .. N
      PROVE  Portion(k, parts[n], M(n - 1), M(n), fits[n]) /\ parts[n] \in Seq(Octet)
  <2> DEFINE fit == fits[n]
             t == s[n]
             node == nodes[n]
             d == M(n - 1)
  <2>1. /\ fit \in BOOLEAN /\ t \in Seq(Octet) /\ Len(t) < IntSpan
        /\ fit => Parse(j, New(j), t).ok /\ Parse(j, New(j), t).m = node
        /\ ~fit => ~Parse(j, New(j), t).ok
    BY <1>1
  <2>2. parts[n] = WriteMessage(3, Len(t), t)
    BY <1>0, <1>2
  <2>3. FieldSet(d, f, Append(d[f], node)) = M(n)
    BY <1>2, OneMorePart
  <2> HIDE DEF fit, t, node, d, M
  <2>4. Portion(k, WriteMessage(3, Len(t), t), d, FieldSet(d, f, Append(d[f], node)), fit)
    BY <2>1, PartPiece
  <2>5. Portion(k, parts[n], d, M(n), fit)
    BY <2>2, <2>3, <2>4
  <2>6. parts[n] \in Seq(Octet)
    BY <2>1, <2>5, PieceBytes
  <2> QED
    BY <2>5, <2>6 DEF fit, d
<1>3. Len(parts) = N /\ Len(parts) \in Nat /\ \A i \in 1 .. Len(parts) : parts[i] \in Seq(Octet)
  BY <1>0, <1>1, <1>2
<1>4. PICK g : IsJoin(g, parts) /\ Concatenated(parts) = g[Len(parts)]
  BY <1>3, ConcatenatedIs
<1>5. /\ \A n \in 0 .. N : g[n] \in Seq(Octet)
      /\ g[0] = << >>
      /\ \A n \in 1 .. N : g[n] = g[n - 1] \o parts[n]
  BY <1>3, <1>4 DEF IsJoin
<1>6. \A n \in 0 .. N : Holds(full, here, g[n])
  <2>1. Holds(full, here, g[Len(parts)])
    BY <1>4
  <2>2. \A n \in 0 .. Len(parts) : Holds(full, here, g[n])
    BY <1>3, <1>4, <2>1, JoinHolds
  <2> QED
    BY <1>3, <2>2
<1>7. M(0) = m
  <2>1. SubSeq(nodes, 1, 0) = << >>
    OBVIOUS
  <2>2. m[f] \o << >> = m[f]
    OBVIOUS
  <2>3. HasField(m, f)
    BY FieldSetIs
  <2> QED
    BY <2>1, <2>2, <2>3 DEF WithParts, FieldSet, HasField
<1>8. \A n \in 0 .. N : G(n) \in BOOLEAN
  BY DEF AllFit
<1>9. \A n \in 1 .. N : G(n) = (G(n - 1) /\ fits[n])
  <2> SUFFICES ASSUME NEW n \in 1 .. N PROVE G(n) = (G(n - 1) /\ fits[n])
    OBVIOUS
  <2>1. \A i : i \in 1 .. n <=> i \in 1 .. (n - 1) \/ i = n
    BY <1>1
  <2>2. fits[n] \in BOOLEAN
    BY <1>1
  <2> QED
    BY <2>1, <2>2 DEF AllFit
<1>10. Len(b) = Len(full) \/ \A n \in 0 .. (N - 1) : M(n) \in R
  BY DEF PartsIn
<1> HIDE DEF M
<1> DEFINE U == {n \in Nat : n \in 0 .. N => Settled(k, b, m0, G(n), R, M(n), here + Len(g[n]))}
<1>11. ASSUME NEW n \in Nat, \A i \in 0 .. (n - 1) : i \in U PROVE n \in U
  <2> SUFFICES ASSUME n \in 0 .. N PROVE Settled(k, b, m0, G(n), R, M(n), here + Len(g[n]))
    OBVIOUS
  <2>1. CASE n = 0
    <3>1. here + Len(g[n]) = here
      BY <1>5, <2>1
    <3>2. \A i \in 1 .. n : fits[i]
      BY <2>1
    <3>3. G(n) = good
      BY <3>2 DEF AllFit
    <3> HIDE DEF G
    <3> QED
      BY <1>7, <2>1, <3>1, <3>3
  <2>2. CASE n # 0
    <3> DEFINE p == n - 1
               q == G(p)
               fit == fits[n]
               before == g[p]
               w == parts[n]
               l == M(p)
               r == M(n)
    <3>1. p \in 0 .. (n - 1) /\ p \in 0 .. N /\ n \in 1 .. N /\ p \in 0 .. (N - 1)
      BY <1>1, <2>2
    <3>2. Settled(k, b, m0, q, R, l, here + Len(before))
      BY <1>11, <3>1
    <3>3. /\ before \in Seq(Octet) /\ g[n] = before \o w /\ Holds(full, here, before \o w)
      BY <1>5, <1>6, <3>1
    <3>4. Portion(k, w, l, r, fit)
      BY <1>2, <3>1
    <3>5. q \in BOOLEAN /\ fit \in BOOLEAN
      BY <1>1, <1>8, <3>1
    <3>6. G(n) = (q /\ fit)
      BY <1>9, <3>1
    <3>7. l \in R \/ Len(b) = Len(full)
      BY <1>10, <3>1
    <3> HIDE DEF q, fit, before, w, l, r
    <3>8. Follows(k, b, full, m0, q, R, l, here, before)
      BY <3>2, <3>3, <3>7 DEF Follows
    <3>9. Settled(k, b, m0, q /\ fit, R, r, here + Len(before \o w))
      BY <3>3, <3>4, <3>5, <3>8, PieceNext
    <3> HIDE DEF G
    <3> QED
      BY <3>3, <3>6, <3>9 DEF r
  <2> QED
    BY <2>1, <2>2
<1>12. \A n \in Nat : n \in U
  <2> HIDE DEF U
  <2> QED
    BY <1>11, Induction
<1>13. Settled(k, b, m0, G(N), R, M(N), here + Len(g[N]))
  BY <1>1, <1>12
<1>14. Concatenated(parts) = g[N] /\ g[N] \in Seq(Octet)
  BY <1>1, <1>3, <1>4, <1>5
<1> QED
  BY <1>13, <1>14 DEF M

LEMMA NameReads ==
  ASSUME NEW k, NEW f, ReadsText(k, 18, f),
         NEW b \in Seq(Octet), NEW full \in Seq(Octet), Prefix(b, full),
         NEW m0, NEW good \in BOOLEAN, NEW R, NEW m, NEW here, Settled(k, b, m0, good, R, m, here),
         HasField(m, f), NEW s \in Raw, m \in R \/ Len(b) = Len(full),
         Holds(full, here, Unless(s = << >>, WriteString(2, s)))
  PROVE  Settled(k, b, m0, good /\ IsStructurallyValidUTF8(s), R,
                 FieldSet(m, f, Assigned(m[f], s, << >>)),
                 here + Len(Unless(s = << >>, WriteString(2, s))))
<1> DEFINE number == 2
           w == Unless(s = << >>, WriteString(number, s))
           m2 == FieldSet(m, f, Assigned(m[f], s, << >>))
           fits == IsStructurallyValidUTF8(s)
<1>1. number \in 1 .. 9 /\ ReadsText(k, 8 * number + 2, f)
  <2>1. 8 * number + 2 = 18
    OBVIOUS
  <2> QED
    BY <2>1
<1>2. Holds(full, here, w)
  OBVIOUS
<1>3. w = Unless(s = << >>, WriteString(2, s))
  OBVIOUS
<1> HIDE DEF number
<1>4. Portion(k, w, m, m2, fits)
  BY <1>1, RawIs, TextPiece
<1>5. fits \in BOOLEAN
  BY DEF IsStructurallyValidUTF8
<1> HIDE DEF w, m2, fits
<1>6. Settled(k, b, m0, good /\ fits, R, m2, here + Len(w))
  BY <1>2, <1>4, <1>5, SettledStep
<1> QED
  BY <1>3, <1>6 DEF m2, fits

LEMMA MessageBytes ==
  ASSUME NEW s \in Raw
  PROVE  /\ WriteMessage(3, Len(s), s) \in Seq(Octet)
         /\ MessageSize(Len(s)) \in Nat
         /\ Len(WriteMessage(3, Len(s), s)) = 1 + MessageSize(Len(s))
<1> DEFINE t == Tag(3, DelimitedType)
           v == Varint[Len(s)]
<1>0. s \in Seq(Octet) /\ Len(s) \in Nat /\ Len(s) \in 0 .. (IntSpan - 1)
  BY RawIs, SpanFacts
<1>1. t \in Seq(Octet) /\ Len(t) = 1
  <2>1. 3 \in Nat /\ 2 \in Nat /\ 8 * 3 + 2 < 128 /\ 8 * 3 + 2 = 26 /\ 26 \in Octet
    BY DEF Octet
  <2>2. t = <<26>>
    BY <2>1, TagByte DEF DelimitedType
  <2>3. <<26>> \in Seq(Octet) /\ Len(<<26>>) = 1
    BY <2>1
  <2> QED
    BY <2>2, <2>3, Zenon
<1>2. v \in Seq(Octet) /\ Len(v) = UInt32Size(Len(s)) /\ Len(v) \in Nat
  BY <1>0, SizeOfVarint, VarintBytes
<1> HIDE DEF t, v
<1>3. t \o v \in Seq(Octet) /\ Len(t \o v) = Len(t) + Len(v)
  BY <1>1, <1>2, JoinedOctets
<1>4. (t \o v) \o s \in Seq(Octet) /\ Len((t \o v) \o s) = Len(t \o v) + Len(s)
  BY <1>0, <1>3, JoinedOctets
<1>5. WriteMessage(3, Len(s), s) = (t \o v) \o s
  BY DEF WriteMessage, t, v
<1>6. MessageSize(Len(s)) = UInt32Size(Len(s)) + Len(s)
  BY DEF MessageSize
<1> DEFINE c == Len(t)
           d == Len(v)
           e == Len(s)
           f == Len(t \o v)
           l == Len((t \o v) \o s)
           n == MessageSize(Len(s))
<1>7. c = 1 /\ d \in Nat /\ e \in Nat /\ f = c + d /\ l = f + e /\ n = d + e
  BY <1>0, <1>1, <1>2, <1>3, <1>4, <1>6, Zenon
<1> HIDE DEF c, d, e, f, l, n
<1>8. n \in Nat /\ l = 1 + n
  BY <1>7
<1> QED
  BY <1>4, <1>5, <1>8 DEF n, l

LEMMA ListBytes ==
  ASSUME NEW parts, NEW s, Len(parts) \in Nat, \A i \in 1 .. Len(parts) : s[i] \in Raw,
         \A i \in 1 .. Len(parts) : parts[i] = WriteMessage(3, Len(s[i]), s[i])
  PROVE  Concatenated(parts) \in Seq(Octet)
<1>1. ASSUME NEW i \in 1 .. Len(parts) PROVE parts[i] \in Seq(Octet)
  <2> DEFINE t == s[i]
  <2>1. t \in Raw /\ parts[i] = WriteMessage(3, Len(t), t)
    OBVIOUS
  <2> HIDE DEF t
  <2> QED
    BY <2>1, MessageBytes
<1>2. PICK g : IsJoin(g, parts) /\ Concatenated(parts) = g[Len(parts)]
  BY <1>1, ConcatenatedIs
<1>3. Len(parts) \in 0 .. Len(parts)
  OBVIOUS
<1> QED
  BY <1>2, <1>3 DEF IsJoin

(* A name for each of the conditions on what holds others. *)
HolderClass(k, fg, fn, fp, j) ==
  /\ ReadsText(k, 10, fg) /\ ReadsText(k, 18, fn) /\ ReadsPart(k, fp, j)
  /\ fg # fp /\ fn # fp
HolderRecord(m, fg, fn, fp, T) ==
  /\ IsRecord(m) /\ fg \in DOMAIN m /\ fn \in DOMAIN m /\ fp \in DOMAIN m
  /\ m[fp] \in Seq(T)
HolderFits(guid, name, fits, n) ==
  /\ IsStructurallyValidUTF8(guid) /\ IsStructurallyValidUTF8(name) /\ AllFit(fits, n)
HolderIn(b, full, m, fg, fn, fp, guid, name, nodes, R) ==
  /\ Len(b) = Len(full) \/ (m \in R /\ Guided(m, fg, guid) \in R)
  /\ PartsIn(b, full, Named(m, fg, fn, guid, name), fp, nodes, R)
HolderWritten(j, guid, name, T, nodes, s, fits, parts) ==
  /\ guid \in Raw /\ name \in Raw /\ nodes \in Seq(T)
  /\ PartsRead(j, s, nodes, fits) /\ PartsWritten(parts, s, Len(nodes))
HolderRead(m, fg, fn, fp, guid, name, nodes) ==
  WithParts(Named(m, fg, fn, guid, name), fp, nodes, Len(nodes))

LEMMA HolderSettled ==
  ASSUME NEW k, NEW fg, NEW fn, NEW fp, NEW j, HolderClass(k, fg, fn, fp, j),
         NEW b \in Seq(Octet), NEW full \in Seq(Octet), Prefix(b, full),
         NEW m0, NEW good \in BOOLEAN, NEW R, NEW m, NEW here \in Nat \ {0},
         Settled(k, b, m0, good, R, m, here), NEW T, HolderRecord(m, fg, fn, fp, T),
         NEW guid, NEW name, NEW nodes, NEW s, NEW fits, NEW parts,
         HolderWritten(j, guid, name, T, nodes, s, fits, parts),
         HolderIn(b, full, m, fg, fn, fp, guid, name, nodes, R),
         Holds(full, here, HolderText(guid, name, parts))
  PROVE  Settled(k, b, m0, good /\ HolderFits(guid, name, fits, Len(nodes)), R,
                 HolderRead(m, fg, fn, fp, guid, name, nodes),
                 here + Len(HolderText(guid, name, parts)))
<1>01. ReadsText(k, 10, fg) /\ ReadsText(k, 18, fn) /\ ReadsPart(k, fp, j) /\ fg # fp /\ fn # fp
  BY DEF HolderClass
<1>02. /\ IsRecord(m) /\ fg \in DOMAIN m /\ fn \in DOMAIN m /\ fp \in DOMAIN m /\ m[fp] \in Seq(T)
  BY DEF HolderRecord
<1>03. /\ Len(b) = Len(full) \/ (m \in R /\ Guided(m, fg, guid) \in R)
      /\ PartsIn(b, full, Named(m, fg, fn, guid, name), fp, nodes, R)
  BY DEF HolderIn
<1>04. /\ guid \in Raw /\ name \in Raw /\ nodes \in Seq(T)
      /\ PartsRead(j, s, nodes, fits) /\ PartsWritten(parts, s, Len(nodes))
  BY DEF HolderWritten
<1> USE <1>01, <1>02, <1>03, <1>04
<1> DEFINE w1 == Unless(guid = << >>, WriteString(1, guid))
           w2 == Unless(name = << >>, WriteString(2, name))
           c == Concatenated(parts)
           m1 == Guided(m, fg, guid)
           m2 == Named(m, fg, fn, guid, name)
           v1 == IsStructurallyValidUTF8(guid)
           v2 == IsStructurallyValidUTF8(name)
           p1 == here + Len(w1)
           p2 == p1 + Len(w2)
           p3 == p2 + Len(c)
<1>1. w1 \in Seq(Octet) /\ w2 \in Seq(Octet)
  <2>1. /\ guid \in Seq(Octet) /\ Len(guid) < IntSpan /\ name \in Seq(Octet) /\ Len(name) < IntSpan
        /\ 1 \in 1 .. 9 /\ 2 \in 1 .. 9
    BY RawIs
  <2> QED
    BY <2>1, TextBytes
<1>2. c \in Seq(Octet)
  <2>1. \A i \in 1 .. Len(parts) : s[i] \in Raw
    BY DEF PartsRead, PartsWritten, Raw
  <2>2. Len(parts) \in Nat /\ \A i \in 1 .. Len(parts) : parts[i] = WriteMessage(3, Len(s[i]), s[i])
    BY DEF PartsRead, PartsWritten
  <2> QED
    BY <2>1, <2>2, ListBytes
<1>3. HolderText(guid, name, parts) = (w1 \o w2) \o c
  BY DEF HolderText
<1> HIDE DEF c, w1, w2
<1>4. /\ w1 \o w2 \in Seq(Octet) /\ Len(w1 \o w2) = Len(w1) + Len(w2)
      /\ Len(w1) \in Nat /\ Len(w2) \in Nat
  BY <1>1, JoinedOctets
<1>5. /\ (w1 \o w2) \o c \in Seq(Octet) /\ Len((w1 \o w2) \o c) = Len(w1 \o w2) + Len(c)
      /\ Len(c) \in Nat
  BY <1>2, <1>4, JoinedOctets
<1>6. /\ p1 \in Nat \ {0} /\ p2 \in Nat \ {0}
      /\ p3 = here + Len((w1 \o w2) \o c) /\ p2 = here + Len(w1 \o w2)
  BY <1>4, <1>5
<1>7. Holds(full, here, w1 \o w2) /\ Holds(full, p2, c)
  <2>1. Holds(full, here, (w1 \o w2) \o c)
    BY <1>3
  <2> DEFINE w == w1 \o w2
  <2>2. w \in Seq(Octet) /\ p2 = here + Len(w)
    BY <1>4, <1>6
  <2> HIDE DEF w, p2
  <2>3. Holds(full, here, w) /\ Holds(full, here + Len(w), c)
    BY <1>2, <2>1, <2>2, HoldsParts DEF w
  <2> QED
    BY <2>2, <2>3 DEF w
<1>8. Holds(full, here, w1) /\ Holds(full, p1, w2)
  BY <1>1, <1>7, HoldsParts
<1>9. v1 \in BOOLEAN /\ v2 \in BOOLEAN
  BY DEF IsStructurallyValidUTF8
<1>10. /\ HasField(m, fg) /\ IsRecord(m1) /\ DOMAIN m1 = DOMAIN m /\ m1[fp] = m[fp]
  <2> DEFINE a == Assigned(m[fg], guid, << >>)
  <2> HIDE DEF a
  <2>1. /\ HasField(m, fg) /\ IsRecord(FieldSet(m, fg, a)) /\ DOMAIN FieldSet(m, fg, a) = DOMAIN m
        /\ \A g \in DOMAIN m : g # fg => FieldSet(m, fg, a)[g] = m[g]
    BY FieldSetIs
  <2>2. m1 = FieldSet(m, fg, a)
    BY DEF Guided, a
  <2> HIDE DEF m1
  <2> QED
    BY <2>1, <2>2
<1>11. /\ HasField(m1, fn) /\ IsRecord(m2) /\ DOMAIN m2 = DOMAIN m /\ m2[fp] = m[fp]
  <2> DEFINE a == Assigned(m1[fn], name, << >>)
  <2>0. m2 = FieldSet(m1, fn, a)
    BY DEF Named
  <2> HIDE DEF a, m1, m2
  <2>1. /\ HasField(m1, fn) /\ IsRecord(FieldSet(m1, fn, a)) /\ DOMAIN FieldSet(m1, fn, a) = DOMAIN m1
        /\ \A g \in DOMAIN m1 : g # fn => FieldSet(m1, fn, a)[g] = m1[g]
    BY <1>10, FieldSetIs
  <2> QED
    BY <1>10, <2>0, <2>1
<1>12. Settled(k, b, m0, good /\ v1, R, m1, p1)
  <2>0. m \in R \/ Len(b) = Len(full)
    OBVIOUS
  <2>1. Holds(full, here, Unless(guid = << >>, WriteString(1, guid)))
    BY <1>8 DEF w1
  <2>2. Settled(k, b, m0, good /\ IsStructurallyValidUTF8(guid), R,
                FieldSet(m, fg, Assigned(m[fg], guid, << >>)),
                here + Len(Unless(guid = << >>, WriteString(1, guid))))
    BY <1>10, <2>0, <2>1, GuidReads
  <2> QED
    BY <2>2 DEF Guided, w1
<1> DEFINE g1 == good /\ v1
           g2 == g1 /\ v2
<1>13. g1 \in BOOLEAN /\ g2 \in BOOLEAN
  BY <1>9
<1>14. /\ m1 \in R \/ Len(b) = Len(full)
       /\ PartsIn(b, full, m2, fp, nodes, R)
  OBVIOUS
<1> HIDE DEF g1, v1, p1
<1>15. Settled(k, b, m0, g2, R, m2, p2)
  <2>0. m2 = FieldSet(m1, fn, Assigned(m1[fn], name, << >>))
    BY DEF Named
  <2> HIDE DEF m1, m2
  <2>1. Holds(full, p1, Unless(name = << >>, WriteString(2, name)))
    BY <1>8 DEF w2
  <2>2. Settled(k, b, m0, g1, R, m1, p1)
    BY <1>12 DEF g1
  <2>3. Settled(k, b, m0, g1 /\ IsStructurallyValidUTF8(name), R,
                FieldSet(m1, fn, Assigned(m1[fn], name, << >>)),
                p1 + Len(Unless(name = << >>, WriteString(2, name))))
    BY <1>11, <1>13, <1>14, <2>1, <2>2, NameReads
  <2> QED
    BY <2>0, <2>3 DEF w2
<1> HIDE DEF g2, p2, m2
<1>16. Settled(k, b, m0, g2 /\ AllFit(fits, Len(nodes)), R,
               WithParts(m2, fp, nodes, Len(nodes)), p3)
  <2>1. Holds(full, p2, Concatenated(parts)) /\ p2 \in Nat /\ fp \in DOMAIN m2 /\ m2[fp] \in Seq(T)
    BY <1>6, <1>7, <1>11 DEF c
  <2> QED
    BY <1>11, <1>13, <1>14, <1>15, <2>1, PartsSettled DEF c
<1>17. (g2 /\ AllFit(fits, Len(nodes))) = (good /\ HolderFits(guid, name, fits, Len(nodes)))
  BY DEF g2, g1, v1, HolderFits
<1> QED
  BY <1>3, <1>5, <1>6, <1>16, <1>17 DEF m2, HolderRead

----------------------------------------------------------------------------
(* An element of a list, written and read into a new one. *)
SystemCameraTextsValid(m) == IsStructurallyValidUTF8(m.camera_guid)

LEMMA NothingNew == ASSUME NEW k PROVE << >> \in NewTo(k)
<1> DEFINE u == << >>
           starts == {1}
<1>1. u \in Seq(Octet) /\ Len(u) = 0
  OBVIOUS
<1>2. starts \in SUBSET (1 .. (Len(u) + 1)) /\ 1 \in starts
  BY <1>1
<1>3. \A i \in starts : i <= Len(u) => NewFieldAt(k, u, i) /\ Skipped(u, i).at \in starts
  BY <1>1
<1> HIDE DEF u, starts
<1>4. u \in NewTo(k)
  BY <1>1, <1>2, <1>3, Zenon DEF NewTo
<1> QED
  BY <1>4 DEF u

LEMMA EmptyRaw == << >> \in Raw /\ 0 \in UInt32
BY SpanFacts DEF Raw, UInt32

LEMMA NewStream ==
  /\ StreamInfo_SharedCtor \in RawStreams
  /\ \A m \in RawStreams : StreamInfo_MergeFrom(StreamInfo_SharedCtor, m) = m
<1>1. StreamInfo_SharedCtor \in RawStreams
  <2> DEFINE T == Raw
             U == UInt32
             V == NewTo("StreamInfo")
  <2>1. << >> \in T /\ 0 \in U /\ << >> \in V
    BY EmptyRaw, NothingNew
  <2> HIDE DEF T, U, V
  <2>2. StreamInfo_SharedCtor \in
          [url : T, ip : T, user_id : T, user_pw : T, port : U, stream_accumulate_time : U,
           tcp : BOOLEAN, stream_used : BOOLEAN, fps : U, unknown : V]
    BY <2>1 DEF StreamInfo_SharedCtor
  <2> QED
    BY <2>2 DEF RawStreams, T, U, V
<1>2. ASSUME NEW m \in RawStreams PROVE StreamInfo_MergeFrom(StreamInfo_SharedCtor, m) = m
  <2> DEFINE z == StreamInfo_MergeFrom(StreamInfo_SharedCtor, m)
  <2>1. /\ IsRecord(m)
        /\ DOMAIN m = {"url", "ip", "user_id", "user_pw", "port", "stream_accumulate_time", "tcp",
                       "stream_used", "fps", "unknown"}
        /\ m.tcp \in BOOLEAN /\ m.stream_used \in BOOLEAN
    BY RawStreamIs
  <2>2. m.unknown \in Seq(Octet)
    BY RawStreamIs DEF NewTo
  <2>3. << >> \o m.unknown = m.unknown
    <3> DEFINE u == m.unknown
    <3>1. u \in Seq(Octet)
      BY <2>2
    <3> HIDE DEF u
    <3>2. << >> \o u = u
      BY <3>1
    <3> QED
      BY <3>2 DEF u
  <2>4. /\ IsRecord(z)
        /\ DOMAIN z = {"url", "ip", "user_id", "user_pw", "port", "stream_accumulate_time", "tcp",
                       "stream_used", "fps", "unknown"}
        /\ z.unknown = << >> \o m.unknown
        /\ z.url = Assigned(<< >>, m.url, << >>) /\ z.ip = Assigned(<< >>, m.ip, << >>)
        /\ z.user_id = Assigned(<< >>, m.user_id, << >>)
        /\ z.user_pw = Assigned(<< >>, m.user_pw, << >>)
        /\ z.port = Assigned(0, m.port, 0)
        /\ z.stream_accumulate_time = Assigned(0, m.stream_accumulate_time, 0)
        /\ z.tcp = Assigned(FALSE, m.tcp, FALSE) /\ z.stream_used = Assigned(FALSE, m.stream_used, FALSE)
        /\ z.fps = Assigned(0, m.fps, 0)
    BY ZenonT(30) DEF StreamInfo_MergeFrom, StreamInfo_SharedCtor, IsRecord
  <2> HIDE DEF z
  <2>5. /\ z.url = m.url /\ z.ip = m.ip /\ z.user_id = m.user_id /\ z.user_pw = m.user_pw
        /\ z.port = m.port /\ z.stream_accumulate_time = m.stream_accumulate_time /\ z.fps = m.fps
        /\ z.unknown = m.unknown
    BY <2>3, <2>4 DEF Assigned
  <2>6. z.tcp = m.tcp /\ z.stream_used = m.stream_used
    BY <2>1, <2>4 DEF Assigned
  <2>7. \A g \in DOMAIN m : z[g] = m[g]
    BY <2>1, <2>5, <2>6
  <2> QED
    BY <2>1, <2>4, <2>7 DEF IsRecord, z
<1> QED
  BY <1>1, <1>2

LEMMA NewSystemCamera ==
  /\ System_CameraInfo_SharedCtor \in RawSystemCameras
  /\ \A m \in RawSystemCameras : System_CameraInfo_MergeFrom(System_CameraInfo_SharedCtor, m) = m
<1>1. System_CameraInfo_SharedCtor \in RawSystemCameras
  <2> DEFINE T == Raw
             V == NewTo("System_CameraInfo")
  <2>1. << >> \in T /\ << >> \in V
    BY EmptyRaw, NothingNew
  <2> HIDE DEF T, V
  <2>2. System_CameraInfo_SharedCtor \in [camera_guid : T, unknown : V]
    BY <2>1 DEF System_CameraInfo_SharedCtor
  <2> QED
    BY <2>2 DEF RawSystemCameras, T, V
<1>2. ASSUME NEW m \in RawSystemCameras
      PROVE  System_CameraInfo_MergeFrom(System_CameraInfo_SharedCtor, m) = m
  <2> DEFINE z == System_CameraInfo_MergeFrom(System_CameraInfo_SharedCtor, m)
  <2>1. IsRecord(m) /\ DOMAIN m = {"camera_guid", "unknown"}
    BY RawSystemCameraIs
  <2>2. m.unknown \in Seq(Octet)
    BY RawSystemCameraIs DEF NewTo
  <2>3. << >> \o m.unknown = m.unknown
    <3> DEFINE u == m.unknown
    <3>1. u \in Seq(Octet)
      BY <2>2
    <3> HIDE DEF u
    <3>2. << >> \o u = u
      BY <3>1
    <3> QED
      BY <3>2 DEF u
  <2>4. /\ IsRecord(z) /\ DOMAIN z = {"camera_guid", "unknown"} /\ z.unknown = << >> \o m.unknown
        /\ z.camera_guid = Assigned(<< >>, m.camera_guid, << >>)
    BY DEF System_CameraInfo_MergeFrom, System_CameraInfo_SharedCtor, IsRecord
  <2> HIDE DEF z
  <2>5. z.camera_guid = m.camera_guid /\ z.unknown = m.unknown
    BY <2>3, <2>4 DEF Assigned
  <2>7. \A g \in DOMAIN m : z[g] = m[g]
    BY <2>1, <2>5
  <2> QED
    BY <2>1, <2>4, <2>7 DEF IsRecord, z
<1> QED
  BY <1>1, <1>2

LEMMA StreamParse ==
  ASSUME NEW y0 \in RawStreams
  PROVE  LET s == StreamInfo_SerializeWithCachedSizes(y0)
             read == Parse("StreamInfo", New("StreamInfo"), s)
         IN  /\ StreamTextsValid(y0) => read = Going(y0, Len(s) + 1)
             /\ ~StreamTextsValid(y0) => ~read.ok
<1> DEFINE s == StreamInfo_SerializeWithCachedSizes(y0)
           k == "StreamInfo"
           m0 == New(k)
           valid == StreamTextsValid(y0)
<1>1. s \in Seq(Octet) /\ Len(s) \in Nat
  BY StreamBytes
<1>2. m0 = StreamInfo_SharedCtor /\ m0 \in RawStreams
  BY NewStream DEF New, ByClass
<1>3. StreamInfo_MergeFrom(m0, y0) = y0
  BY <1>2, NewStream
<1>4. Holds(s, 1, s)
  BY <1>1, HoldsAll
<1>5. Settled(k, s, m0, TRUE, {}, m0, 1)
  BY <1>1, SettledStart
<1>6. TRUE \in BOOLEAN /\ valid \in BOOLEAN /\ 1 \in Nat \ {0}
  BY DEF StreamTextsValid, IsStructurallyValidUTF8
<1>7. Settled(k, s, m0, valid, {}, y0, 1 + Len(s))
  <2> DEFINE good == TRUE
  <2>1. good \in BOOLEAN /\ (good /\ valid) = valid
    BY <1>6
  <2>2. Settled(k, s, m0, good, {}, m0, 1)
    BY <1>5
  <2> HIDE DEF good, m0
  <2>3. Settled(k, s, m0, good /\ StreamTextsValid(y0), {}, StreamInfo_MergeFrom(m0, y0), 1 + Len(s))
    <3> HIDE DEF s
    <3>1. Holds(s, 1, StreamInfo_SerializeWithCachedSizes(y0))
      BY <1>4 DEF s
    <3>2. Settled(k, s, m0, good /\ StreamTextsValid(y0), {}, StreamInfo_MergeFrom(m0, y0),
                  1 + Len(StreamInfo_SerializeWithCachedSizes(y0)))
      BY <1>1, <1>2, <1>6, <2>1, <2>2, <3>1, StreamReads
    <3> QED
      BY <3>2 DEF s
  <2> QED
    BY <1>3, <2>1, <2>3 DEF StreamTextsValid
<1>8. 1 + Len(s) = Len(s) + 1
  BY <1>1
<1> HIDE DEF s, m0, valid
<1>9. /\ valid => Loop(k, m0, s)[LastStep(s)] = Going(y0, Len(s) + 1)
      /\ ~valid => ~Loop(k, m0, s)[LastStep(s)].ok
  BY <1>1, <1>6, <1>7, <1>8, SettledEnd
<1>10. Parse(k, m0, s) = Loop(k, m0, s)[LastStep(s)]
  <2>1. k \in Classes
    BY DEF Classes
  <2> HIDE DEF k
  <2> QED
    BY <2>1, ParseIsLoop
<1> QED
  BY <1>9, <1>10 DEF s, m0, valid

LEMMA SystemCameraParse ==
  ASSUME NEW y0 \in RawSystemCameras
  PROVE  LET s == System_CameraInfo_SerializeWithCachedSizes(y0)
             read == Parse("System_CameraInfo", New("System_CameraInfo"), s)
         IN  /\ SystemCameraTextsValid(y0) => read = Going(y0, Len(s) + 1)
             /\ ~SystemCameraTextsValid(y0) => ~read.ok
<1> DEFINE s == System_CameraInfo_SerializeWithCachedSizes(y0)
           k == "System_CameraInfo"
           m0 == New(k)
           valid == SystemCameraTextsValid(y0)
<1>1. s \in Seq(Octet) /\ Len(s) \in Nat
  BY SystemCameraBytes
<1>2. m0 = System_CameraInfo_SharedCtor /\ m0 \in RawSystemCameras
  BY NewSystemCamera DEF New, ByClass
<1>3. System_CameraInfo_MergeFrom(m0, y0) = y0
  BY <1>2, NewSystemCamera
<1>4. Holds(s, 1, s)
  BY <1>1, HoldsAll
<1>5. Settled(k, s, m0, TRUE, {}, m0, 1)
  BY <1>1, SettledStart
<1>6. TRUE \in BOOLEAN /\ valid \in BOOLEAN /\ 1 \in Nat \ {0}
  BY DEF SystemCameraTextsValid, IsStructurallyValidUTF8
<1>7. Settled(k, s, m0, valid, {}, y0, 1 + Len(s))
  <2> DEFINE good == TRUE
  <2>1. good \in BOOLEAN /\ (good /\ valid) = valid
    BY <1>6
  <2>2. Settled(k, s, m0, good, {}, m0, 1)
    BY <1>5
  <2> HIDE DEF good, m0
  <2>3. Settled(k, s, m0, good /\ IsStructurallyValidUTF8(y0.camera_guid), {}, System_CameraInfo_MergeFrom(m0, y0), 1 + Len(s))
    <3> HIDE DEF s
    <3>1. Holds(s, 1, System_CameraInfo_SerializeWithCachedSizes(y0))
      BY <1>4 DEF s
    <3>2. Settled(k, s, m0, good /\ IsStructurallyValidUTF8(y0.camera_guid), {}, System_CameraInfo_MergeFrom(m0, y0),
                  1 + Len(System_CameraInfo_SerializeWithCachedSizes(y0)))
      BY <1>1, <1>2, <1>6, <2>1, <2>2, <3>1, SystemCameraReads
    <3> QED
      BY <3>2 DEF s
  <2> QED
    BY <1>3, <2>1, <2>3 DEF SystemCameraTextsValid
<1>8. 1 + Len(s) = Len(s) + 1
  BY <1>1
<1> HIDE DEF s, m0, valid
<1>9. /\ valid => Loop(k, m0, s)[LastStep(s)] = Going(y0, Len(s) + 1)
      /\ ~valid => ~Loop(k, m0, s)[LastStep(s)].ok
  BY <1>1, <1>6, <1>7, <1>8, SettledEnd
<1>10. Parse(k, m0, s) = Loop(k, m0, s)[LastStep(s)]
  <2>1. k \in Classes
    BY DEF Classes
  <2> HIDE DEF k
  <2> QED
    BY <2>1, ParseIsLoop
<1> QED
  BY <1>9, <1>10 DEF s, m0, valid

----------------------------------------------------------------------------
(* A camera with its streams, and a system with its cameras. *)
RawCameras ==
  [camera_guid : Raw, camera_name : Raw, stream_info : Seq(RawStreams), unknown : NewTo("Camera")]

CameraFits(m) == \A i \in 1 .. Len(m.stream_info) : StreamInfo_ByteSizeLong(m.stream_info[i]) < IntSpan
CameraTextsValid(m) ==
  /\ IsStructurallyValidUTF8(m.camera_guid) /\ IsStructurallyValidUTF8(m.camera_name)
  /\ \A i \in 1 .. Len(m.stream_info) : StreamTextsValid(m.stream_info[i])

(* The bytes of the elements, and whether their texts are valid. *)
StreamTexts(nodes) == [i \in 1 .. Len(nodes) |-> StreamInfo_SerializeWithCachedSizes(nodes[i])]
StreamFits(nodes) == [i \in 1 .. Len(nodes) |-> StreamTextsValid(nodes[i])]
StreamList(nodes) ==
  [i \in DOMAIN nodes |-> WriteMessage(3, StreamInfo_ByteSizeLong(nodes[i]),
                                       StreamInfo_SerializeWithCachedSizes(nodes[i]))]

LEMMA RawCameraIs ==
  ASSUME NEW m \in RawCameras
  PROVE  /\ IsRecord(m) /\ DOMAIN m = {"camera_guid", "camera_name", "stream_info", "unknown"}
         /\ m.camera_guid \in Raw /\ m.camera_name \in Raw /\ m.stream_info \in Seq(RawStreams)
         /\ m.unknown \in NewTo("Camera") /\ m.unknown \in Seq(Octet)
<1> DEFINE T == Raw
           U == Seq(RawStreams)
           V == NewTo("Camera")
<1> HIDE DEF T, U, V
<1>1. m \in [camera_guid : T, camera_name : T, stream_info : U, unknown : V]
  BY DEF RawCameras, T, U, V
<1>2. /\ IsRecord(m) /\ DOMAIN m = {"camera_guid", "camera_name", "stream_info", "unknown"}
      /\ m.camera_guid \in T /\ m.camera_name \in T /\ m.stream_info \in U /\ m.unknown \in V
  BY <1>1 DEF IsRecord
<1>3. \A u \in NewTo("Camera") : u \in Seq(Octet)
  BY DEF NewTo
<1> QED
  BY <1>2, <1>3 DEF T, U, V

LEMMA MergedStreamNodes ==
  ASSUME NEW nodes \in Seq(RawStreams) PROVE MergedStreams(nodes) = nodes
<1>1. DOMAIN nodes = 1 .. Len(nodes) /\ nodes = [i \in DOMAIN nodes |-> nodes[i]]
  OBVIOUS
<1>2. ASSUME NEW i \in DOMAIN nodes
      PROVE  StreamInfo_MergeFrom(StreamInfo_SharedCtor, nodes[i]) = nodes[i]
  <2>1. nodes[i] \in RawStreams
    BY <1>1
  <2> QED
    BY <2>1, NewStream
<1> QED
  BY <1>1, <1>2 DEF MergedStreams

LEMMA StreamParts ==
  ASSUME NEW nodes \in Seq(RawStreams),
         \A i \in 1 .. Len(nodes) : StreamInfo_ByteSizeLong(nodes[i]) < IntSpan
  PROVE  /\ PartsRead("StreamInfo", StreamTexts(nodes), nodes, StreamFits(nodes))
         /\ PartsWritten(StreamList(nodes), StreamTexts(nodes), Len(nodes))
         /\ AllFit(StreamFits(nodes), Len(nodes)) <=> \A i \in 1 .. Len(nodes) : StreamTextsValid(nodes[i])
<1> DEFINE N == Len(nodes)
           s == StreamTexts(nodes)
           fits == StreamFits(nodes)
           parts == StreamList(nodes)
<1>1. N \in Nat /\ DOMAIN nodes = 1 .. N
  OBVIOUS
<1>2. \A i \in 1 .. N : s[i] = StreamInfo_SerializeWithCachedSizes(nodes[i])
  BY DEF StreamTexts
<1>3. fits = [i \in 1 .. N |-> StreamTextsValid(nodes[i])]
  BY DEF StreamFits
<1>4. fits \in [1 .. N -> BOOLEAN] /\ \A i \in 1 .. N : fits[i] <=> StreamTextsValid(nodes[i])
  BY <1>3 DEF StreamTextsValid, IsStructurallyValidUTF8
<1>5. ASSUME NEW i \in 1 .. N
      PROVE  /\ s[i] \in Seq(Octet) /\ Len(s[i]) < IntSpan
             /\ parts[i] = WriteMessage(3, Len(s[i]), s[i])
             /\ fits[i] => Parse("StreamInfo", New("StreamInfo"), s[i]).ok
                           /\ Parse("StreamInfo", New("StreamInfo"), s[i]).m = nodes[i]
             /\ ~fits[i] => ~Parse("StreamInfo", New("StreamInfo"), s[i]).ok
  <2> DEFINE node == nodes[i]
             t == StreamInfo_SerializeWithCachedSizes(node)
             read == Parse("StreamInfo", New("StreamInfo"), t)
  <2>1. node \in RawStreams /\ StreamInfo_ByteSizeLong(node) < IntSpan
    BY <1>1
  <2>2. s[i] = t /\ (fits[i] <=> StreamTextsValid(node))
    BY <1>2, <1>4
  <2>3. parts[i] = WriteMessage(3, StreamInfo_ByteSizeLong(node), t)
    BY <1>1 DEF StreamList
  <2> HIDE DEF node
  <2>4. t \in Seq(Octet) /\ Len(t) = StreamInfo_ByteSizeLong(node)
    BY <2>1, StreamBytes
  <2>5. /\ StreamTextsValid(node) => read = Going(node, Len(t) + 1)
        /\ ~StreamTextsValid(node) => ~read.ok
    BY <2>1, StreamParse
  <2> HIDE DEF t, read
  <2>6. Going(node, Len(t) + 1).ok /\ Going(node, Len(t) + 1).m = node
    BY DEF Going, Cursor
  <2>7. /\ StreamTextsValid(node) => read.ok /\ read.m = node
        /\ ~StreamTextsValid(node) => ~read.ok
    BY <2>5, <2>6, Zenon
  <2>8. /\ fits[i] => read.ok /\ read.m = node
        /\ ~fits[i] => ~read.ok
    BY <2>2, <2>7, Zenon
  <2>9. read = Parse("StreamInfo", New("StreamInfo"), s[i])
    BY <2>2 DEF read
  <2> QED
    BY <2>1, <2>2, <2>3, <2>4, <2>8, <2>9, Zenon DEF node
<1>6. Len(parts) = N
  BY <1>1 DEF StreamList
<1> HIDE DEF s, fits, parts
<1>7. PartsRead("StreamInfo", s, nodes, fits)
  BY <1>1, <1>4, <1>5, Zenon DEF PartsRead
<1>8. PartsWritten(parts, s, N)
  BY <1>5, <1>6 DEF PartsWritten
<1>9. AllFit(fits, N) <=> \A i \in 1 .. N : StreamTextsValid(nodes[i])
  BY <1>4, Zenon DEF AllFit
<1> QED
  BY <1>7, <1>8, <1>9 DEF s, fits, parts

LEMMA CameraText ==
  ASSUME NEW y0
  PROVE  Camera_SerializeWithCachedSizes(y0)
           = HolderText(y0.camera_guid, y0.camera_name, StreamList(y0.stream_info)) \o y0.unknown
BY DEF Camera_SerializeWithCachedSizes, HolderText, StreamList

(* The bytes, as many as are counted. *)
LEMMA CameraBytes ==
  ASSUME NEW y0 \in RawCameras, CameraFits(y0)
  PROVE  /\ HolderText(y0.camera_guid, y0.camera_name, StreamList(y0.stream_info)) \in Seq(Octet)
         /\ Camera_SerializeWithCachedSizes(y0) \in Seq(Octet)
         /\ Len(Camera_SerializeWithCachedSizes(y0)) = Camera_ByteSizeLong(y0)
<1> DEFINE u == y0.unknown
           nodes == y0.stream_info
           parts == StreamList(nodes)
           sizes == [i \in DOMAIN nodes |-> MessageSize(StreamInfo_ByteSizeLong(nodes[i]))]
           w1 == Unless(y0.camera_guid = << >>, WriteString(1, y0.camera_guid))
           w2 == Unless(y0.camera_name = << >>, WriteString(2, y0.camera_name))
           c == Concatenated(parts)
           n1 == UnlessSize(y0.camera_guid = << >>, 1 + StringSize(y0.camera_guid))
           n2 == UnlessSize(y0.camera_name = << >>, 1 + StringSize(y0.camera_name))
           n3 == Total(sizes)
<1>1. u \in Seq(Octet) /\ Len(u) \in Nat /\ nodes \in Seq(RawStreams) /\ Len(nodes) \in Nat
  BY RawCameraIs
<1>2. w1 \in Seq(Octet) /\ Len(w1) = n1 /\ n1 \in Nat
  <2>1. y0.camera_guid \in Seq(Octet) /\ Len(y0.camera_guid) < IntSpan /\ 1 \in 1 .. 9
    BY RawCameraIs, RawIs
  <2> QED
    BY <2>1, TextBytes
<1>3. w2 \in Seq(Octet) /\ Len(w2) = n2 /\ n2 \in Nat
  <2>1. y0.camera_name \in Seq(Octet) /\ Len(y0.camera_name) < IntSpan /\ 2 \in 1 .. 9
    BY RawCameraIs, RawIs
  <2> QED
    BY <2>1, TextBytes
<1>4. Camera_ByteSizeLong(y0) = Len(u) + Len(nodes) + n3 + n1 + n2
  BY DEF Camera_ByteSizeLong
<1>5. Camera_SerializeWithCachedSizes(y0) = HolderText(y0.camera_guid, y0.camera_name, parts) \o u
      /\ HolderText(y0.camera_guid, y0.camera_name, parts) = (w1 \o w2) \o c
  BY CameraText DEF HolderText
<1>6. \A i \in 1 .. Len(nodes) : StreamInfo_ByteSizeLong(nodes[i]) < IntSpan
  BY DEF CameraFits
<1> HIDE DEF u, nodes, w1, w2, n1, n2
<1>7. c \in Seq(Octet) /\ n3 \in Nat /\ Len(c) = Len(nodes) + n3
  <2>1. Len(parts) = Len(nodes) /\ Len(sizes) = Len(nodes) /\ DOMAIN nodes = 1 .. Len(nodes)
    BY <1>1 DEF StreamList
  <2>2. ASSUME NEW i \in 1 .. Len(nodes)
        PROVE  parts[i] \in Seq(Octet) /\ sizes[i] \in Nat /\ Len(parts[i]) = 1 + sizes[i]
    <3> DEFINE node == nodes[i]
               s == StreamInfo_SerializeWithCachedSizes(node)
    <3>1. node \in RawStreams /\ StreamInfo_ByteSizeLong(node) < IntSpan
      BY <1>1, <1>6
    <3>2. parts[i] = WriteMessage(3, StreamInfo_ByteSizeLong(node), s)
      BY <2>1 DEF StreamList
    <3>3. sizes[i] = MessageSize(StreamInfo_ByteSizeLong(node))
      BY <2>1
    <3> HIDE DEF node
    <3>4. s \in Seq(Octet) /\ Len(s) = StreamInfo_ByteSizeLong(node)
      BY <3>1, StreamBytes
    <3> HIDE DEF s, parts, sizes
    <3>5. s \in Raw
      BY <3>1, <3>4 DEF Raw
    <3> QED
      BY <3>2, <3>3, <3>4, <3>5, MessageBytes
  <2> HIDE DEF parts, sizes
  <2> QED
    BY <1>1, <2>1, <2>2, TotalLength
<1> HIDE DEF c, n3, parts, sizes
<1>8. w1 \o w2 \in Seq(Octet) /\ Len(w1 \o w2) = Len(w1) + Len(w2)
  BY <1>2, <1>3, JoinedOctets
<1>9. (w1 \o w2) \o c \in Seq(Octet) /\ Len((w1 \o w2) \o c) = Len(w1 \o w2) + Len(c)
  BY <1>7, <1>8, JoinedOctets
<1> DEFINE s == (w1 \o w2) \o c
<1> HIDE DEF s
<1>10. s \in Seq(Octet)
  BY <1>9 DEF s
<1>11. s \o u \in Seq(Octet) /\ Len(s \o u) = Len(s) + Len(u)
  BY <1>1, <1>10, JoinedOctets
<1>12. Len(s \o u) = Len(u) + Len(nodes) + n3 + n1 + n2
  <2> DEFINE l1 == Len(w1)
             l2 == Len(w2)
             l12 == Len(w1 \o w2)
             lc == Len(c)
             ls == Len(s)
             lu == Len(u)
             ln == Len(nodes)
             l == Len(s \o u)
  <2>1. /\ l1 = n1 /\ l2 = n2 /\ l12 = l1 + l2 /\ ls = l12 + lc /\ lc = ln + n3 /\ l = ls + lu
        /\ n1 \in Nat /\ n2 \in Nat /\ n3 \in Nat /\ ln \in Nat /\ lu \in Nat
    BY <1>1, <1>2, <1>3, <1>7, <1>8, <1>9, <1>11, Zenon DEF s
  <2> HIDE DEF l1, l2, l12, lc, ls, lu, ln, l
  <2>2. l = lu + ln + n3 + n1 + n2
    BY <2>1
  <2> QED
    BY <2>2 DEF l, lu, ln
<1>13. Camera_SerializeWithCachedSizes(y0) = s \o u /\ HolderText(y0.camera_guid, y0.camera_name, parts) = s
  BY <1>5 DEF s
<1> QED
  BY <1>4, <1>10, <1>11, <1>12, <1>13 DEF parts, nodes

LEMMA CameraReads ==
  ASSUME NEW b \in Seq(Octet), NEW m0, NEW good \in BOOLEAN, NEW m \in RawCameras,
         NEW here \in Nat \ {0}, Settled("Camera", b, m0, good, {}, m, here),
         NEW y0 \in RawCameras, CameraFits(y0), Holds(b, here, Camera_SerializeWithCachedSizes(y0))
  PROVE  Settled("Camera", b, m0, good /\ CameraTextsValid(y0), {}, Camera_MergeFrom(m, y0),
                 here + Len(Camera_SerializeWithCachedSizes(y0)))
<1> DEFINE k == "Camera"
           fg == "camera_guid"
           fn == "camera_name"
           fp == "stream_info"
           guid == y0.camera_guid
           name == y0.camera_name
           nodes == y0.stream_info
           u == y0.unknown
           s == StreamTexts(nodes)
           fits == StreamFits(nodes)
           parts == StreamList(nodes)
           w == HolderText(guid, name, parts)
           m1 == Named(m, fg, fn, guid, name)
           m2 == WithParts(m1, fp, nodes, Len(nodes))
           c3 == m2.unknown \o u
           m3 == FieldSet(m2, "unknown", c3)
           valid == CameraTextsValid(y0)
<1>1. /\ guid \in Raw /\ name \in Raw /\ nodes \in Seq(RawStreams) /\ u \in NewTo(k) /\ u \in Seq(Octet)
  BY RawCameraIs
<1>2. Camera_SerializeWithCachedSizes(y0) = w \o u
  BY CameraText
<1>3. w \in Seq(Octet)
  BY CameraBytes
<1>4. Holds(b, here, w \o u)
  BY <1>2
<1>5. /\ PartsRead("StreamInfo", s, nodes, fits) /\ PartsWritten(parts, s, Len(nodes))
      /\ AllFit(fits, Len(nodes)) <=> \A i \in 1 .. Len(nodes) : StreamTextsValid(nodes[i])
  <2>1. \A i \in 1 .. Len(nodes) : StreamInfo_ByteSizeLong(nodes[i]) < IntSpan
    BY DEF CameraFits
  <2> HIDE DEF nodes
  <2> QED
    BY <1>1, <2>1, StreamParts
<1>6. /\ IsRecord(m) /\ DOMAIN m = {fg, fn, fp, "unknown"} /\ m.unknown \in Seq(Octet)
      /\ m[fp] \in Seq(RawStreams)
  BY RawCameraIs
<1>7. fg # fn /\ fg # fp /\ fn # fp /\ fg # "unknown" /\ fn # "unknown" /\ fp # "unknown"
  OBVIOUS
<1>8. /\ k \in Classes /\ ReadsText(k, 10, fg) /\ ReadsText(k, 18, fn) /\ ReadsPart(k, fp, "StreamInfo")
      /\ Prefix(b, b)
  BY ReadsCamera, PrefixAll DEF Classes
<1>9. Settled(k, b, m0, good, {}, m, here)
  OBVIOUS
<1>10. valid = (/\ IsStructurallyValidUTF8(guid) /\ IsStructurallyValidUTF8(name)
                /\ AllFit(fits, Len(nodes)))
  <2>1. valid = (/\ IsStructurallyValidUTF8(guid) /\ IsStructurallyValidUTF8(name)
                 /\ \A i \in 1 .. Len(nodes) : StreamTextsValid(nodes[i]))
    BY DEF CameraTextsValid
  <2>2. AllFit(fits, Len(nodes)) = (\A i \in 1 .. Len(nodes) : StreamTextsValid(nodes[i]))
    BY <1>5, Zenon DEF AllFit
  <2> HIDE DEF valid, fits, nodes
  <2> QED
    BY <2>1, <2>2
<1>11. valid \in BOOLEAN
  BY DEF CameraTextsValid
<1> HIDE DEF k, u, guid, name, nodes, s, fits, parts, valid
<1>12. Holds(b, here, w)
  <2> HIDE DEF w
  <2> QED
    BY <1>1, <1>3, <1>4, HoldsParts
<1> DEFINE c1 == Assigned(m[fg], guid, << >>)
           n1 == FieldSet(m, fg, c1)
           c2 == Assigned(n1[fn], name, << >>)
<1> HIDE DEF fg, fn, fp
<1>13. /\ IsRecord(n1) /\ DOMAIN n1 = DOMAIN m /\ n1[fg] = c1
       /\ \A g \in DOMAIN m : g # fg => n1[g] = m[g]
  <2>0. IsRecord(m)
    BY <1>6
  <2>1. fg \in DOMAIN m
    BY <1>6
  <2>2. n1 = FieldSet(m, fg, c1)
    OBVIOUS
  <2> HIDE DEF c1, n1
  <2>3. /\ IsRecord(FieldSet(m, fg, c1)) /\ DOMAIN FieldSet(m, fg, c1) = DOMAIN m
        /\ FieldSet(m, fg, c1)[fg] = c1
        /\ \A g \in DOMAIN m : g # fg => FieldSet(m, fg, c1)[g] = m[g]
    BY <2>0, <2>1, FieldSetIs
  <2> QED
    BY <2>2, <2>3
<1>14. /\ IsRecord(m1) /\ DOMAIN m1 = DOMAIN m /\ m1[fn] = c2
       /\ \A g \in DOMAIN m : g # fn => m1[g] = n1[g]
  <2>1. m1 = FieldSet(n1, fn, c2)
    BY DEF Named, Guided
  <2>2. fn \in DOMAIN n1
    BY <1>6, <1>13
  <2> HIDE DEF n1, c2, m1
  <2>3. /\ IsRecord(FieldSet(n1, fn, c2)) /\ DOMAIN FieldSet(n1, fn, c2) = DOMAIN n1
        /\ FieldSet(n1, fn, c2)[fn] = c2
        /\ \A g \in DOMAIN n1 : g # fn => FieldSet(n1, fn, c2)[g] = n1[g]
    BY <1>13, <2>2, FieldSetIs
  <2> QED
    BY <1>13, <2>1, <2>3
<1> HIDE DEF n1
<1>15. m1[fp] = m[fp]
  BY <1>6, <1>7, <1>13, <1>14
<1>16. Settled(k, b, m0, good /\ valid, {}, m2, here + Len(w))
  <2>1. /\ fg \in DOMAIN m /\ fn \in DOMAIN m /\ fp \in DOMAIN m
    BY <1>6
  <2> DEFINE full == b
             R == {}
  <2>2. full \in Seq(Octet) /\ Prefix(b, full) /\ Len(b) = Len(full)
    BY <1>8
  <2>3. Holds(full, here, HolderText(guid, name, parts)) /\ Settled(k, b, m0, good, R, m, here)
    BY <1>9, <1>12
  <2> HIDE DEF full, R
  <2>4. HolderIn(b, full, m, fg, fn, fp, guid, name, nodes, R)
    BY <2>2 DEF HolderIn, PartsIn
  <2>5. HolderClass(k, fg, fn, fp, "StreamInfo") /\ HolderRecord(m, fg, fn, fp, RawStreams)
    BY <1>6, <1>7, <1>8, <2>1 DEF HolderClass, HolderRecord
  <2>6. HolderWritten("StreamInfo", guid, name, RawStreams, nodes, s, fits, parts)
    BY <1>1, <1>5 DEF HolderWritten
  <2>7. HolderFits(guid, name, fits, Len(nodes)) = valid
    BY <1>10 DEF HolderFits
  <2>8. HolderRead(m, fg, fn, fp, guid, name, nodes) = m2
    BY DEF HolderRead
  <2>9. here + Len(HolderText(guid, name, parts)) = here + Len(w)
    OBVIOUS
  <2> HIDE DEF w, m2, m1
  <2> DEFINE j == "StreamInfo"
             T == RawStreams
  <2> HIDE DEF j, T
  <2>10. /\ HolderClass(k, fg, fn, fp, j) /\ HolderRecord(m, fg, fn, fp, T)
         /\ HolderWritten(j, guid, name, T, nodes, s, fits, parts)
    BY <2>5, <2>6 DEF j, T
  <2>11. Settled(k, b, m0, good /\ HolderFits(guid, name, fits, Len(nodes)), R,
                 HolderRead(m, fg, fn, fp, guid, name, nodes),
                 here + Len(HolderText(guid, name, parts)))
    BY <2>2, <2>3, <2>4, <2>10, HolderSettled
  <2> QED
    BY <2>7, <2>8, <2>9, <2>11 DEF R
<1>17. /\ IsRecord(m2) /\ DOMAIN m2 = DOMAIN m /\ m2[fp] = m[fp] \o nodes
       /\ \A g \in DOMAIN m : g # fp => m2[g] = m1[g]
  <2> DEFINE c4 == m1[fp] \o SubSeq(nodes, 1, Len(nodes))
  <2>1. m2 = FieldSet(m1, fp, c4)
    BY DEF WithParts
  <2>2. fp \in DOMAIN m1
    BY <1>6, <1>14
  <2>3. c4 = m[fp] \o nodes
    <3>1. SubSeq(nodes, 1, Len(nodes)) = nodes
      BY <1>1
    <3> QED
      BY <1>15, <3>1
  <2> HIDE DEF m1, c4, m2
  <2>4. /\ IsRecord(FieldSet(m1, fp, c4)) /\ DOMAIN FieldSet(m1, fp, c4) = DOMAIN m1
        /\ FieldSet(m1, fp, c4)[fp] = c4
        /\ \A g \in DOMAIN m1 : g # fp => FieldSet(m1, fp, c4)[g] = m1[g]
    BY <1>14, <2>2, FieldSetIs
  <2> QED
    BY <1>14, <2>1, <2>3, <2>4
<1> HIDE DEF m1, m2, w
<1>18. m2.unknown = m.unknown /\ "unknown" \in DOMAIN m2
  BY <1>6, <1>7, <1>13, <1>14, <1>17
<1>19. Settled(k, b, m0, good /\ valid, {}, m3, here + Len(w \o u))
  <2> DEFINE g2 == good /\ valid
  <2>1. g2 \in BOOLEAN /\ m2.unknown \in Seq(Octet)
    BY <1>6, <1>11, <1>18
  <2>2. Settled(k, b, m0, g2, {}, m2, here + Len(w))
    BY <1>16
  <2> HIDE DEF g2
  <2>3. Settled(k, b, m0, g2, {}, m3, here + Len(w \o u))
    BY <1>1, <1>3, <1>4, <1>8, <1>17, <1>18, <2>1, <2>2, UnknownNext
  <2> QED
    BY <2>3 DEF g2
<1>20. m3 = Camera_MergeFrom(m, y0)
  <2>1. c3 = m.unknown \o u
    BY <1>18
  <2> HIDE DEF c3
  <2>2. /\ IsRecord(m3) /\ DOMAIN m3 = DOMAIN m /\ m3.unknown = c3
        /\ \A g \in DOMAIN m : g # "unknown" => m3[g] = m2[g]
    <3>1. /\ IsRecord(m3) /\ DOMAIN m3 = DOMAIN m2 /\ m3["unknown"] = c3
          /\ \A g \in DOMAIN m2 : g # "unknown" => m3[g] = m2[g]
      BY <1>17, <1>18, FieldSetIs
    <3> QED
      BY <1>17, <3>1
  <2> HIDE DEF m3
  <2> DEFINE z == Camera_MergeFrom(m, y0)
  <2>3. /\ IsRecord(z) /\ DOMAIN z = DOMAIN m /\ z.unknown = m.unknown \o u
        /\ z[fg] = Assigned(m[fg], guid, << >>) /\ z[fn] = Assigned(m[fn], name, << >>)
        /\ z[fp] = m[fp] \o MergedStreams(nodes)
    BY <1>6 DEF Camera_MergeFrom, IsRecord, u, guid, name, nodes, fg, fn, fp
  <2>4. MergedStreams(nodes) = nodes
    BY <1>1, MergedStreamNodes
  <2> HIDE DEF z
  <2>5. m3[fg] = z[fg]
    <3>1. m3[fg] = c1
      BY <1>6, <1>7, <1>13, <1>14, <1>17, <2>2
    <3> QED
      BY <2>3, <3>1
  <2>6. m3[fn] = z[fn]
    <3>1. m3[fn] = c2
      BY <1>6, <1>7, <1>14, <1>17, <2>2
    <3>2. n1[fn] = m[fn]
      BY <1>6, <1>7, <1>13
    <3> QED
      BY <2>3, <3>1, <3>2
  <2>7. m3[fp] = z[fp]
    BY <1>6, <1>7, <1>17, <2>2, <2>3, <2>4
  <2>8. \A g \in DOMAIN m : m3[g] = z[g]
    BY <1>6, <2>1, <2>2, <2>3, <2>5, <2>6, <2>7
  <2> QED
    BY <2>2, <2>3, <2>8 DEF IsRecord, z
<1> QED
  BY <1>2, <1>19, <1>20 DEF k, valid

RawSystems ==
  [system_guid : Raw, system_name : Raw, cameras : Seq(RawSystemCameras), unknown : NewTo("System")]

SystemFits(m) == \A i \in 1 .. Len(m.cameras) : System_CameraInfo_ByteSizeLong(m.cameras[i]) < IntSpan
SystemTextsValid(m) ==
  /\ IsStructurallyValidUTF8(m.system_guid) /\ IsStructurallyValidUTF8(m.system_name)
  /\ \A i \in 1 .. Len(m.cameras) : SystemCameraTextsValid(m.cameras[i])

(* The bytes of the elements, and whether their texts are valid. *)
SystemCameraTexts(nodes) == [i \in 1 .. Len(nodes) |-> System_CameraInfo_SerializeWithCachedSizes(nodes[i])]
SystemCameraFits(nodes) == [i \in 1 .. Len(nodes) |-> SystemCameraTextsValid(nodes[i])]
SystemCameraList(nodes) ==
  [i \in DOMAIN nodes |-> WriteMessage(3, System_CameraInfo_ByteSizeLong(nodes[i]),
                                       System_CameraInfo_SerializeWithCachedSizes(nodes[i]))]

LEMMA RawSystemIs ==
  ASSUME NEW m \in RawSystems
  PROVE  /\ IsRecord(m) /\ DOMAIN m = {"system_guid", "system_name", "cameras", "unknown"}
         /\ m.system_guid \in Raw /\ m.system_name \in Raw /\ m.cameras \in Seq(RawSystemCameras)
         /\ m.unknown \in NewTo("System") /\ m.unknown \in Seq(Octet)
<1> DEFINE T == Raw
           U == Seq(RawSystemCameras)
           V == NewTo("System")
<1> HIDE DEF T, U, V
<1>1. m \in [system_guid : T, system_name : T, cameras : U, unknown : V]
  BY DEF RawSystems, T, U, V
<1>2. /\ IsRecord(m) /\ DOMAIN m = {"system_guid", "system_name", "cameras", "unknown"}
      /\ m.system_guid \in T /\ m.system_name \in T /\ m.cameras \in U /\ m.unknown \in V
  BY <1>1 DEF IsRecord
<1>3. \A u \in NewTo("System") : u \in Seq(Octet)
  BY DEF NewTo
<1> QED
  BY <1>2, <1>3 DEF T, U, V

LEMMA MergedSystemCameraNodes ==
  ASSUME NEW nodes \in Seq(RawSystemCameras) PROVE MergedCameras(nodes) = nodes
<1>1. DOMAIN nodes = 1 .. Len(nodes) /\ nodes = [i \in DOMAIN nodes |-> nodes[i]]
  OBVIOUS
<1>2. ASSUME NEW i \in DOMAIN nodes
      PROVE  System_CameraInfo_MergeFrom(System_CameraInfo_SharedCtor, nodes[i]) = nodes[i]
  <2>1. nodes[i] \in RawSystemCameras
    BY <1>1
  <2> QED
    BY <2>1, NewSystemCamera
<1> QED
  BY <1>1, <1>2 DEF MergedCameras

LEMMA SystemCameraParts ==
  ASSUME NEW nodes \in Seq(RawSystemCameras),
         \A i \in 1 .. Len(nodes) : System_CameraInfo_ByteSizeLong(nodes[i]) < IntSpan
  PROVE  /\ PartsRead("System_CameraInfo", SystemCameraTexts(nodes), nodes, SystemCameraFits(nodes))
         /\ PartsWritten(SystemCameraList(nodes), SystemCameraTexts(nodes), Len(nodes))
         /\ AllFit(SystemCameraFits(nodes), Len(nodes)) <=> \A i \in 1 .. Len(nodes) : SystemCameraTextsValid(nodes[i])
<1> DEFINE N == Len(nodes)
           s == SystemCameraTexts(nodes)
           fits == SystemCameraFits(nodes)
           parts == SystemCameraList(nodes)
<1>1. N \in Nat /\ DOMAIN nodes = 1 .. N
  OBVIOUS
<1>2. \A i \in 1 .. N : s[i] = System_CameraInfo_SerializeWithCachedSizes(nodes[i])
  BY DEF SystemCameraTexts
<1>3. fits = [i \in 1 .. N |-> SystemCameraTextsValid(nodes[i])]
  BY DEF SystemCameraFits
<1>4. fits \in [1 .. N -> BOOLEAN] /\ \A i \in 1 .. N : fits[i] <=> SystemCameraTextsValid(nodes[i])
  BY <1>3 DEF SystemCameraTextsValid, IsStructurallyValidUTF8
<1>5. ASSUME NEW i \in 1 .. N
      PROVE  /\ s[i] \in Seq(Octet) /\ Len(s[i]) < IntSpan
             /\ parts[i] = WriteMessage(3, Len(s[i]), s[i])
             /\ fits[i] => Parse("System_CameraInfo", New("System_CameraInfo"), s[i]).ok
                           /\ Parse("System_CameraInfo", New("System_CameraInfo"), s[i]).m = nodes[i]
             /\ ~fits[i] => ~Parse("System_CameraInfo", New("System_CameraInfo"), s[i]).ok
  <2> DEFINE node == nodes[i]
             t == System_CameraInfo_SerializeWithCachedSizes(node)
             read == Parse("System_CameraInfo", New("System_CameraInfo"), t)
  <2>1. node \in RawSystemCameras /\ System_CameraInfo_ByteSizeLong(node) < IntSpan
    BY <1>1
  <2>2. s[i] = t /\ (fits[i] <=> SystemCameraTextsValid(node))
    BY <1>2, <1>4
  <2>3. parts[i] = WriteMessage(3, System_CameraInfo_ByteSizeLong(node), t)
    BY <1>1 DEF SystemCameraList
  <2> HIDE DEF node
  <2>4. t \in Seq(Octet) /\ Len(t) = System_CameraInfo_ByteSizeLong(node)
    BY <2>1, SystemCameraBytes
  <2>5. /\ SystemCameraTextsValid(node) => read = Going(node, Len(t) + 1)
        /\ ~SystemCameraTextsValid(node) => ~read.ok
    BY <2>1, SystemCameraParse
  <2> HIDE DEF t, read
  <2>6. Going(node, Len(t) + 1).ok /\ Going(node, Len(t) + 1).m = node
    BY DEF Going, Cursor
  <2>7. /\ SystemCameraTextsValid(node) => read.ok /\ read.m = node
        /\ ~SystemCameraTextsValid(node) => ~read.ok
    BY <2>5, <2>6, Zenon
  <2>8. /\ fits[i] => read.ok /\ read.m = node
        /\ ~fits[i] => ~read.ok
    BY <2>2, <2>7, Zenon
  <2>9. read = Parse("System_CameraInfo", New("System_CameraInfo"), s[i])
    BY <2>2 DEF read
  <2> QED
    BY <2>1, <2>2, <2>3, <2>4, <2>8, <2>9, Zenon DEF node
<1>6. Len(parts) = N
  BY <1>1 DEF SystemCameraList
<1> HIDE DEF s, fits, parts
<1>7. PartsRead("System_CameraInfo", s, nodes, fits)
  BY <1>1, <1>4, <1>5, Zenon DEF PartsRead
<1>8. PartsWritten(parts, s, N)
  BY <1>5, <1>6 DEF PartsWritten
<1>9. AllFit(fits, N) <=> \A i \in 1 .. N : SystemCameraTextsValid(nodes[i])
  BY <1>4, Zenon DEF AllFit
<1> QED
  BY <1>7, <1>8, <1>9 DEF s, fits, parts

LEMMA SystemText ==
  ASSUME NEW y0
  PROVE  System_SerializeWithCachedSizes(y0)
           = HolderText(y0.system_guid, y0.system_name, SystemCameraList(y0.cameras)) \o y0.unknown
BY DEF System_SerializeWithCachedSizes, HolderText, SystemCameraList

(* The bytes, as many as are counted. *)
LEMMA SystemBytes ==
  ASSUME NEW y0 \in RawSystems, SystemFits(y0)
  PROVE  /\ HolderText(y0.system_guid, y0.system_name, SystemCameraList(y0.cameras)) \in Seq(Octet)
         /\ System_SerializeWithCachedSizes(y0) \in Seq(Octet)
         /\ Len(System_SerializeWithCachedSizes(y0)) = System_ByteSizeLong(y0)
<1> DEFINE u == y0.unknown
           nodes == y0.cameras
           parts == SystemCameraList(nodes)
           sizes == [i \in DOMAIN nodes |-> MessageSize(System_CameraInfo_ByteSizeLong(nodes[i]))]
           w1 == Unless(y0.system_guid = << >>, WriteString(1, y0.system_guid))
           w2 == Unless(y0.system_name = << >>, WriteString(2, y0.system_name))
           c == Concatenated(parts)
           n1 == UnlessSize(y0.system_guid = << >>, 1 + StringSize(y0.system_guid))
           n2 == UnlessSize(y0.system_name = << >>, 1 + StringSize(y0.system_name))
           n3 == Total(sizes)
<1>1. u \in Seq(Octet) /\ Len(u) \in Nat /\ nodes \in Seq(RawSystemCameras) /\ Len(nodes) \in Nat
  BY RawSystemIs
<1>2. w1 \in Seq(Octet) /\ Len(w1) = n1 /\ n1 \in Nat
  <2>1. y0.system_guid \in Seq(Octet) /\ Len(y0.system_guid) < IntSpan /\ 1 \in 1 .. 9
    BY RawSystemIs, RawIs
  <2> QED
    BY <2>1, TextBytes
<1>3. w2 \in Seq(Octet) /\ Len(w2) = n2 /\ n2 \in Nat
  <2>1. y0.system_name \in Seq(Octet) /\ Len(y0.system_name) < IntSpan /\ 2 \in 1 .. 9
    BY RawSystemIs, RawIs
  <2> QED
    BY <2>1, TextBytes
<1>4. System_ByteSizeLong(y0) = Len(u) + Len(nodes) + n3 + n1 + n2
  BY DEF System_ByteSizeLong
<1>5. System_SerializeWithCachedSizes(y0) = HolderText(y0.system_guid, y0.system_name, parts) \o u
      /\ HolderText(y0.system_guid, y0.system_name, parts) = (w1 \o w2) \o c
  BY SystemText DEF HolderText
<1>6. \A i \in 1 .. Len(nodes) : System_CameraInfo_ByteSizeLong(nodes[i]) < IntSpan
  BY DEF SystemFits
<1> HIDE DEF u, nodes, w1, w2, n1, n2
<1>7. c \in Seq(Octet) /\ n3 \in Nat /\ Len(c) = Len(nodes) + n3
  <2>1. Len(parts) = Len(nodes) /\ Len(sizes) = Len(nodes) /\ DOMAIN nodes = 1 .. Len(nodes)
    BY <1>1 DEF SystemCameraList
  <2>2. ASSUME NEW i \in 1 .. Len(nodes)
        PROVE  parts[i] \in Seq(Octet) /\ sizes[i] \in Nat /\ Len(parts[i]) = 1 + sizes[i]
    <3> DEFINE node == nodes[i]
               s == System_CameraInfo_SerializeWithCachedSizes(node)
    <3>1. node \in RawSystemCameras /\ System_CameraInfo_ByteSizeLong(node) < IntSpan
      BY <1>1, <1>6
    <3>2. parts[i] = WriteMessage(3, System_CameraInfo_ByteSizeLong(node), s)
      BY <2>1 DEF SystemCameraList
    <3>3. sizes[i] = MessageSize(System_CameraInfo_ByteSizeLong(node))
      BY <2>1
    <3> HIDE DEF node
    <3>4. s \in Seq(Octet) /\ Len(s) = System_CameraInfo_ByteSizeLong(node)
      BY <3>1, SystemCameraBytes
    <3> HIDE DEF s, parts, sizes
    <3>5. s \in Raw
      BY <3>1, <3>4 DEF Raw
    <3> QED
      BY <3>2, <3>3, <3>4, <3>5, MessageBytes
  <2> HIDE DEF parts, sizes
  <2> QED
    BY <1>1, <2>1, <2>2, TotalLength
<1> HIDE DEF c, n3, parts, sizes
<1>8. w1 \o w2 \in Seq(Octet) /\ Len(w1 \o w2) = Len(w1) + Len(w2)
  BY <1>2, <1>3, JoinedOctets
<1>9. (w1 \o w2) \o c \in Seq(Octet) /\ Len((w1 \o w2) \o c) = Len(w1 \o w2) + Len(c)
  BY <1>7, <1>8, JoinedOctets
<1> DEFINE s == (w1 \o w2) \o c
<1> HIDE DEF s
<1>10. s \in Seq(Octet)
  BY <1>9 DEF s
<1>11. s \o u \in Seq(Octet) /\ Len(s \o u) = Len(s) + Len(u)
  BY <1>1, <1>10, JoinedOctets
<1>12. Len(s \o u) = Len(u) + Len(nodes) + n3 + n1 + n2
  <2> DEFINE l1 == Len(w1)
             l2 == Len(w2)
             l12 == Len(w1 \o w2)
             lc == Len(c)
             ls == Len(s)
             lu == Len(u)
             ln == Len(nodes)
             l == Len(s \o u)
  <2>1. /\ l1 = n1 /\ l2 = n2 /\ l12 = l1 + l2 /\ ls = l12 + lc /\ lc = ln + n3 /\ l = ls + lu
        /\ n1 \in Nat /\ n2 \in Nat /\ n3 \in Nat /\ ln \in Nat /\ lu \in Nat
    BY <1>1, <1>2, <1>3, <1>7, <1>8, <1>9, <1>11, Zenon DEF s
  <2> HIDE DEF l1, l2, l12, lc, ls, lu, ln, l
  <2>2. l = lu + ln + n3 + n1 + n2
    BY <2>1
  <2> QED
    BY <2>2 DEF l, lu, ln
<1>13. System_SerializeWithCachedSizes(y0) = s \o u /\ HolderText(y0.system_guid, y0.system_name, parts) = s
  BY <1>5 DEF s
<1> QED
  BY <1>4, <1>10, <1>11, <1>12, <1>13 DEF parts, nodes

LEMMA SystemReads ==
  ASSUME NEW b \in Seq(Octet), NEW m0, NEW good \in BOOLEAN, NEW m \in RawSystems,
         NEW here \in Nat \ {0}, Settled("System", b, m0, good, {}, m, here),
         NEW y0 \in RawSystems, SystemFits(y0), Holds(b, here, System_SerializeWithCachedSizes(y0))
  PROVE  Settled("System", b, m0, good /\ SystemTextsValid(y0), {}, System_MergeFrom(m, y0),
                 here + Len(System_SerializeWithCachedSizes(y0)))
<1> DEFINE k == "System"
           fg == "system_guid"
           fn == "system_name"
           fp == "cameras"
           guid == y0.system_guid
           name == y0.system_name
           nodes == y0.cameras
           u == y0.unknown
           s == SystemCameraTexts(nodes)
           fits == SystemCameraFits(nodes)
           parts == SystemCameraList(nodes)
           w == HolderText(guid, name, parts)
           m1 == Named(m, fg, fn, guid, name)
           m2 == WithParts(m1, fp, nodes, Len(nodes))
           c3 == m2.unknown \o u
           m3 == FieldSet(m2, "unknown", c3)
           valid == SystemTextsValid(y0)
<1>1. /\ guid \in Raw /\ name \in Raw /\ nodes \in Seq(RawSystemCameras) /\ u \in NewTo(k) /\ u \in Seq(Octet)
  BY RawSystemIs
<1>2. System_SerializeWithCachedSizes(y0) = w \o u
  BY SystemText
<1>3. w \in Seq(Octet)
  BY SystemBytes
<1>4. Holds(b, here, w \o u)
  BY <1>2
<1>5. /\ PartsRead("System_CameraInfo", s, nodes, fits) /\ PartsWritten(parts, s, Len(nodes))
      /\ AllFit(fits, Len(nodes)) <=> \A i \in 1 .. Len(nodes) : SystemCameraTextsValid(nodes[i])
  <2>1. \A i \in 1 .. Len(nodes) : System_CameraInfo_ByteSizeLong(nodes[i]) < IntSpan
    BY DEF SystemFits
  <2> HIDE DEF nodes
  <2> QED
    BY <1>1, <2>1, SystemCameraParts
<1>6. /\ IsRecord(m) /\ DOMAIN m = {fg, fn, fp, "unknown"} /\ m.unknown \in Seq(Octet)
      /\ m[fp] \in Seq(RawSystemCameras)
  BY RawSystemIs
<1>7. fg # fn /\ fg # fp /\ fn # fp /\ fg # "unknown" /\ fn # "unknown" /\ fp # "unknown"
  OBVIOUS
<1>8. /\ k \in Classes /\ ReadsText(k, 10, fg) /\ ReadsText(k, 18, fn) /\ ReadsPart(k, fp, "System_CameraInfo")
      /\ Prefix(b, b)
  BY ReadsSystem, PrefixAll DEF Classes
<1>9. Settled(k, b, m0, good, {}, m, here)
  OBVIOUS
<1>10. valid = (/\ IsStructurallyValidUTF8(guid) /\ IsStructurallyValidUTF8(name)
                /\ AllFit(fits, Len(nodes)))
  <2>1. valid = (/\ IsStructurallyValidUTF8(guid) /\ IsStructurallyValidUTF8(name)
                 /\ \A i \in 1 .. Len(nodes) : SystemCameraTextsValid(nodes[i]))
    BY DEF SystemTextsValid
  <2>2. AllFit(fits, Len(nodes)) = (\A i \in 1 .. Len(nodes) : SystemCameraTextsValid(nodes[i]))
    BY <1>5, Zenon DEF AllFit
  <2> HIDE DEF valid, fits, nodes
  <2> QED
    BY <2>1, <2>2
<1>11. valid \in BOOLEAN
  BY DEF SystemTextsValid
<1> HIDE DEF k, u, guid, name, nodes, s, fits, parts, valid
<1>12. Holds(b, here, w)
  <2> HIDE DEF w
  <2> QED
    BY <1>1, <1>3, <1>4, HoldsParts
<1> DEFINE c1 == Assigned(m[fg], guid, << >>)
           n1 == FieldSet(m, fg, c1)
           c2 == Assigned(n1[fn], name, << >>)
<1> HIDE DEF fg, fn, fp
<1>13. /\ IsRecord(n1) /\ DOMAIN n1 = DOMAIN m /\ n1[fg] = c1
       /\ \A g \in DOMAIN m : g # fg => n1[g] = m[g]
  <2>0. IsRecord(m)
    BY <1>6
  <2>1. fg \in DOMAIN m
    BY <1>6
  <2>2. n1 = FieldSet(m, fg, c1)
    OBVIOUS
  <2> HIDE DEF c1, n1
  <2>3. /\ IsRecord(FieldSet(m, fg, c1)) /\ DOMAIN FieldSet(m, fg, c1) = DOMAIN m
        /\ FieldSet(m, fg, c1)[fg] = c1
        /\ \A g \in DOMAIN m : g # fg => FieldSet(m, fg, c1)[g] = m[g]
    BY <2>0, <2>1, FieldSetIs
  <2> QED
    BY <2>2, <2>3
<1>14. /\ IsRecord(m1) /\ DOMAIN m1 = DOMAIN m /\ m1[fn] = c2
       /\ \A g \in DOMAIN m : g # fn => m1[g] = n1[g]
  <2>1. m1 = FieldSet(n1, fn, c2)
    BY DEF Named, Guided
  <2>2. fn \in DOMAIN n1
    BY <1>6, <1>13
  <2> HIDE DEF n1, c2, m1
  <2>3. /\ IsRecord(FieldSet(n1, fn, c2)) /\ DOMAIN FieldSet(n1, fn, c2) = DOMAIN n1
        /\ FieldSet(n1, fn, c2)[fn] = c2
        /\ \A g \in DOMAIN n1 : g # fn => FieldSet(n1, fn, c2)[g] = n1[g]
    BY <1>13, <2>2, FieldSetIs
  <2> QED
    BY <1>13, <2>1, <2>3
<1> HIDE DEF n1
<1>15. m1[fp] = m[fp]
  BY <1>6, <1>7, <1>13, <1>14
<1>16. Settled(k, b, m0, good /\ valid, {}, m2, here + Len(w))
  <2>1. /\ fg \in DOMAIN m /\ fn \in DOMAIN m /\ fp \in DOMAIN m
    BY <1>6
  <2> DEFINE full == b
             R == {}
  <2>2. full \in Seq(Octet) /\ Prefix(b, full) /\ Len(b) = Len(full)
    BY <1>8
  <2>3. Holds(full, here, HolderText(guid, name, parts)) /\ Settled(k, b, m0, good, R, m, here)
    BY <1>9, <1>12
  <2> HIDE DEF full, R
  <2>4. HolderIn(b, full, m, fg, fn, fp, guid, name, nodes, R)
    BY <2>2 DEF HolderIn, PartsIn
  <2>5. HolderClass(k, fg, fn, fp, "System_CameraInfo") /\ HolderRecord(m, fg, fn, fp, RawSystemCameras)
    BY <1>6, <1>7, <1>8, <2>1 DEF HolderClass, HolderRecord
  <2>6. HolderWritten("System_CameraInfo", guid, name, RawSystemCameras, nodes, s, fits, parts)
    BY <1>1, <1>5 DEF HolderWritten
  <2>7. HolderFits(guid, name, fits, Len(nodes)) = valid
    BY <1>10 DEF HolderFits
  <2>8. HolderRead(m, fg, fn, fp, guid, name, nodes) = m2
    BY DEF HolderRead
  <2>9. here + Len(HolderText(guid, name, parts)) = here + Len(w)
    OBVIOUS
  <2> HIDE DEF w, m2, m1
  <2> DEFINE j == "System_CameraInfo"
             T == RawSystemCameras
  <2> HIDE DEF j, T
  <2>10. /\ HolderClass(k, fg, fn, fp, j) /\ HolderRecord(m, fg, fn, fp, T)
         /\ HolderWritten(j, guid, name, T, nodes, s, fits, parts)
    BY <2>5, <2>6 DEF j, T
  <2>11. Settled(k, b, m0, good /\ HolderFits(guid, name, fits, Len(nodes)), R,
                 HolderRead(m, fg, fn, fp, guid, name, nodes),
                 here + Len(HolderText(guid, name, parts)))
    BY <2>2, <2>3, <2>4, <2>10, HolderSettled
  <2> QED
    BY <2>7, <2>8, <2>9, <2>11 DEF R
<1>17. /\ IsRecord(m2) /\ DOMAIN m2 = DOMAIN m /\ m2[fp] = m[fp] \o nodes
       /\ \A g \in DOMAIN m : g # fp => m2[g] = m1[g]
  <2> DEFINE c4 == m1[fp] \o SubSeq(nodes, 1, Len(nodes))
  <2>1. m2 = FieldSet(m1, fp, c4)
    BY DEF WithParts
  <2>2. fp \in DOMAIN m1
    BY <1>6, <1>14
  <2>3. c4 = m[fp] \o nodes
    <3>1. SubSeq(nodes, 1, Len(nodes)) = nodes
      BY <1>1
    <3> QED
      BY <1>15, <3>1
  <2> HIDE DEF m1, c4, m2
  <2>4. /\ IsRecord(FieldSet(m1, fp, c4)) /\ DOMAIN FieldSet(m1, fp, c4) = DOMAIN m1
        /\ FieldSet(m1, fp, c4)[fp] = c4
        /\ \A g \in DOMAIN m1 : g # fp => FieldSet(m1, fp, c4)[g] = m1[g]
    BY <1>14, <2>2, FieldSetIs
  <2> QED
    BY <1>14, <2>1, <2>3, <2>4
<1> HIDE DEF m1, m2, w
<1>18. m2.unknown = m.unknown /\ "unknown" \in DOMAIN m2
  BY <1>6, <1>7, <1>13, <1>14, <1>17
<1>19. Settled(k, b, m0, good /\ valid, {}, m3, here + Len(w \o u))
  <2> DEFINE g2 == good /\ valid
  <2>1. g2 \in BOOLEAN /\ m2.unknown \in Seq(Octet)
    BY <1>6, <1>11, <1>18
  <2>2. Settled(k, b, m0, g2, {}, m2, here + Len(w))
    BY <1>16
  <2> HIDE DEF g2
  <2>3. Settled(k, b, m0, g2, {}, m3, here + Len(w \o u))
    BY <1>1, <1>3, <1>4, <1>8, <1>17, <1>18, <2>1, <2>2, UnknownNext
  <2> QED
    BY <2>3 DEF g2
<1>20. m3 = System_MergeFrom(m, y0)
  <2>1. c3 = m.unknown \o u
    BY <1>18
  <2> HIDE DEF c3
  <2>2. /\ IsRecord(m3) /\ DOMAIN m3 = DOMAIN m /\ m3.unknown = c3
        /\ \A g \in DOMAIN m : g # "unknown" => m3[g] = m2[g]
    <3>1. /\ IsRecord(m3) /\ DOMAIN m3 = DOMAIN m2 /\ m3["unknown"] = c3
          /\ \A g \in DOMAIN m2 : g # "unknown" => m3[g] = m2[g]
      BY <1>17, <1>18, FieldSetIs
    <3> QED
      BY <1>17, <3>1
  <2> HIDE DEF m3
  <2> DEFINE z == System_MergeFrom(m, y0)
  <2>3. /\ IsRecord(z) /\ DOMAIN z = DOMAIN m /\ z.unknown = m.unknown \o u
        /\ z[fg] = Assigned(m[fg], guid, << >>) /\ z[fn] = Assigned(m[fn], name, << >>)
        /\ z[fp] = m[fp] \o MergedCameras(nodes)
    BY <1>6 DEF System_MergeFrom, IsRecord, u, guid, name, nodes, fg, fn, fp
  <2>4. MergedCameras(nodes) = nodes
    BY <1>1, MergedSystemCameraNodes
  <2> HIDE DEF z
  <2>5. m3[fg] = z[fg]
    <3>1. m3[fg] = c1
      BY <1>6, <1>7, <1>13, <1>14, <1>17, <2>2
    <3> QED
      BY <2>3, <3>1
  <2>6. m3[fn] = z[fn]
    <3>1. m3[fn] = c2
      BY <1>6, <1>7, <1>14, <1>17, <2>2
    <3>2. n1[fn] = m[fn]
      BY <1>6, <1>7, <1>13
    <3> QED
      BY <2>3, <3>1, <3>2
  <2>7. m3[fp] = z[fp]
    BY <1>6, <1>7, <1>17, <2>2, <2>3, <2>4
  <2>8. \A g \in DOMAIN m : m3[g] = z[g]
    BY <1>6, <2>1, <2>2, <2>3, <2>5, <2>6, <2>7
  <2> QED
    BY <2>2, <2>3, <2>8 DEF IsRecord, z
<1> QED
  BY <1>2, <1>19, <1>20 DEF k, valid

----------------------------------------------------------------------------
(* The objects that the calls make: the classes are closed under merging    *)
(* and copying, and a copy is the object.                                   *)
FitStreams == {m \in StreamInfos : StreamInfo_ByteSizeLong(m) < IntSpan}
FitSystemCameras == {m \in SystemCameras : System_CameraInfo_ByteSizeLong(m) < IntSpan}
WatchdogObjects == [pid : UInt32, unknown : NewTo("CameraWatchdog")]
CameraObjects ==
  [camera_guid : Text, camera_name : Text, stream_info : Seq(FitStreams), unknown : NewTo("Camera")]
SystemObjects ==
  [system_guid : Text, system_name : Text, cameras : Seq(FitSystemCameras), unknown : NewTo("System")]

LEMMA TextIs == << >> \in Text /\ \A s \in Text : s \in Raw /\ IsStructurallyValidUTF8(s)
<1> DEFINE s == << >>
<1>1. s \in Seq(Octet) /\ Len(s) = 0
  OBVIOUS
<1> HIDE DEF s
<1>2. IsStructurallyValidUTF8(s)
  BY <1>1 DEF IsStructurallyValidUTF8
<1>3. s \in Text
  BY <1>1, <1>2, SpanFacts DEF Text
<1>4. \A w \in Text : w \in Raw /\ IsStructurallyValidUTF8(w)
  BY DEF Text, Raw
<1> QED
  BY <1>3, <1>4 DEF s

LEMMA JoinedNodes ==
  ASSUME NEW T, NEW a \in Seq(T), NEW c \in Seq(T)
  PROVE  a \o c \in Seq(T) /\ << >> \o c = c /\ << >> \in Seq(T)
BY ConcatProperties, ConcatEmptySeq, EmptySeq

LEMMA AssignedIn ==
  ASSUME NEW S, NEW p \in S, NEW q \in S, NEW default PROVE Assigned(p, q, default) \in S
BY DEF Assigned

LEMMA AssignedOver ==
  ASSUME NEW default, NEW q PROVE Assigned(default, q, default) = q
BY DEF Assigned

LEMMA StreamObjectIs ==
  ASSUME NEW m \in StreamInfos
  PROVE  /\ IsRecord(m) /\ DOMAIN m = {"url", "ip", "user_id", "user_pw", "port", "stream_accumulate_time",
                    "tcp", "stream_used", "fps", "unknown"}
         /\ m.url \in Text /\ m.ip \in Text /\ m.user_id \in Text /\ m.user_pw \in Text
         /\ m.port \in UInt32 /\ m.stream_accumulate_time \in UInt32 /\ m.tcp \in BOOLEAN
         /\ m.stream_used \in BOOLEAN /\ m.fps \in UInt32 /\ m.unknown \in NewTo("StreamInfo")
<1> DEFINE U == UInt32
           T == Text
           V == NewTo("StreamInfo")
<1> HIDE DEF U, T, V
<1>1. m \in [url : T, ip : T, user_id : T, user_pw : T, port : U,
            stream_accumulate_time : U, tcp : BOOLEAN, stream_used : BOOLEAN, fps : U, unknown : V]
  BY DEF StreamInfos, U, T, V
<1> QED
  BY <1>1 DEF IsRecord, U, T, V

LEMMA StreamObjectMade ==
  ASSUME NEW m, IsRecord(m), DOMAIN m = {"url", "ip", "user_id", "user_pw", "port", "stream_accumulate_time",
                    "tcp", "stream_used", "fps", "unknown"},
         m.url \in Text, m.ip \in Text, m.user_id \in Text, m.user_pw \in Text,
         m.port \in UInt32, m.stream_accumulate_time \in UInt32, m.tcp \in BOOLEAN, m.stream_used \in BOOLEAN,
         m.fps \in UInt32, m.unknown \in NewTo("StreamInfo")
  PROVE  m \in StreamInfos
<1> DEFINE U == UInt32
           T == Text
           V == NewTo("StreamInfo")
<1>1. /\ m.url \in T /\ m.ip \in T /\ m.user_id \in T /\ m.user_pw \in T /\ m.port \in U
      /\ m.stream_accumulate_time \in U /\ m.tcp \in BOOLEAN /\ m.stream_used \in BOOLEAN
      /\ m.fps \in U /\ m.unknown \in V
  OBVIOUS
<1> HIDE DEF U, T, V
<1>2. m \in [url : T, ip : T, user_id : T, user_pw : T, port : U,
            stream_accumulate_time : U, tcp : BOOLEAN, stream_used : BOOLEAN, fps : U, unknown : V]
  BY <1>1 DEF IsRecord
<1> QED
  BY <1>2 DEF StreamInfos, U, T, V

LEMMA StreamNewObject == StreamInfo_SharedCtor \in StreamInfos
<1> DEFINE m == StreamInfo_SharedCtor
<1>1. /\ IsRecord(m) /\ DOMAIN m = {"url", "ip", "user_id", "user_pw", "port", "stream_accumulate_time",
                    "tcp", "stream_used", "fps", "unknown"}
      /\ m.url = << >> /\ m.ip = << >> /\ m.user_id = << >> /\ m.user_pw = << >> /\ m.port = 0
      /\ m.stream_accumulate_time = 0 /\ m.tcp = FALSE /\ m.stream_used = FALSE /\ m.fps = 0
      /\ m.unknown = << >>
  BY DEF StreamInfo_SharedCtor, IsRecord
<1>2. /\ << >> \in Text /\ 0 \in UInt32 /\ << >> \in NewTo("StreamInfo")
  BY TextIs, EmptyRaw, NothingNew
<1> HIDE DEF m
<1>3. /\ m.url \in Text /\ m.ip \in Text /\ m.user_id \in Text /\ m.user_pw \in Text
      /\ m.port \in UInt32 /\ m.stream_accumulate_time \in UInt32 /\ m.tcp \in BOOLEAN
      /\ m.stream_used \in BOOLEAN /\ m.fps \in UInt32 /\ m.unknown \in NewTo("StreamInfo")
  BY <1>1, <1>2
<1>4. m \in StreamInfos
  BY <1>1, <1>3, StreamObjectMade
<1> QED
  BY <1>4 DEF m

LEMMA StreamMerged ==
  ASSUME NEW a \in StreamInfos, NEW c \in StreamInfos
  PROVE  StreamInfo_MergeFrom(a, c) \in StreamInfos
<1> DEFINE z == StreamInfo_MergeFrom(a, c)
<1>1. /\ IsRecord(a) /\ DOMAIN a = {"url", "ip", "user_id", "user_pw", "port", "stream_accumulate_time",
                    "tcp", "stream_used", "fps", "unknown"}
      /\ a.url \in Text /\ a.ip \in Text /\ a.user_id \in Text /\ a.user_pw \in Text
      /\ a.port \in UInt32 /\ a.stream_accumulate_time \in UInt32 /\ a.tcp \in BOOLEAN
      /\ a.stream_used \in BOOLEAN /\ a.fps \in UInt32 /\ a.unknown \in NewTo("StreamInfo")
  BY StreamObjectIs
<1>2. /\ c.url \in Text /\ c.ip \in Text /\ c.user_id \in Text /\ c.user_pw \in Text
      /\ c.port \in UInt32 /\ c.stream_accumulate_time \in UInt32 /\ c.tcp \in BOOLEAN
      /\ c.stream_used \in BOOLEAN /\ c.fps \in UInt32 /\ c.unknown \in NewTo("StreamInfo")
  BY StreamObjectIs
<1>3. /\ IsRecord(z) /\ DOMAIN z = DOMAIN a
      /\ z.url = Assigned(a.url, c.url, << >>) /\ z.ip = Assigned(a.ip, c.ip, << >>)
      /\ z.user_id = Assigned(a.user_id, c.user_id, << >>)
      /\ z.user_pw = Assigned(a.user_pw, c.user_pw, << >>)
      /\ z.port = Assigned(a.port, c.port, 0)
      /\ z.stream_accumulate_time = Assigned(a.stream_accumulate_time, c.stream_accumulate_time, 0)
      /\ z.tcp = Assigned(a.tcp, c.tcp, FALSE)
      /\ z.stream_used = Assigned(a.stream_used, c.stream_used, FALSE)
      /\ z.fps = Assigned(a.fps, c.fps, 0) /\ z.unknown = a.unknown \o c.unknown
  BY <1>1, ZenonT(30) DEF StreamInfo_MergeFrom, IsRecord
<1> HIDE DEF z
<1>4. /\ Assigned(a.url, c.url, << >>) \in Text /\ Assigned(a.ip, c.ip, << >>) \in Text
      /\ Assigned(a.user_id, c.user_id, << >>) \in Text
      /\ Assigned(a.user_pw, c.user_pw, << >>) \in Text
      /\ Assigned(a.port, c.port, 0) \in UInt32
      /\ Assigned(a.stream_accumulate_time, c.stream_accumulate_time, 0) \in UInt32
      /\ Assigned(a.tcp, c.tcp, FALSE) \in BOOLEAN
      /\ Assigned(a.stream_used, c.stream_used, FALSE) \in BOOLEAN
      /\ Assigned(a.fps, c.fps, 0) \in UInt32
  BY <1>1, <1>2, AssignedIn
<1>5. a.unknown \o c.unknown \in NewTo("StreamInfo")
  BY <1>1, <1>2, NewToJoined
<1>7. /\ z.url \in Text /\ z.ip \in Text /\ z.user_id \in Text /\ z.user_pw \in Text
      /\ z.port \in UInt32 /\ z.stream_accumulate_time \in UInt32 /\ z.tcp \in BOOLEAN
      /\ z.stream_used \in BOOLEAN /\ z.fps \in UInt32 /\ z.unknown \in NewTo("StreamInfo")
  BY <1>3, <1>4, <1>5
<1>8. z \in StreamInfos
  BY <1>1, <1>3, <1>7, StreamObjectMade
<1> QED
  BY <1>8 DEF z

(* A copy is the object, by either way of copying. *)
LEMMA StreamCopied ==
  ASSUME NEW a \in StreamInfos, NEW c \in StreamInfos
  PROVE  /\ StreamInfo_Copy(c) = c /\ StreamInfo_MergeFrom(StreamInfo_SharedCtor, c) = c
         /\ StreamInfo_Clear(a) = StreamInfo_SharedCtor /\ StreamInfo_CopyFrom(a, c) = c
         /\ StreamInfo_Swap(a, c) = <<c, a>>
<1>1. /\ IsRecord(c) /\ DOMAIN c = {"url", "ip", "user_id", "user_pw", "port", "stream_accumulate_time",
                    "tcp", "stream_used", "fps", "unknown"}
      /\ c.url \in Text /\ c.ip \in Text /\ c.user_id \in Text /\ c.user_pw \in Text
      /\ c.port \in UInt32 /\ c.stream_accumulate_time \in UInt32 /\ c.tcp \in BOOLEAN
      /\ c.stream_used \in BOOLEAN /\ c.fps \in UInt32 /\ c.unknown \in NewTo("StreamInfo")
  BY StreamObjectIs
<1>2. IsRecord(a) /\ DOMAIN a = {"url", "ip", "user_id", "user_pw", "port", "stream_accumulate_time",
                    "tcp", "stream_used", "fps", "unknown"}
  BY StreamObjectIs
<1>3. << >> \o c.unknown = c.unknown
  <2> DEFINE u == c.unknown
  <2>1. u \in Seq(Octet)
    BY <1>1 DEF NewTo
  <2> HIDE DEF u
  <2>2. << >> \o u = u
    BY <2>1
  <2> QED
    BY <2>2 DEF u
<1>4. StreamInfo_Copy(c) = c
  <2> DEFINE z == StreamInfo_Copy(c)
  <2>1. /\ IsRecord(z) /\ DOMAIN z = {"url", "ip", "user_id", "user_pw", "port", "stream_accumulate_time",
                    "tcp", "stream_used", "fps", "unknown"}
        /\ z.url = Assigned(<< >>, c.url, << >>) /\ z.ip = Assigned(<< >>, c.ip, << >>)
        /\ z.user_id = Assigned(<< >>, c.user_id, << >>)
        /\ z.user_pw = Assigned(<< >>, c.user_pw, << >>) /\ z.port = c.port
        /\ z.stream_accumulate_time = c.stream_accumulate_time /\ z.tcp = c.tcp
        /\ z.stream_used = c.stream_used /\ z.fps = c.fps /\ z.unknown = c.unknown
    BY ZenonT(30) DEF StreamInfo_Copy, StreamInfo_SharedCtor, IsRecord
  <2> HIDE DEF z
  <2>2. \A g \in DOMAIN c : z[g] = c[g]
    BY <1>1, <2>1, AssignedOver
  <2> QED
    BY <1>1, <2>1, <2>2 DEF IsRecord, z
<1>5. StreamInfo_MergeFrom(StreamInfo_SharedCtor, c) = c
  <2> DEFINE z == StreamInfo_MergeFrom(StreamInfo_SharedCtor, c)
  <2>1. /\ IsRecord(z) /\ DOMAIN z = {"url", "ip", "user_id", "user_pw", "port", "stream_accumulate_time",
                    "tcp", "stream_used", "fps", "unknown"}
        /\ z.url = Assigned(<< >>, c.url, << >>) /\ z.ip = Assigned(<< >>, c.ip, << >>)
        /\ z.user_id = Assigned(<< >>, c.user_id, << >>)
        /\ z.user_pw = Assigned(<< >>, c.user_pw, << >>) /\ z.port = Assigned(0, c.port, 0)
        /\ z.stream_accumulate_time = Assigned(0, c.stream_accumulate_time, 0)
        /\ z.tcp = Assigned(FALSE, c.tcp, FALSE)
        /\ z.stream_used = Assigned(FALSE, c.stream_used, FALSE)
        /\ z.fps = Assigned(0, c.fps, 0) /\ z.unknown = << >> \o c.unknown
    BY ZenonT(30) DEF StreamInfo_MergeFrom, StreamInfo_SharedCtor, IsRecord
  <2> HIDE DEF z
  <2>3. /\ z.url = c.url /\ z.ip = c.ip /\ z.user_id = c.user_id /\ z.user_pw = c.user_pw
        /\ z.port = c.port /\ z.stream_accumulate_time = c.stream_accumulate_time
        /\ z.tcp = c.tcp /\ z.stream_used = c.stream_used /\ z.fps = c.fps
        /\ z.unknown = c.unknown
    BY <1>1, <1>3, <2>1, AssignedOver DEF Assigned
  <2>2. \A g \in DOMAIN c : z[g] = c[g]
    BY <1>1, <2>3
  <2> QED
    BY <1>1, <2>1, <2>2 DEF IsRecord, z
<1>6. StreamInfo_Clear(a) = StreamInfo_SharedCtor
  <2> DEFINE z == StreamInfo_Clear(a)
             m == StreamInfo_SharedCtor
  <2>1. /\ IsRecord(z) /\ DOMAIN z = {"url", "ip", "user_id", "user_pw", "port", "stream_accumulate_time",
                    "tcp", "stream_used", "fps", "unknown"}
        /\ z.url = << >> /\ z.ip = << >> /\ z.user_id = << >> /\ z.user_pw = << >> /\ z.port = 0
        /\ z.stream_accumulate_time = 0 /\ z.tcp = FALSE /\ z.stream_used = FALSE /\ z.fps = 0
        /\ z.unknown = << >>
    BY <1>2 DEF StreamInfo_Clear, IsRecord
  <2>2. /\ IsRecord(m) /\ DOMAIN m = {"url", "ip", "user_id", "user_pw", "port", "stream_accumulate_time",
                    "tcp", "stream_used", "fps", "unknown"}
        /\ m.url = << >> /\ m.ip = << >> /\ m.user_id = << >> /\ m.user_pw = << >> /\ m.port = 0
        /\ m.stream_accumulate_time = 0 /\ m.tcp = FALSE /\ m.stream_used = FALSE /\ m.fps = 0
        /\ m.unknown = << >>
    BY DEF StreamInfo_SharedCtor, IsRecord
  <2> HIDE DEF z, m
  <2>3. \A g \in DOMAIN z : z[g] = m[g]
    BY <2>1, <2>2
  <2> QED
    BY <2>1, <2>2, <2>3 DEF IsRecord, z, m
<1>7. StreamInfo_CopyFrom(a, c) = c
  BY <1>5, <1>6 DEF StreamInfo_CopyFrom
<1>8. StreamInfo_Swap(a, c) = <<c, a>>
  BY <1>1, <1>2 DEF StreamInfo_Swap, SwapFields, IsRecord
<1> QED
  BY <1>4, <1>5, <1>6, <1>7, <1>8

(* New fields are kept after those that are there. *)
LEMMA StreamKeeps ==
  ASSUME NEW a \in StreamInfos, NEW u \in NewTo("StreamInfo")
  PROVE  FieldSet(a, "unknown", a.unknown \o u) \in StreamInfos
<1> DEFINE v == a.unknown \o u
           z == FieldSet(a, "unknown", v)
<1>1. /\ IsRecord(a) /\ DOMAIN a = {"url", "ip", "user_id", "user_pw", "port", "stream_accumulate_time",
                    "tcp", "stream_used", "fps", "unknown"}
      /\ a.url \in Text /\ a.ip \in Text /\ a.user_id \in Text /\ a.user_pw \in Text
      /\ a.port \in UInt32 /\ a.stream_accumulate_time \in UInt32 /\ a.tcp \in BOOLEAN
      /\ a.stream_used \in BOOLEAN /\ a.fps \in UInt32 /\ a.unknown \in NewTo("StreamInfo")
  BY StreamObjectIs
<1>2. v \in NewTo("StreamInfo")
  BY <1>1, NewToJoined
<1> HIDE DEF v
<1>3. IsRecord(a) /\ "unknown" \in DOMAIN a
  BY <1>1
<1>4. /\ IsRecord(z) /\ DOMAIN z = DOMAIN a /\ z["unknown"] = v
      /\ \A g \in DOMAIN a : g # "unknown" => z[g] = a[g]
  BY <1>3, FieldSetIs
<1> HIDE DEF z
<1>5. /\ z.url = a.url /\ z.ip = a.ip /\ z.user_id = a.user_id /\ z.user_pw = a.user_pw
      /\ z.port = a.port /\ z.stream_accumulate_time = a.stream_accumulate_time
      /\ z.tcp = a.tcp /\ z.stream_used = a.stream_used /\ z.fps = a.fps /\ z.unknown = v
  BY <1>1, <1>4
<1>6. /\ z.url \in Text /\ z.ip \in Text /\ z.user_id \in Text /\ z.user_pw \in Text
      /\ z.port \in UInt32 /\ z.stream_accumulate_time \in UInt32 /\ z.tcp \in BOOLEAN
      /\ z.stream_used \in BOOLEAN /\ z.fps \in UInt32 /\ z.unknown \in NewTo("StreamInfo")
  BY <1>1, <1>2, <1>5
<1>7. z \in StreamInfos
  BY <1>1, <1>4, <1>6, StreamObjectMade
<1> QED
  BY <1>7 DEF z, v

LEMMA StreamRaw == ASSUME NEW m \in StreamInfos PROVE m \in RawStreams /\ StreamTextsValid(m)
<1>1. /\ IsRecord(m) /\ DOMAIN m = {"url", "ip", "user_id", "user_pw", "port", "stream_accumulate_time",
                    "tcp", "stream_used", "fps", "unknown"}
      /\ m.url \in Text /\ m.ip \in Text /\ m.user_id \in Text /\ m.user_pw \in Text
      /\ m.port \in UInt32 /\ m.stream_accumulate_time \in UInt32 /\ m.tcp \in BOOLEAN
      /\ m.stream_used \in BOOLEAN /\ m.fps \in UInt32 /\ m.unknown \in NewTo("StreamInfo")
  BY StreamObjectIs
<1>2. /\ m.url \in Raw /\ m.ip \in Raw /\ m.user_id \in Raw /\ m.user_pw \in Raw
      /\ m.port \in UInt32 /\ m.stream_accumulate_time \in UInt32 /\ m.tcp \in BOOLEAN
      /\ m.stream_used \in BOOLEAN /\ m.fps \in UInt32 /\ m.unknown \in NewTo("StreamInfo")
      /\ IsStructurallyValidUTF8(m.url) /\ IsStructurallyValidUTF8(m.ip)
      /\ IsStructurallyValidUTF8(m.user_id) /\ IsStructurallyValidUTF8(m.user_pw)
  BY <1>1, TextIs
<1>3. m \in RawStreams
  <2> DEFINE U == UInt32
             T == Raw
             V == NewTo("StreamInfo")
  <2>1. /\ m.url \in T /\ m.ip \in T /\ m.user_id \in T /\ m.user_pw \in T /\ m.port \in U
        /\ m.stream_accumulate_time \in U /\ m.tcp \in BOOLEAN /\ m.stream_used \in BOOLEAN
        /\ m.fps \in U /\ m.unknown \in V
    BY <1>2
  <2> HIDE DEF U, T, V
  <2>2. m \in [url : T, ip : T, user_id : T, user_pw : T, port : U,
            stream_accumulate_time : U, tcp : BOOLEAN, stream_used : BOOLEAN, fps : U, unknown : V]
    BY <1>1, <2>1 DEF IsRecord
  <2> QED
    BY <2>2 DEF RawStreams, U, T, V
<1> QED
  BY <1>2, <1>3 DEF StreamTextsValid

LEMMA SystemCameraObjectIs ==
  ASSUME NEW m \in SystemCameras
  PROVE  /\ IsRecord(m) /\ DOMAIN m = {"camera_guid", "unknown"}
         /\ m.camera_guid \in Text /\ m.unknown \in NewTo("System_CameraInfo")
<1> DEFINE T == Text
           V == NewTo("System_CameraInfo")
<1> HIDE DEF T, V
<1>1. m \in [camera_guid : T, unknown : V]
  BY DEF SystemCameras, T, V
<1> QED
  BY <1>1 DEF IsRecord, T, V

LEMMA SystemCameraObjectMade ==
  ASSUME NEW m, IsRecord(m), DOMAIN m = {"camera_guid", "unknown"},
         m.camera_guid \in Text, m.unknown \in NewTo("System_CameraInfo")
  PROVE  m \in SystemCameras
<1> DEFINE T == Text
           V == NewTo("System_CameraInfo")
<1>1. /\ m.camera_guid \in T /\ m.unknown \in V
  OBVIOUS
<1> HIDE DEF T, V
<1>2. m \in [camera_guid : T, unknown : V]
  BY <1>1 DEF IsRecord
<1> QED
  BY <1>2 DEF SystemCameras, T, V

LEMMA SystemCameraNewObject == System_CameraInfo_SharedCtor \in SystemCameras
<1> DEFINE m == System_CameraInfo_SharedCtor
<1>1. /\ IsRecord(m) /\ DOMAIN m = {"camera_guid", "unknown"}
      /\ m.camera_guid = << >> /\ m.unknown = << >>
  BY DEF System_CameraInfo_SharedCtor, IsRecord
<1>2. /\ << >> \in Text /\ 0 \in UInt32 /\ << >> \in NewTo("System_CameraInfo")
  BY TextIs, EmptyRaw, NothingNew
<1> HIDE DEF m
<1>3. /\ m.camera_guid \in Text /\ m.unknown \in NewTo("System_CameraInfo")
  BY <1>1, <1>2
<1>4. m \in SystemCameras
  BY <1>1, <1>3, SystemCameraObjectMade
<1> QED
  BY <1>4 DEF m

LEMMA SystemCameraMerged ==
  ASSUME NEW a \in SystemCameras, NEW c \in SystemCameras
  PROVE  System_CameraInfo_MergeFrom(a, c) \in SystemCameras
<1> DEFINE z == System_CameraInfo_MergeFrom(a, c)
<1>1. /\ IsRecord(a) /\ DOMAIN a = {"camera_guid", "unknown"}
      /\ a.camera_guid \in Text /\ a.unknown \in NewTo("System_CameraInfo")
  BY SystemCameraObjectIs
<1>2. /\ c.camera_guid \in Text /\ c.unknown \in NewTo("System_CameraInfo")
  BY SystemCameraObjectIs
<1>3. /\ IsRecord(z) /\ DOMAIN z = DOMAIN a
      /\ z.camera_guid = Assigned(a.camera_guid, c.camera_guid, << >>)
      /\ z.unknown = a.unknown \o c.unknown
  BY <1>1 DEF System_CameraInfo_MergeFrom, IsRecord
<1> HIDE DEF z
<1>4. /\ Assigned(a.camera_guid, c.camera_guid, << >>) \in Text
  BY <1>1, <1>2, AssignedIn
<1>5. a.unknown \o c.unknown \in NewTo("System_CameraInfo")
  BY <1>1, <1>2, NewToJoined
<1>7. /\ z.camera_guid \in Text /\ z.unknown \in NewTo("System_CameraInfo")
  BY <1>3, <1>4, <1>5
<1>8. z \in SystemCameras
  BY <1>1, <1>3, <1>7, SystemCameraObjectMade
<1> QED
  BY <1>8 DEF z

(* A copy is the object, by either way of copying. *)
LEMMA SystemCameraCopied ==
  ASSUME NEW a \in SystemCameras, NEW c \in SystemCameras
  PROVE  /\ System_CameraInfo_Copy(c) = c /\ System_CameraInfo_MergeFrom(System_CameraInfo_SharedCtor, c) = c
         /\ System_CameraInfo_Clear(a) = System_CameraInfo_SharedCtor /\ System_CameraInfo_CopyFrom(a, c) = c
         /\ System_CameraInfo_Swap(a, c) = <<c, a>>
<1>1. /\ IsRecord(c) /\ DOMAIN c = {"camera_guid", "unknown"}
      /\ c.camera_guid \in Text /\ c.unknown \in NewTo("System_CameraInfo")
  BY SystemCameraObjectIs
<1>2. IsRecord(a) /\ DOMAIN a = {"camera_guid", "unknown"}
  BY SystemCameraObjectIs
<1>3. << >> \o c.unknown = c.unknown
  <2> DEFINE u == c.unknown
  <2>1. u \in Seq(Octet)
    BY <1>1 DEF NewTo
  <2> HIDE DEF u
  <2>2. << >> \o u = u
    BY <2>1
  <2> QED
    BY <2>2 DEF u
<1>4. System_CameraInfo_Copy(c) = c
  <2> DEFINE z == System_CameraInfo_Copy(c)
  <2>1. /\ IsRecord(z) /\ DOMAIN z = {"camera_guid", "unknown"}
        /\ z.camera_guid = Assigned(<< >>, c.camera_guid, << >>) /\ z.unknown = c.unknown
    BY DEF System_CameraInfo_Copy, System_CameraInfo_SharedCtor, IsRecord
  <2> HIDE DEF z
  <2>2. \A g \in DOMAIN c : z[g] = c[g]
    BY <1>1, <2>1, AssignedOver
  <2> QED
    BY <1>1, <2>1, <2>2 DEF IsRecord, z
<1>5. System_CameraInfo_MergeFrom(System_CameraInfo_SharedCtor, c) = c
  <2> DEFINE z == System_CameraInfo_MergeFrom(System_CameraInfo_SharedCtor, c)
  <2>1. /\ IsRecord(z) /\ DOMAIN z = {"camera_guid", "unknown"}
        /\ z.camera_guid = Assigned(<< >>, c.camera_guid, << >>)
        /\ z.unknown = << >> \o c.unknown
    BY DEF System_CameraInfo_MergeFrom, System_CameraInfo_SharedCtor, IsRecord
  <2> HIDE DEF z
  <2>3. /\ z.camera_guid = c.camera_guid /\ z.unknown = c.unknown
    BY <1>1, <1>3, <2>1, AssignedOver
  <2>2. \A g \in DOMAIN c : z[g] = c[g]
    BY <1>1, <2>3
  <2> QED
    BY <1>1, <2>1, <2>2 DEF IsRecord, z
<1>6. System_CameraInfo_Clear(a) = System_CameraInfo_SharedCtor
  <2> DEFINE z == System_CameraInfo_Clear(a)
             m == System_CameraInfo_SharedCtor
  <2>1. /\ IsRecord(z) /\ DOMAIN z = {"camera_guid", "unknown"}
        /\ z.camera_guid = << >> /\ z.unknown = << >>
    BY <1>2 DEF System_CameraInfo_Clear, IsRecord
  <2>2. /\ IsRecord(m) /\ DOMAIN m = {"camera_guid", "unknown"}
        /\ m.camera_guid = << >> /\ m.unknown = << >>
    BY DEF System_CameraInfo_SharedCtor, IsRecord
  <2> HIDE DEF z, m
  <2>3. \A g \in DOMAIN z : z[g] = m[g]
    BY <2>1, <2>2
  <2> QED
    BY <2>1, <2>2, <2>3 DEF IsRecord, z, m
<1>7. System_CameraInfo_CopyFrom(a, c) = c
  BY <1>5, <1>6 DEF System_CameraInfo_CopyFrom
<1>8. System_CameraInfo_Swap(a, c) = <<c, a>>
  BY <1>1, <1>2 DEF System_CameraInfo_Swap, SwapFields, IsRecord
<1> QED
  BY <1>4, <1>5, <1>6, <1>7, <1>8

(* New fields are kept after those that are there. *)
LEMMA SystemCameraKeeps ==
  ASSUME NEW a \in SystemCameras, NEW u \in NewTo("System_CameraInfo")
  PROVE  FieldSet(a, "unknown", a.unknown \o u) \in SystemCameras
<1> DEFINE v == a.unknown \o u
           z == FieldSet(a, "unknown", v)
<1>1. /\ IsRecord(a) /\ DOMAIN a = {"camera_guid", "unknown"}
      /\ a.camera_guid \in Text /\ a.unknown \in NewTo("System_CameraInfo")
  BY SystemCameraObjectIs
<1>2. v \in NewTo("System_CameraInfo")
  BY <1>1, NewToJoined
<1> HIDE DEF v
<1>3. IsRecord(a) /\ "unknown" \in DOMAIN a
  BY <1>1
<1>4. /\ IsRecord(z) /\ DOMAIN z = DOMAIN a /\ z["unknown"] = v
      /\ \A g \in DOMAIN a : g # "unknown" => z[g] = a[g]
  BY <1>3, FieldSetIs
<1> HIDE DEF z
<1>5. /\ z.camera_guid = a.camera_guid /\ z.unknown = v
  BY <1>1, <1>4
<1>6. /\ z.camera_guid \in Text /\ z.unknown \in NewTo("System_CameraInfo")
  BY <1>1, <1>2, <1>5
<1>7. z \in SystemCameras
  BY <1>1, <1>4, <1>6, SystemCameraObjectMade
<1> QED
  BY <1>7 DEF z, v

LEMMA SystemCameraRaw == ASSUME NEW m \in SystemCameras PROVE m \in RawSystemCameras /\ SystemCameraTextsValid(m)
<1>1. /\ IsRecord(m) /\ DOMAIN m = {"camera_guid", "unknown"}
      /\ m.camera_guid \in Text /\ m.unknown \in NewTo("System_CameraInfo")
  BY SystemCameraObjectIs
<1>2. /\ m.camera_guid \in Raw /\ m.unknown \in NewTo("System_CameraInfo")
      /\ IsStructurallyValidUTF8(m.camera_guid)
  BY <1>1, TextIs
<1>3. m \in RawSystemCameras
  <2> DEFINE T == Raw
             V == NewTo("System_CameraInfo")
  <2>1. /\ m.camera_guid \in T /\ m.unknown \in V
    BY <1>2
  <2> HIDE DEF T, V
  <2>2. m \in [camera_guid : T, unknown : V]
    BY <1>1, <2>1 DEF IsRecord
  <2> QED
    BY <2>2 DEF RawSystemCameras, T, V
<1> QED
  BY <1>2, <1>3 DEF SystemCameraTextsValid

LEMMA WatchdogObjectIs ==
  ASSUME NEW m \in WatchdogObjects
  PROVE  /\ IsRecord(m) /\ DOMAIN m = {"pid", "unknown"}
         /\ m.pid \in UInt32 /\ m.unknown \in NewTo("CameraWatchdog")
<1> DEFINE U == UInt32
           V == NewTo("CameraWatchdog")
<1> HIDE DEF U, V
<1>1. m \in [pid : U, unknown : V]
  BY DEF WatchdogObjects, U, V
<1> QED
  BY <1>1 DEF IsRecord, U, V

LEMMA WatchdogObjectMade ==
  ASSUME NEW m, IsRecord(m), DOMAIN m = {"pid", "unknown"},
         m.pid \in UInt32, m.unknown \in NewTo("CameraWatchdog")
  PROVE  m \in WatchdogObjects
<1> DEFINE U == UInt32
           V == NewTo("CameraWatchdog")
<1>1. /\ m.pid \in U /\ m.unknown \in V
  OBVIOUS
<1> HIDE DEF U, V
<1>2. m \in [pid : U, unknown : V]
  BY <1>1 DEF IsRecord
<1> QED
  BY <1>2 DEF WatchdogObjects, U, V

LEMMA WatchdogNewObject == CameraWatchdog_SharedCtor \in WatchdogObjects
<1> DEFINE m == CameraWatchdog_SharedCtor
<1>1. /\ IsRecord(m) /\ DOMAIN m = {"pid", "unknown"}
      /\ m.pid = 0 /\ m.unknown = << >>
  BY DEF CameraWatchdog_SharedCtor, IsRecord
<1>2. /\ << >> \in Text /\ 0 \in UInt32 /\ << >> \in NewTo("CameraWatchdog")
  BY TextIs, EmptyRaw, NothingNew
<1> HIDE DEF m
<1>3. /\ m.pid \in UInt32 /\ m.unknown \in NewTo("CameraWatchdog")
  BY <1>1, <1>2
<1>4. m \in WatchdogObjects
  BY <1>1, <1>3, WatchdogObjectMade
<1> QED
  BY <1>4 DEF m

LEMMA WatchdogMerged ==
  ASSUME NEW a \in WatchdogObjects, NEW c \in WatchdogObjects
  PROVE  CameraWatchdog_MergeFrom(a, c) \in WatchdogObjects
<1> DEFINE z == CameraWatchdog_MergeFrom(a, c)
<1>1. /\ IsRecord(a) /\ DOMAIN a = {"pid", "unknown"}
      /\ a.pid \in UInt32 /\ a.unknown \in NewTo("CameraWatchdog")
  BY WatchdogObjectIs
<1>2. /\ c.pid \in UInt32 /\ c.unknown \in NewTo("CameraWatchdog")
  BY WatchdogObjectIs
<1>3. /\ IsRecord(z) /\ DOMAIN z = DOMAIN a
      /\ z.pid = Assigned(a.pid, c.pid, 0) /\ z.unknown = a.unknown \o c.unknown
  BY <1>1 DEF CameraWatchdog_MergeFrom, IsRecord
<1> HIDE DEF z
<1>4. /\ Assigned(a.pid, c.pid, 0) \in UInt32
  BY <1>1, <1>2, AssignedIn
<1>5. a.unknown \o c.unknown \in NewTo("CameraWatchdog")
  BY <1>1, <1>2, NewToJoined
<1>7. /\ z.pid \in UInt32 /\ z.unknown \in NewTo("CameraWatchdog")
  BY <1>3, <1>4, <1>5
<1>8. z \in WatchdogObjects
  BY <1>1, <1>3, <1>7, WatchdogObjectMade
<1> QED
  BY <1>8 DEF z

(* A copy is the object, by either way of copying. *)
LEMMA WatchdogCopied ==
  ASSUME NEW a \in WatchdogObjects, NEW c \in WatchdogObjects
  PROVE  /\ CameraWatchdog_Copy(c) = c /\ CameraWatchdog_MergeFrom(CameraWatchdog_SharedCtor, c) = c
         /\ CameraWatchdog_Clear(a) = CameraWatchdog_SharedCtor /\ CameraWatchdog_CopyFrom(a, c) = c
         /\ CameraWatchdog_Swap(a, c) = <<c, a>>
<1>1. /\ IsRecord(c) /\ DOMAIN c = {"pid", "unknown"}
      /\ c.pid \in UInt32 /\ c.unknown \in NewTo("CameraWatchdog")
  BY WatchdogObjectIs
<1>2. IsRecord(a) /\ DOMAIN a = {"pid", "unknown"}
  BY WatchdogObjectIs
<1>3. << >> \o c.unknown = c.unknown
  <2> DEFINE u == c.unknown
  <2>1. u \in Seq(Octet)
    BY <1>1 DEF NewTo
  <2> HIDE DEF u
  <2>2. << >> \o u = u
    BY <2>1
  <2> QED
    BY <2>2 DEF u
<1>4. CameraWatchdog_Copy(c) = c
  <2> DEFINE z == CameraWatchdog_Copy(c)
  <2>1. /\ IsRecord(z) /\ DOMAIN z = {"pid", "unknown"}
        /\ z.pid = c.pid /\ z.unknown = c.unknown
    BY DEF CameraWatchdog_Copy, CameraWatchdog_SharedCtor, IsRecord
  <2> HIDE DEF z
  <2>2. \A g \in DOMAIN c : z[g] = c[g]
    BY <1>1, <2>1, AssignedOver
  <2> QED
    BY <1>1, <2>1, <2>2 DEF IsRecord, z
<1>5. CameraWatchdog_MergeFrom(CameraWatchdog_SharedCtor, c) = c
  <2> DEFINE z == CameraWatchdog_MergeFrom(CameraWatchdog_SharedCtor, c)
  <2>1. /\ IsRecord(z) /\ DOMAIN z = {"pid", "unknown"}
        /\ z.pid = Assigned(0, c.pid, 0) /\ z.unknown = << >> \o c.unknown
    BY DEF CameraWatchdog_MergeFrom, CameraWatchdog_SharedCtor, IsRecord
  <2> HIDE DEF z
  <2>3. /\ z.pid = c.pid /\ z.unknown = c.unknown
    BY <1>1, <1>3, <2>1, AssignedOver
  <2>2. \A g \in DOMAIN c : z[g] = c[g]
    BY <1>1, <2>3
  <2> QED
    BY <1>1, <2>1, <2>2 DEF IsRecord, z
<1>6. CameraWatchdog_Clear(a) = CameraWatchdog_SharedCtor
  <2> DEFINE z == CameraWatchdog_Clear(a)
             m == CameraWatchdog_SharedCtor
  <2>1. /\ IsRecord(z) /\ DOMAIN z = {"pid", "unknown"}
        /\ z.pid = 0 /\ z.unknown = << >>
    BY <1>2 DEF CameraWatchdog_Clear, IsRecord
  <2>2. /\ IsRecord(m) /\ DOMAIN m = {"pid", "unknown"}
        /\ m.pid = 0 /\ m.unknown = << >>
    BY DEF CameraWatchdog_SharedCtor, IsRecord
  <2> HIDE DEF z, m
  <2>3. \A g \in DOMAIN z : z[g] = m[g]
    BY <2>1, <2>2
  <2> QED
    BY <2>1, <2>2, <2>3 DEF IsRecord, z, m
<1>7. CameraWatchdog_CopyFrom(a, c) = c
  BY <1>5, <1>6 DEF CameraWatchdog_CopyFrom
<1>8. CameraWatchdog_Swap(a, c) = <<c, a>>
  BY <1>1, <1>2 DEF CameraWatchdog_Swap, SwapFields, IsRecord
<1> QED
  BY <1>4, <1>5, <1>6, <1>7, <1>8

(* New fields are kept after those that are there. *)
LEMMA WatchdogKeeps ==
  ASSUME NEW a \in WatchdogObjects, NEW u \in NewTo("CameraWatchdog")
  PROVE  FieldSet(a, "unknown", a.unknown \o u) \in WatchdogObjects
<1> DEFINE v == a.unknown \o u
           z == FieldSet(a, "unknown", v)
<1>1. /\ IsRecord(a) /\ DOMAIN a = {"pid", "unknown"}
      /\ a.pid \in UInt32 /\ a.unknown \in NewTo("CameraWatchdog")
  BY WatchdogObjectIs
<1>2. v \in NewTo("CameraWatchdog")
  BY <1>1, NewToJoined
<1> HIDE DEF v
<1>3. IsRecord(a) /\ "unknown" \in DOMAIN a
  BY <1>1
<1>4. /\ IsRecord(z) /\ DOMAIN z = DOMAIN a /\ z["unknown"] = v
      /\ \A g \in DOMAIN a : g # "unknown" => z[g] = a[g]
  BY <1>3, FieldSetIs
<1> HIDE DEF z
<1>5. /\ z.pid = a.pid /\ z.unknown = v
  BY <1>1, <1>4
<1>6. /\ z.pid \in UInt32 /\ z.unknown \in NewTo("CameraWatchdog")
  BY <1>1, <1>2, <1>5
<1>7. z \in WatchdogObjects
  BY <1>1, <1>4, <1>6, WatchdogObjectMade
<1> QED
  BY <1>7 DEF z, v

LEMMA WatchdogRaw == ASSUME NEW m \in WatchdogObjects PROVE m \in RawWatchdogs
<1>1. /\ IsRecord(m) /\ DOMAIN m = {"pid", "unknown"}
      /\ m.pid \in UInt32 /\ m.unknown \in NewTo("CameraWatchdog")
  BY WatchdogObjectIs
<1>2. /\ m.pid \in UInt32 /\ m.unknown \in NewTo("CameraWatchdog")
  BY <1>1, TextIs
<1>3. m \in RawWatchdogs
  <2> DEFINE U == UInt32
             V == NewTo("CameraWatchdog")
  <2>1. /\ m.pid \in U /\ m.unknown \in V
    BY <1>2
  <2> HIDE DEF U, V
  <2>2. m \in [pid : U, unknown : V]
    BY <1>1, <2>1 DEF IsRecord
  <2> QED
    BY <2>2 DEF RawWatchdogs, U, V
<1> QED
  BY <1>2, <1>3

LEMMA CameraFitRaw == FitStreams \subseteq RawStreams
<1> SUFFICES ASSUME NEW m \in FitStreams PROVE m \in RawStreams
  OBVIOUS
<1>1. m \in StreamInfos
  BY DEF FitStreams
<1> QED
  BY <1>1, StreamRaw

LEMMA SystemFitRaw == FitSystemCameras \subseteq RawSystemCameras
<1> SUFFICES ASSUME NEW m \in FitSystemCameras PROVE m \in RawSystemCameras
  OBVIOUS
<1>1. m \in SystemCameras
  BY DEF FitSystemCameras
<1> QED
  BY <1>1, SystemCameraRaw

LEMMA CameraObjectIs ==
  ASSUME NEW m \in CameraObjects
  PROVE  /\ IsRecord(m) /\ DOMAIN m = {"camera_guid", "camera_name", "stream_info", "unknown"}
         /\ m.camera_guid \in Text /\ m.camera_name \in Text /\ m.stream_info \in Seq(FitStreams)
         /\ m.unknown \in NewTo("Camera")
<1> DEFINE S == Seq(FitStreams)
           T == Text
           V == NewTo("Camera")
<1> HIDE DEF S, T, V
<1>1. m \in [camera_guid : T, camera_name : T, stream_info : S, unknown : V]
  BY DEF CameraObjects, S, T, V
<1> QED
  BY <1>1 DEF IsRecord, S, T, V

LEMMA CameraObjectMade ==
  ASSUME NEW m, IsRecord(m), DOMAIN m = {"camera_guid", "camera_name", "stream_info", "unknown"},
         m.camera_guid \in Text, m.camera_name \in Text,
         m.stream_info \in Seq(FitStreams), m.unknown \in NewTo("Camera")
  PROVE  m \in CameraObjects
<1> DEFINE S == Seq(FitStreams)
           T == Text
           V == NewTo("Camera")
<1>1. /\ m.camera_guid \in T /\ m.camera_name \in T /\ m.stream_info \in S /\ m.unknown \in V
  OBVIOUS
<1> HIDE DEF S, T, V
<1>2. m \in [camera_guid : T, camera_name : T, stream_info : S, unknown : V]
  BY <1>1 DEF IsRecord
<1> QED
  BY <1>2 DEF CameraObjects, S, T, V

LEMMA CameraNewObject == Camera_SharedCtor \in CameraObjects
<1> DEFINE m == Camera_SharedCtor
<1>1. /\ IsRecord(m) /\ DOMAIN m = {"camera_guid", "camera_name", "stream_info", "unknown"}
      /\ m.camera_guid = << >> /\ m.camera_name = << >> /\ m.stream_info = << >>
      /\ m.unknown = << >>
  BY DEF Camera_SharedCtor, IsRecord
<1>2. /\ << >> \in Text /\ 0 \in UInt32 /\ << >> \in NewTo("Camera")
  BY TextIs, EmptyRaw, NothingNew
<1> HIDE DEF m
<1>3. /\ m.camera_guid \in Text /\ m.camera_name \in Text /\ m.stream_info \in Seq(FitStreams)
      /\ m.unknown \in NewTo("Camera")
  BY <1>1, <1>2, EmptySeq
<1>4. m \in CameraObjects
  BY <1>1, <1>3, CameraObjectMade
<1> QED
  BY <1>4 DEF m

LEMMA CameraMerged ==
  ASSUME NEW a \in CameraObjects, NEW c \in CameraObjects
  PROVE  Camera_MergeFrom(a, c) \in CameraObjects
<1> DEFINE z == Camera_MergeFrom(a, c)
<1>1. /\ IsRecord(a) /\ DOMAIN a = {"camera_guid", "camera_name", "stream_info", "unknown"}
      /\ a.camera_guid \in Text /\ a.camera_name \in Text /\ a.stream_info \in Seq(FitStreams)
      /\ a.unknown \in NewTo("Camera")
  BY CameraObjectIs
<1>2. /\ c.camera_guid \in Text /\ c.camera_name \in Text /\ c.stream_info \in Seq(FitStreams)
      /\ c.unknown \in NewTo("Camera")
  BY CameraObjectIs
<1>3. /\ IsRecord(z) /\ DOMAIN z = DOMAIN a
      /\ z.camera_guid = Assigned(a.camera_guid, c.camera_guid, << >>)
      /\ z.camera_name = Assigned(a.camera_name, c.camera_name, << >>)
      /\ z.stream_info = a.stream_info \o MergedStreams(c.stream_info)
      /\ z.unknown = a.unknown \o c.unknown
  BY <1>1 DEF Camera_MergeFrom, IsRecord
<1> HIDE DEF z
<1>4. /\ Assigned(a.camera_guid, c.camera_guid, << >>) \in Text
      /\ Assigned(a.camera_name, c.camera_name, << >>) \in Text
  BY <1>1, <1>2, AssignedIn
<1>5. a.unknown \o c.unknown \in NewTo("Camera")
  BY <1>1, <1>2, NewToJoined
<1>6. a.stream_info \o MergedStreams(c.stream_info) \in Seq(FitStreams)
  <2> DEFINE p == a.stream_info
             q == c.stream_info
  <2>1. p \in Seq(FitStreams) /\ q \in Seq(FitStreams)
    BY <1>1, <1>2
  <2> HIDE DEF p, q
  <2>2. q \in Seq(RawStreams)
    BY <2>1, CameraFitRaw, SeqMonotonic
  <2>3. MergedStreams(q) = q
    BY <2>2, MergedStreamNodes
  <2>4. p \o q \in Seq(FitStreams)
    BY <2>1, JoinedNodes
  <2> QED
    BY <2>3, <2>4 DEF p, q
<1>7. /\ z.camera_guid \in Text /\ z.camera_name \in Text /\ z.stream_info \in Seq(FitStreams)
      /\ z.unknown \in NewTo("Camera")
  BY <1>3, <1>4, <1>5, <1>6
<1>8. z \in CameraObjects
  BY <1>1, <1>3, <1>7, CameraObjectMade
<1> QED
  BY <1>8 DEF z

(* A copy is the object, by either way of copying. *)
LEMMA CameraCopied ==
  ASSUME NEW a \in CameraObjects, NEW c \in CameraObjects
  PROVE  /\ Camera_Copy(c) = c /\ Camera_MergeFrom(Camera_SharedCtor, c) = c
         /\ Camera_Clear(a) = Camera_SharedCtor /\ Camera_CopyFrom(a, c) = c
         /\ Camera_Swap(a, c) = <<c, a>>
<1>1. /\ IsRecord(c) /\ DOMAIN c = {"camera_guid", "camera_name", "stream_info", "unknown"}
      /\ c.camera_guid \in Text /\ c.camera_name \in Text /\ c.stream_info \in Seq(FitStreams)
      /\ c.unknown \in NewTo("Camera")
  BY CameraObjectIs
<1>2. IsRecord(a) /\ DOMAIN a = {"camera_guid", "camera_name", "stream_info", "unknown"}
  BY CameraObjectIs
<1>3. << >> \o c.unknown = c.unknown
  <2> DEFINE u == c.unknown
  <2>1. u \in Seq(Octet)
    BY <1>1 DEF NewTo
  <2> HIDE DEF u
  <2>2. << >> \o u = u
    BY <2>1
  <2> QED
    BY <2>2 DEF u
<1>9. MergedStreams(c.stream_info) = c.stream_info /\ << >> \o c.stream_info = c.stream_info
  <2> DEFINE q == c.stream_info
  <2>1. q \in Seq(FitStreams)
    BY <1>1
  <2> HIDE DEF q
  <2>2. q \in Seq(RawStreams)
    BY <2>1, CameraFitRaw, SeqMonotonic
  <2>3. MergedStreams(q) = q
    BY <2>2, MergedStreamNodes
  <2>4. << >> \o q = q
    BY <2>1, JoinedNodes
  <2> QED
    BY <2>3, <2>4 DEF q
<1>4. Camera_Copy(c) = c
  <2> DEFINE z == Camera_Copy(c)
  <2>1. /\ IsRecord(z) /\ DOMAIN z = {"camera_guid", "camera_name", "stream_info", "unknown"}
        /\ z.camera_guid = Assigned(<< >>, c.camera_guid, << >>)
        /\ z.camera_name = Assigned(<< >>, c.camera_name, << >>)
        /\ z.stream_info = MergedStreams(c.stream_info) /\ z.unknown = c.unknown
    BY DEF Camera_Copy, Camera_SharedCtor, IsRecord
  <2> HIDE DEF z
  <2>2. \A g \in DOMAIN c : z[g] = c[g]
    BY <1>1, <2>1, AssignedOver, <1>9
  <2> QED
    BY <1>1, <2>1, <2>2 DEF IsRecord, z
<1>5. Camera_MergeFrom(Camera_SharedCtor, c) = c
  <2> DEFINE z == Camera_MergeFrom(Camera_SharedCtor, c)
  <2>1. /\ IsRecord(z) /\ DOMAIN z = {"camera_guid", "camera_name", "stream_info", "unknown"}
        /\ z.camera_guid = Assigned(<< >>, c.camera_guid, << >>)
        /\ z.camera_name = Assigned(<< >>, c.camera_name, << >>)
        /\ z.stream_info = << >> \o MergedStreams(c.stream_info)
        /\ z.unknown = << >> \o c.unknown
    BY DEF Camera_MergeFrom, Camera_SharedCtor, IsRecord
  <2> HIDE DEF z
  <2>3. /\ z.camera_guid = c.camera_guid /\ z.camera_name = c.camera_name
        /\ z.stream_info = c.stream_info /\ z.unknown = c.unknown
    BY <1>1, <1>3, <2>1, AssignedOver, <1>9
  <2>2. \A g \in DOMAIN c : z[g] = c[g]
    BY <1>1, <2>3
  <2> QED
    BY <1>1, <2>1, <2>2 DEF IsRecord, z
<1>6. Camera_Clear(a) = Camera_SharedCtor
  <2> DEFINE z == Camera_Clear(a)
             m == Camera_SharedCtor
  <2>1. /\ IsRecord(z) /\ DOMAIN z = {"camera_guid", "camera_name", "stream_info", "unknown"}
        /\ z.camera_guid = << >> /\ z.camera_name = << >> /\ z.stream_info = << >>
        /\ z.unknown = << >>
    BY <1>2 DEF Camera_Clear, IsRecord
  <2>2. /\ IsRecord(m) /\ DOMAIN m = {"camera_guid", "camera_name", "stream_info", "unknown"}
        /\ m.camera_guid = << >> /\ m.camera_name = << >> /\ m.stream_info = << >>
        /\ m.unknown = << >>
    BY DEF Camera_SharedCtor, IsRecord
  <2> HIDE DEF z, m
  <2>3. \A g \in DOMAIN z : z[g] = m[g]
    BY <2>1, <2>2
  <2> QED
    BY <2>1, <2>2, <2>3 DEF IsRecord, z, m
<1>7. Camera_CopyFrom(a, c) = c
  BY <1>5, <1>6 DEF Camera_CopyFrom
<1>8. Camera_Swap(a, c) = <<c, a>>
  BY <1>1, <1>2 DEF Camera_Swap, SwapFields, IsRecord
<1> QED
  BY <1>4, <1>5, <1>6, <1>7, <1>8

(* New fields are kept after those that are there. *)
LEMMA CameraKeeps ==
  ASSUME NEW a \in CameraObjects, NEW u \in NewTo("Camera")
  PROVE  FieldSet(a, "unknown", a.unknown \o u) \in CameraObjects
<1> DEFINE v == a.unknown \o u
           z == FieldSet(a, "unknown", v)
<1>1. /\ IsRecord(a) /\ DOMAIN a = {"camera_guid", "camera_name", "stream_info", "unknown"}
      /\ a.camera_guid \in Text /\ a.camera_name \in Text /\ a.stream_info \in Seq(FitStreams)
      /\ a.unknown \in NewTo("Camera")
  BY CameraObjectIs
<1>2. v \in NewTo("Camera")
  BY <1>1, NewToJoined
<1> HIDE DEF v
<1>3. IsRecord(a) /\ "unknown" \in DOMAIN a
  BY <1>1
<1>4. /\ IsRecord(z) /\ DOMAIN z = DOMAIN a /\ z["unknown"] = v
      /\ \A g \in DOMAIN a : g # "unknown" => z[g] = a[g]
  BY <1>3, FieldSetIs
<1> HIDE DEF z
<1>5. /\ z.camera_guid = a.camera_guid /\ z.camera_name = a.camera_name
      /\ z.stream_info = a.stream_info /\ z.unknown = v
  BY <1>1, <1>4
<1>6. /\ z.camera_guid \in Text /\ z.camera_name \in Text /\ z.stream_info \in Seq(FitStreams)
      /\ z.unknown \in NewTo("Camera")
  BY <1>1, <1>2, <1>5
<1>7. z \in CameraObjects
  BY <1>1, <1>4, <1>6, CameraObjectMade
<1> QED
  BY <1>7 DEF z, v

LEMMA SystemObjectIs ==
  ASSUME NEW m \in SystemObjects
  PROVE  /\ IsRecord(m) /\ DOMAIN m = {"system_guid", "system_name", "cameras", "unknown"}
         /\ m.system_guid \in Text /\ m.system_name \in Text
         /\ m.cameras \in Seq(FitSystemCameras) /\ m.unknown \in NewTo("System")
<1> DEFINE S == Seq(FitSystemCameras)
           T == Text
           V == NewTo("System")
<1> HIDE DEF S, T, V
<1>1. m \in [system_guid : T, system_name : T, cameras : S, unknown : V]
  BY DEF SystemObjects, S, T, V
<1> QED
  BY <1>1 DEF IsRecord, S, T, V

LEMMA SystemObjectMade ==
  ASSUME NEW m, IsRecord(m), DOMAIN m = {"system_guid", "system_name", "cameras", "unknown"},
         m.system_guid \in Text, m.system_name \in Text,
         m.cameras \in Seq(FitSystemCameras), m.unknown \in NewTo("System")
  PROVE  m \in SystemObjects
<1> DEFINE S == Seq(FitSystemCameras)
           T == Text
           V == NewTo("System")
<1>1. /\ m.system_guid \in T /\ m.system_name \in T /\ m.cameras \in S /\ m.unknown \in V
  OBVIOUS
<1> HIDE DEF S, T, V
<1>2. m \in [system_guid : T, system_name : T, cameras : S, unknown : V]
  BY <1>1 DEF IsRecord
<1> QED
  BY <1>2 DEF SystemObjects, S, T, V

LEMMA SystemNewObject == System_SharedCtor \in SystemObjects
<1> DEFINE m == System_SharedCtor
<1>1. /\ IsRecord(m) /\ DOMAIN m = {"system_guid", "system_name", "cameras", "unknown"}
      /\ m.system_guid = << >> /\ m.system_name = << >> /\ m.cameras = << >>
      /\ m.unknown = << >>
  BY DEF System_SharedCtor, IsRecord
<1>2. /\ << >> \in Text /\ 0 \in UInt32 /\ << >> \in NewTo("System")
  BY TextIs, EmptyRaw, NothingNew
<1> HIDE DEF m
<1>3. /\ m.system_guid \in Text /\ m.system_name \in Text
      /\ m.cameras \in Seq(FitSystemCameras) /\ m.unknown \in NewTo("System")
  BY <1>1, <1>2, EmptySeq
<1>4. m \in SystemObjects
  BY <1>1, <1>3, SystemObjectMade
<1> QED
  BY <1>4 DEF m

LEMMA SystemMerged ==
  ASSUME NEW a \in SystemObjects, NEW c \in SystemObjects
  PROVE  System_MergeFrom(a, c) \in SystemObjects
<1> DEFINE z == System_MergeFrom(a, c)
<1>1. /\ IsRecord(a) /\ DOMAIN a = {"system_guid", "system_name", "cameras", "unknown"}
      /\ a.system_guid \in Text /\ a.system_name \in Text
      /\ a.cameras \in Seq(FitSystemCameras) /\ a.unknown \in NewTo("System")
  BY SystemObjectIs
<1>2. /\ c.system_guid \in Text /\ c.system_name \in Text
      /\ c.cameras \in Seq(FitSystemCameras) /\ c.unknown \in NewTo("System")
  BY SystemObjectIs
<1>3. /\ IsRecord(z) /\ DOMAIN z = DOMAIN a
      /\ z.system_guid = Assigned(a.system_guid, c.system_guid, << >>)
      /\ z.system_name = Assigned(a.system_name, c.system_name, << >>)
      /\ z.cameras = a.cameras \o MergedCameras(c.cameras)
      /\ z.unknown = a.unknown \o c.unknown
  BY <1>1 DEF System_MergeFrom, IsRecord
<1> HIDE DEF z
<1>4. /\ Assigned(a.system_guid, c.system_guid, << >>) \in Text
      /\ Assigned(a.system_name, c.system_name, << >>) \in Text
  BY <1>1, <1>2, AssignedIn
<1>5. a.unknown \o c.unknown \in NewTo("System")
  BY <1>1, <1>2, NewToJoined
<1>6. a.cameras \o MergedCameras(c.cameras) \in Seq(FitSystemCameras)
  <2> DEFINE p == a.cameras
             q == c.cameras
  <2>1. p \in Seq(FitSystemCameras) /\ q \in Seq(FitSystemCameras)
    BY <1>1, <1>2
  <2> HIDE DEF p, q
  <2>2. q \in Seq(RawSystemCameras)
    BY <2>1, SystemFitRaw, SeqMonotonic
  <2>3. MergedCameras(q) = q
    BY <2>2, MergedSystemCameraNodes
  <2>4. p \o q \in Seq(FitSystemCameras)
    BY <2>1, JoinedNodes
  <2> QED
    BY <2>3, <2>4 DEF p, q
<1>7. /\ z.system_guid \in Text /\ z.system_name \in Text
      /\ z.cameras \in Seq(FitSystemCameras) /\ z.unknown \in NewTo("System")
  BY <1>3, <1>4, <1>5, <1>6
<1>8. z \in SystemObjects
  BY <1>1, <1>3, <1>7, SystemObjectMade
<1> QED
  BY <1>8 DEF z

(* A copy is the object, by either way of copying. *)
LEMMA SystemCopied ==
  ASSUME NEW a \in SystemObjects, NEW c \in SystemObjects
  PROVE  /\ System_Copy(c) = c /\ System_MergeFrom(System_SharedCtor, c) = c
         /\ System_Clear(a) = System_SharedCtor /\ System_CopyFrom(a, c) = c
         /\ System_Swap(a, c) = <<c, a>>
<1>1. /\ IsRecord(c) /\ DOMAIN c = {"system_guid", "system_name", "cameras", "unknown"}
      /\ c.system_guid \in Text /\ c.system_name \in Text
      /\ c.cameras \in Seq(FitSystemCameras) /\ c.unknown \in NewTo("System")
  BY SystemObjectIs
<1>2. IsRecord(a) /\ DOMAIN a = {"system_guid", "system_name", "cameras", "unknown"}
  BY SystemObjectIs
<1>3. << >> \o c.unknown = c.unknown
  <2> DEFINE u == c.unknown
  <2>1. u \in Seq(Octet)
    BY <1>1 DEF NewTo
  <2> HIDE DEF u
  <2>2. << >> \o u = u
    BY <2>1
  <2> QED
    BY <2>2 DEF u
<1>9. MergedCameras(c.cameras) = c.cameras /\ << >> \o c.cameras = c.cameras
  <2> DEFINE q == c.cameras
  <2>1. q \in Seq(FitSystemCameras)
    BY <1>1
  <2> HIDE DEF q
  <2>2. q \in Seq(RawSystemCameras)
    BY <2>1, SystemFitRaw, SeqMonotonic
  <2>3. MergedCameras(q) = q
    BY <2>2, MergedSystemCameraNodes
  <2>4. << >> \o q = q
    BY <2>1, JoinedNodes
  <2> QED
    BY <2>3, <2>4 DEF q
<1>4. System_Copy(c) = c
  <2> DEFINE z == System_Copy(c)
  <2>1. /\ IsRecord(z) /\ DOMAIN z = {"system_guid", "system_name", "cameras", "unknown"}
        /\ z.system_guid = Assigned(<< >>, c.system_guid, << >>)
        /\ z.system_name = Assigned(<< >>, c.system_name, << >>)
        /\ z.cameras = MergedCameras(c.cameras) /\ z.unknown = c.unknown
    BY DEF System_Copy, System_SharedCtor, IsRecord
  <2> HIDE DEF z
  <2>2. \A g \in DOMAIN c : z[g] = c[g]
    BY <1>1, <2>1, AssignedOver, <1>9
  <2> QED
    BY <1>1, <2>1, <2>2 DEF IsRecord, z
<1>5. System_MergeFrom(System_SharedCtor, c) = c
  <2> DEFINE z == System_MergeFrom(System_SharedCtor, c)
  <2>1. /\ IsRecord(z) /\ DOMAIN z = {"system_guid", "system_name", "cameras", "unknown"}
        /\ z.system_guid = Assigned(<< >>, c.system_guid, << >>)
        /\ z.system_name = Assigned(<< >>, c.system_name, << >>)
        /\ z.cameras = << >> \o MergedCameras(c.cameras) /\ z.unknown = << >> \o c.unknown
    BY DEF System_MergeFrom, System_SharedCtor, IsRecord
  <2> HIDE DEF z
  <2>3. /\ z.system_guid = c.system_guid /\ z.system_name = c.system_name
        /\ z.cameras = c.cameras /\ z.unknown = c.unknown
    BY <1>1, <1>3, <2>1, AssignedOver, <1>9
  <2>2. \A g \in DOMAIN c : z[g] = c[g]
    BY <1>1, <2>3
  <2> QED
    BY <1>1, <2>1, <2>2 DEF IsRecord, z
<1>6. System_Clear(a) = System_SharedCtor
  <2> DEFINE z == System_Clear(a)
             m == System_SharedCtor
  <2>1. /\ IsRecord(z) /\ DOMAIN z = {"system_guid", "system_name", "cameras", "unknown"}
        /\ z.system_guid = << >> /\ z.system_name = << >> /\ z.cameras = << >>
        /\ z.unknown = << >>
    BY <1>2 DEF System_Clear, IsRecord
  <2>2. /\ IsRecord(m) /\ DOMAIN m = {"system_guid", "system_name", "cameras", "unknown"}
        /\ m.system_guid = << >> /\ m.system_name = << >> /\ m.cameras = << >>
        /\ m.unknown = << >>
    BY DEF System_SharedCtor, IsRecord
  <2> HIDE DEF z, m
  <2>3. \A g \in DOMAIN z : z[g] = m[g]
    BY <2>1, <2>2
  <2> QED
    BY <2>1, <2>2, <2>3 DEF IsRecord, z, m
<1>7. System_CopyFrom(a, c) = c
  BY <1>5, <1>6 DEF System_CopyFrom
<1>8. System_Swap(a, c) = <<c, a>>
  BY <1>1, <1>2 DEF System_Swap, SwapFields, IsRecord
<1> QED
  BY <1>4, <1>5, <1>6, <1>7, <1>8

(* New fields are kept after those that are there. *)
LEMMA SystemKeeps ==
  ASSUME NEW a \in SystemObjects, NEW u \in NewTo("System")
  PROVE  FieldSet(a, "unknown", a.unknown \o u) \in SystemObjects
<1> DEFINE v == a.unknown \o u
           z == FieldSet(a, "unknown", v)
<1>1. /\ IsRecord(a) /\ DOMAIN a = {"system_guid", "system_name", "cameras", "unknown"}
      /\ a.system_guid \in Text /\ a.system_name \in Text
      /\ a.cameras \in Seq(FitSystemCameras) /\ a.unknown \in NewTo("System")
  BY SystemObjectIs
<1>2. v \in NewTo("System")
  BY <1>1, NewToJoined
<1> HIDE DEF v
<1>3. IsRecord(a) /\ "unknown" \in DOMAIN a
  BY <1>1
<1>4. /\ IsRecord(z) /\ DOMAIN z = DOMAIN a /\ z["unknown"] = v
      /\ \A g \in DOMAIN a : g # "unknown" => z[g] = a[g]
  BY <1>3, FieldSetIs
<1> HIDE DEF z
<1>5. /\ z.system_guid = a.system_guid /\ z.system_name = a.system_name
      /\ z.cameras = a.cameras /\ z.unknown = v
  BY <1>1, <1>4
<1>6. /\ z.system_guid \in Text /\ z.system_name \in Text
      /\ z.cameras \in Seq(FitSystemCameras) /\ z.unknown \in NewTo("System")
  BY <1>1, <1>2, <1>5
<1>7. z \in SystemObjects
  BY <1>1, <1>4, <1>6, SystemObjectMade
<1> QED
  BY <1>7 DEF z, v

----------------------------------------------------------------------------
(* The functions of a class on its objects. *)
LEMMA CameraRaw ==
  ASSUME NEW m \in CameraObjects PROVE m \in RawCameras /\ CameraFits(m) /\ CameraTextsValid(m)
<1>1. /\ IsRecord(m) /\ DOMAIN m = {"camera_guid", "camera_name", "stream_info", "unknown"}
      /\ m.camera_guid \in Text /\ m.camera_name \in Text /\ m.stream_info \in Seq(FitStreams)
      /\ m.unknown \in NewTo("Camera")
  BY CameraObjectIs
<1>2. ASSUME NEW i \in 1 .. Len(m.stream_info)
      PROVE  /\ StreamInfo_ByteSizeLong(m.stream_info[i]) < IntSpan
             /\ StreamTextsValid(m.stream_info[i])
  <2> DEFINE nodes == m.stream_info
             node == nodes[i]
  <2>0. nodes \in Seq(FitStreams)
    BY <1>1
  <2> HIDE DEF nodes
  <2>1. node \in FitStreams
    BY <1>2, <2>0, ElementOfSeq DEF nodes
  <2> HIDE DEF node
  <2>2. node \in StreamInfos /\ StreamInfo_ByteSizeLong(node) < IntSpan
    BY <2>1 DEF FitStreams
  <2>3. StreamTextsValid(node)
    BY <2>2, StreamRaw
  <2> QED
    BY <2>2, <2>3 DEF node, nodes
<1>3. CameraFits(m)
  BY <1>2 DEF CameraFits
<1>4. m.camera_guid \in Raw /\ m.camera_name \in Raw /\ IsStructurallyValidUTF8(m.camera_guid) /\ IsStructurallyValidUTF8(m.camera_name)
  BY <1>1, TextIs
<1>5. CameraTextsValid(m)
  BY <1>2, <1>4 DEF CameraTextsValid
<1>6. m.stream_info \in Seq(RawStreams)
  BY <1>1, CameraFitRaw, SeqMonotonic
<1>7. m \in RawCameras
  <2> DEFINE T == Raw
             S == Seq(RawStreams)
             V == NewTo("Camera")
  <2>1. m.camera_guid \in T /\ m.camera_name \in T /\ m.stream_info \in S /\ m.unknown \in V
    BY <1>1, <1>4, <1>6
  <2> HIDE DEF T, S, V
  <2>2. m \in [camera_guid : T, camera_name : T, stream_info : S, unknown : V]
    BY <1>1, <2>1 DEF IsRecord
  <2> QED
    BY <2>2 DEF RawCameras, T, S, V
<1> QED
  BY <1>3, <1>5, <1>7

LEMMA CameraObjectFits ==
  ASSUME NEW m PROVE m \in CameraObjects <=> m \in Objects("Camera") /\ PartsFit("Camera", m)
<1> DEFINE S == Seq(FitStreams)
           W == Seq(StreamInfos)
           T == Text
           V == NewTo("Camera")
<1>1. Objects("Camera") = [camera_guid : T, camera_name : T, stream_info : W, unknown : V]
  BY DEF Objects, ByClass
<1>2. CameraObjects = [camera_guid : T, camera_name : T, stream_info : S, unknown : V]
  BY DEF CameraObjects
<1>3. PartsFit("Camera", m) = (\A i \in DOMAIN m.stream_info : StreamInfo_ByteSizeLong(m.stream_info[i]) < IntSpan)
  BY DEF PartsFit, ByClass
<1>4. ASSUME NEW nodes
      PROVE  nodes \in S
               <=> nodes \in W /\ \A i \in DOMAIN nodes : StreamInfo_ByteSizeLong(nodes[i]) < IntSpan
  <2>1. ASSUME nodes \in S
        PROVE  nodes \in W /\ \A i \in DOMAIN nodes : StreamInfo_ByteSizeLong(nodes[i]) < IntSpan
    <3>1. FitStreams \subseteq StreamInfos
      BY DEF FitStreams
    <3>2. nodes \in W
      BY <2>1, <3>1, SeqMonotonic
    <3>3. ASSUME NEW i \in DOMAIN nodes PROVE StreamInfo_ByteSizeLong(nodes[i]) < IntSpan
      <4> DEFINE node == nodes[i]
      <4>0. i \in 1 .. Len(nodes)
        BY <2>1, <3>3, LenProperties
      <4>1. node \in FitStreams
        BY <2>1, <4>0, ElementOfSeq
      <4> HIDE DEF node
      <4>2. StreamInfo_ByteSizeLong(node) < IntSpan
        BY <4>1 DEF FitStreams
      <4> QED
        BY <4>2 DEF node
    <3> QED
      BY <3>2, <3>3
  <2>2. ASSUME nodes \in W, \A i \in DOMAIN nodes : StreamInfo_ByteSizeLong(nodes[i]) < IntSpan
        PROVE  nodes \in S
    <3>1. nodes \in [1 .. Len(nodes) -> StreamInfos] /\ Len(nodes) \in Nat /\ DOMAIN nodes = 1 .. Len(nodes)
      BY <2>2, LenProperties
    <3>2. ASSUME NEW i \in 1 .. Len(nodes) PROVE nodes[i] \in FitStreams
      <4> DEFINE node == nodes[i]
      <4>1. node \in StreamInfos /\ StreamInfo_ByteSizeLong(node) < IntSpan
        BY <2>2, <3>1
      <4> HIDE DEF node
      <4>2. node \in FitStreams
        BY <4>1 DEF FitStreams
      <4> QED
        BY <4>2 DEF node
    <3>3. nodes \in [1 .. Len(nodes) -> FitStreams]
      <4>1. nodes = [i \in 1 .. Len(nodes) |-> nodes[i]]
        BY <3>1
      <4> QED
        BY <3>2, <4>1
    <3> QED
      BY <3>1, <3>3, IsASeq
  <2> QED
    BY <2>1, <2>2
<1> HIDE DEF S, W, T, V
<1>5. ASSUME m \in CameraObjects PROVE m \in Objects("Camera") /\ PartsFit("Camera", m)
  <2>1. m.stream_info \in S /\ m \in [camera_guid : T, camera_name : T, stream_info : S, unknown : V]
    BY <1>2, <1>5
  <2>2. m.stream_info \in W /\ \A i \in DOMAIN m.stream_info : StreamInfo_ByteSizeLong(m.stream_info[i]) < IntSpan
    BY <1>4, <2>1
  <2>3. m \in [camera_guid : T, camera_name : T, stream_info : W, unknown : V]
    BY <2>1, <2>2
  <2> QED
    BY <1>1, <1>3, <2>2, <2>3
<1>6. ASSUME m \in Objects("Camera"), PartsFit("Camera", m) PROVE m \in CameraObjects
  <2>0. m \in [camera_guid : T, camera_name : T, stream_info : W, unknown : V]
    BY <1>1, <1>6, Zenon
  <2>1. m.stream_info \in W /\ m \in [camera_guid : T, camera_name : T, stream_info : W, unknown : V]
    BY <2>0
  <2>2. \A i \in DOMAIN m.stream_info : StreamInfo_ByteSizeLong(m.stream_info[i]) < IntSpan
    BY <1>3, <1>6
  <2>3. m.stream_info \in S
    BY <1>4, <2>1, <2>2
  <2>4. m \in [camera_guid : T, camera_name : T, stream_info : S, unknown : V]
    BY <2>1, <2>3
  <2> QED
    BY <1>2, <2>4
<1> QED
  BY <1>5, <1>6

(* SerializeToArray writes what the other way of writing does. *)
LEMMA CameraArray ==
  ASSUME NEW m PROVE Camera_SerializeToArray(m) = Camera_SerializeWithCachedSizes(m)
<1>1. ASSUME NEW w PROVE StreamInfo_SerializeToArray(w) = StreamInfo_SerializeWithCachedSizes(w)
  BY DEF StreamInfo_SerializeToArray, StreamInfo_SerializeWithCachedSizes
<1> DEFINE l == [i \in DOMAIN m.stream_info |-> WriteMessage(3, StreamInfo_ByteSizeLong(m.stream_info[i]),
                                              StreamInfo_SerializeToArray(m.stream_info[i]))]
           n == [i \in DOMAIN m.stream_info |-> WriteMessage(3, StreamInfo_ByteSizeLong(m.stream_info[i]),
                                              StreamInfo_SerializeWithCachedSizes(m.stream_info[i]))]
<1>2. l = n
  BY <1>1
<1>3. Camera_SerializeToArray(m)
        = Unless(m.camera_guid = << >>, WriteString(1, m.camera_guid))
          \o Unless(m.camera_name = << >>, WriteString(2, m.camera_name)) \o Concatenated(l) \o m.unknown
  BY DEF Camera_SerializeToArray
<1>4. Camera_SerializeWithCachedSizes(m)
        = Unless(m.camera_guid = << >>, WriteString(1, m.camera_guid))
          \o Unless(m.camera_name = << >>, WriteString(2, m.camera_name)) \o Concatenated(n) \o m.unknown
  BY DEF Camera_SerializeWithCachedSizes
<1> HIDE DEF l, n
<1> QED
  BY <1>2, <1>3, <1>4

LEMMA SystemRaw ==
  ASSUME NEW m \in SystemObjects PROVE m \in RawSystems /\ SystemFits(m) /\ SystemTextsValid(m)
<1>1. /\ IsRecord(m) /\ DOMAIN m = {"system_guid", "system_name", "cameras", "unknown"}
      /\ m.system_guid \in Text /\ m.system_name \in Text /\ m.cameras \in Seq(FitSystemCameras)
      /\ m.unknown \in NewTo("System")
  BY SystemObjectIs
<1>2. ASSUME NEW i \in 1 .. Len(m.cameras)
      PROVE  /\ System_CameraInfo_ByteSizeLong(m.cameras[i]) < IntSpan
             /\ SystemCameraTextsValid(m.cameras[i])
  <2> DEFINE nodes == m.cameras
             node == nodes[i]
  <2>0. nodes \in Seq(FitSystemCameras)
    BY <1>1
  <2> HIDE DEF nodes
  <2>1. node \in FitSystemCameras
    BY <1>2, <2>0, ElementOfSeq DEF nodes
  <2> HIDE DEF node
  <2>2. node \in SystemCameras /\ System_CameraInfo_ByteSizeLong(node) < IntSpan
    BY <2>1 DEF FitSystemCameras
  <2>3. SystemCameraTextsValid(node)
    BY <2>2, SystemCameraRaw
  <2> QED
    BY <2>2, <2>3 DEF node, nodes
<1>3. SystemFits(m)
  BY <1>2 DEF SystemFits
<1>4. m.system_guid \in Raw /\ m.system_name \in Raw /\ IsStructurallyValidUTF8(m.system_guid) /\ IsStructurallyValidUTF8(m.system_name)
  BY <1>1, TextIs
<1>5. SystemTextsValid(m)
  BY <1>2, <1>4 DEF SystemTextsValid
<1>6. m.cameras \in Seq(RawSystemCameras)
  BY <1>1, SystemFitRaw, SeqMonotonic
<1>7. m \in RawSystems
  <2> DEFINE T == Raw
             S == Seq(RawSystemCameras)
             V == NewTo("System")
  <2>1. m.system_guid \in T /\ m.system_name \in T /\ m.cameras \in S /\ m.unknown \in V
    BY <1>1, <1>4, <1>6
  <2> HIDE DEF T, S, V
  <2>2. m \in [system_guid : T, system_name : T, cameras : S, unknown : V]
    BY <1>1, <2>1 DEF IsRecord
  <2> QED
    BY <2>2 DEF RawSystems, T, S, V
<1> QED
  BY <1>3, <1>5, <1>7

LEMMA SystemObjectFits ==
  ASSUME NEW m PROVE m \in SystemObjects <=> m \in Objects("System") /\ PartsFit("System", m)
<1> DEFINE S == Seq(FitSystemCameras)
           W == Seq(SystemCameras)
           T == Text
           V == NewTo("System")
<1>1. Objects("System") = [system_guid : T, system_name : T, cameras : W, unknown : V]
  BY DEF Objects, ByClass
<1>2. SystemObjects = [system_guid : T, system_name : T, cameras : S, unknown : V]
  BY DEF SystemObjects
<1>3. PartsFit("System", m) = (\A i \in DOMAIN m.cameras : System_CameraInfo_ByteSizeLong(m.cameras[i]) < IntSpan)
  BY DEF PartsFit, ByClass
<1>4. ASSUME NEW nodes
      PROVE  nodes \in S
               <=> nodes \in W /\ \A i \in DOMAIN nodes : System_CameraInfo_ByteSizeLong(nodes[i]) < IntSpan
  <2>1. ASSUME nodes \in S
        PROVE  nodes \in W /\ \A i \in DOMAIN nodes : System_CameraInfo_ByteSizeLong(nodes[i]) < IntSpan
    <3>1. FitSystemCameras \subseteq SystemCameras
      BY DEF FitSystemCameras
    <3>2. nodes \in W
      BY <2>1, <3>1, SeqMonotonic
    <3>3. ASSUME NEW i \in DOMAIN nodes PROVE System_CameraInfo_ByteSizeLong(nodes[i]) < IntSpan
      <4> DEFINE node == nodes[i]
      <4>0. i \in 1 .. Len(nodes)
        BY <2>1, <3>3, LenProperties
      <4>1. node \in FitSystemCameras
        BY <2>1, <4>0, ElementOfSeq
      <4> HIDE DEF node
      <4>2. System_CameraInfo_ByteSizeLong(node) < IntSpan
        BY <4>1 DEF FitSystemCameras
      <4> QED
        BY <4>2 DEF node
    <3> QED
      BY <3>2, <3>3
  <2>2. ASSUME nodes \in W, \A i \in DOMAIN nodes : System_CameraInfo_ByteSizeLong(nodes[i]) < IntSpan
        PROVE  nodes \in S
    <3>1. nodes \in [1 .. Len(nodes) -> SystemCameras] /\ Len(nodes) \in Nat /\ DOMAIN nodes = 1 .. Len(nodes)
      BY <2>2, LenProperties
    <3>2. ASSUME NEW i \in 1 .. Len(nodes) PROVE nodes[i] \in FitSystemCameras
      <4> DEFINE node == nodes[i]
      <4>1. node \in SystemCameras /\ System_CameraInfo_ByteSizeLong(node) < IntSpan
        BY <2>2, <3>1
      <4> HIDE DEF node
      <4>2. node \in FitSystemCameras
        BY <4>1 DEF FitSystemCameras
      <4> QED
        BY <4>2 DEF node
    <3>3. nodes \in [1 .. Len(nodes) -> FitSystemCameras]
      <4>1. nodes = [i \in 1 .. Len(nodes) |-> nodes[i]]
        BY <3>1
      <4> QED
        BY <3>2, <4>1
    <3> QED
      BY <3>1, <3>3, IsASeq
  <2> QED
    BY <2>1, <2>2
<1> HIDE DEF S, W, T, V
<1>5. ASSUME m \in SystemObjects PROVE m \in Objects("System") /\ PartsFit("System", m)
  <2>1. m.cameras \in S /\ m \in [system_guid : T, system_name : T, cameras : S, unknown : V]
    BY <1>2, <1>5
  <2>2. m.cameras \in W /\ \A i \in DOMAIN m.cameras : System_CameraInfo_ByteSizeLong(m.cameras[i]) < IntSpan
    BY <1>4, <2>1
  <2>3. m \in [system_guid : T, system_name : T, cameras : W, unknown : V]
    BY <2>1, <2>2
  <2> QED
    BY <1>1, <1>3, <2>2, <2>3
<1>6. ASSUME m \in Objects("System"), PartsFit("System", m) PROVE m \in SystemObjects
  <2>0. m \in [system_guid : T, system_name : T, cameras : W, unknown : V]
    BY <1>1, <1>6, Zenon
  <2>1. m.cameras \in W /\ m \in [system_guid : T, system_name : T, cameras : W, unknown : V]
    BY <2>0
  <2>2. \A i \in DOMAIN m.cameras : System_CameraInfo_ByteSizeLong(m.cameras[i]) < IntSpan
    BY <1>3, <1>6
  <2>3. m.cameras \in S
    BY <1>4, <2>1, <2>2
  <2>4. m \in [system_guid : T, system_name : T, cameras : S, unknown : V]
    BY <2>1, <2>3
  <2> QED
    BY <1>2, <2>4
<1> QED
  BY <1>5, <1>6

(* SerializeToArray writes what the other way of writing does. *)
LEMMA SystemArray ==
  ASSUME NEW m PROVE System_SerializeToArray(m) = System_SerializeWithCachedSizes(m)
<1>1. ASSUME NEW w PROVE System_CameraInfo_SerializeToArray(w) = System_CameraInfo_SerializeWithCachedSizes(w)
  BY DEF System_CameraInfo_SerializeToArray, System_CameraInfo_SerializeWithCachedSizes
<1> DEFINE l == [i \in DOMAIN m.cameras |-> WriteMessage(3, System_CameraInfo_ByteSizeLong(m.cameras[i]),
                                              System_CameraInfo_SerializeToArray(m.cameras[i]))]
           n == [i \in DOMAIN m.cameras |-> WriteMessage(3, System_CameraInfo_ByteSizeLong(m.cameras[i]),
                                              System_CameraInfo_SerializeWithCachedSizes(m.cameras[i]))]
<1>2. l = n
  BY <1>1
<1>3. System_SerializeToArray(m)
        = Unless(m.system_guid = << >>, WriteString(1, m.system_guid))
          \o Unless(m.system_name = << >>, WriteString(2, m.system_name)) \o Concatenated(l) \o m.unknown
  BY DEF System_SerializeToArray
<1>4. System_SerializeWithCachedSizes(m)
        = Unless(m.system_guid = << >>, WriteString(1, m.system_guid))
          \o Unless(m.system_name = << >>, WriteString(2, m.system_name)) \o Concatenated(n) \o m.unknown
  BY DEF System_SerializeWithCachedSizes
<1> HIDE DEF l, n
<1> QED
  BY <1>2, <1>3, <1>4

FitObjects(k) ==
  ByClass(k, StreamInfos, CameraObjects, WatchdogObjects, SystemCameras, SystemObjects)

LEMMA FitObjectsAre ==
  ASSUME NEW k \in Classes, NEW m
  PROVE  m \in FitObjects(k) <=> m \in Objects(k) /\ PartsFit(k, m)
<1>1. CASE k = "StreamInfo"
  BY <1>1 DEF FitObjects, Objects, PartsFit, ByClass
<1>2. CASE k = "CameraWatchdog"
  BY <1>2 DEF FitObjects, Objects, PartsFit, ByClass, WatchdogObjects
<1>3. CASE k = "System_CameraInfo"
  BY <1>3 DEF FitObjects, Objects, PartsFit, ByClass
<1>4. CASE k = "Camera"
  <2>1. FitObjects(k) = CameraObjects
    BY <1>4 DEF FitObjects, ByClass
  <2> QED
    BY <1>4, <2>1, CameraObjectFits
<1>5. CASE k = "System"
  <2>1. FitObjects(k) = SystemObjects
    BY <1>5 DEF FitObjects, ByClass
  <2> QED
    BY <1>5, <2>1, SystemObjectFits
<1> QED
  BY <1>1, <1>2, <1>3, <1>4, <1>5 DEF Classes

LEMMA ObjectMerged ==
  ASSUME NEW k \in Classes, NEW a \in FitObjects(k), NEW c \in FitObjects(k)
  PROVE  Merge(k, a, c) \in FitObjects(k) /\ New(k) \in FitObjects(k)
<1>1. CASE k = "StreamInfo"
  <2>1. FitObjects(k) = StreamInfos /\ Merge(k, a, c) = StreamInfo_MergeFrom(a, c) /\ New(k) = StreamInfo_SharedCtor
    BY <1>1 DEF FitObjects, Merge, New, ByClass
  <2> QED
    BY <2>1, StreamMerged, StreamNewObject
<1>2. CASE k = "CameraWatchdog"
  <2>1. FitObjects(k) = WatchdogObjects /\ Merge(k, a, c) = CameraWatchdog_MergeFrom(a, c) /\ New(k) = CameraWatchdog_SharedCtor
    BY <1>2 DEF FitObjects, Merge, New, ByClass
  <2> QED
    BY <2>1, WatchdogMerged, WatchdogNewObject
<1>3. CASE k = "System_CameraInfo"
  <2>1. FitObjects(k) = SystemCameras /\ Merge(k, a, c) = System_CameraInfo_MergeFrom(a, c) /\ New(k) = System_CameraInfo_SharedCtor
    BY <1>3 DEF FitObjects, Merge, New, ByClass
  <2> QED
    BY <2>1, SystemCameraMerged, SystemCameraNewObject
<1>4. CASE k = "Camera"
  <2>1. FitObjects(k) = CameraObjects /\ Merge(k, a, c) = Camera_MergeFrom(a, c) /\ New(k) = Camera_SharedCtor
    BY <1>4 DEF FitObjects, Merge, New, ByClass
  <2> QED
    BY <2>1, CameraMerged, CameraNewObject
<1>5. CASE k = "System"
  <2>1. FitObjects(k) = SystemObjects /\ Merge(k, a, c) = System_MergeFrom(a, c) /\ New(k) = System_SharedCtor
    BY <1>5 DEF FitObjects, Merge, New, ByClass
  <2> QED
    BY <2>1, SystemMerged, SystemNewObject
<1> QED
  BY <1>1, <1>2, <1>3, <1>4, <1>5 DEF Classes

LEMMA ObjectCopied ==
  ASSUME NEW k \in Classes, NEW a \in FitObjects(k), NEW c \in FitObjects(k)
  PROVE  /\ Copy(k, c) = c /\ Merge(k, New(k), c) = c
         /\ ClearMessage(k, a) = New(k) /\ CopyFrom(k, a, c) = c
         /\ Swap(k, a, c) = <<c, a>>
<1>1. CASE k = "StreamInfo"
  <2>1. /\ FitObjects(k) = StreamInfos /\ Copy(k, c) = StreamInfo_Copy(c)
        /\ Merge(k, New(k), c) = StreamInfo_MergeFrom(StreamInfo_SharedCtor, c)
        /\ ClearMessage(k, a) = StreamInfo_Clear(a) /\ New(k) = StreamInfo_SharedCtor
        /\ CopyFrom(k, a, c) = StreamInfo_CopyFrom(a, c) /\ Swap(k, a, c) = StreamInfo_Swap(a, c)
    BY <1>1 DEF FitObjects, Copy, Merge, New, ClearMessage, CopyFrom, Swap, ByClass
  <2>2. a \in StreamInfos /\ c \in StreamInfos
    BY <2>1
  <2>3. /\ StreamInfo_Copy(c) = c /\ StreamInfo_MergeFrom(StreamInfo_SharedCtor, c) = c
        /\ StreamInfo_Clear(a) = StreamInfo_SharedCtor /\ StreamInfo_CopyFrom(a, c) = c
        /\ StreamInfo_Swap(a, c) = <<c, a>>
    BY <2>2, StreamCopied
  <2> QED
    BY <2>1, <2>3
<1>2. CASE k = "CameraWatchdog"
  <2>1. /\ FitObjects(k) = WatchdogObjects /\ Copy(k, c) = CameraWatchdog_Copy(c)
        /\ Merge(k, New(k), c) = CameraWatchdog_MergeFrom(CameraWatchdog_SharedCtor, c)
        /\ ClearMessage(k, a) = CameraWatchdog_Clear(a) /\ New(k) = CameraWatchdog_SharedCtor
        /\ CopyFrom(k, a, c) = CameraWatchdog_CopyFrom(a, c) /\ Swap(k, a, c) = CameraWatchdog_Swap(a, c)
    BY <1>2 DEF FitObjects, Copy, Merge, New, ClearMessage, CopyFrom, Swap, ByClass
  <2>2. a \in WatchdogObjects /\ c \in WatchdogObjects
    BY <2>1
  <2>3. /\ CameraWatchdog_Copy(c) = c /\ CameraWatchdog_MergeFrom(CameraWatchdog_SharedCtor, c) = c
        /\ CameraWatchdog_Clear(a) = CameraWatchdog_SharedCtor /\ CameraWatchdog_CopyFrom(a, c) = c
        /\ CameraWatchdog_Swap(a, c) = <<c, a>>
    BY <2>2, WatchdogCopied
  <2> QED
    BY <2>1, <2>3
<1>3. CASE k = "System_CameraInfo"
  <2>1. /\ FitObjects(k) = SystemCameras /\ Copy(k, c) = System_CameraInfo_Copy(c)
        /\ Merge(k, New(k), c) = System_CameraInfo_MergeFrom(System_CameraInfo_SharedCtor, c)
        /\ ClearMessage(k, a) = System_CameraInfo_Clear(a) /\ New(k) = System_CameraInfo_SharedCtor
        /\ CopyFrom(k, a, c) = System_CameraInfo_CopyFrom(a, c) /\ Swap(k, a, c) = System_CameraInfo_Swap(a, c)
    BY <1>3 DEF FitObjects, Copy, Merge, New, ClearMessage, CopyFrom, Swap, ByClass
  <2>2. a \in SystemCameras /\ c \in SystemCameras
    BY <2>1
  <2>3. /\ System_CameraInfo_Copy(c) = c /\ System_CameraInfo_MergeFrom(System_CameraInfo_SharedCtor, c) = c
        /\ System_CameraInfo_Clear(a) = System_CameraInfo_SharedCtor /\ System_CameraInfo_CopyFrom(a, c) = c
        /\ System_CameraInfo_Swap(a, c) = <<c, a>>
    BY <2>2, SystemCameraCopied
  <2> QED
    BY <2>1, <2>3
<1>4. CASE k = "Camera"
  <2>1. /\ FitObjects(k) = CameraObjects /\ Copy(k, c) = Camera_Copy(c)
        /\ Merge(k, New(k), c) = Camera_MergeFrom(Camera_SharedCtor, c)
        /\ ClearMessage(k, a) = Camera_Clear(a) /\ New(k) = Camera_SharedCtor
        /\ CopyFrom(k, a, c) = Camera_CopyFrom(a, c) /\ Swap(k, a, c) = Camera_Swap(a, c)
    BY <1>4 DEF FitObjects, Copy, Merge, New, ClearMessage, CopyFrom, Swap, ByClass
  <2>2. a \in CameraObjects /\ c \in CameraObjects
    BY <2>1
  <2>3. /\ Camera_Copy(c) = c /\ Camera_MergeFrom(Camera_SharedCtor, c) = c
        /\ Camera_Clear(a) = Camera_SharedCtor /\ Camera_CopyFrom(a, c) = c
        /\ Camera_Swap(a, c) = <<c, a>>
    BY <2>2, CameraCopied
  <2> QED
    BY <2>1, <2>3
<1>5. CASE k = "System"
  <2>1. /\ FitObjects(k) = SystemObjects /\ Copy(k, c) = System_Copy(c)
        /\ Merge(k, New(k), c) = System_MergeFrom(System_SharedCtor, c)
        /\ ClearMessage(k, a) = System_Clear(a) /\ New(k) = System_SharedCtor
        /\ CopyFrom(k, a, c) = System_CopyFrom(a, c) /\ Swap(k, a, c) = System_Swap(a, c)
    BY <1>5 DEF FitObjects, Copy, Merge, New, ClearMessage, CopyFrom, Swap, ByClass
  <2>2. a \in SystemObjects /\ c \in SystemObjects
    BY <2>1
  <2>3. /\ System_Copy(c) = c /\ System_MergeFrom(System_SharedCtor, c) = c
        /\ System_Clear(a) = System_SharedCtor /\ System_CopyFrom(a, c) = c
        /\ System_Swap(a, c) = <<c, a>>
    BY <2>2, SystemCopied
  <2> QED
    BY <2>1, <2>3
<1> QED
  BY <1>1, <1>2, <1>3, <1>4, <1>5 DEF Classes

LEMMA ObjectKeeps ==
  ASSUME NEW k \in Classes, NEW a \in FitObjects(k), NEW u \in NewTo(k)
  PROVE  /\ FieldSet(a, "unknown", a.unknown \o u) \in FitObjects(k)
         /\ IsRecord(a) /\ "unknown" \in DOMAIN a /\ a.unknown \in NewTo(k)
<1>1. CASE k = "StreamInfo"
  <2>1. FitObjects(k) = StreamInfos
    BY <1>1 DEF FitObjects, ByClass
  <2>2. a \in StreamInfos /\ u \in NewTo("StreamInfo")
    BY <1>1, <2>1
  <2>3. FieldSet(a, "unknown", a.unknown \o u) \in StreamInfos
    BY <2>2, StreamKeeps
  <2>4. IsRecord(a) /\ "unknown" \in DOMAIN a /\ a.unknown \in NewTo("StreamInfo")
    BY <2>2, StreamObjectIs
  <2> QED
    BY <1>1, <2>1, <2>3, <2>4
<1>2. CASE k = "CameraWatchdog"
  <2>1. FitObjects(k) = WatchdogObjects
    BY <1>2 DEF FitObjects, ByClass
  <2>2. a \in WatchdogObjects /\ u \in NewTo("CameraWatchdog")
    BY <1>2, <2>1
  <2>3. FieldSet(a, "unknown", a.unknown \o u) \in WatchdogObjects
    BY <2>2, WatchdogKeeps
  <2>4. IsRecord(a) /\ "unknown" \in DOMAIN a /\ a.unknown \in NewTo("CameraWatchdog")
    BY <2>2, WatchdogObjectIs
  <2> QED
    BY <1>2, <2>1, <2>3, <2>4
<1>3. CASE k = "System_CameraInfo"
  <2>1. FitObjects(k) = SystemCameras
    BY <1>3 DEF FitObjects, ByClass
  <2>2. a \in SystemCameras /\ u \in NewTo("System_CameraInfo")
    BY <1>3, <2>1
  <2>3. FieldSet(a, "unknown", a.unknown \o u) \in SystemCameras
    BY <2>2, SystemCameraKeeps
  <2>4. IsRecord(a) /\ "unknown" \in DOMAIN a /\ a.unknown \in NewTo("System_CameraInfo")
    BY <2>2, SystemCameraObjectIs
  <2> QED
    BY <1>3, <2>1, <2>3, <2>4
<1>4. CASE k = "Camera"
  <2>1. FitObjects(k) = CameraObjects
    BY <1>4 DEF FitObjects, ByClass
  <2>2. a \in CameraObjects /\ u \in NewTo("Camera")
    BY <1>4, <2>1
  <2>3. FieldSet(a, "unknown", a.unknown \o u) \in CameraObjects
    BY <2>2, CameraKeeps
  <2>4. IsRecord(a) /\ "unknown" \in DOMAIN a /\ a.unknown \in NewTo("Camera")
    BY <2>2, CameraObjectIs
  <2> QED
    BY <1>4, <2>1, <2>3, <2>4
<1>5. CASE k = "System"
  <2>1. FitObjects(k) = SystemObjects
    BY <1>5 DEF FitObjects, ByClass
  <2>2. a \in SystemObjects /\ u \in NewTo("System")
    BY <1>5, <2>1
  <2>3. FieldSet(a, "unknown", a.unknown \o u) \in SystemObjects
    BY <2>2, SystemKeeps
  <2>4. IsRecord(a) /\ "unknown" \in DOMAIN a /\ a.unknown \in NewTo("System")
    BY <2>2, SystemObjectIs
  <2> QED
    BY <1>5, <2>1, <2>3, <2>4
<1> QED
  BY <1>1, <1>2, <1>3, <1>4, <1>5 DEF Classes

LEMMA ObjectBytes ==
  ASSUME NEW k \in Classes, NEW c \in FitObjects(k)
  PROVE  /\ Serialize(k, c) \in Seq(Octet) /\ Size(k, c) = Len(Serialize(k, c))
         /\ SerializeToArray(k, c) = Serialize(k, c)
<1>1. CASE k = "StreamInfo"
  <2>1. /\ FitObjects(k) = StreamInfos /\ Serialize(k, c) = StreamInfo_SerializeWithCachedSizes(c)
        /\ Size(k, c) = StreamInfo_ByteSizeLong(c) /\ SerializeToArray(k, c) = StreamInfo_SerializeToArray(c)
    BY <1>1 DEF FitObjects, Serialize, Size, SerializeToArray, ByClass
  <2>2. c \in RawStreams
    BY <2>1, StreamRaw
  <2>3. /\ StreamInfo_SerializeWithCachedSizes(c) \in Seq(Octet)
        /\ Len(StreamInfo_SerializeWithCachedSizes(c)) = StreamInfo_ByteSizeLong(c)
    BY <2>2, StreamBytes
  <2>4. StreamInfo_SerializeToArray(c) = StreamInfo_SerializeWithCachedSizes(c)
    BY DEF StreamInfo_SerializeToArray, StreamInfo_SerializeWithCachedSizes
  <2> QED
    BY <2>1, <2>3, <2>4
<1>2. CASE k = "CameraWatchdog"
  <2>1. /\ FitObjects(k) = WatchdogObjects /\ Serialize(k, c) = CameraWatchdog_SerializeWithCachedSizes(c)
        /\ Size(k, c) = CameraWatchdog_ByteSizeLong(c) /\ SerializeToArray(k, c) = CameraWatchdog_SerializeToArray(c)
    BY <1>2 DEF FitObjects, Serialize, Size, SerializeToArray, ByClass
  <2>2. c \in RawWatchdogs
    BY <2>1, WatchdogRaw
  <2>3. /\ CameraWatchdog_SerializeWithCachedSizes(c) \in Seq(Octet)
        /\ Len(CameraWatchdog_SerializeWithCachedSizes(c)) = CameraWatchdog_ByteSizeLong(c)
    BY <2>2, WatchdogBytes
  <2>4. CameraWatchdog_SerializeToArray(c) = CameraWatchdog_SerializeWithCachedSizes(c)
    BY DEF CameraWatchdog_SerializeToArray, CameraWatchdog_SerializeWithCachedSizes
  <2> QED
    BY <2>1, <2>3, <2>4
<1>3. CASE k = "System_CameraInfo"
  <2>1. /\ FitObjects(k) = SystemCameras /\ Serialize(k, c) = System_CameraInfo_SerializeWithCachedSizes(c)
        /\ Size(k, c) = System_CameraInfo_ByteSizeLong(c) /\ SerializeToArray(k, c) = System_CameraInfo_SerializeToArray(c)
    BY <1>3 DEF FitObjects, Serialize, Size, SerializeToArray, ByClass
  <2>2. c \in RawSystemCameras
    BY <2>1, SystemCameraRaw
  <2>3. /\ System_CameraInfo_SerializeWithCachedSizes(c) \in Seq(Octet)
        /\ Len(System_CameraInfo_SerializeWithCachedSizes(c)) = System_CameraInfo_ByteSizeLong(c)
    BY <2>2, SystemCameraBytes
  <2>4. System_CameraInfo_SerializeToArray(c) = System_CameraInfo_SerializeWithCachedSizes(c)
    BY DEF System_CameraInfo_SerializeToArray, System_CameraInfo_SerializeWithCachedSizes
  <2> QED
    BY <2>1, <2>3, <2>4
<1>4. CASE k = "Camera"
  <2>1. /\ FitObjects(k) = CameraObjects /\ Serialize(k, c) = Camera_SerializeWithCachedSizes(c)
        /\ Size(k, c) = Camera_ByteSizeLong(c) /\ SerializeToArray(k, c) = Camera_SerializeToArray(c)
    BY <1>4 DEF FitObjects, Serialize, Size, SerializeToArray, ByClass
  <2>2. c \in RawCameras /\ CameraFits(c)
    BY <2>1, CameraRaw
  <2>3. /\ Camera_SerializeWithCachedSizes(c) \in Seq(Octet)
        /\ Len(Camera_SerializeWithCachedSizes(c)) = Camera_ByteSizeLong(c)
    BY <2>2, CameraBytes
  <2>4. Camera_SerializeToArray(c) = Camera_SerializeWithCachedSizes(c)
    BY CameraArray
  <2> QED
    BY <2>1, <2>3, <2>4
<1>5. CASE k = "System"
  <2>1. /\ FitObjects(k) = SystemObjects /\ Serialize(k, c) = System_SerializeWithCachedSizes(c)
        /\ Size(k, c) = System_ByteSizeLong(c) /\ SerializeToArray(k, c) = System_SerializeToArray(c)
    BY <1>5 DEF FitObjects, Serialize, Size, SerializeToArray, ByClass
  <2>2. c \in RawSystems /\ SystemFits(c)
    BY <2>1, SystemRaw
  <2>3. /\ System_SerializeWithCachedSizes(c) \in Seq(Octet)
        /\ Len(System_SerializeWithCachedSizes(c)) = System_ByteSizeLong(c)
    BY <2>2, SystemBytes
  <2>4. System_SerializeToArray(c) = System_SerializeWithCachedSizes(c)
    BY SystemArray
  <2> QED
    BY <2>1, <2>3, <2>4
<1> QED
  BY <1>1, <1>2, <1>3, <1>4, <1>5 DEF Classes

(* The bytes of an object bring a message that is read to their merge. *)
LEMMA ObjectReads ==
  ASSUME NEW k \in Classes, NEW b \in Seq(Octet), NEW m0, NEW m \in FitObjects(k),
         NEW here \in Nat \ {0}, NEW good \in BOOLEAN, Settled(k, b, m0, good, {}, m, here),
         NEW c \in FitObjects(k), Holds(b, here, Serialize(k, c))
  PROVE  Settled(k, b, m0, good, {}, Merge(k, m, c), here + Len(Serialize(k, c)))
<1>1. CASE k = "StreamInfo"
  <2> DEFINE s == Serialize(k, c)
             d == Merge(k, m, c)
             next == here + Len(s)
  <2>1. FitObjects(k) = StreamInfos /\ s = StreamInfo_SerializeWithCachedSizes(c) /\ d = StreamInfo_MergeFrom(m, c)
    BY <1>1 DEF FitObjects, Serialize, Merge, ByClass
  <2>2. m \in RawStreams /\ c \in RawStreams /\ StreamTextsValid(c)
    BY <2>1, StreamRaw
  <2>3. Settled("StreamInfo", b, m0, good, {}, m, here) /\ Holds(b, here, StreamInfo_SerializeWithCachedSizes(c))
    BY <1>1, <2>1
  <2>4. Settled("StreamInfo", b, m0, good /\ StreamTextsValid(c), {}, StreamInfo_MergeFrom(m, c),
                here + Len(StreamInfo_SerializeWithCachedSizes(c)))
    BY <2>2, <2>3, StreamReads
  <2>5. (good /\ StreamTextsValid(c)) = good
    BY <2>2
  <2> DEFINE q == good /\ StreamTextsValid(c)
  <2>6. Settled("StreamInfo", b, m0, q, {}, d, next)
    BY <2>1, <2>4
  <2> HIDE DEF d, next, q
  <2>7. q = good
    BY <2>5 DEF q
  <2>8. Settled(k, b, m0, good, {}, d, next)
    BY <1>1, <2>6, <2>7
  <2> QED
    BY <2>8 DEF d, next
<1>2. CASE k = "CameraWatchdog"
  <2> DEFINE s == Serialize(k, c)
             d == Merge(k, m, c)
             next == here + Len(s)
  <2>1. FitObjects(k) = WatchdogObjects /\ s = CameraWatchdog_SerializeWithCachedSizes(c) /\ d = CameraWatchdog_MergeFrom(m, c)
    BY <1>2 DEF FitObjects, Serialize, Merge, ByClass
  <2>2. m \in RawWatchdogs /\ c \in RawWatchdogs
    BY <2>1, WatchdogRaw
  <2>3. Settled("CameraWatchdog", b, m0, good, {}, m, here) /\ Holds(b, here, CameraWatchdog_SerializeWithCachedSizes(c))
    BY <1>2, <2>1
  <2>4. Settled("CameraWatchdog", b, m0, good, {}, CameraWatchdog_MergeFrom(m, c),
                here + Len(CameraWatchdog_SerializeWithCachedSizes(c)))
    BY <2>2, <2>3, WatchdogReads
  <2>5. Settled(k, b, m0, good, {}, d, next)
    BY <1>2, <2>1, <2>4
  <2> QED
    BY <2>5
<1>3. CASE k = "System_CameraInfo"
  <2> DEFINE s == Serialize(k, c)
             d == Merge(k, m, c)
             next == here + Len(s)
  <2>1. FitObjects(k) = SystemCameras /\ s = System_CameraInfo_SerializeWithCachedSizes(c) /\ d = System_CameraInfo_MergeFrom(m, c)
    BY <1>3 DEF FitObjects, Serialize, Merge, ByClass
  <2>2. m \in RawSystemCameras /\ c \in RawSystemCameras /\ IsStructurallyValidUTF8(c.camera_guid)
    BY <2>1, SystemCameraRaw DEF SystemCameraTextsValid
  <2>3. Settled("System_CameraInfo", b, m0, good, {}, m, here) /\ Holds(b, here, System_CameraInfo_SerializeWithCachedSizes(c))
    BY <1>3, <2>1
  <2>4. Settled("System_CameraInfo", b, m0, good /\ IsStructurallyValidUTF8(c.camera_guid), {}, System_CameraInfo_MergeFrom(m, c),
                here + Len(System_CameraInfo_SerializeWithCachedSizes(c)))
    BY <2>2, <2>3, SystemCameraReads
  <2>5. (good /\ IsStructurallyValidUTF8(c.camera_guid)) = good
    BY <2>2
  <2> DEFINE q == good /\ IsStructurallyValidUTF8(c.camera_guid)
  <2>6. Settled("System_CameraInfo", b, m0, q, {}, d, next)
    BY <2>1, <2>4
  <2> HIDE DEF d, next, q
  <2>7. q = good
    BY <2>5 DEF q
  <2>8. Settled(k, b, m0, good, {}, d, next)
    BY <1>3, <2>6, <2>7
  <2> QED
    BY <2>8 DEF d, next
<1>4. CASE k = "Camera"
  <2> DEFINE s == Serialize(k, c)
             d == Merge(k, m, c)
             next == here + Len(s)
  <2>1. FitObjects(k) = CameraObjects /\ s = Camera_SerializeWithCachedSizes(c) /\ d = Camera_MergeFrom(m, c)
    BY <1>4 DEF FitObjects, Serialize, Merge, ByClass
  <2>2. m \in RawCameras /\ c \in RawCameras /\ CameraFits(c) /\ CameraTextsValid(c)
    BY <2>1, CameraRaw
  <2>3. Settled("Camera", b, m0, good, {}, m, here) /\ Holds(b, here, Camera_SerializeWithCachedSizes(c))
    BY <1>4, <2>1
  <2>4. Settled("Camera", b, m0, good /\ CameraTextsValid(c), {}, Camera_MergeFrom(m, c),
                here + Len(Camera_SerializeWithCachedSizes(c)))
    BY <2>2, <2>3, CameraReads
  <2>5. (good /\ CameraTextsValid(c)) = good
    BY <2>2
  <2> DEFINE q == good /\ CameraTextsValid(c)
  <2>6. Settled("Camera", b, m0, q, {}, d, next)
    BY <2>1, <2>4
  <2> HIDE DEF d, next, q
  <2>7. q = good
    BY <2>5 DEF q
  <2>8. Settled(k, b, m0, good, {}, d, next)
    BY <1>4, <2>6, <2>7
  <2> QED
    BY <2>8 DEF d, next
<1>5. CASE k = "System"
  <2> DEFINE s == Serialize(k, c)
             d == Merge(k, m, c)
             next == here + Len(s)
  <2>1. FitObjects(k) = SystemObjects /\ s = System_SerializeWithCachedSizes(c) /\ d = System_MergeFrom(m, c)
    BY <1>5 DEF FitObjects, Serialize, Merge, ByClass
  <2>2. m \in RawSystems /\ c \in RawSystems /\ SystemFits(c) /\ SystemTextsValid(c)
    BY <2>1, SystemRaw
  <2>3. Settled("System", b, m0, good, {}, m, here) /\ Holds(b, here, System_SerializeWithCachedSizes(c))
    BY <1>5, <2>1
  <2>4. Settled("System", b, m0, good /\ SystemTextsValid(c), {}, System_MergeFrom(m, c),
                here + Len(System_SerializeWithCachedSizes(c)))
    BY <2>2, <2>3, SystemReads
  <2>5. (good /\ SystemTextsValid(c)) = good
    BY <2>2
  <2> DEFINE q == good /\ SystemTextsValid(c)
  <2>6. Settled("System", b, m0, q, {}, d, next)
    BY <2>1, <2>4
  <2> HIDE DEF d, next, q
  <2>7. q = good
    BY <2>5 DEF q
  <2>8. Settled(k, b, m0, good, {}, d, next)
    BY <1>5, <2>6, <2>7
  <2> QED
    BY <2>8 DEF d, next
<1> QED
  BY <1>1, <1>2, <1>3, <1>4, <1>5 DEF Classes

----------------------------------------------------------------------------
(* Reading what was written: one object with new fields after it, and two  *)
(* objects one after the other.                                            *)
LEMMA StartsAtOne ==
  ASSUME NEW k, NEW b \in Seq(Octet), NEW m0, NEW good, good = TRUE
  PROVE  Settled(k, b, m0, good, {}, m0, 1)
BY SettledStart

LEMMA ReadToTheEnd ==
  ASSUME NEW k \in Classes, NEW b \in Seq(Octet), NEW m0, NEW good, good = TRUE, NEW m,
         NEW here, here = Len(b) + 1, Settled(k, b, m0, good, {}, m, here)
  PROVE  Parse(k, m0, b) = Going(m, Len(b) + 1)
<1>1. good \in BOOLEAN /\ Settled(k, b, m0, good, {}, m, Len(b) + 1)
  OBVIOUS
<1>2. good => Loop(k, m0, b)[LastStep(b)] = Going(m, Len(b) + 1)
  BY <1>1, SettledEnd
<1>3. Parse(k, m0, b) = Loop(k, m0, b)[LastStep(b)]
  BY ParseIsLoop
<1> QED
  BY <1>2, <1>3

LEMMA ObjectStands ==
  ASSUME NEW k \in Classes, NEW c \in FitObjects(k), NEW w \in Seq(Octet),
         NEW good \in BOOLEAN, good = TRUE
  PROVE  LET s == Serialize(k, c)
             b == s \o w
         IN  /\ b \in Seq(Octet) /\ Holds(b, 1 + Len(s), w) /\ Len(b) = Len(s) + Len(w)
             /\ Len(s) \in Nat /\ Len(w) \in Nat /\ s \in Seq(Octet) /\ Holds(b, 1, b)
             /\ Settled(k, b, New(k), good, {}, c, 1 + Len(s))
<1> DEFINE s == Serialize(k, c)
           b == s \o w
           m0 == New(k)
<1>1. s \in Seq(Octet)
  BY ObjectBytes
<1> HIDE DEF s
<1>2. b \in Seq(Octet) /\ Len(b) = Len(s) + Len(w) /\ Len(s) \in Nat /\ Len(w) \in Nat
  BY <1>1, JoinedOctets
<1>3. Holds(b, 1, s \o w)
  <2> HIDE DEF b
  <2>1. Holds(b, 1, b)
    BY <1>2, HoldsAll
  <2> QED
    BY <2>1 DEF b
<1> HIDE DEF b
<1>4. Holds(b, 1, s) /\ Holds(b, 1 + Len(s), w)
  BY <1>1, <1>2, <1>3, HoldsParts
<1>5. m0 \in FitObjects(k)
  BY ObjectMerged
<1> HIDE DEF m0
<1>6. Settled(k, b, m0, good, {}, m0, 1)
  BY <1>2, StartsAtOne
<1> DEFINE here == 1
<1>7. here \in Nat \ {0} /\ here = 1
  OBVIOUS
<1> HIDE DEF here
<1>8. Settled(k, b, m0, good, {}, Merge(k, m0, c), here + Len(s))
  <2>1. Holds(b, here, Serialize(k, c)) /\ Settled(k, b, m0, good, {}, m0, here)
    BY <1>4, <1>6, <1>7 DEF s
  <2>2. Settled(k, b, m0, good, {}, Merge(k, m0, c), here + Len(Serialize(k, c)))
    BY <1>2, <1>5, <1>7, <2>1, ObjectReads
  <2> QED
    BY <2>2 DEF s
<1>9. Merge(k, m0, c) = c
  BY ObjectCopied DEF m0
<1> QED
  BY <1>1, <1>2, <1>3, <1>4, <1>7, <1>8, <1>9 DEF s, b, m0

LEMMA ObjectRead ==
  ASSUME NEW k \in Classes, NEW c \in FitObjects(k), NEW u \in NewTo(k)
  PROVE  LET b == Serialize(k, c) \o u
         IN  Parse(k, New(k), b) = Going(FieldSet(c, "unknown", c.unknown \o u), Len(b) + 1)
<1> DEFINE s == Serialize(k, c)
           b == s \o u
           m0 == New(k)
           good == TRUE
           m == FieldSet(c, "unknown", c.unknown \o u)
<1>1. u \in Seq(Octet) /\ good \in BOOLEAN /\ good = TRUE
  BY DEF NewTo
<1> HIDE DEF good
<1>2. /\ b \in Seq(Octet) /\ Len(b) = Len(s) + Len(u) /\ s \in Seq(Octet)
      /\ Len(s) \in Nat /\ Len(u) \in Nat /\ Holds(b, 1, b)
      /\ Settled(k, b, m0, good, {}, c, 1 + Len(s))
  BY <1>1, ObjectStands
<1>3. IsRecord(c) /\ "unknown" \in DOMAIN c /\ c.unknown \in NewTo(k)
  BY ObjectKeeps
<1>4. c.unknown \in Seq(Octet)
  BY <1>3 DEF NewTo
<1> DEFINE here == 1
<1>5. here \in Nat \ {0} /\ here = 1
  OBVIOUS
<1> HIDE DEF s, m0, here
<1>6. Settled(k, b, m0, good, {}, m, here + Len(s \o u))
  <2> DEFINE full == b
  <2>1. full \in Seq(Octet) /\ full = s \o u /\ Settled(k, full, m0, good, {}, c, here + Len(s))
        /\ Holds(full, here, s \o u)
    BY <1>2, <1>5
  <2> HIDE DEF full
  <2>2. Settled(k, full, m0, good, {}, m, here + Len(s \o u))
    BY <1>1, <1>2, <1>3, <1>4, <1>5, <2>1, UnknownNext
  <2> QED
    BY <2>2 DEF full
<1> HIDE DEF m
<1>7. Parse(k, m0, b) = Going(m, Len(b) + 1)
  <2> DEFINE next == here + Len(s \o u)
  <2>1. next = Len(b) + 1
    BY <1>2, <1>5
  <2>2. Settled(k, b, m0, good, {}, m, next)
    BY <1>6
  <2> HIDE DEF b, next
  <2> QED
    BY <1>1, <1>2, <2>1, <2>2, ReadToTheEnd
<1> QED
  BY <1>7 DEF s, m0, m

LEMMA ObjectReadAlone ==
  ASSUME NEW k \in Classes, NEW c \in FitObjects(k)
  PROVE  Parse(k, New(k), Serialize(k, c)) = Going(c, Len(Serialize(k, c)) + 1)
<1> DEFINE u == << >>
           s == Serialize(k, c)
           m == FieldSet(c, "unknown", c.unknown \o u)
<1>1. u \in NewTo(k) /\ u \in Seq(Octet)
  BY NothingNew
<1>2. s \in Seq(Octet)
  BY ObjectBytes
<1>3. s \o u = s
  <2> HIDE DEF s
  <2> QED
    BY <1>2
<1>4. m = c
  <2>1. IsRecord(c) /\ "unknown" \in DOMAIN c /\ c.unknown \in NewTo(k)
    BY <1>1, ObjectKeeps
  <2>2. c.unknown \o u = c.unknown
    <3> DEFINE v == c.unknown
    <3>1. v \in Seq(Octet)
      BY <2>1 DEF NewTo
    <3> HIDE DEF v
    <3>2. v \o u = v
      BY <3>1
    <3> QED
      BY <3>2 DEF v
  <2>3. HasField(c, "unknown")
    BY <2>1, FieldSetIs
  <2> QED
    BY <2>2, <2>3 DEF HasField, FieldSet
<1> HIDE DEF u
<1>5. Parse(k, New(k), s \o u) = Going(m, Len(s \o u) + 1)
  BY <1>1, ObjectRead
<1> HIDE DEF s, m
<1> QED
  BY <1>3, <1>4, <1>5 DEF s

LEMMA TwoObjectsRead ==
  ASSUME NEW k \in Classes, NEW a \in FitObjects(k), NEW c \in FitObjects(k)
  PROVE  LET b == Serialize(k, a) \o Serialize(k, c)
         IN  Parse(k, New(k), b) = Going(Merge(k, a, c), Len(b) + 1)
<1> DEFINE s == Serialize(k, a)
           w == Serialize(k, c)
           b == s \o w
           m0 == New(k)
           good == TRUE
<1>1. w \in Seq(Octet) /\ good \in BOOLEAN /\ good = TRUE
  BY ObjectBytes
<1> HIDE DEF good, w
<1>2. /\ b \in Seq(Octet) /\ Len(b) = Len(s) + Len(w) /\ Holds(b, 1 + Len(s), w)
      /\ Len(s) \in Nat /\ Len(w) \in Nat
      /\ Settled(k, b, m0, good, {}, a, 1 + Len(s))
  BY <1>1, ObjectStands
<1> DEFINE here == 1 + Len(s)
           m == Merge(k, a, c)
           next == here + Len(w)
<1>3. here \in Nat \ {0} /\ next = Len(b) + 1
  BY <1>2
<1> HIDE DEF b, m0, here
<1>4. Settled(k, b, m0, good, {}, m, next)
  <2>1. Holds(b, here, Serialize(k, c)) /\ Settled(k, b, m0, good, {}, a, here)
    BY <1>2 DEF here, w
  <2>2. Settled(k, b, m0, good, {}, Merge(k, a, c), here + Len(Serialize(k, c)))
    BY <1>1, <1>2, <1>3, <2>1, ObjectReads
  <2> QED
    BY <2>2 DEF w
<1> HIDE DEF m, next
<1>5. Parse(k, m0, b) = Going(m, Len(b) + 1)
  BY <1>1, <1>2, <1>3, <1>4, ReadToTheEnd
<1> QED
  BY <1>5 DEF b, m0, m, w
----------------------------------------------------------------------------
(* Whatever calls made them, both objects are objects of the class.        *)
ObjectsInv == class \in Classes /\ x \in FitObjects(class) /\ y \in FitObjects(class)

LEMMA ObjectsStart == ObjectsInit => ObjectsInv
<1> SUFFICES ASSUME ObjectsInit PROVE ObjectsInv
  OBVIOUS
<1>1. class \in Classes /\ x = New(class) /\ y = New(class)
  BY DEF ObjectsInit
<1>2. ASSUME NEW k \in Classes PROVE New(k) \in FitObjects(k)
  <2>1. CASE k = "StreamInfo"
    BY <2>1, StreamNewObject DEF New, FitObjects, ByClass
  <2>2. CASE k = "CameraWatchdog"
    BY <2>2, WatchdogNewObject DEF New, FitObjects, ByClass
  <2>3. CASE k = "System_CameraInfo"
    BY <2>3, SystemCameraNewObject DEF New, FitObjects, ByClass
  <2>4. CASE k = "Camera"
    BY <2>4, CameraNewObject DEF New, FitObjects, ByClass
  <2>5. CASE k = "System"
    BY <2>5, SystemNewObject DEF New, FitObjects, ByClass
  <2> QED
    BY <1>2, <2>1, <2>2, <2>3, <2>4, <2>5 DEF Classes
<1> QED
  BY <1>1, <1>2 DEF ObjectsInv

LEMMA ObjectsStep == ObjectsInv /\ [ObjectsNext]_objects => ObjectsInv'
<1> SUFFICES ASSUME ObjectsInv, [ObjectsNext]_objects PROVE ObjectsInv'
  OBVIOUS
<1>1. class \in Classes /\ x \in FitObjects(class) /\ y \in FitObjects(class)
  BY DEF ObjectsInv
<1>2. CASE Assign
  <2>1. x' \in Messages[class] /\ y' = y /\ class' = class
    BY <1>2 DEF Assign, Call
  <2>2. x' \in Objects(class) /\ PartsFit(class, x')
    BY <1>1, <2>1, ObjectsAssumption
  <2>3. x' \in FitObjects(class)
    BY <1>1, <2>2, FitObjectsAre
  <2> QED
    BY <1>1, <2>1, <2>3 DEF ObjectsInv
<1>3. CASE ClearObject
  <2>1. x' = ClearMessage(class, x) /\ y' = y /\ class' = class
    BY <1>3 DEF ClearObject, Call
  <2>2. ClearMessage(class, x) = New(class) /\ New(class) \in FitObjects(class)
    BY <1>1, ObjectCopied, ObjectMerged
  <2> QED
    BY <1>1, <2>1, <2>2 DEF ObjectsInv
<1>4. CASE CopyConstruct
  <2>1. x' = Copy(class, y) /\ y' = y /\ class' = class
    BY <1>4 DEF CopyConstruct, Call
  <2>2. Copy(class, y) = y
    BY <1>1, ObjectCopied
  <2> QED
    BY <1>1, <2>1, <2>2 DEF ObjectsInv
<1>5. CASE CopyObject
  <2>1. x' = CopyFrom(class, x, y) /\ y' = y /\ class' = class
    BY <1>5 DEF CopyObject, Call
  <2>2. CopyFrom(class, x, y) = y
    BY <1>1, ObjectCopied
  <2> QED
    BY <1>1, <2>1, <2>2 DEF ObjectsInv
<1>6. CASE MergeObject
  <2>1. x' = Merge(class, x, y) /\ y' = y /\ class' = class
    BY <1>6 DEF MergeObject, Call
  <2>2. Merge(class, x, y) \in FitObjects(class)
    BY <1>1, ObjectMerged
  <2> QED
    BY <1>1, <2>1, <2>2 DEF ObjectsInv
<1>7. CASE SwapObjects
  <2>1. /\ x' = Swap(class, x, y)[1] /\ y' = Swap(class, x, y)[2] /\ class' = class
    BY <1>7 DEF SwapObjects, Call
  <2>2. Swap(class, x, y) = <<y, x>>
    BY <1>1, ObjectCopied
  <2> QED
    BY <1>1, <2>1, <2>2 DEF ObjectsInv
<1>8. CASE ReadObject
  <2>1. PICK new \in NewFields :
          x' = Parse(class, ClearMessage(class, x), SerializeToArray(class, y) \o new).m
    BY <1>8 DEF ReadObject
  <2>2. y' = y /\ class' = class
    BY <1>8 DEF ReadObject, Call
  <2>3. new \in NewTo(class)
    BY <1>1, <2>1, ObjectsAssumption
  <2>4. ClearMessage(class, x) = New(class) /\ SerializeToArray(class, y) = Serialize(class, y)
    BY <1>1, ObjectCopied, ObjectBytes
  <2> DEFINE b == Serialize(class, y) \o new
             m == FieldSet(y, "unknown", y.unknown \o new)
  <2>5. Parse(class, New(class), b) = Going(m, Len(b) + 1)
    BY <1>1, <2>3, ObjectRead
  <2>6. m \in FitObjects(class)
    BY <1>1, <2>3, ObjectKeeps
  <2>7. x' = Parse(class, New(class), b).m
    BY <2>1, <2>4
  <2> HIDE DEF b, m
  <2>8. x' = m
    BY <2>5, <2>7 DEF Going, Cursor
  <2> QED
    BY <1>1, <2>2, <2>6, <2>8 DEF ObjectsInv
<1>9. CASE UNCHANGED objects
  BY <1>1, <1>9 DEF ObjectsInv, objects
<1> QED
  BY <1>2, <1>3, <1>4, <1>5, <1>6, <1>7, <1>8, <1>9 DEF ObjectsNext

LEMMA ObjectsLawful == ObjectsInv => MessageLaws
<1> SUFFICES ASSUME ObjectsInv PROVE MessageLaws
  OBVIOUS
<1>1. class \in Classes /\ x \in FitObjects(class) /\ y \in FitObjects(class)
  BY DEF ObjectsInv
<1> DEFINE written == [m \in {x, y} |-> Serialize(class, m)]
           Reads(bytes) == Parse(class, New(class), bytes)
           EachLaw(m) == /\ Size(class, m) = Len(written[m])
                         /\ SerializeToArray(class, m) = written[m]
                         /\ Copy(class, m) = m
                         /\ CopyFrom(class, x, m) = m
           ReadLaw(read) == Reads(read[1]) = Cursor(read[2], Len(read[1]) + 1, TRUE)
           pairs == {<<written[x], x>>, <<written[y], y>>,
                     <<written[x] \o written[y], Merge(class, x, y)>>}
<1>2. written[x] = Serialize(class, x) /\ written[y] = Serialize(class, y)
  OBVIOUS
<1> HIDE DEF written
<1>3. EachLaw(x) /\ EachLaw(y)
  <2>1. /\ Size(class, x) = Len(Serialize(class, x)) /\ Size(class, y) = Len(Serialize(class, y))
        /\ SerializeToArray(class, x) = Serialize(class, x)
        /\ SerializeToArray(class, y) = Serialize(class, y)
    BY <1>1, ObjectBytes
  <2>2. /\ Copy(class, x) = x /\ Copy(class, y) = y
        /\ CopyFrom(class, x, x) = x /\ CopyFrom(class, x, y) = y
    BY <1>1, ObjectCopied
  <2> QED
    BY <1>2, <2>1, <2>2
<1>4. ClearMessage(class, x) = New(class) /\ Swap(class, x, y) = <<y, x>>
  BY <1>1, ObjectCopied
<1>5. ReadLaw(<<written[x], x>>)
  <2> DEFINE s == Serialize(class, x)
  <2>1. Parse(class, New(class), s) = Going(x, Len(s) + 1)
    BY <1>1, ObjectReadAlone
  <2> HIDE DEF s
  <2>2. written[x] = s
    BY <1>2 DEF s
  <2> QED
    BY <2>1, <2>2 DEF Going
<1>6. ReadLaw(<<written[y], y>>)
  <2> DEFINE s == Serialize(class, y)
  <2>1. Parse(class, New(class), s) = Going(y, Len(s) + 1)
    BY <1>1, ObjectReadAlone
  <2> HIDE DEF s
  <2>2. written[y] = s
    BY <1>2 DEF s
  <2> QED
    BY <2>1, <2>2 DEF Going
<1>7. ReadLaw(<<written[x] \o written[y], Merge(class, x, y)>>)
  <2> DEFINE s == Serialize(class, x) \o Serialize(class, y)
             m == Merge(class, x, y)
  <2>1. Parse(class, New(class), s) = Going(m, Len(s) + 1)
    BY <1>1, TwoObjectsRead
  <2> HIDE DEF m
  <2>2. written[x] \o written[y] = s
    BY <1>2
  <2> HIDE DEF s
  <2>3. ReadLaw(<<written[x] \o written[y], m>>)
    BY <2>1, <2>2 DEF Going
  <2> QED
    BY <2>3 DEF m
<1> HIDE DEF EachLaw, ReadLaw
<1>8. \A m \in {x, y} : EachLaw(m)
  BY <1>3
<1>9. \A read \in pairs : ReadLaw(read)
  BY <1>5, <1>6, <1>7
<1> HIDE DEF pairs
<1>10. /\ \A m \in {x, y} : EachLaw(m)
       /\ ClearMessage(class, x) = New(class) /\ Swap(class, x, y) = <<y, x>>
       /\ \A read \in pairs : ReadLaw(read)
  BY <1>4, <1>8, <1>9
<1> QED
  BY <1>10 DEF MessageLaws, EachLaw, ReadLaw, pairs, written

(* Whatever the fields hold and however the objects came about, the        *)
(* generated functions of CameraInfoFile.pb.cc agree with each other: what *)
(* is counted is written, a copy is the object, and two objects read one   *)
(* after the other are their merge, with every field of a later version.   *)
THEOREM ObjectsMessageLaws == ObjectsSpec => []MessageLaws
<1>1. ObjectsInit => ObjectsInv
  BY ObjectsStart
<1>2. ObjectsInv /\ [ObjectsNext]_objects => ObjectsInv'
  BY ObjectsStep
<1>3. ObjectsInv => MessageLaws
  BY ObjectsLawful
<1> QED
  BY <1>1, <1>2, <1>3, PTL DEF ObjectsSpec

----------------------------------------------------------------------------
(* UTF-8: what is written for a character is read as it.                   *)
Continues(o) == o \in 128 .. 191

IsCharText(w, c) ==
  /\ w \in Seq(Octet) /\ Len(w) \in 1 .. 4 /\ Len(w) = Utf8Length(w[1])
  /\ ~Continues(w[1]) /\ \A i \in 2 .. Len(w) : Continues(w[i])
  /\ Utf8Char(w, 1) = c

(* The parts of six bits. *)
LEMMA SixBits ==
  ASSUME NEW c \in Nat
  PROVE  /\ c = 64 * (c \div 64) + Bits(c, 1)
         /\ c \div 64 = 64 * (c \div (64 * 64)) + Bits(c, 64)
         /\ c \div (64 * 64) = 64 * (c \div (64 * 64 * 64)) + Bits(c, 64 * 64)
         /\ Bits(c, 1) \in 0 .. 63 /\ Bits(c, 64) \in 0 .. 63 /\ Bits(c, 64 * 64) \in 0 .. 63
         /\ c \div 64 \in Nat /\ c \div (64 * 64) \in Nat /\ c \div (64 * 64 * 64) \in Nat
<1> DEFINE p == c \div 64
           q == p \div 64
           r == q \div 64
<1>1. c \div 1 = c
  BY SMT
<1>2. \A n \in Nat : n % 64 \in 0 .. 63 /\ n \div 64 \in Nat
  OBVIOUS
<1>3. \A n \in Nat : n = 64 * (n \div 64) + (n % 64)
  OBVIOUS
<1>4. p = c \div 64 /\ q = c \div (64 * 64) /\ r = c \div (64 * 64 * 64)
  BY SMT
<1>5. p \in Nat /\ q \in Nat /\ r \in Nat
  BY <1>2
<1> HIDE DEF p, q, r
<1>6. p = c \div 64 /\ q = p \div 64 /\ r = q \div 64
  BY DEF p, q, r
<1>7. /\ c = 64 * p + (c % 64) /\ c % 64 \in 0 .. 63
      /\ p = 64 * q + (p % 64) /\ p % 64 \in 0 .. 63
      /\ q = 64 * r + (q % 64) /\ q % 64 \in 0 .. 63
  <2>1. c = 64 * p + (c % 64) /\ c % 64 \in 0 .. 63
    BY <1>2, <1>3, <1>6, Zenon
  <2>2. p = 64 * q + (p % 64) /\ p % 64 \in 0 .. 63
    BY <1>2, <1>3, <1>5, <1>6, Zenon
  <2>3. q = 64 * r + (q % 64) /\ q % 64 \in 0 .. 63
    BY <1>2, <1>3, <1>5, <1>6, Zenon
  <2> QED
    BY <2>1, <2>2, <2>3
<1>8. Bits(c, 1) = c % 64 /\ Bits(c, 64) = p % 64 /\ Bits(c, 64 * 64) = q % 64
  BY <1>1, <1>4 DEF Bits
<1>9. /\ c = 64 * p + Bits(c, 1) /\ Bits(c, 1) \in 0 .. 63
      /\ p = 64 * q + Bits(c, 64) /\ Bits(c, 64) \in 0 .. 63
      /\ q = 64 * r + Bits(c, 64 * 64) /\ Bits(c, 64 * 64) \in 0 .. 63
  BY <1>7, <1>8, Zenon
<1> QED
  BY <1>4, <1>5, <1>9, Zenon

LEMMA OneByte ==
  ASSUME NEW c \in Nat, c < 128 PROVE IsCharText(Utf8(c), c)
<1> DEFINE w == <<c>>
<1>1. Utf8(c) = w
  BY SMT DEF Utf8
<1>2. w \in Seq(Octet) /\ Len(w) = 1 /\ w[1] = c
  BY DEF Octet
<1> HIDE DEF w
<1>3. Utf8Length(w[1]) = 1
  BY <1>2, SMT DEF Utf8Length
<1>4. Utf8Char(w, 1) = c
  BY <1>2, <1>3, SMT DEF Utf8Char
<1>5. ~Continues(w[1]) /\ \A i \in 2 .. Len(w) : Continues(w[i])
  BY <1>2, SMT DEF Continues
<1>6. Len(w) \in 1 .. 4
  BY <1>2
<1> QED
  BY <1>1, <1>2, <1>3, <1>4, <1>5, <1>6, Zenon DEF IsCharText

LEMMA TwoBytes ==
  ASSUME NEW c \in Nat, 128 <= c, c < 32 * 64 PROVE IsCharText(Utf8(c), c)
<1> DEFINE p == c \div 64
           a == 192 + p
           d == 128 + Bits(c, 1)
           w == <<a, d>>
<1>1. Utf8(c) = w
  BY SMT DEF Utf8
<1>0. p \in Nat /\ Bits(c, 1) \in 0 .. 63 /\ c = 64 * p + Bits(c, 1)
  BY SixBits, Zenon
<1> HIDE DEF p
<1>2. p \in 2 .. 31 /\ Bits(c, 1) \in 0 .. 63 /\ c = 64 * p + Bits(c, 1)
  BY <1>0, SMT
<1>3. a \in 194 .. 223 /\ d \in 128 .. 191 /\ (a - 192) * 64 + (d - 128) = c
  BY <1>2, SMT
<1> HIDE DEF a, d
<1>4. a \in Octet /\ d \in Octet
  BY <1>3 DEF Octet
<1>5. w \in Seq(Octet) /\ Len(w) = 2 /\ w[1] = a /\ w[2] = d /\ w[1 + 1] = d
  BY <1>4
<1> HIDE DEF w
<1>6. Utf8Length(w[1]) = 2
  BY <1>3, <1>5, SMT DEF Utf8Length
<1>7. Utf8Char(w, 1) = c
  BY <1>3, <1>5, <1>6, SMT DEF Utf8Char
<1>8. ~Continues(w[1]) /\ \A i \in 2 .. Len(w) : Continues(w[i])
  <2>1. ~Continues(w[1])
    BY <1>3, <1>5, SMT DEF Continues
  <2>2. ASSUME NEW i \in 2 .. Len(w) PROVE Continues(w[i])
    <3>1. i = 2
      BY <1>5
    <3>2. w[i] \in 128 .. 191
      <4>1. CASE i = 2
        <5>1. w[i] = d
          BY <4>1, <1>5
        <5> QED
          BY <5>1, <1>3
      <4> QED
        BY <3>1, <4>1
    <3> QED
      BY <3>2 DEF Continues
  <2> QED
    BY <2>1, <2>2
<1>9. Len(w) \in 1 .. 4
  BY <1>5
<1> QED
  BY <1>1, <1>5, <1>6, <1>7, <1>8, <1>9, Zenon DEF IsCharText

LEMMA ThreeBytes ==
  ASSUME NEW c \in Nat, 32 * 64 <= c, c < 16 * 64 * 64 PROVE IsCharText(Utf8(c), c)
<1> DEFINE p == c \div 64
           q == c \div (64 * 64)
           a == 224 + q
           d == 128 + Bits(c, 64)
           e == 128 + Bits(c, 1)
           w == <<a, d, e>>
<1>1. Utf8(c) = w
  BY SMT DEF Utf8
<1>2. /\ p \in Nat /\ q \in Nat /\ Bits(c, 1) \in 0 .. 63 /\ Bits(c, 64) \in 0 .. 63
      /\ c = 64 * p + Bits(c, 1) /\ p = 64 * q + Bits(c, 64)
  BY SixBits, ZenonT(30)
<1> HIDE DEF p, q
<1>3. a \in 224 .. 239 /\ d \in 128 .. 191 /\ e \in 128 .. 191
  BY <1>2, SMT
<1>4. ((a - 224) * 64 + (d - 128)) * 64 + (e - 128) = c
  BY <1>2, SMT
<1> HIDE DEF a, d, e
<1>5. a \in Octet /\ d \in Octet /\ e \in Octet
  BY <1>3 DEF Octet
<1>6. w \in Seq(Octet) /\ Len(w) = 3 /\ w[1] = a /\ w[2] = d /\ w[3] = e /\ w[1 + 1] = d /\ w[1 + 2] = e
  BY <1>5
<1> HIDE DEF w
<1>7. Utf8Length(w[1]) = 3
  BY <1>3, <1>6, SMT DEF Utf8Length
<1>8. Utf8Char(w, 1) = c
  BY <1>3, <1>4, <1>6, <1>7, SMT DEF Utf8Char
<1>9. ~Continues(w[1]) /\ \A i \in 2 .. Len(w) : Continues(w[i])
  <2>1. ~Continues(w[1])
    BY <1>3, <1>6, SMT DEF Continues
  <2>2. ASSUME NEW i \in 2 .. Len(w) PROVE Continues(w[i])
    <3>1. i = 2 \/ i = 3
      BY <1>6
    <3>2. w[i] \in 128 .. 191
      <4>1. CASE i = 2
        <5>1. w[i] = d
          BY <4>1, <1>6
        <5> QED
          BY <5>1, <1>3
      <4>2. CASE i = 3
        <5>1. w[i] = e
          BY <4>2, <1>6
        <5> QED
          BY <5>1, <1>3
      <4> QED
        BY <3>1, <4>1, <4>2
    <3> QED
      BY <3>2 DEF Continues
  <2> QED
    BY <2>1, <2>2
<1>10. Len(w) \in 1 .. 4
  BY <1>6
<1> QED
  BY <1>1, <1>6, <1>7, <1>8, <1>9, <1>10, Zenon DEF IsCharText

LEMMA FourBytes ==
  ASSUME NEW c \in Nat, 16 * 64 * 64 <= c, c < 17 * 16 * 64 * 64 PROVE IsCharText(Utf8(c), c)
<1> DEFINE p == c \div 64
           q == c \div (64 * 64)
           r == c \div (64 * 64 * 64)
           a == 240 + r
           d == 128 + Bits(c, 64 * 64)
           e == 128 + Bits(c, 64)
           f == 128 + Bits(c, 1)
           w == <<a, d, e, f>>
<1>1. Utf8(c) = w
  BY SMT DEF Utf8
<1>2. /\ p \in Nat /\ q \in Nat /\ r \in Nat
      /\ Bits(c, 1) \in 0 .. 63 /\ Bits(c, 64) \in 0 .. 63 /\ Bits(c, 64 * 64) \in 0 .. 63
      /\ c = 64 * p + Bits(c, 1) /\ p = 64 * q + Bits(c, 64) /\ q = 64 * r + Bits(c, 64 * 64)
  BY SixBits, ZenonT(30)
<1> HIDE DEF p, q, r
<1>3. a \in 240 .. 244 /\ d \in 128 .. 191 /\ e \in 128 .. 191 /\ f \in 128 .. 191
  BY <1>2, SMT
<1>4. (((a - 240) * 64 + (d - 128)) * 64 + (e - 128)) * 64 + (f - 128) = c
  BY <1>2, SMT
<1> HIDE DEF a, d, e, f
<1>5. a \in Octet /\ d \in Octet /\ e \in Octet /\ f \in Octet
  BY <1>3 DEF Octet
<1>6. /\ w \in Seq(Octet) /\ Len(w) = 4 /\ w[1] = a /\ w[2] = d /\ w[3] = e /\ w[4] = f
      /\ w[1 + 1] = d /\ w[1 + 2] = e /\ w[1 + 3] = f
  BY <1>5
<1> HIDE DEF w
<1>7. Utf8Length(w[1]) = 4
  BY <1>3, <1>6, SMT DEF Utf8Length
<1>8. Utf8Char(w, 1) = c
  BY <1>3, <1>4, <1>6, <1>7, SMT DEF Utf8Char
<1>9. ~Continues(w[1]) /\ \A i \in 2 .. Len(w) : Continues(w[i])
  <2>1. ~Continues(w[1])
    BY <1>3, <1>6, SMT DEF Continues
  <2>2. ASSUME NEW i \in 2 .. Len(w) PROVE Continues(w[i])
    <3>1. i = 2 \/ i = 3 \/ i = 4
      BY <1>6
    <3>2. w[i] \in 128 .. 191
      <4>1. CASE i = 2
        <5>1. w[i] = d
          BY <4>1, <1>6
        <5> QED
          BY <5>1, <1>3
      <4>2. CASE i = 3
        <5>1. w[i] = e
          BY <4>2, <1>6
        <5> QED
          BY <5>1, <1>3
      <4>3. CASE i = 4
        <5>1. w[i] = f
          BY <4>3, <1>6
        <5> QED
          BY <5>1, <1>3
      <4> QED
        BY <3>1, <4>1, <4>2, <4>3
    <3> QED
      BY <3>2 DEF Continues
  <2> QED
    BY <2>1, <2>2
<1>10. Len(w) \in 1 .. 4
  BY <1>6
<1> QED
  BY <1>1, <1>6, <1>7, <1>8, <1>9, <1>10, Zenon DEF IsCharText

LEMMA CharTexts ==
  ASSUME NEW c, IsCharacter(c) PROVE IsCharText(Utf8(c), c) /\ c \in Nat
<1>1. c \in Nat /\ c < 17 * 16 * 64 * 64
  BY SMT DEF IsCharacter
<1>2. c < 128 \/ (128 <= c /\ c < 32 * 64) \/ (32 * 64 <= c /\ c < 16 * 64 * 64) \/ 16 * 64 * 64 <= c
  BY <1>1, SMT
<1> QED
  BY <1>1, <1>2, OneByte, TwoBytes, ThreeBytes, FourBytes

----------------------------------------------------------------------------
(* UTF-8 texts: what is written for the characters of a name is valid, and *)
(* is read as them.                                                        *)
Decodes(g, s) ==
  /\ g[0] = << >>
  /\ \A i \in 1 .. Len(s) :
       /\ Continues(s[i]) => g[i] = g[i - 1]
       /\ ~Continues(s[i]) => g[i] = Append(g[i - 1], Utf8Char(s, i))

LEMMA DecodedIs ==
  ASSUME NEW s \in Seq(Octet)
  PROVE  \E g : Decodes(g, s) /\ Utf8Decoded(s) = g[Len(s)]
<1> DEFINE N == Len(s)
           C == {Utf8Char(s, i) : i \in 1 .. N}
           S == Seq(C)
           next == [n \in 1 .. N |->
                      [u \in S |-> IF Continues(s[n]) THEN u ELSE Append(u, Utf8Char(s, n))]]
           Rec(g) == [i \in 0 .. N |->
                        IF i = 0 THEN << >>
                        ELSE IF s[i] \in 128 .. 191 THEN g[i - 1]
                        ELSE Append(g[i - 1], Utf8Char(s, i))]
           g == CHOOSE g : g = Rec(g)
<1>1. Utf8Decoded(s) = g[N]
  BY DEF Utf8Decoded
<1>2. next \in [1 .. N -> [S -> S]]
  <2>1. ASSUME NEW n \in 1 .. N, NEW u \in S
        PROVE  (IF Continues(s[n]) THEN u ELSE Append(u, Utf8Char(s, n))) \in S
    <3> DEFINE c == Utf8Char(s, n)
    <3>1. c \in C
      OBVIOUS
    <3> HIDE DEF c, C
    <3>2. Append(u, c) \in S
      BY <3>1
    <3> QED
      BY <3>2 DEF c
  <2> HIDE DEF S
  <2> QED
    BY <2>1
<1>3. PICK f \in [0 .. N -> S] : f[0] = << >> /\ \A n \in 1 .. N : f[n] = next[n][f[n - 1]]
  <2> DEFINE start == << >>
  <2>1. start \in S /\ N \in Nat
    OBVIOUS
  <2> HIDE DEF S, next, N, start
  <2>2. Steps(N, S, start, next)
    BY <1>2, <2>1 DEF Steps
  <2>3. \E f : IsRun(f, N, S, start, next)
    BY <2>2, Run
  <2> QED
    BY <2>3 DEF IsRun, start
<1>4. ASSUME NEW n \in 1 .. N
      PROVE  f[n] = IF Continues(s[n]) THEN f[n - 1] ELSE Append(f[n - 1], Utf8Char(s, n))
  <2>1. n - 1 \in 0 .. N
    OBVIOUS
  <2>2. f[n - 1] \in S
    BY <1>3, <2>1
  <2>3. next[n][f[n - 1]] = IF Continues(s[n]) THEN f[n - 1] ELSE Append(f[n - 1], Utf8Char(s, n))
    <3> HIDE DEF S
    <3> QED
      BY <2>2
  <2> HIDE DEF next
  <2> QED
    BY <1>3, <2>3
<1>5. f = Rec(f)
  <2> HIDE DEF next, S
  <2>1. ASSUME NEW i \in 0 .. N
        PROVE  f[i] = IF i = 0 THEN << >>
                      ELSE IF s[i] \in 128 .. 191 THEN f[i - 1]
                      ELSE Append(f[i - 1], Utf8Char(s, i))
    <3>1. CASE i = 0
      BY <1>3, <3>1
    <3>2. CASE i # 0
      <4>1. i \in 1 .. N /\ i > 0
        BY <3>2
      <4>2. f[i] = IF Continues(s[i]) THEN f[i - 1] ELSE Append(f[i - 1], Utf8Char(s, i))
        BY <1>4, <4>1
      <4> QED
        BY <3>2, <4>1, <4>2 DEF Continues
    <3> QED
      BY <3>1, <3>2
  <2> QED
    BY <1>3, <2>1
<1>6. g = Rec(g)
  <2> HIDE DEF Rec
  <2> QED
    BY <1>5
<1> HIDE DEF g
<1>7. g[0] = << >>
  <2>1. 0 \in 0 .. N
    OBVIOUS
  <2> QED
    BY <1>6, <2>1
<1>8. ASSUME NEW i \in 1 .. N
      PROVE  /\ Continues(s[i]) => g[i] = g[i - 1]
             /\ ~Continues(s[i]) => g[i] = Append(g[i - 1], Utf8Char(s, i))
  <2>1. i \in 0 .. N /\ i # 0 /\ i > 0
    OBVIOUS
  <2>2. g[i] = IF i = 0 THEN << >>
               ELSE IF s[i] \in 128 .. 191 THEN g[i - 1]
               ELSE Append(g[i - 1], Utf8Char(s, i))
    BY <1>6, <2>1
  <2> QED
    BY <2>1, <2>2 DEF Continues
<1> QED
  BY <1>1, <1>7, <1>8 DEF Decodes

(* A character depends on its own bytes. *)
SameChar(s, i, t, j) ==
  /\ i \in 1 .. Len(s) /\ i + Utf8Length(s[i]) - 1 <= Len(s) /\ j \in Nat
  /\ \A k \in 0 .. (Utf8Length(s[i]) - 1) : t[j + k] = s[i + k]

LEMMA SameCharRead ==
  ASSUME NEW s \in Seq(Octet), NEW i, NEW t, NEW j, SameChar(s, i, t, j)
  PROVE  Utf8Length(t[j]) = Utf8Length(s[i]) /\ Utf8Char(t, j) = Utf8Char(s, i)
<1> DEFINE n == Utf8Length(s[i])
<1>1. /\ i \in 1 .. Len(s) /\ j \in Nat /\ \A k \in 0 .. (n - 1) : t[j + k] = s[i + k]
  BY DEF SameChar
<1>2. n \in 1 .. 4
  BY SMT DEF Utf8Length
<1>3. t[j] = s[i]
  <2>1. 0 \in 0 .. (n - 1) /\ j + 0 = j /\ i + 0 = i
    BY <1>1, <1>2
  <2> QED
    BY <1>1, <2>1
<1>4. /\ n > 1 => t[j + 1] = s[i + 1]
      /\ n > 2 => t[j + 2] = s[i + 2]
      /\ n > 3 => t[j + 3] = s[i + 3]
  <2> HIDE DEF n
  <2>1. /\ n > 1 => 1 \in 0 .. (n - 1)
        /\ n > 2 => 2 \in 0 .. (n - 1)
        /\ n > 3 => 3 \in 0 .. (n - 1)
    BY <1>2
  <2> QED
    BY <1>1, <2>1
<1>5. Utf8Length(t[j]) = n
  BY <1>3
<1>6. Utf8Char(t, j) = Utf8Char(s, i)
  <2> HIDE DEF n
  <2>0. Utf8Length(s[i]) = n
    BY DEF n
  <2>1. n = 1 \/ n = 2 \/ n = 3 \/ n = 4
    BY <1>2
  <2>2. CASE n = 1
    BY <1>3, <1>5, <2>0, <2>2 DEF Utf8Char
  <2>3. CASE n = 2
    BY <1>3, <1>4, <1>5, <2>0, <2>3 DEF Utf8Char
  <2>4. CASE n = 3
    BY <1>3, <1>4, <1>5, <2>0, <2>4 DEF Utf8Char
  <2>5. CASE n = 4
    BY <1>3, <1>4, <1>5, <2>0, <2>5 DEF Utf8Char
  <2> QED
    BY <2>1, <2>2, <2>3, <2>4, <2>5
<1> QED
  BY <1>5, <1>6

(* In a valid text a byte that goes on with no character starts a whole    *)
(* one.                                                                    *)
LEMMA LeadWhole ==
  ASSUME NEW s \in Seq(Octet), IsStructurallyValidUTF8(s),
         NEW i \in 1 .. Len(s), ~Continues(s[i])
  PROVE  i + Utf8Length(s[i]) - 1 <= Len(s)
<1>1. PICK lead \in 1 .. i : WellFormedAt(s, lead) /\ i < lead + Utf8Length(s[lead])
  BY DEF IsStructurallyValidUTF8
<1> DEFINE n == Utf8Length(s[lead])
           c == Utf8Char(s, lead)
           w == Utf8(c)
<1>2. lead + n - 1 <= Len(s) /\ IsCharacter(c) /\ w = SubSeq(s, lead, lead + n - 1)
  BY <1>1 DEF WellFormedAt
<1>3. n \in 1 .. 4 /\ Len(s) \in Nat
  BY SMT DEF Utf8Length
<1>4. \A k \in 2 .. Len(w) : Continues(w[k])
  <2> HIDE DEF c
  <2> QED
    BY <1>2, CharTexts DEF IsCharText
<1> HIDE DEF w, c, n
<1>5. i < lead + n
  BY <1>1 DEF n
<1>6. lead = i
  <2> SUFFICES ASSUME lead # i PROVE FALSE
    OBVIOUS
  <2> DEFINE k == (i - lead) + 1
  <2>1. k \in 2 .. n /\ lead + k - 1 = i
    BY <1>5, <1>3
  <2>2. Len(w) = n /\ w[k] = s[i]
    BY <1>2, <1>3, <2>1
  <2> HIDE DEF k
  <2> QED
    BY <1>4, <2>1, <2>2
<1> QED
  BY <1>2, <1>6 DEF n

(* A text with one more character. *)
LEMMA OneMoreCharCells ==
  ASSUME NEW s \in Seq(Octet), NEW c, IsCharacter(c)
  PROVE  LET w == Utf8(c)
             t == s \o w
         IN  /\ t \in Seq(Octet) /\ Len(t) = Len(s) + Len(w) /\ Len(w) \in 1 .. 4 /\ Len(s) \in Nat
             /\ \A i \in 1 .. Len(s) : t[i] = s[i]
             /\ \A i \in 1 .. Len(w) : t[Len(s) + i] = w[i]
             /\ w \in Seq(Octet) /\ Len(w) = Utf8Length(w[1])
             /\ ~Continues(w[1]) /\ \A i \in 2 .. Len(w) : Continues(w[i])
             /\ Utf8Char(w, 1) = c
<1> DEFINE w == Utf8(c)
<1>1. /\ w \in Seq(Octet) /\ Len(w) \in 1 .. 4 /\ Len(w) = Utf8Length(w[1])
      /\ ~Continues(w[1]) /\ \A i \in 2 .. Len(w) : Continues(w[i])
      /\ Utf8Char(w, 1) = c
  BY CharTexts DEF IsCharText
<1> HIDE DEF w
<1>2. /\ s \o w \in Seq(Octet) /\ Len(s \o w) = Len(s) + Len(w) /\ Len(s) \in Nat
      /\ \A i \in 1 .. Len(s) : (s \o w)[i] = s[i]
      /\ \A i \in 1 .. Len(w) : (s \o w)[Len(s) + i] = w[i]
  BY <1>1, JoinedOctets
<1> QED
  BY <1>1, <1>2 DEF w

LEMMA OneMoreCharSame ==
  ASSUME NEW s \in Seq(Octet), NEW c, IsCharacter(c)
  PROVE  LET w == Utf8(c)
             t == s \o w
         IN  /\ \A i \in 1 .. Len(s) :
                  i + Utf8Length(s[i]) - 1 <= Len(s) =>
                    Utf8Length(t[i]) = Utf8Length(s[i]) /\ Utf8Char(t, i) = Utf8Char(s, i)
             /\ Utf8Length(t[Len(s) + 1]) = Len(w) /\ Utf8Char(t, Len(s) + 1) = c
<1> DEFINE w == Utf8(c)
           t == s \o w
<1>1. /\ t \in Seq(Octet) /\ Len(t) = Len(s) + Len(w) /\ Len(w) \in 1 .. 4 /\ Len(s) \in Nat
      /\ \A i \in 1 .. Len(s) : t[i] = s[i]
      /\ \A i \in 1 .. Len(w) : t[Len(s) + i] = w[i]
      /\ w \in Seq(Octet) /\ Len(w) = Utf8Length(w[1]) /\ Utf8Char(w, 1) = c
  BY OneMoreCharCells
<1> HIDE DEF w, t
<1>2. ASSUME NEW i \in 1 .. Len(s), i + Utf8Length(s[i]) - 1 <= Len(s)
      PROVE  Utf8Length(t[i]) = Utf8Length(s[i]) /\ Utf8Char(t, i) = Utf8Char(s, i)
  <2>1. Utf8Length(s[i]) \in 1 .. 4
    BY SMT DEF Utf8Length
  <2> DEFINE n == Utf8Length(s[i])
  <2>2. \A k \in 0 .. (n - 1) : t[i + k] = s[i + k]
    <3> TAKE k \in 0 .. (n - 1)
    <3>0. n \in 1 .. 4 /\ i + n - 1 <= Len(s)
      BY <1>2, <2>1
    <3> HIDE DEF n
    <3>1. i + k \in 1 .. Len(s)
      BY <1>1, <3>0
    <3> QED
      BY <1>1, <3>1
  <2>3. SameChar(s, i, t, i)
    BY <1>2, <2>2 DEF SameChar
  <2> QED
    BY <2>3, SameCharRead
<1>3. Utf8Length(t[Len(s) + 1]) = Len(w) /\ Utf8Char(t, Len(s) + 1) = c
  <2> DEFINE n == Utf8Length(w[1])
  <2>0. n = Len(w)
    BY <1>1
  <2> HIDE DEF n
  <2>1. \A k \in 0 .. (n - 1) : t[(Len(s) + 1) + k] = w[1 + k]
    <3> TAKE k \in 0 .. (n - 1)
    <3>1. 1 + k \in 1 .. Len(w) /\ (Len(s) + 1) + k = Len(s) + (1 + k)
      BY <1>1, <2>0
    <3> QED
      BY <1>1, <3>1
  <2>2. 1 \in 1 .. Len(w) /\ 1 + n - 1 <= Len(w) /\ Len(s) + 1 \in Nat
    BY <1>1, <2>0
  <2>3. SameChar(w, 1, t, Len(s) + 1)
    BY <2>1, <2>2 DEF SameChar, n
  <2> QED
    BY <1>1, <2>3, SameCharRead
<1> QED
  BY <1>2, <1>3 DEF w, t

LEMMA OneMoreCharValid ==
  ASSUME NEW s \in Seq(Octet), IsStructurallyValidUTF8(s), NEW c, IsCharacter(c)
  PROVE  IsStructurallyValidUTF8(s \o Utf8(c))
<1> DEFINE w == Utf8(c)
           t == s \o w
<1>1. /\ t \in Seq(Octet) /\ Len(t) = Len(s) + Len(w) /\ Len(w) \in 1 .. 4 /\ Len(s) \in Nat
      /\ \A i \in 1 .. Len(s) : t[i] = s[i]
      /\ \A i \in 1 .. Len(w) : t[Len(s) + i] = w[i]
      /\ w \in Seq(Octet)
  BY OneMoreCharCells
<1>2. /\ \A i \in 1 .. Len(s) :
           i + Utf8Length(s[i]) - 1 <= Len(s) =>
             Utf8Length(t[i]) = Utf8Length(s[i]) /\ Utf8Char(t, i) = Utf8Char(s, i)
      /\ Utf8Length(t[Len(s) + 1]) = Len(w) /\ Utf8Char(t, Len(s) + 1) = c
  BY OneMoreCharSame
<1>3. Utf8(c) = w
  OBVIOUS
<1> HIDE DEF w, t
<1>4. ASSUME NEW lead \in 1 .. Len(s), WellFormedAt(s, lead)
      PROVE  WellFormedAt(t, lead) /\ Utf8Length(t[lead]) = Utf8Length(s[lead])
  <2> DEFINE n == Utf8Length(s[lead])
             end == lead + n - 1
  <2>1. end <= Len(s) /\ IsCharacter(Utf8Char(s, lead)) /\ Utf8(Utf8Char(s, lead)) = SubSeq(s, lead, end)
    BY <1>4 DEF WellFormedAt
  <2>2. n \in 1 .. 4
    BY SMT DEF Utf8Length
  <2>3. Utf8Length(t[lead]) = n /\ Utf8Char(t, lead) = Utf8Char(s, lead)
    BY <1>2, <2>1
  <2> HIDE DEF n
  <2>4. end <= Len(t) /\ end \in Nat /\ lead <= end + 1
    BY <1>1, <2>1, <2>2
  <2>5. SubSeq(t, lead, end) = SubSeq(s, lead, end)
    <3> DEFINE u == SubSeq(t, lead, end)
               v == SubSeq(s, lead, end)
    <3>1. u \in Seq(Octet) /\ Len(u) = n /\ \A k \in 1 .. n : u[k] = t[lead + k - 1]
      <4>1. t \in Seq(Octet) /\ lead \in Nat \ {0} /\ lead + n - 1 <= Len(t) /\ n \in 1 .. 4
        BY <1>1, <2>1, <2>2
      <4> HIDE DEF t
      <4> QED
        BY <4>1
    <3>2. v \in Seq(Octet) /\ Len(v) = n /\ \A k \in 1 .. n : v[k] = s[lead + k - 1]
      BY <1>1, <2>1, <2>2
    <3>3. \A k \in 1 .. n : lead + k - 1 \in 1 .. Len(s)
      BY <1>1, <2>1, <2>2
    <3> HIDE DEF u, v
    <3>4. \A k \in 1 .. n : u[k] = v[k]
      BY <1>1, <3>1, <3>2, <3>3
    <3>5. u = [k \in 1 .. n |-> u[k]] /\ v = [k \in 1 .. n |-> v[k]]
      BY <3>1, <3>2
    <3>6. [k \in 1 .. n |-> u[k]] = [k \in 1 .. n |-> v[k]]
      BY <3>4
    <3>7. u = v
      BY <3>5, <3>6, Zenon
    <3> QED
      BY <3>7 DEF u, v
  <2> QED
    BY <2>1, <2>3, <2>4, <2>5 DEF WellFormedAt, n
<1>5. WellFormedAt(t, Len(s) + 1)
  <2> DEFINE here == Len(s) + 1
             end == here + Len(w) - 1
  <2>1. end = Len(t) /\ here \in Nat \ {0} /\ end \in Nat
    BY <1>1
  <2>2. SubSeq(t, here, end) = w
    <3>1. \A i \in 1 .. Len(w) : t[here + i - 1] = w[i]
      BY <1>1
    <3>2. Holds(t, here, w)
      BY <1>1, <2>1, <3>1 DEF Holds
    <3> HIDE DEF here
    <3> QED
      BY <1>1, <3>2, HoldsCut
  <2> QED
    BY <1>1, <1>2, <1>3, <2>1, <2>2 DEF WellFormedAt
<1>6. ASSUME NEW i \in 1 .. Len(t)
      PROVE  \E lead \in 1 .. i : WellFormedAt(t, lead) /\ i < lead + Utf8Length(t[lead])
  <2>1. CASE i <= Len(s)
    <3>1. i \in 1 .. Len(s)
      BY <1>1, <2>1
    <3>2. PICK lead \in 1 .. i : WellFormedAt(s, lead) /\ i < lead + Utf8Length(s[lead])
      BY <3>1 DEF IsStructurallyValidUTF8
    <3>3. lead \in 1 .. Len(s)
      BY <1>1, <3>1
    <3> QED
      BY <1>4, <3>2, <3>3
  <2>2. CASE i > Len(s)
    <3>1. Len(s) + 1 \in 1 .. i /\ i < (Len(s) + 1) + Len(w)
      BY <1>1, <2>2
    <3> QED
      BY <1>2, <1>5, <3>1
  <2> QED
    BY <1>1, <2>1, <2>2
<1> QED
  BY <1>6 DEF IsStructurallyValidUTF8, t, w

LEMMA OneMoreCharDecoded ==
  ASSUME NEW s \in Seq(Octet), IsStructurallyValidUTF8(s), NEW c, IsCharacter(c)
  PROVE  Utf8Decoded(s \o Utf8(c)) = Append(Utf8Decoded(s), c)
<1> DEFINE w == Utf8(c)
           t == s \o w
           N == Len(s)
<1>1. /\ t \in Seq(Octet) /\ Len(t) = N + Len(w) /\ Len(w) \in 1 .. 4 /\ N \in Nat
      /\ \A i \in 1 .. N : t[i] = s[i]
      /\ \A i \in 1 .. Len(w) : t[N + i] = w[i]
      /\ ~Continues(w[1]) /\ \A i \in 2 .. Len(w) : Continues(w[i])
  BY OneMoreCharCells
<1>2. /\ \A i \in 1 .. N :
           i + Utf8Length(s[i]) - 1 <= N =>
             Utf8Length(t[i]) = Utf8Length(s[i]) /\ Utf8Char(t, i) = Utf8Char(s, i)
      /\ Utf8Char(t, N + 1) = c
  BY OneMoreCharSame
<1>3. \A i \in 1 .. N : ~Continues(s[i]) => i + Utf8Length(s[i]) - 1 <= N
  BY LeadWhole
<1> HIDE DEF w, t
<1>4. PICK g : Decodes(g, s) /\ Utf8Decoded(s) = g[N]
  BY DecodedIs
<1>5. PICK h : Decodes(h, t) /\ Utf8Decoded(t) = h[Len(t)]
  BY <1>1, DecodedIs
<1>6. /\ g[0] = << >>
      /\ \A i \in 1 .. N : /\ Continues(s[i]) => g[i] = g[i - 1]
                           /\ ~Continues(s[i]) => g[i] = Append(g[i - 1], Utf8Char(s, i))
  BY <1>4 DEF Decodes
<1>7. /\ h[0] = << >>
      /\ \A i \in 1 .. Len(t) : /\ Continues(t[i]) => h[i] = h[i - 1]
                                /\ ~Continues(t[i]) => h[i] = Append(h[i - 1], Utf8Char(t, i))
  BY <1>5 DEF Decodes
<1> HIDE DEF N
<1>8. \A n \in 0 .. N : h[n] = g[n]
  <2> DEFINE U == {n \in Nat : n \in 0 .. N => h[n] = g[n]}
  <2>1. ASSUME NEW n \in Nat, \A i \in 0 .. (n - 1) : i \in U PROVE n \in U
    <3> SUFFICES ASSUME n \in 0 .. N PROVE h[n] = g[n]
      OBVIOUS
    <3>1. CASE n = 0
      BY <1>6, <1>7, <3>1, Zenon
    <3>2. CASE n # 0
      <4>1. n - 1 \in 0 .. (n - 1) /\ n - 1 \in 0 .. N /\ n \in 1 .. N /\ n \in 1 .. Len(t)
        BY <1>1, <3>2
      <4>2. h[n - 1] = g[n - 1] /\ t[n] = s[n]
        BY <1>1, <2>1, <4>1
      <4>3. ~Continues(s[n]) => Utf8Char(t, n) = Utf8Char(s, n)
        BY <1>2, <1>3, <4>1, Zenon
      <4> QED
        BY <1>6, <1>7, <4>1, <4>2, <4>3, Zenon
    <3> QED
      BY <3>1, <3>2
  <2> HIDE DEF U
  <2>2. \A n \in Nat : n \in U
    BY <2>1, Induction
  <2> QED
    BY <2>2 DEF U
<1>9. h[N] = g[N]
  BY <1>1, <1>8
<1>10. h[N + 1] = Append(g[N], c)
  <2>1. t[N + 1] = w[1] /\ N + 1 \in 1 .. Len(t) /\ (N + 1) - 1 = N
    BY <1>1
  <2> QED
    BY <1>1, <1>2, <1>7, <1>9, <2>1
<1>11. \A i \in 2 .. Len(w) : h[N + i] = h[N + (i - 1)]
  <2> TAKE i \in 2 .. Len(w)
  <2>1. t[N + i] = w[i] /\ N + i \in 1 .. Len(t) /\ (N + i) - 1 = N + (i - 1)
    BY <1>1
  <2>2. Continues(t[N + i])
    BY <1>1, <2>1, Zenon
  <2> QED
    BY <1>7, <2>1, <2>2
<1>12. h[N + Len(w)] = h[N + 1]
  <2>0. Len(w) = 1 \/ Len(w) = 2 \/ Len(w) = 3 \/ Len(w) = 4
    BY <1>1
  <2>1. CASE Len(w) = 1
    BY <2>1
  <2>2. CASE Len(w) = 2
    <3>1. h[N + 2] = h[N + 1]
      BY <1>11, <2>2
    <3> QED
      BY <2>2, <3>1
  <2>3. CASE Len(w) = 3
    <3>1. h[N + 2] = h[N + 1] /\ h[N + 3] = h[N + 2]
      BY <1>11, <2>3
    <3> QED
      BY <2>3, <3>1
  <2>4. CASE Len(w) = 4
    <3>1. h[N + 2] = h[N + 1] /\ h[N + 3] = h[N + 2] /\ h[N + 4] = h[N + 3]
      BY <1>11, <2>4
    <3> QED
      BY <2>4, <3>1
  <2> QED
    BY <2>0, <2>1, <2>2, <2>3, <2>4
<1>13. h[Len(t)] = Append(g[N], c)
  BY <1>1, <1>10, <1>12
<1> QED
  BY <1>4, <1>5, <1>13, Zenon DEF t, w, N

(* A name that is converted is valid UTF-8, and is read as it was.         *)
IsName(s, src) == s \in Seq(Octet) /\ IsStructurallyValidUTF8(s) /\ Utf8Decoded(s) = src

LEMMA NoName == IsName(<< >>, << >>)
<1> DEFINE s == << >>
<1>1. s \in Seq(Octet) /\ Len(s) = 0 /\ 1 .. Len(s) = {}
  OBVIOUS
<1> HIDE DEF s
<1>2. IsStructurallyValidUTF8(s)
  BY <1>1 DEF IsStructurallyValidUTF8
<1>3. PICK g : Decodes(g, s) /\ Utf8Decoded(s) = g[Len(s)]
  BY <1>1, DecodedIs
<1>4. Utf8Decoded(s) = << >>
  BY <1>1, <1>3 DEF Decodes
<1>5. IsName(s, << >>)
  BY <1>1, <1>2, <1>4 DEF IsName
<1> QED
  BY <1>5 DEF s

LEMMA LongerName ==
  ASSUME NEW s, NEW src, IsName(s, src), NEW c, IsCharacter(c)
  PROVE  IsName(s \o Utf8(c), Append(src, c))
<1>1. s \in Seq(Octet) /\ IsStructurallyValidUTF8(s) /\ Utf8Decoded(s) = src
  BY DEF IsName
<1>2. s \o Utf8(c) \in Seq(Octet)
  BY <1>1, OneMoreCharCells
<1>3. IsStructurallyValidUTF8(s \o Utf8(c))
  BY <1>1, OneMoreCharValid
<1>4. Utf8Decoded(s \o Utf8(c)) = Append(src, c)
  BY <1>1, OneMoreCharDecoded
<1> QED
  BY <1>2, <1>3, <1>4 DEF IsName

LEMMA NameConverted ==
  ASSUME NEW src \in Seq(Nat), \A i \in DOMAIN src : IsCharacter(src[i])
  PROVE  IsName(convert_unicode_to_utf8(src), src)
<1> DEFINE N == Len(src)
           parts == [i \in DOMAIN src |-> Utf8(src[i])]
<1>1. DOMAIN src = 1 .. N /\ N \in Nat
  OBVIOUS
<1>2. \A i \in 1 .. N : IsCharacter(src[i]) /\ parts[i] = Utf8(src[i]) /\ parts[i] \in Seq(Octet)
  BY <1>1, CharTexts DEF IsCharText
<1>3. convert_unicode_to_utf8(src) = Concatenated(parts)
  BY DEF convert_unicode_to_utf8
<1>4. Len(parts) = N
  <2>1. parts \in [1 .. N -> Seq(Octet)]
    BY <1>1, <1>2
  <2> HIDE DEF parts
  <2>2. parts \in Seq(Seq(Octet)) /\ DOMAIN parts = 1 .. N
    BY <1>1, <2>1
  <2> QED
    BY <1>1, <2>2, LenProperties
<1> HIDE DEF parts
<1>5. PICK g : IsJoin(g, parts) /\ Concatenated(parts) = g[Len(parts)]
  <2>1. Len(parts) \in Nat /\ \A i \in 1 .. Len(parts) : parts[i] \in Seq(Octet)
    BY <1>1, <1>2, <1>4
  <2> QED
    BY <2>1, ConcatenatedIs
<1>6. g[0] = << >> /\ \A n \in 1 .. N : g[n] = g[n - 1] \o parts[n]
  BY <1>4, <1>5 DEF IsJoin
<1>7. \A n \in 0 .. N : IsName(g[n], SubSeq(src, 1, n))
  <2> DEFINE U == {n \in Nat : n \in 0 .. N => IsName(g[n], SubSeq(src, 1, n))}
  <2>1. ASSUME NEW n \in Nat, \A i \in 0 .. (n - 1) : i \in U PROVE n \in U
    <3> SUFFICES ASSUME n \in 0 .. N PROVE IsName(g[n], SubSeq(src, 1, n))
      OBVIOUS
    <3>1. CASE n = 0
      <4>1. SubSeq(src, 1, 0) = << >>
        OBVIOUS
      <4> QED
        BY <1>6, <3>1, <4>1, NoName, Zenon
    <3>2. CASE n # 0
      <4>1. n - 1 \in 0 .. (n - 1) /\ n - 1 \in 0 .. N /\ n \in 1 .. N
        BY <1>1, <3>2
      <4>2. IsName(g[n - 1], SubSeq(src, 1, n - 1)) /\ IsCharacter(src[n])
        BY <1>2, <2>1, <4>1
      <4>3. g[n] = g[n - 1] \o Utf8(src[n])
        BY <1>2, <1>6, <4>1
      <4>4. Append(SubSeq(src, 1, n - 1), src[n]) = SubSeq(src, 1, n)
        BY <4>1
      <4>5. IsName(g[n - 1] \o Utf8(src[n]), Append(SubSeq(src, 1, n - 1), src[n]))
        BY <4>2, LongerName
      <4> QED
        BY <4>3, <4>4, <4>5
    <3> QED
      BY <3>1, <3>2
  <2> HIDE DEF U
  <2>2. \A n \in Nat : n \in U
    BY <2>1, Induction
  <2> QED
    BY <2>2 DEF U
<1>8. N \in 0 .. N /\ SubSeq(src, 1, N) = src
  BY <1>1
<1>9. IsName(g[N], SubSeq(src, 1, N))
  BY <1>7, <1>8, Zenon
<1> QED
  BY <1>3, <1>4, <1>5, <1>8, <1>9

----------------------------------------------------------------------------
(* A number of a structure comes back from the uint32 of the message.      *)
LEMMA NumberBack ==
  ASSUME NEW i \in CInt PROVE ToUInt32(i) \in UInt32 /\ ToInt(ToUInt32(i)) = i
<1> DEFINE h == IntSpan \div 2
           u == i % IntSpan
<1>1. IntSpan \in Nat /\ IntSpan = 2 * h /\ h \in Nat /\ IntSpan > 0
  BY SpanFacts
<1>2. i \in Int /\ -h <= i /\ i < h
  BY <1>1 DEF CInt
<1> HIDE DEF h
<1>3. u \in 0 .. (IntSpan - 1)
  BY <1>1, <1>2
<1>4. u = i \/ (i < 0 /\ u = i + IntSpan)
  <2>1. CASE 0 <= i
    <3>1. i < IntSpan
      BY <1>1, <1>2
    <3> QED
      BY <1>1, <1>2, <2>1, <3>1
  <2>2. CASE i < 0
    <3>1. i + IntSpan \in 0 .. (IntSpan - 1)
      BY <1>1, <1>2, <2>2
    <3>2. u = i + IntSpan
      BY <1>1, <1>2, <2>2, <3>1
    <3> QED
      BY <2>2, <3>2
  <2> QED
    BY <1>2, <2>1, <2>2
<1>5. ToUInt32(i) = u /\ u \in UInt32
  BY <1>3 DEF ToUInt32, UInt32
<1> HIDE DEF u
<1>6. ToInt(u) = IF u < h THEN u ELSE u - IntSpan
  BY DEF ToInt, h
<1>7. ToInt(u) = i
  BY <1>1, <1>2, <1>3, <1>4, <1>6
<1> QED
  BY <1>5, <1>7

----------------------------------------------------------------------------
(* A file of a class that holds others: what its bytes, or the first of    *)
(* them, are read as.                                                      *)
TornRead(m, fg, fn, fp, guid, name, nodes) ==
  {m, Guided(m, fg, guid)}
    \cup {WithParts(Named(m, fg, fn, guid, name), fp, nodes, n) : n \in 0 .. (Len(nodes) - 1)}

LEMMA HolderFile ==
  ASSUME NEW k \in Classes, NEW fg, NEW fn, NEW fp, NEW j, HolderClass(k, fg, fn, fp, j),
         NEW b \in Seq(Octet), NEW full \in Seq(Octet), Prefix(b, full),
         NEW m0, NEW T, HolderRecord(m0, fg, fn, fp, T),
         NEW guid, NEW name, NEW nodes, NEW s, NEW fits, NEW parts,
         HolderWritten(j, guid, name, T, nodes, s, fits, parts),
         full = HolderText(guid, name, parts)
  PROVE  LET read == Parse(k, m0, b)
             good == HolderFits(guid, name, fits, Len(nodes))
         IN  /\ Len(b) = Len(full) /\ good =>
                  read = Going(HolderRead(m0, fg, fn, fp, guid, name, nodes), Len(b) + 1)
             /\ Len(b) = Len(full) /\ ~good => ~read.ok
             /\ Len(b) # Len(full) /\ read.ok =>
                  read.m \in TornRead(m0, fg, fn, fp, guid, name, nodes)
<1> DEFINE R == TornRead(m0, fg, fn, fp, guid, name, nodes)
           good == HolderFits(guid, name, fits, Len(nodes))
           read == Parse(k, m0, b)
           m == HolderRead(m0, fg, fn, fp, guid, name, nodes)
           yes == TRUE
           first == 1
<1>1. HolderIn(b, full, m0, fg, fn, fp, guid, name, nodes, R)
  <2>1. m0 \in R /\ Guided(m0, fg, guid) \in R
    BY DEF TornRead
  <2>2. \A n \in 0 .. (Len(nodes) - 1) : WithParts(Named(m0, fg, fn, guid, name), fp, nodes, n) \in R
    BY DEF TornRead
  <2> HIDE DEF R
  <2> QED
    BY <2>1, <2>2 DEF HolderIn, PartsIn
<1>2. good \in BOOLEAN /\ (yes /\ good) = good /\ yes \in BOOLEAN
  BY DEF HolderFits
<1>3. Settled(k, b, m0, yes, R, m0, first)
  BY SettledStart
<1>4. Holds(full, first, HolderText(guid, name, parts)) /\ first \in Nat \ {0} /\ first = 1
  BY HoldsAll
<1>5. Len(b) \in Nat /\ Len(full) \in Nat /\ Len(b) <= Len(full)
  BY DEF Prefix
<1> HIDE DEF R, good, m, yes, first
<1>6. Settled(k, b, m0, yes /\ good, R, m, first + Len(HolderText(guid, name, parts)))
  BY <1>1, <1>2, <1>3, <1>4, HolderSettled DEF good, m
<1>7. Settled(k, b, m0, good, R, m, 1 + Len(full))
  BY <1>2, <1>4, <1>6
<1>8. read = Loop(k, m0, b)[LastStep(b)]
  BY ParseIsLoop
<1> HIDE DEF read
<1>9. Len(b) = Len(full) => (good => read = Going(m, Len(b) + 1)) /\ (~good => ~read.ok)
  <2> SUFFICES ASSUME Len(b) = Len(full) PROVE (good => read = Going(m, Len(b) + 1)) /\ (~good => ~read.ok)
    OBVIOUS
  <2>1. 1 + Len(full) = Len(b) + 1
    BY <1>5
  <2>2. Settled(k, b, m0, good, R, m, Len(b) + 1)
    BY <1>7, <2>1
  <2> QED
    BY <1>2, <1>8, <2>2, SettledEnd
<1>10. Len(b) # Len(full) /\ read.ok => read.m \in R
  <2> SUFFICES ASSUME Len(b) # Len(full), read.ok PROVE read.m \in R
    OBVIOUS
  <2>1. ~((1 + Len(full)) - 1 <= Len(b))
    BY <1>5
  <2> QED
    BY <1>7, <1>8, <2>1 DEF Settled
<1> QED
  BY <1>9, <1>10 DEF R, good, m, read

(* The fields of what is read into a new message. *)
NewHolder(m, fg, fn, fp) ==
  /\ IsRecord(m) /\ fg \in DOMAIN m /\ fn \in DOMAIN m /\ fp \in DOMAIN m
  /\ fg # fn /\ fg # fp /\ fn # fp
  /\ m[fg] = << >> /\ m[fn] = << >> /\ m[fp] = << >>

LEMMA NewHolderFields ==
  ASSUME NEW m, NEW fg, NEW fn, NEW fp, NewHolder(m, fg, fn, fp), NEW guid, NEW name
  PROVE  LET g1 == Guided(m, fg, guid)
             n1 == Named(m, fg, fn, guid, name)
         IN  /\ IsRecord(g1) /\ DOMAIN g1 = DOMAIN m /\ g1[fg] = guid /\ g1[fn] = << >> /\ g1[fp] = << >>
             /\ IsRecord(n1) /\ DOMAIN n1 = DOMAIN m /\ n1[fg] = guid /\ n1[fn] = name /\ n1[fp] = << >>
             /\ \A f \in DOMAIN m : f # fg /\ f # fn /\ f # fp => g1[f] = m[f] /\ n1[f] = m[f]
<1> DEFINE none == << >>
           g1 == FieldSet(m, fg, guid)
           n1 == FieldSet(g1, fn, name)
<1>1. /\ IsRecord(m) /\ fg \in DOMAIN m /\ fn \in DOMAIN m /\ fp \in DOMAIN m
      /\ fg # fn /\ fg # fp /\ fn # fp /\ m[fg] = none /\ m[fn] = none /\ m[fp] = none
  BY DEF NewHolder
<1> HIDE DEF none
<1>2. IsRecord(m) /\ fg \in DOMAIN m
  BY <1>1
<1>3. /\ IsRecord(g1) /\ DOMAIN g1 = DOMAIN m /\ g1[fg] = guid
      /\ \A f \in DOMAIN m : f # fg => g1[f] = m[f]
  BY <1>2, FieldSetIs
<1>4. g1[fn] = none /\ g1[fp] = none
  BY <1>1, <1>3, Zenon
<1>5. Guided(m, fg, guid) = g1
  BY <1>1 DEF Guided, Assigned, none
<1> HIDE DEF g1
<1>6. IsRecord(g1) /\ fn \in DOMAIN g1
  BY <1>1, <1>3
<1>7. /\ IsRecord(n1) /\ DOMAIN n1 = DOMAIN g1 /\ n1[fn] = name
      /\ \A f \in DOMAIN g1 : f # fn => n1[f] = g1[f]
  BY <1>6, FieldSetIs
<1>8. n1[fg] = guid /\ n1[fp] = none
  BY <1>1, <1>3, <1>4, <1>7, Zenon
<1>9. Named(m, fg, fn, guid, name) = n1
  BY <1>4, <1>5 DEF Named, Assigned, none
<1> HIDE DEF n1
<1>10. \A f \in DOMAIN m : f # fg /\ f # fn /\ f # fp => g1[f] = m[f] /\ n1[f] = m[f]
  BY <1>3, <1>7, Zenon
<1> QED
  BY <1>3, <1>4, <1>5, <1>7, <1>8, <1>9, <1>10 DEF none

LEMMA NewHolderRead ==
  ASSUME NEW m, NEW fg, NEW fn, NEW fp, NewHolder(m, fg, fn, fp), NEW guid, NEW name,
         NEW T, NEW nodes \in Seq(T), NEW n \in 0 .. Len(nodes)
  PROVE  LET h == WithParts(Named(m, fg, fn, guid, name), fp, nodes, n)
         IN  /\ IsRecord(h) /\ DOMAIN h = DOMAIN m
             /\ h[fg] = guid /\ h[fn] = name /\ h[fp] = SubSeq(nodes, 1, n)
             /\ \A f \in DOMAIN m : f # fg /\ f # fn /\ f # fp => h[f] = m[f]
<1> DEFINE n1 == Named(m, fg, fn, guid, name)
           v == SubSeq(nodes, 1, n)
           h == FieldSet(n1, fp, v)
<1>1. /\ fg \in DOMAIN m /\ fn \in DOMAIN m /\ fp \in DOMAIN m
      /\ fg # fn /\ fg # fp /\ fn # fp
  BY DEF NewHolder
<1>2. /\ IsRecord(n1) /\ DOMAIN n1 = DOMAIN m /\ n1[fg] = guid /\ n1[fn] = name /\ n1[fp] = << >>
      /\ \A f \in DOMAIN m : f # fg /\ f # fn /\ f # fp => n1[f] = m[f]
  BY NewHolderFields
<1>3. v \in Seq(T) /\ n1[fp] \o v = v
  <2>1. v \in Seq(T)
    OBVIOUS
  <2> HIDE DEF v
  <2> QED
    BY <1>2, <2>1, JoinedNodes
<1> HIDE DEF n1, v
<1>4. IsRecord(n1) /\ fp \in DOMAIN n1
  BY <1>1, <1>2
<1>5. /\ IsRecord(h) /\ DOMAIN h = DOMAIN n1 /\ h[fp] = v
      /\ \A f \in DOMAIN n1 : f # fp => h[f] = n1[f]
  BY <1>4, FieldSetIs
<1>6. WithParts(n1, fp, nodes, n) = h
  BY <1>3 DEF WithParts, v
<1> HIDE DEF h
<1>7. h[fg] = guid /\ h[fn] = name
  BY <1>1, <1>2, <1>5, Zenon
<1>8. \A f \in DOMAIN m : f # fg /\ f # fn /\ f # fp => h[f] = m[f]
  BY <1>2, <1>5, Zenon
<1> QED
  BY <1>2, <1>5, <1>6, <1>7, <1>8 DEF n1, v

(* The loop that adds the elements of a list. *)
IsAdded(g, m, f, nodes) ==
  g = [n \in 0 .. Len(nodes) |->
         IF n = 0 THEN m ELSE FieldSet(g[n - 1], f, Append(g[n - 1][f], nodes[n]))]

LEMMA AddedParts ==
  ASSUME NEW m, IsRecord(m), NEW f \in DOMAIN m, NEW T, NEW nodes \in Seq(T), m[f] \in Seq(T)
  PROVE  /\ \E h : IsAdded(h, m, f, nodes)
         /\ \A g : IsAdded(g, m, f, nodes) => g[Len(nodes)] = WithParts(m, f, nodes, Len(nodes))
<1> DEFINE N == Len(nodes)
           M(n) == WithParts(m, f, nodes, n)
           h == [n \in 0 .. N |-> M(n)]
<1>1. N \in Nat
  OBVIOUS
<1>2. M(0) = m
  <2>1. SubSeq(nodes, 1, 0) = << >>
    OBVIOUS
  <2>2. m[f] \o << >> = m[f]
    OBVIOUS
  <2>3. M(0) = FieldSet(m, f, m[f])
    BY <2>1, <2>2 DEF WithParts
  <2>4. FieldSet(m, f, m[f]) = m
    BY FieldSetIs DEF HasField, FieldSet
  <2> QED
    BY <2>3, <2>4
<1>3. \A n \in 1 .. N : FieldSet(M(n - 1), f, Append(M(n - 1)[f], nodes[n])) = M(n)
  BY OneMorePart
<1> HIDE DEF M, N
<1>4. h = [n \in 0 .. N |-> IF n = 0 THEN m ELSE FieldSet(h[n - 1], f, Append(h[n - 1][f], nodes[n]))]
  <2>1. ASSUME NEW n \in 0 .. N
        PROVE  h[n] = IF n = 0 THEN m ELSE FieldSet(h[n - 1], f, Append(h[n - 1][f], nodes[n]))
    <3>1. CASE n = 0
      BY <1>2, <3>1
    <3>2. CASE n # 0
      <4>1. n \in 1 .. N /\ n - 1 \in 0 .. N
        BY <1>1, <3>2
      <4>2. h[n] = M(n) /\ h[n - 1] = M(n - 1)
        BY <4>1
      <4> QED
        BY <1>3, <3>2, <4>1, <4>2
    <3> QED
      BY <3>1, <3>2
  <2> QED
    BY <2>1
<1>5. IsAdded(h, m, f, nodes)
  BY <1>4 DEF IsAdded, N
<1>6. ASSUME NEW g, IsAdded(g, m, f, nodes) PROVE g[N] = M(N)
  <2>1. g = [n \in 0 .. N |-> IF n = 0 THEN m ELSE FieldSet(g[n - 1], f, Append(g[n - 1][f], nodes[n]))]
    BY <1>6 DEF IsAdded, N
  <2>2. \A n \in 0 .. N : g[n] = IF n = 0 THEN m ELSE FieldSet(g[n - 1], f, Append(g[n - 1][f], nodes[n]))
    BY <2>1
  <2> DEFINE U == {n \in Nat : n \in 0 .. N => g[n] = M(n)}
  <2>3. ASSUME NEW n \in Nat, \A i \in 0 .. (n - 1) : i \in U PROVE n \in U
    <3> SUFFICES ASSUME n \in 0 .. N PROVE g[n] = M(n)
      OBVIOUS
    <3>1. CASE n = 0
      BY <1>2, <2>2, <3>1
    <3>2. CASE n # 0
      <4>1. n - 1 \in 0 .. (n - 1) /\ n - 1 \in 0 .. N /\ n \in 1 .. N
        BY <1>1, <3>2
      <4>2. g[n - 1] = M(n - 1)
        BY <2>3, <4>1
      <4>3. g[n] = FieldSet(g[n - 1], f, Append(g[n - 1][f], nodes[n]))
        BY <2>2, <3>2, Zenon
      <4> QED
        BY <1>3, <4>1, <4>2, <4>3
    <3> QED
      BY <3>1, <3>2
  <2> HIDE DEF U
  <2>4. \A n \in Nat : n \in U
    BY <2>3, Induction
  <2>5. N \in 0 .. N
    BY <1>1
  <2> QED
    BY <1>1, <2>4, <2>5 DEF U
<1> QED
  BY <1>5, <1>6 DEF M, N

----------------------------------------------------------------------------
(* The elements that a save makes of a structure, and a load reads back.   *)
(* The fields that the save assigns, in the order of the calls.            *)
StreamFields(a1, a2, a3, a4, a5, a6, a7, a8, a9) ==
  [url |-> a1, ip |-> a2, user_id |-> a4, user_pw |-> a5, port |-> a3,
   stream_accumulate_time |-> a7, tcp |-> a6, stream_used |-> a9, fps |-> a8, unknown |-> << >>]

LEMMA StreamFieldsSet ==
  ASSUME NEW a1, NEW a2, NEW a3, NEW a4, NEW a5, NEW a6, NEW a7, NEW a8, NEW a9, NEW v
  PROVE  LET m == StreamFields(a1, a2, a3, a4, a5, a6, a7, a8, a9)
         IN  /\ StreamInfo_set_url(m, v) = StreamFields(v, a2, a3, a4, a5, a6, a7, a8, a9)
             /\ StreamInfo_set_ip(m, v) = StreamFields(a1, v, a3, a4, a5, a6, a7, a8, a9)
             /\ StreamInfo_set_port(m, v) = StreamFields(a1, a2, ToUInt32(v), a4, a5, a6, a7, a8, a9)
             /\ StreamInfo_set_user_id(m, v) = StreamFields(a1, a2, a3, v, a5, a6, a7, a8, a9)
             /\ StreamInfo_set_user_pw(m, v) = StreamFields(a1, a2, a3, a4, v, a6, a7, a8, a9)
             /\ StreamInfo_set_tcp(m, v) = StreamFields(a1, a2, a3, a4, a5, v, a7, a8, a9)
             /\ StreamInfo_set_stream_accumulate_time(m, v) = StreamFields(a1, a2, a3, a4, a5, a6, ToUInt32(v), a8, a9)
             /\ StreamInfo_set_fps(m, v) = StreamFields(a1, a2, a3, a4, a5, a6, a7, ToUInt32(v), a9)
             /\ StreamInfo_set_stream_used(m, v) = StreamFields(a1, a2, a3, a4, a5, a6, a7, a8, v)
<1>1. StreamInfo_set_url(StreamFields(a1, a2, a3, a4, a5, a6, a7, a8, a9), v) = StreamFields(v, a2, a3, a4, a5, a6, a7, a8, a9)
  BY DEF StreamFields, StreamInfo_set_url
<1>2. StreamInfo_set_ip(StreamFields(a1, a2, a3, a4, a5, a6, a7, a8, a9), v) = StreamFields(a1, v, a3, a4, a5, a6, a7, a8, a9)
  BY DEF StreamFields, StreamInfo_set_ip
<1>3. StreamInfo_set_port(StreamFields(a1, a2, a3, a4, a5, a6, a7, a8, a9), v) = StreamFields(a1, a2, ToUInt32(v), a4, a5, a6, a7, a8, a9)
  <2> DEFINE u == ToUInt32(v)
  <2> HIDE DEF u
  <2>1. [StreamFields(a1, a2, a3, a4, a5, a6, a7, a8, a9) EXCEPT !.port = u] = StreamFields(a1, a2, u, a4, a5, a6, a7, a8, a9)
    BY DEF StreamFields
  <2> QED
    BY <2>1 DEF StreamInfo_set_port, u
<1>4. StreamInfo_set_user_id(StreamFields(a1, a2, a3, a4, a5, a6, a7, a8, a9), v) = StreamFields(a1, a2, a3, v, a5, a6, a7, a8, a9)
  BY DEF StreamFields, StreamInfo_set_user_id
<1>5. StreamInfo_set_user_pw(StreamFields(a1, a2, a3, a4, a5, a6, a7, a8, a9), v) = StreamFields(a1, a2, a3, a4, v, a6, a7, a8, a9)
  BY DEF StreamFields, StreamInfo_set_user_pw
<1>6. StreamInfo_set_tcp(StreamFields(a1, a2, a3, a4, a5, a6, a7, a8, a9), v) = StreamFields(a1, a2, a3, a4, a5, v, a7, a8, a9)
  BY DEF StreamFields, StreamInfo_set_tcp
<1>7. StreamInfo_set_stream_accumulate_time(StreamFields(a1, a2, a3, a4, a5, a6, a7, a8, a9), v) = StreamFields(a1, a2, a3, a4, a5, a6, ToUInt32(v), a8, a9)
  <2> DEFINE u == ToUInt32(v)
  <2> HIDE DEF u
  <2>1. [StreamFields(a1, a2, a3, a4, a5, a6, a7, a8, a9) EXCEPT !.stream_accumulate_time = u] = StreamFields(a1, a2, a3, a4, a5, a6, u, a8, a9)
    BY DEF StreamFields
  <2> QED
    BY <2>1 DEF StreamInfo_set_stream_accumulate_time, u
<1>8. StreamInfo_set_fps(StreamFields(a1, a2, a3, a4, a5, a6, a7, a8, a9), v) = StreamFields(a1, a2, a3, a4, a5, a6, a7, ToUInt32(v), a9)
  <2> DEFINE u == ToUInt32(v)
  <2> HIDE DEF u
  <2>1. [StreamFields(a1, a2, a3, a4, a5, a6, a7, a8, a9) EXCEPT !.fps = u] = StreamFields(a1, a2, a3, a4, a5, a6, a7, u, a9)
    BY DEF StreamFields
  <2> QED
    BY <2>1 DEF StreamInfo_set_fps, u
<1>9. StreamInfo_set_stream_used(StreamFields(a1, a2, a3, a4, a5, a6, a7, a8, a9), v) = StreamFields(a1, a2, a3, a4, a5, a6, a7, a8, v)
  BY DEF StreamFields, StreamInfo_set_stream_used
<1> QED
  BY <1>1, <1>2, <1>3, <1>4, <1>5, <1>6, <1>7, <1>8, <1>9

LEMMA StreamNodeIs ==
  ASSUME NEW info
  PROVE  StreamNode(info) =
           StreamFields(info.url, info.ip, ToUInt32(info.port), info.user_id, info.user_pw, info.tcp,
                        ToUInt32(info.stream_accumulate_time), ToUInt32(info.fps), info.stream_used)
<1> DEFINE none == << >>
           zero == 0
           no == FALSE
           m == StreamInfo_SharedCtor
           m1 == StreamInfo_set_url(m, info.url)
           m2 == StreamInfo_set_ip(m1, info.ip)
           m3 == StreamInfo_set_port(m2, info.port)
           m4 == StreamInfo_set_user_id(m3, info.user_id)
           m5 == StreamInfo_set_user_pw(m4, info.user_pw)
           m6 == StreamInfo_set_tcp(m5, info.tcp)
           m7 == StreamInfo_set_stream_accumulate_time(m6, info.stream_accumulate_time)
           m8 == StreamInfo_set_fps(m7, info.fps)
           m9 == StreamInfo_set_stream_used(m8, info.stream_used)
<1>0. m = StreamFields(none, none, zero, none, none, no, zero, zero, no)
  BY DEF StreamInfo_SharedCtor, StreamFields
<1> HIDE DEF none, zero, no, m
<1>1. m1 = StreamFields(info.url, none, zero, none, none, no, zero, zero, no)
  BY <1>0, StreamFieldsSet
<1> HIDE DEF m1
<1>2. m2 = StreamFields(info.url, info.ip, zero, none, none, no, zero, zero, no)
  BY <1>1, StreamFieldsSet
<1> HIDE DEF m2
<1>3. m3 = StreamFields(info.url, info.ip, ToUInt32(info.port), none, none, no, zero, zero, no)
  BY <1>2, StreamFieldsSet
<1> HIDE DEF m3
<1>4. m4 = StreamFields(info.url, info.ip, ToUInt32(info.port), info.user_id, none, no, zero, zero, no)
  BY <1>3, StreamFieldsSet
<1> HIDE DEF m4
<1>5. m5 = StreamFields(info.url, info.ip, ToUInt32(info.port), info.user_id, info.user_pw, no, zero, zero, no)
  BY <1>4, StreamFieldsSet
<1> HIDE DEF m5
<1>6. m6 = StreamFields(info.url, info.ip, ToUInt32(info.port), info.user_id, info.user_pw, info.tcp, zero, zero, no)
  BY <1>5, StreamFieldsSet
<1> HIDE DEF m6
<1>7. m7 = StreamFields(info.url, info.ip, ToUInt32(info.port), info.user_id, info.user_pw, info.tcp, ToUInt32(info.stream_accumulate_time), zero, no)
  BY <1>6, StreamFieldsSet
<1> HIDE DEF m7
<1>8. m8 = StreamFields(info.url, info.ip, ToUInt32(info.port), info.user_id, info.user_pw, info.tcp, ToUInt32(info.stream_accumulate_time), ToUInt32(info.fps), no)
  BY <1>7, StreamFieldsSet
<1> HIDE DEF m8
<1>9. m9 = StreamFields(info.url, info.ip, ToUInt32(info.port), info.user_id, info.user_pw, info.tcp, ToUInt32(info.stream_accumulate_time), ToUInt32(info.fps), info.stream_used)
  BY <1>8, StreamFieldsSet
<1> HIDE DEF m9
<1> QED
  BY <1>9 DEF StreamNode, m1, m2, m3, m4, m5, m6, m7, m8, m9, m

LEMMA StreamDataIs ==
  ASSUME NEW info \in StreamData
  PROVE  /\ info.url \in Raw /\ info.ip \in Raw /\ info.user_id \in Raw /\ info.user_pw \in Raw
         /\ info.port \in CInt /\ info.stream_accumulate_time \in CInt /\ info.fps \in CInt
         /\ info.tcp \in BOOLEAN /\ info.stream_used \in BOOLEAN
         /\ info = [url |-> info.url, ip |-> info.ip, port |-> info.port, user_id |-> info.user_id,
                    user_pw |-> info.user_pw, tcp |-> info.tcp,
                    stream_accumulate_time |-> info.stream_accumulate_time, fps |-> info.fps,
                    stream_used |-> info.stream_used]
<1> DEFINE T == CodePageText
           C == CInt
<1>1. T = Raw
  BY DEF CodePageText, Raw
<1> HIDE DEF T, C
<1>2. info \in [url : T, ip : T, port : C, user_id : T, user_pw : T, tcp : BOOLEAN,
                stream_accumulate_time : C, fps : C, stream_used : BOOLEAN]
  BY DEF StreamData, T, C
<1> QED
  BY <1>1, <1>2 DEF C

LEMMA StreamNodeRaw ==
  ASSUME NEW info \in StreamData
  PROVE  /\ StreamNode(info) \in RawStreams /\ StreamOf(StreamNode(info)) = info
         /\ StreamTextsValid(StreamNode(info)) <=>
              /\ IsStructurallyValidUTF8(info.url) /\ IsStructurallyValidUTF8(info.ip)
              /\ IsStructurallyValidUTF8(info.user_id) /\ IsStructurallyValidUTF8(info.user_pw)
<1> DEFINE p == ToUInt32(info.port)
           q == ToUInt32(info.stream_accumulate_time)
           r == ToUInt32(info.fps)
           e == StreamNode(info)
           T == Raw
           U == UInt32
           V == NewTo("StreamInfo")
           none == << >>
<1>1. /\ info.url \in T /\ info.ip \in T /\ info.user_id \in T /\ info.user_pw \in T
      /\ info.port \in CInt /\ info.stream_accumulate_time \in CInt /\ info.fps \in CInt
      /\ info.tcp \in BOOLEAN /\ info.stream_used \in BOOLEAN
      /\ info = [url |-> info.url, ip |-> info.ip, port |-> info.port, user_id |-> info.user_id,
                 user_pw |-> info.user_pw, tcp |-> info.tcp,
                 stream_accumulate_time |-> info.stream_accumulate_time, fps |-> info.fps,
                 stream_used |-> info.stream_used]
  BY StreamDataIs
<1>2. /\ p \in U /\ ToInt(p) = info.port /\ q \in U /\ ToInt(q) = info.stream_accumulate_time
      /\ r \in U /\ ToInt(r) = info.fps
  BY <1>1, NumberBack
<1>3. none \in V
  BY NothingNew
<1>4. e = [url |-> info.url, ip |-> info.ip, user_id |-> info.user_id, user_pw |-> info.user_pw,
           port |-> p, stream_accumulate_time |-> q, tcp |-> info.tcp,
           stream_used |-> info.stream_used, fps |-> r, unknown |-> none]
  BY StreamNodeIs DEF StreamFields
<1> HIDE DEF p, q, r, e, T, U, V, none
<1>5. e \in [url : T, ip : T, user_id : T, user_pw : T, port : U, stream_accumulate_time : U,
             tcp : BOOLEAN, stream_used : BOOLEAN, fps : U, unknown : V]
  BY <1>1, <1>2, <1>3, <1>4
<1>6. e \in RawStreams
  BY <1>5 DEF RawStreams, T, U, V
<1>7. /\ e.url = info.url /\ e.ip = info.ip /\ e.user_id = info.user_id /\ e.user_pw = info.user_pw
      /\ e.port = p /\ e.stream_accumulate_time = q /\ e.tcp = info.tcp
      /\ e.stream_used = info.stream_used /\ e.fps = r
  BY <1>4
<1>8. StreamOf(e) = info
  <2>1. StreamOf(e) =
          [url |-> info.url, ip |-> info.ip, port |-> info.port, user_id |-> info.user_id,
           user_pw |-> info.user_pw, tcp |-> info.tcp,
           stream_accumulate_time |-> info.stream_accumulate_time, fps |-> info.fps,
           stream_used |-> info.stream_used]
    BY <1>2, <1>7 DEF StreamOf
  <2> QED
    BY <1>1, <2>1
<1>9. StreamTextsValid(e) <=>
        /\ IsStructurallyValidUTF8(info.url) /\ IsStructurallyValidUTF8(info.ip)
        /\ IsStructurallyValidUTF8(info.user_id) /\ IsStructurallyValidUTF8(info.user_pw)
  BY <1>7 DEF StreamTextsValid
<1> QED
  BY <1>6, <1>8, <1>9 DEF e

LEMMA CameraNodeRaw ==
  ASSUME NEW guid \in CodePageText
  PROVE  /\ CameraNode(guid) \in RawSystemCameras /\ CameraNode(guid).camera_guid = guid
         /\ SystemCameraTextsValid(CameraNode(guid)) <=> IsStructurallyValidUTF8(guid)
<1> DEFINE e == CameraNode(guid)
           T == Raw
           V == NewTo("System_CameraInfo")
           none == << >>
<1>1. guid \in T
  BY DEF CodePageText, Raw
<1>2. none \in V
  BY NothingNew
<1>3. e = [camera_guid |-> guid, unknown |-> none]
  BY DEF CameraNode, System_CameraInfo_set_camera_guid, System_CameraInfo_SharedCtor
<1> HIDE DEF e, T, V, none
<1>4. e \in [camera_guid : T, unknown : V] /\ e.camera_guid = guid
  BY <1>1, <1>2, <1>3
<1>5. e \in RawSystemCameras
  BY <1>4 DEF RawSystemCameras, T, V
<1> QED
  BY <1>4, <1>5 DEF e, SystemCameraTextsValid

----------------------------------------------------------------------------
(* The messages that are saved. *)
CameraNodes(info) == [i \in DOMAIN info.stream_info |-> StreamNode(info.stream_info[i])]
CameraGuid(info) == info.camera_guid
CameraName(info) == convert_unicode_to_utf8(info.camera_name)
CameraSaved(info, n) ==
  WithParts(Named(Camera_SharedCtor, "camera_guid", "camera_name", CameraGuid(info), CameraName(info)), "stream_info", CameraNodes(info), n)

LEMMA CameraInfoIs ==
  ASSUME NEW info \in CameraData, \A i \in 1 .. Len(info.stream_info) : StreamInfo_ByteSizeLong(StreamNode(info.stream_info[i])) < IntSpan
  PROVE  /\ CameraNodes(info) \in Seq(RawStreams) /\ Len(CameraNodes(info)) = Len(info.stream_info)
         /\ Len(info.stream_info) \in Nat /\ DOMAIN info.stream_info = 1 .. Len(info.stream_info)
         /\ \A i \in 1 .. Len(info.stream_info) :
              CameraNodes(info)[i] = StreamNode(info.stream_info[i]) /\ info.stream_info[i] \in StreamData
         /\ \A i \in 1 .. Len(CameraNodes(info)) : StreamInfo_ByteSizeLong(CameraNodes(info)[i]) < IntSpan
         /\ CameraGuid(info) \in Raw /\ CameraName(info) \in Raw /\ IsName(CameraName(info), info.camera_name)
<1> DEFINE l == info.stream_info
           N == Len(l)
           nodes == CameraNodes(info)
           T == CodePageText
           W == WideText
           D == StreamData
<1>1. info.camera_guid \in T /\ info.camera_name \in W /\ l \in [1 .. StreamCount -> D]
  <2> HIDE DEF T, W, D
  <2>1. info \in [camera_guid : T, camera_name : W, stream_info : [1 .. StreamCount -> D]]
    BY DEF CameraData, T, W, D
  <2> QED
    BY <2>1
<1>2. l \in Seq(D)
  <2>1. StreamCount \in Nat
    BY DEF StreamCount
  <2> HIDE DEF l, D
  <2> QED
    BY <1>1, <2>1
<1>3. N \in Nat /\ DOMAIN l = 1 .. N /\ \A i \in 1 .. N : l[i] \in D
  <2> HIDE DEF l, D
  <2> QED
    BY <1>2
<1>4. \A i \in 1 .. N : nodes[i] = StreamNode(l[i]) /\ nodes[i] \in RawStreams
  BY <1>3, StreamNodeRaw DEF CameraNodes
<1>5. nodes \in Seq(RawStreams) /\ Len(nodes) = N
  <2>1. nodes \in [1 .. N -> RawStreams]
    BY <1>3, <1>4 DEF CameraNodes
  <2> HIDE DEF nodes, N
  <2>2. nodes \in Seq(RawStreams) /\ DOMAIN nodes = 1 .. N
    BY <1>3, <2>1
  <2> QED
    BY <1>3, <2>2, LenProperties
<1>6. \A i \in 1 .. Len(nodes) : StreamInfo_ByteSizeLong(nodes[i]) < IntSpan
  BY <1>4, <1>5
<1>7. CameraGuid(info) \in Raw
  BY <1>1 DEF CameraGuid, CodePageText, Raw
<1>8. /\ info.camera_name \in Seq(Nat) /\ Len(CameraName(info)) < IntSpan
      /\ \A i \in DOMAIN info.camera_name : IsCharacter(info.camera_name[i])
  BY <1>1 DEF WideText, CameraName
<1>9. IsName(CameraName(info), info.camera_name)
  BY <1>8, NameConverted DEF CameraName
<1>10. CameraName(info) \in Raw
  BY <1>8, <1>9 DEF IsName, Raw
<1> QED
  BY <1>3, <1>4, <1>5, <1>6, <1>7, <1>9, <1>10

LEMMA CameraNewHolder ==
  /\ NewHolder(Camera_SharedCtor, "camera_guid", "camera_name", "stream_info")
  /\ HolderRecord(Camera_SharedCtor, "camera_guid", "camera_name", "stream_info", RawStreams)
  /\ Camera_SharedCtor["unknown"] = << >>
  /\ DOMAIN Camera_SharedCtor = {"camera_guid", "camera_name", "stream_info", "unknown"}
<1> DEFINE m == Camera_SharedCtor
           none == << >>
<1>1. m = [camera_guid |-> none, camera_name |-> none, stream_info |-> none, unknown |-> none]
  BY DEF Camera_SharedCtor
<1>2. none \in Seq(RawStreams)
  OBVIOUS
<1> HIDE DEF m, none
<1>3. /\ DOMAIN m = {"camera_guid", "camera_name", "stream_info", "unknown"}
      /\ m["camera_guid"] = none /\ m["camera_name"] = none /\ m["stream_info"] = none /\ m["unknown"] = none
  BY <1>1
<1>4. m = [g \in DOMAIN m |-> m[g]]
  BY <1>1
<1>5. NewHolder(m, "camera_guid", "camera_name", "stream_info")
  BY <1>3, <1>4 DEF NewHolder, IsRecord, none
<1>6. HolderRecord(m, "camera_guid", "camera_name", "stream_info", RawStreams)
  BY <1>2, <1>3, <1>4 DEF HolderRecord, IsRecord
<1> QED
  BY <1>3, <1>5, <1>6 DEF m, none

LEMMA CameraMessageIs ==
  ASSUME NEW info \in CameraData, \A i \in 1 .. Len(info.stream_info) : StreamInfo_ByteSizeLong(StreamNode(info.stream_info[i])) < IntSpan
  PROVE  CameraMessage(info) = CameraSaved(info, Len(CameraNodes(info)))
<1> DEFINE l == info.stream_info
           N == Len(l)
           f == "stream_info"
           nodes == CameraNodes(info)
           new == Camera_SharedCtor
           start == Camera_set_camera_name(Camera_set_camera_guid(new, info.camera_guid), convert_unicode_to_utf8(info.camera_name))
           m == Named(new, "camera_guid", "camera_name", CameraGuid(info), CameraName(info))
           Rec(g) == [n \in 0 .. N |-> IF n = 0 THEN start ELSE Camera_add_stream_info(g[n - 1], StreamNode(l[n]))]
           g == CHOOSE g : g = Rec(g)
<1>1. CameraMessage(info) = g[N]
  BY DEF CameraMessage
<1>2. /\ nodes \in Seq(RawStreams) /\ Len(nodes) = N /\ N \in Nat
      /\ \A i \in 1 .. N : nodes[i] = StreamNode(l[i])
  BY CameraInfoIs
<1>3. NewHolder(new, "camera_guid", "camera_name", "stream_info")
  BY CameraNewHolder
<1>4. start = m
  <2> DEFINE guid == CameraGuid(info)
             name == CameraName(info)
             g1 == Guided(new, "camera_guid", guid)
  <2>1. new["camera_guid"] = << >> /\ g1["camera_name"] = << >>
    <3>1. new["camera_guid"] = << >>
      BY <1>3 DEF NewHolder
    <3>2. g1["camera_name"] = << >> /\ Named(new, "camera_guid", "camera_name", guid, name)["camera_name"] = name
      <4> HIDE DEF new, guid, name
      <4> QED
        BY <1>3, NewHolderFields
    <3> QED
      BY <3>1, <3>2
  <2>2. start = FieldSet(FieldSet(new, "camera_guid", guid), "camera_name", name)
    BY DEF FieldSet, Camera_set_camera_guid, Camera_set_camera_name, CameraGuid, CameraName
  <2> HIDE DEF new, guid, name, start
  <2>3. g1 = FieldSet(new, "camera_guid", guid)
    BY <2>1 DEF Guided, Assigned
  <2>4. Named(new, "camera_guid", "camera_name", guid, name) = FieldSet(g1, "camera_name", name)
    <3> HIDE DEF g1
    <3>1. Named(new, "camera_guid", "camera_name", guid, name) = FieldSet(g1, "camera_name", Assigned(g1["camera_name"], name, << >>))
      BY DEF Named, g1
    <3> QED
      BY <2>1, <3>1 DEF Assigned
  <2> QED
    BY <2>2, <2>3, <2>4 DEF guid, name
<1>5. /\ IsRecord(m) /\ f \in DOMAIN m /\ m[f] \in Seq(RawStreams)
  <2>1. IsRecord(m) /\ DOMAIN m = DOMAIN new /\ m[f] = << >>
    BY <1>3, NewHolderFields
  <2>2. f \in DOMAIN new
    BY <1>3 DEF NewHolder
  <2> QED
    BY <2>1, <2>2, EmptySeq
<1> HIDE DEF nodes, m, start, N, l
<1>6. ASSUME NEW h PROVE Rec(h) = [n \in 0 .. Len(nodes) |->
                 IF n = 0 THEN m ELSE FieldSet(h[n - 1], f, Append(h[n - 1][f], nodes[n]))]
  <2>1. ASSUME NEW n \in 0 .. N
        PROVE  (IF n = 0 THEN start ELSE Camera_add_stream_info(h[n - 1], StreamNode(l[n])))
                 = IF n = 0 THEN m ELSE FieldSet(h[n - 1], f, Append(h[n - 1][f], nodes[n]))
    <3>1. CASE n = 0
      BY <1>4, <3>1
    <3>2. CASE n # 0
      <4>1. n \in 1 .. N
        BY <1>2, <3>2
      <4>2. nodes[n] = StreamNode(l[n])
        BY <1>2, <4>1
      <4> DEFINE d == h[n - 1]
                 e == StreamNode(l[n])
      <4> HIDE DEF d, e
      <4>3. Camera_add_stream_info(d, e) = FieldSet(d, f, Append(d[f], e))
        BY DEF Camera_add_stream_info, FieldSet
      <4> QED
        BY <3>2, <4>2, <4>3 DEF d, e
    <3> QED
      BY <3>1, <3>2
  <2> QED
    BY <1>2, <2>1
<1>7. \A h : h = Rec(h) <=> IsAdded(h, m, f, nodes)
  <2> HIDE DEF Rec
  <2> QED
    BY <1>6, Zenon DEF IsAdded
<1>8. \E h : h = Rec(h)
  <2> HIDE DEF Rec, f
  <2>1. \E h : IsAdded(h, m, f, nodes)
    BY <1>2, <1>5, AddedParts
  <2> QED
    BY <1>7, <2>1
<1>9. g = Rec(g)
  <2> HIDE DEF Rec
  <2> QED
    BY <1>8
<1> HIDE DEF g
<1>10. g[Len(nodes)] = WithParts(m, f, nodes, Len(nodes))
  <2> HIDE DEF Rec, f
  <2>1. IsAdded(g, m, f, nodes)
    BY <1>7, <1>9
  <2> QED
    BY <1>2, <1>5, <2>1, AddedParts
<1> QED
  BY <1>1, <1>2, <1>10 DEF CameraSaved, m, nodes, new

SystemNodes(info) == [i \in DOMAIN info.cameras |-> CameraNode(info.cameras[i])]
SystemGuid(info) == info.system_guid
SystemName(info) == convert_unicode_to_utf8(info.system_name)
SystemSaved(info, n) ==
  WithParts(Named(System_SharedCtor, "system_guid", "system_name", SystemGuid(info), SystemName(info)), "cameras", SystemNodes(info), n)

LEMMA SystemInfoIs ==
  ASSUME NEW info \in SystemData, \A i \in 1 .. Len(info.cameras) : System_CameraInfo_ByteSizeLong(CameraNode(info.cameras[i])) < IntSpan
  PROVE  /\ SystemNodes(info) \in Seq(RawSystemCameras) /\ Len(SystemNodes(info)) = Len(info.cameras)
         /\ Len(info.cameras) \in Nat /\ DOMAIN info.cameras = 1 .. Len(info.cameras)
         /\ \A i \in 1 .. Len(info.cameras) :
              SystemNodes(info)[i] = CameraNode(info.cameras[i]) /\ info.cameras[i] \in CodePageText
         /\ \A i \in 1 .. Len(SystemNodes(info)) : System_CameraInfo_ByteSizeLong(SystemNodes(info)[i]) < IntSpan
         /\ SystemGuid(info) \in Raw /\ SystemName(info) \in Raw /\ IsName(SystemName(info), info.system_name)
<1> DEFINE l == info.cameras
           N == Len(l)
           nodes == SystemNodes(info)
           T == CodePageText
           W == WideText
           D == CodePageText
<1>1. info.system_guid \in T /\ info.system_name \in W /\ l \in Seq(D)
  <2> HIDE DEF T, W, D
  <2>1. info \in [system_guid : T, system_name : W, cameras : Seq(D)]
    BY DEF SystemData, T, W, D
  <2> QED
    BY <2>1
<1>2. l \in Seq(D)
  BY <1>1
<1>3. N \in Nat /\ DOMAIN l = 1 .. N /\ \A i \in 1 .. N : l[i] \in D
  <2> HIDE DEF l, D
  <2> QED
    BY <1>2
<1>4. \A i \in 1 .. N : nodes[i] = CameraNode(l[i]) /\ nodes[i] \in RawSystemCameras
  BY <1>3, CameraNodeRaw DEF SystemNodes
<1>5. nodes \in Seq(RawSystemCameras) /\ Len(nodes) = N
  <2>1. nodes \in [1 .. N -> RawSystemCameras]
    BY <1>3, <1>4 DEF SystemNodes
  <2> HIDE DEF nodes, N
  <2>2. nodes \in Seq(RawSystemCameras) /\ DOMAIN nodes = 1 .. N
    BY <1>3, <2>1
  <2> QED
    BY <1>3, <2>2, LenProperties
<1>6. \A i \in 1 .. Len(nodes) : System_CameraInfo_ByteSizeLong(nodes[i]) < IntSpan
  BY <1>4, <1>5
<1>7. SystemGuid(info) \in Raw
  BY <1>1 DEF SystemGuid, CodePageText, Raw
<1>8. /\ info.system_name \in Seq(Nat) /\ Len(SystemName(info)) < IntSpan
      /\ \A i \in DOMAIN info.system_name : IsCharacter(info.system_name[i])
  BY <1>1 DEF WideText, SystemName
<1>9. IsName(SystemName(info), info.system_name)
  BY <1>8, NameConverted DEF SystemName
<1>10. SystemName(info) \in Raw
  BY <1>8, <1>9 DEF IsName, Raw
<1> QED
  BY <1>3, <1>4, <1>5, <1>6, <1>7, <1>9, <1>10

LEMMA SystemNewHolder ==
  /\ NewHolder(System_SharedCtor, "system_guid", "system_name", "cameras")
  /\ HolderRecord(System_SharedCtor, "system_guid", "system_name", "cameras", RawSystemCameras)
  /\ System_SharedCtor["unknown"] = << >>
  /\ DOMAIN System_SharedCtor = {"system_guid", "system_name", "cameras", "unknown"}
<1> DEFINE m == System_SharedCtor
           none == << >>
<1>1. m = [system_guid |-> none, system_name |-> none, cameras |-> none, unknown |-> none]
  BY DEF System_SharedCtor
<1>2. none \in Seq(RawSystemCameras)
  OBVIOUS
<1> HIDE DEF m, none
<1>3. /\ DOMAIN m = {"system_guid", "system_name", "cameras", "unknown"}
      /\ m["system_guid"] = none /\ m["system_name"] = none /\ m["cameras"] = none /\ m["unknown"] = none
  BY <1>1
<1>4. m = [g \in DOMAIN m |-> m[g]]
  BY <1>1
<1>5. NewHolder(m, "system_guid", "system_name", "cameras")
  BY <1>3, <1>4 DEF NewHolder, IsRecord, none
<1>6. HolderRecord(m, "system_guid", "system_name", "cameras", RawSystemCameras)
  BY <1>2, <1>3, <1>4 DEF HolderRecord, IsRecord
<1> QED
  BY <1>3, <1>5, <1>6 DEF m, none

LEMMA SystemMessageIs ==
  ASSUME NEW info \in SystemData, \A i \in 1 .. Len(info.cameras) : System_CameraInfo_ByteSizeLong(CameraNode(info.cameras[i])) < IntSpan
  PROVE  SystemMessage(info) = SystemSaved(info, Len(SystemNodes(info)))
<1> DEFINE l == info.cameras
           N == Len(l)
           f == "cameras"
           nodes == SystemNodes(info)
           new == System_SharedCtor
           start == System_set_system_name(System_set_system_guid(new, info.system_guid), convert_unicode_to_utf8(info.system_name))
           m == Named(new, "system_guid", "system_name", SystemGuid(info), SystemName(info))
           Rec(g) == [n \in 0 .. N |-> IF n = 0 THEN start ELSE System_add_cameras(g[n - 1], CameraNode(l[n]))]
           g == CHOOSE g : g = Rec(g)
<1>1. SystemMessage(info) = g[N]
  BY DEF SystemMessage
<1>2. /\ nodes \in Seq(RawSystemCameras) /\ Len(nodes) = N /\ N \in Nat
      /\ \A i \in 1 .. N : nodes[i] = CameraNode(l[i])
  BY SystemInfoIs
<1>3. NewHolder(new, "system_guid", "system_name", "cameras")
  BY SystemNewHolder
<1>4. start = m
  <2> DEFINE guid == SystemGuid(info)
             name == SystemName(info)
             g1 == Guided(new, "system_guid", guid)
  <2>1. new["system_guid"] = << >> /\ g1["system_name"] = << >>
    <3>1. new["system_guid"] = << >>
      BY <1>3 DEF NewHolder
    <3>2. g1["system_name"] = << >> /\ Named(new, "system_guid", "system_name", guid, name)["system_name"] = name
      <4> HIDE DEF new, guid, name
      <4> QED
        BY <1>3, NewHolderFields
    <3> QED
      BY <3>1, <3>2
  <2>2. start = FieldSet(FieldSet(new, "system_guid", guid), "system_name", name)
    BY DEF FieldSet, System_set_system_guid, System_set_system_name, SystemGuid, SystemName
  <2> HIDE DEF new, guid, name, start
  <2>3. g1 = FieldSet(new, "system_guid", guid)
    BY <2>1 DEF Guided, Assigned
  <2>4. Named(new, "system_guid", "system_name", guid, name) = FieldSet(g1, "system_name", name)
    <3> HIDE DEF g1
    <3>1. Named(new, "system_guid", "system_name", guid, name) = FieldSet(g1, "system_name", Assigned(g1["system_name"], name, << >>))
      BY DEF Named, g1
    <3> QED
      BY <2>1, <3>1 DEF Assigned
  <2> QED
    BY <2>2, <2>3, <2>4 DEF guid, name
<1>5. /\ IsRecord(m) /\ f \in DOMAIN m /\ m[f] \in Seq(RawSystemCameras)
  <2>1. IsRecord(m) /\ DOMAIN m = DOMAIN new /\ m[f] = << >>
    BY <1>3, NewHolderFields
  <2>2. f \in DOMAIN new
    BY <1>3 DEF NewHolder
  <2> QED
    BY <2>1, <2>2, EmptySeq
<1> HIDE DEF nodes, m, start, N, l
<1>6. ASSUME NEW h PROVE Rec(h) = [n \in 0 .. Len(nodes) |->
                 IF n = 0 THEN m ELSE FieldSet(h[n - 1], f, Append(h[n - 1][f], nodes[n]))]
  <2>1. ASSUME NEW n \in 0 .. N
        PROVE  (IF n = 0 THEN start ELSE System_add_cameras(h[n - 1], CameraNode(l[n])))
                 = IF n = 0 THEN m ELSE FieldSet(h[n - 1], f, Append(h[n - 1][f], nodes[n]))
    <3>1. CASE n = 0
      BY <1>4, <3>1
    <3>2. CASE n # 0
      <4>1. n \in 1 .. N
        BY <1>2, <3>2
      <4>2. nodes[n] = CameraNode(l[n])
        BY <1>2, <4>1
      <4> DEFINE d == h[n - 1]
                 e == CameraNode(l[n])
      <4> HIDE DEF d, e
      <4>3. System_add_cameras(d, e) = FieldSet(d, f, Append(d[f], e))
        BY DEF System_add_cameras, FieldSet
      <4> QED
        BY <3>2, <4>2, <4>3 DEF d, e
    <3> QED
      BY <3>1, <3>2
  <2> QED
    BY <1>2, <2>1
<1>7. \A h : h = Rec(h) <=> IsAdded(h, m, f, nodes)
  <2> HIDE DEF Rec
  <2> QED
    BY <1>6, Zenon DEF IsAdded
<1>8. \E h : h = Rec(h)
  <2> HIDE DEF Rec, f
  <2>1. \E h : IsAdded(h, m, f, nodes)
    BY <1>2, <1>5, AddedParts
  <2> QED
    BY <1>7, <2>1
<1>9. g = Rec(g)
  <2> HIDE DEF Rec
  <2> QED
    BY <1>8
<1> HIDE DEF g
<1>10. g[Len(nodes)] = WithParts(m, f, nodes, Len(nodes))
  <2> HIDE DEF Rec, f
  <2>1. IsAdded(g, m, f, nodes)
    BY <1>7, <1>9
  <2> QED
    BY <1>2, <1>5, <2>1, AddedParts
<1> QED
  BY <1>1, <1>2, <1>10 DEF SystemSaved, m, nodes, new

----------------------------------------------------------------------------
(* The bytes that are saved, and what they or the first of them are read   *)
(* as.                                                                     *)
CameraGood(info) ==
  HolderFits(CameraGuid(info), CameraName(info), StreamFits(CameraNodes(info)), Len(CameraNodes(info)))

LEMMA CameraSavedFields ==
  ASSUME NEW info \in CameraData, \A i \in 1 .. Len(info.stream_info) : StreamInfo_ByteSizeLong(StreamNode(info.stream_info[i])) < IntSpan,
         NEW n \in 0 .. Len(CameraNodes(info))
  PROVE  /\ IsRecord(CameraSaved(info, n))
         /\ DOMAIN CameraSaved(info, n) = {"camera_guid", "camera_name", "stream_info", "unknown"}
         /\ CameraSaved(info, n).camera_guid = CameraGuid(info) /\ CameraSaved(info, n).camera_name = CameraName(info)
         /\ CameraSaved(info, n).stream_info = SubSeq(CameraNodes(info), 1, n)
         /\ CameraSaved(info, n).unknown = << >>
<1> DEFINE m == Camera_SharedCtor
           guid == CameraGuid(info)
           name == CameraName(info)
           nodes == CameraNodes(info)
           h == WithParts(Named(m, "camera_guid", "camera_name", guid, name), "stream_info", nodes, n)
<1>1. nodes \in Seq(RawStreams)
  BY CameraInfoIs
<1>2. /\ NewHolder(m, "camera_guid", "camera_name", "stream_info") /\ m["unknown"] = << >>
      /\ DOMAIN m = {"camera_guid", "camera_name", "stream_info", "unknown"}
  BY CameraNewHolder
<1>3. n \in 0 .. Len(nodes)
  OBVIOUS
<1>4. CameraSaved(info, n) = h
  BY DEF CameraSaved
<1> HIDE DEF m, guid, name, nodes
<1>5. /\ IsRecord(h) /\ DOMAIN h = DOMAIN m
      /\ h["camera_guid"] = guid /\ h["camera_name"] = name /\ h["stream_info"] = SubSeq(nodes, 1, n)
      /\ \A f \in DOMAIN m : f # "camera_guid" /\ f # "camera_name" /\ f # "stream_info" => h[f] = m[f]
  BY <1>1, <1>2, <1>3, NewHolderRead
<1> HIDE DEF h
<1>6. h["unknown"] = << >>
  <2>1. "unknown" \in DOMAIN m
    BY <1>2
  <2>2. "unknown" # "camera_guid" /\ "unknown" # "camera_name" /\ "unknown" # "stream_info"
    OBVIOUS
  <2> QED
    BY <1>2, <1>5, <2>1, <2>2
<1> QED
  BY <1>2, <1>4, <1>5, <1>6 DEF guid, name, nodes

LEMMA CameraSavedBytes ==
  ASSUME NEW info \in CameraData, \A i \in 1 .. Len(info.stream_info) : StreamInfo_ByteSizeLong(StreamNode(info.stream_info[i])) < IntSpan
  PROVE  LET full == Bytes("camera", info)
         IN  full \in Seq(Octet) /\ full = HolderText(CameraGuid(info), CameraName(info), StreamList(CameraNodes(info)))
<1> DEFINE m == CameraMessage(info)
           guid == CameraGuid(info)
           name == CameraName(info)
           nodes == CameraNodes(info)
           w == HolderText(guid, name, StreamList(nodes))
<1>1. nodes \in Seq(RawStreams) /\ Len(nodes) \in 0 .. Len(nodes) /\ guid \in Raw /\ name \in Raw
  <2>1. nodes \in Seq(RawStreams) /\ guid \in Raw /\ name \in Raw
    BY CameraInfoIs
  <2> QED
    BY <2>1
<1>2. m = CameraSaved(info, Len(nodes))
  BY CameraMessageIs
<1>3. /\ IsRecord(m) /\ DOMAIN m = {"camera_guid", "camera_name", "stream_info", "unknown"}
      /\ m.camera_guid = guid /\ m.camera_name = name /\ m.stream_info = SubSeq(nodes, 1, Len(nodes)) /\ m.unknown = << >>
  BY <1>1, <1>2, CameraSavedFields
<1>4. m.stream_info = nodes
  <2> HIDE DEF nodes, m
  <2> QED
    BY <1>1, <1>3
<1>5. Bytes("camera", info) = Camera_SerializeWithCachedSizes(m)
  BY CameraArray DEF Bytes
<1>6. \A i \in 1 .. Len(nodes) : StreamInfo_ByteSizeLong(nodes[i]) < IntSpan
  BY CameraInfoIs
<1> HIDE DEF m, guid, name, nodes
<1>7. Camera_SerializeWithCachedSizes(m) = w \o << >>
  BY <1>3, <1>4, CameraText
<1>8. m \in RawCameras
  <2> DEFINE S == Seq(RawStreams)
             T == Raw
             V == NewTo("Camera")
  <2>1. << >> \in V
    BY NothingNew
  <2>2. m.camera_guid \in T /\ m.camera_name \in T /\ m.stream_info \in S /\ m.unknown \in V
    BY <1>1, <1>3, <1>4, <2>1
  <2> HIDE DEF S, T, V
  <2>3. m \in [camera_guid : T, camera_name : T, stream_info : S, unknown : V]
    BY <1>3, <2>2 DEF IsRecord
  <2> QED
    BY <2>3 DEF RawCameras, S, T, V
<1>9. CameraFits(m)
  BY <1>4, <1>6 DEF CameraFits
<1>10. w \in Seq(Octet)
  <2>1. HolderText(m.camera_guid, m.camera_name, StreamList(m.stream_info)) \in Seq(Octet)
    BY <1>8, <1>9, CameraBytes
  <2> QED
    BY <1>3, <1>4, <2>1
<1> HIDE DEF w
<1>11. w \o << >> = w
  BY <1>10, ConcatEmptySeq
<1> QED
  BY <1>5, <1>7, <1>10, <1>11 DEF w, guid, name, nodes

LEMMA CameraFileRead ==
  ASSUME NEW info \in CameraData, \A i \in 1 .. Len(info.stream_info) : StreamInfo_ByteSizeLong(StreamNode(info.stream_info[i])) < IntSpan,
         NEW b \in Seq(Octet), Prefix(b, Bytes("camera", info))
  PROVE  LET full == Bytes("camera", info)
             read == Parsed("camera", b)
         IN  /\ Len(b) = Len(full) /\ CameraGood(info) =>
                  read.ok /\ read.m = CameraSaved(info, Len(CameraNodes(info)))
             /\ Len(b) = Len(full) /\ ~CameraGood(info) => ~read.ok
             /\ Len(b) # Len(full) /\ read.ok =>
                  read.m \in TornRead(Camera_SharedCtor, "camera_guid", "camera_name", "stream_info", CameraGuid(info), CameraName(info),
                                      CameraNodes(info))
<1> DEFINE k == "Camera"
           fg == "camera_guid"
           fn == "camera_name"
           fp == "stream_info"
           j == "StreamInfo"
           full == Bytes("camera", info)
           m0 == Camera_SharedCtor
           T == RawStreams
           guid == CameraGuid(info)
           name == CameraName(info)
           nodes == CameraNodes(info)
           s == StreamTexts(nodes)
           fits == StreamFits(nodes)
           parts == StreamList(nodes)
           read == Parse(k, m0, b)
           good == HolderFits(guid, name, fits, Len(nodes))
           m == HolderRead(m0, fg, fn, fp, guid, name, nodes)
<1>1. k \in Classes
  BY DEF Classes
<1>2. HolderClass(k, fg, fn, fp, j)
  <2>1. fg # fp /\ fn # fp
    OBVIOUS
  <2> QED
    BY <2>1, ReadsCamera DEF HolderClass
<1>3. HolderRecord(m0, fg, fn, fp, T)
  BY CameraNewHolder
<1>4. HolderWritten(j, guid, name, T, nodes, s, fits, parts)
  <2>1. /\ nodes \in Seq(T) /\ guid \in Raw /\ name \in Raw
        /\ \A i \in 1 .. Len(nodes) : StreamInfo_ByteSizeLong(nodes[i]) < IntSpan
    BY CameraInfoIs
  <2> HIDE DEF nodes, guid, name
  <2>2. PartsRead(j, s, nodes, fits) /\ PartsWritten(parts, s, Len(nodes))
    BY <2>1, StreamParts
  <2> QED
    BY <2>1, <2>2 DEF HolderWritten
<1>5. full \in Seq(Octet) /\ full = HolderText(guid, name, parts)
  BY CameraSavedBytes
<1>6. Prefix(b, full)
  OBVIOUS
<1>7. Parsed("camera", b) = read
  BY DEF Parsed, Parse, ByClass
<1>8. CameraGood(info) = good
  BY DEF CameraGood
<1>9. CameraSaved(info, Len(nodes)) = m
  BY DEF CameraSaved, HolderRead
<1> HIDE DEF k, fg, fn, fp, j, full, m0, T, guid, name, nodes, s, fits, parts
<1>10. /\ Len(b) = Len(full) /\ good => read = Going(m, Len(b) + 1)
       /\ Len(b) = Len(full) /\ ~good => ~read.ok
       /\ Len(b) # Len(full) /\ read.ok => read.m \in TornRead(m0, fg, fn, fp, guid, name, nodes)
  BY <1>1, <1>2, <1>3, <1>4, <1>5, <1>6, HolderFile
<1>11. read = Going(m, Len(b) + 1) => read.ok /\ read.m = m
  BY DEF Going, Cursor
<1> HIDE DEF read, good, m
<1>12. /\ Len(b) = Len(full) /\ good => read.ok /\ read.m = m
       /\ Len(b) = Len(full) /\ ~good => ~read.ok
       /\ Len(b) # Len(full) /\ read.ok => read.m \in TornRead(m0, fg, fn, fp, guid, name, nodes)
  BY <1>10, <1>11
<1> QED
  BY <1>7, <1>8, <1>9, <1>12 DEF full, m0, fg, fn, fp, guid, name, nodes

SystemGood(info) ==
  HolderFits(SystemGuid(info), SystemName(info), SystemCameraFits(SystemNodes(info)), Len(SystemNodes(info)))

LEMMA SystemSavedFields ==
  ASSUME NEW info \in SystemData, \A i \in 1 .. Len(info.cameras) : System_CameraInfo_ByteSizeLong(CameraNode(info.cameras[i])) < IntSpan,
         NEW n \in 0 .. Len(SystemNodes(info))
  PROVE  /\ IsRecord(SystemSaved(info, n))
         /\ DOMAIN SystemSaved(info, n) = {"system_guid", "system_name", "cameras", "unknown"}
         /\ SystemSaved(info, n).system_guid = SystemGuid(info) /\ SystemSaved(info, n).system_name = SystemName(info)
         /\ SystemSaved(info, n).cameras = SubSeq(SystemNodes(info), 1, n)
         /\ SystemSaved(info, n).unknown = << >>
<1> DEFINE m == System_SharedCtor
           guid == SystemGuid(info)
           name == SystemName(info)
           nodes == SystemNodes(info)
           h == WithParts(Named(m, "system_guid", "system_name", guid, name), "cameras", nodes, n)
<1>1. nodes \in Seq(RawSystemCameras)
  BY SystemInfoIs
<1>2. /\ NewHolder(m, "system_guid", "system_name", "cameras") /\ m["unknown"] = << >>
      /\ DOMAIN m = {"system_guid", "system_name", "cameras", "unknown"}
  BY SystemNewHolder
<1>3. n \in 0 .. Len(nodes)
  OBVIOUS
<1>4. SystemSaved(info, n) = h
  BY DEF SystemSaved
<1> HIDE DEF m, guid, name, nodes
<1>5. /\ IsRecord(h) /\ DOMAIN h = DOMAIN m
      /\ h["system_guid"] = guid /\ h["system_name"] = name /\ h["cameras"] = SubSeq(nodes, 1, n)
      /\ \A f \in DOMAIN m : f # "system_guid" /\ f # "system_name" /\ f # "cameras" => h[f] = m[f]
  BY <1>1, <1>2, <1>3, NewHolderRead
<1> HIDE DEF h
<1>6. h["unknown"] = << >>
  <2>1. "unknown" \in DOMAIN m
    BY <1>2
  <2>2. "unknown" # "system_guid" /\ "unknown" # "system_name" /\ "unknown" # "cameras"
    OBVIOUS
  <2> QED
    BY <1>2, <1>5, <2>1, <2>2
<1> QED
  BY <1>2, <1>4, <1>5, <1>6 DEF guid, name, nodes

LEMMA SystemSavedBytes ==
  ASSUME NEW info \in SystemData, \A i \in 1 .. Len(info.cameras) : System_CameraInfo_ByteSizeLong(CameraNode(info.cameras[i])) < IntSpan
  PROVE  LET full == Bytes("system", info)
         IN  full \in Seq(Octet) /\ full = HolderText(SystemGuid(info), SystemName(info), SystemCameraList(SystemNodes(info)))
<1> DEFINE m == SystemMessage(info)
           guid == SystemGuid(info)
           name == SystemName(info)
           nodes == SystemNodes(info)
           w == HolderText(guid, name, SystemCameraList(nodes))
<1>1. nodes \in Seq(RawSystemCameras) /\ Len(nodes) \in 0 .. Len(nodes) /\ guid \in Raw /\ name \in Raw
  <2>1. nodes \in Seq(RawSystemCameras) /\ guid \in Raw /\ name \in Raw
    BY SystemInfoIs
  <2> QED
    BY <2>1
<1>2. m = SystemSaved(info, Len(nodes))
  BY SystemMessageIs
<1>3. /\ IsRecord(m) /\ DOMAIN m = {"system_guid", "system_name", "cameras", "unknown"}
      /\ m.system_guid = guid /\ m.system_name = name /\ m.cameras = SubSeq(nodes, 1, Len(nodes)) /\ m.unknown = << >>
  BY <1>1, <1>2, SystemSavedFields
<1>4. m.cameras = nodes
  <2> HIDE DEF nodes, m
  <2> QED
    BY <1>1, <1>3
<1>5. Bytes("system", info) = System_SerializeWithCachedSizes(m)
  BY SystemArray DEF Bytes
<1>6. \A i \in 1 .. Len(nodes) : System_CameraInfo_ByteSizeLong(nodes[i]) < IntSpan
  BY SystemInfoIs
<1> HIDE DEF m, guid, name, nodes
<1>7. System_SerializeWithCachedSizes(m) = w \o << >>
  BY <1>3, <1>4, SystemText
<1>8. m \in RawSystems
  <2> DEFINE S == Seq(RawSystemCameras)
             T == Raw
             V == NewTo("System")
  <2>1. << >> \in V
    BY NothingNew
  <2>2. m.system_guid \in T /\ m.system_name \in T /\ m.cameras \in S /\ m.unknown \in V
    BY <1>1, <1>3, <1>4, <2>1
  <2> HIDE DEF S, T, V
  <2>3. m \in [system_guid : T, system_name : T, cameras : S, unknown : V]
    BY <1>3, <2>2 DEF IsRecord
  <2> QED
    BY <2>3 DEF RawSystems, S, T, V
<1>9. SystemFits(m)
  BY <1>4, <1>6 DEF SystemFits
<1>10. w \in Seq(Octet)
  <2>1. HolderText(m.system_guid, m.system_name, SystemCameraList(m.cameras)) \in Seq(Octet)
    BY <1>8, <1>9, SystemBytes
  <2> QED
    BY <1>3, <1>4, <2>1
<1> HIDE DEF w
<1>11. w \o << >> = w
  BY <1>10, ConcatEmptySeq
<1> QED
  BY <1>5, <1>7, <1>10, <1>11 DEF w, guid, name, nodes

LEMMA SystemFileRead ==
  ASSUME NEW info \in SystemData, \A i \in 1 .. Len(info.cameras) : System_CameraInfo_ByteSizeLong(CameraNode(info.cameras[i])) < IntSpan,
         NEW b \in Seq(Octet), Prefix(b, Bytes("system", info))
  PROVE  LET full == Bytes("system", info)
             read == Parsed("system", b)
         IN  /\ Len(b) = Len(full) /\ SystemGood(info) =>
                  read.ok /\ read.m = SystemSaved(info, Len(SystemNodes(info)))
             /\ Len(b) = Len(full) /\ ~SystemGood(info) => ~read.ok
             /\ Len(b) # Len(full) /\ read.ok =>
                  read.m \in TornRead(System_SharedCtor, "system_guid", "system_name", "cameras", SystemGuid(info), SystemName(info),
                                      SystemNodes(info))
<1> DEFINE k == "System"
           fg == "system_guid"
           fn == "system_name"
           fp == "cameras"
           j == "System_CameraInfo"
           full == Bytes("system", info)
           m0 == System_SharedCtor
           T == RawSystemCameras
           guid == SystemGuid(info)
           name == SystemName(info)
           nodes == SystemNodes(info)
           s == SystemCameraTexts(nodes)
           fits == SystemCameraFits(nodes)
           parts == SystemCameraList(nodes)
           read == Parse(k, m0, b)
           good == HolderFits(guid, name, fits, Len(nodes))
           m == HolderRead(m0, fg, fn, fp, guid, name, nodes)
<1>1. k \in Classes
  BY DEF Classes
<1>2. HolderClass(k, fg, fn, fp, j)
  <2>1. fg # fp /\ fn # fp
    OBVIOUS
  <2> QED
    BY <2>1, ReadsSystem DEF HolderClass
<1>3. HolderRecord(m0, fg, fn, fp, T)
  BY SystemNewHolder
<1>4. HolderWritten(j, guid, name, T, nodes, s, fits, parts)
  <2>1. /\ nodes \in Seq(T) /\ guid \in Raw /\ name \in Raw
        /\ \A i \in 1 .. Len(nodes) : System_CameraInfo_ByteSizeLong(nodes[i]) < IntSpan
    BY SystemInfoIs
  <2> HIDE DEF nodes, guid, name
  <2>2. PartsRead(j, s, nodes, fits) /\ PartsWritten(parts, s, Len(nodes))
    BY <2>1, SystemCameraParts
  <2> QED
    BY <2>1, <2>2 DEF HolderWritten
<1>5. full \in Seq(Octet) /\ full = HolderText(guid, name, parts)
  BY SystemSavedBytes
<1>6. Prefix(b, full)
  OBVIOUS
<1>7. Parsed("system", b) = read
  BY DEF Parsed, Parse, ByClass
<1>8. SystemGood(info) = good
  BY DEF SystemGood
<1>9. SystemSaved(info, Len(nodes)) = m
  BY DEF SystemSaved, HolderRead
<1> HIDE DEF k, fg, fn, fp, j, full, m0, T, guid, name, nodes, s, fits, parts
<1>10. /\ Len(b) = Len(full) /\ good => read = Going(m, Len(b) + 1)
       /\ Len(b) = Len(full) /\ ~good => ~read.ok
       /\ Len(b) # Len(full) /\ read.ok => read.m \in TornRead(m0, fg, fn, fp, guid, name, nodes)
  BY <1>1, <1>2, <1>3, <1>4, <1>5, <1>6, HolderFile
<1>11. read = Going(m, Len(b) + 1) => read.ok /\ read.m = m
  BY DEF Going, Cursor
<1> HIDE DEF read, good, m
<1>12. /\ Len(b) = Len(full) /\ good => read.ok /\ read.m = m
       /\ Len(b) = Len(full) /\ ~good => ~read.ok
       /\ Len(b) # Len(full) /\ read.ok => read.m \in TornRead(m0, fg, fn, fp, guid, name, nodes)
  BY <1>10, <1>11
<1> QED
  BY <1>7, <1>8, <1>9, <1>12 DEF full, m0, fg, fn, fp, guid, name, nodes

----------------------------------------------------------------------------
(* The structures that a load makes of them. *)
TextsValid(k, info) == \A t \in RawTexts(k, info) : IsStructurallyValidUTF8(t)

LEMMA CameraGoodTexts ==
  ASSUME NEW info \in CameraData,
         \A i \in 1 .. Len(info.stream_info) :
           StreamInfo_ByteSizeLong(StreamNode(info.stream_info[i])) < IntSpan
  PROVE  CameraGood(info) <=> TextsValid("camera", info)
<1> DEFINE l == info.stream_info
           N == Len(l)
           nodes == CameraNodes(info)
           Own(i) == {l[i].url, l[i].ip, l[i].user_id, l[i].user_pw}
           V(t) == IsStructurallyValidUTF8(t)
<1>1. /\ Len(nodes) = N /\ DOMAIN l = 1 .. N
      /\ \A i \in 1 .. N : nodes[i] = StreamNode(l[i]) /\ l[i] \in StreamData
      /\ IsName(CameraName(info), info.camera_name)
  BY CameraInfoIs
<1>2. IsStructurallyValidUTF8(CameraName(info))
  BY <1>1 DEF IsName
<1>3. ASSUME NEW i \in 1 .. N PROVE StreamFits(nodes)[i] <=> \A t \in Own(i) : V(t)
  <2>1. nodes[i] = StreamNode(l[i]) /\ l[i] \in StreamData
    BY <1>1
  <2>2. StreamFits(nodes)[i] = StreamTextsValid(nodes[i])
    BY <1>1 DEF StreamFits
  <2>3. StreamTextsValid(nodes[i]) <=> V(l[i].url) /\ V(l[i].ip) /\ V(l[i].user_id) /\ V(l[i].user_pw)
    <3> HIDE DEF l, nodes
    <3> QED
      BY <2>1, StreamNodeRaw
  <2> HIDE DEF l, nodes, V
  <2> QED
    BY <2>2, <2>3
<1>4. RawTexts("camera", info) = {info.camera_guid} \cup UNION {Own(i) : i \in 1 .. N}
  BY <1>1 DEF RawTexts
<1>5. CameraGood(info) <=> V(info.camera_guid) /\ AllFit(StreamFits(nodes), N)
  BY <1>1, <1>2 DEF CameraGood, HolderFits, CameraGuid
<1>6. AllFit(StreamFits(nodes), N) <=> \A i \in 1 .. N : \A t \in Own(i) : V(t)
  <2> HIDE DEF Own, V, nodes, N
  <2> QED
    BY <1>3 DEF AllFit
<1>7. TextsValid("camera", info) <=> V(info.camera_guid) /\ \A i \in 1 .. N : \A t \in Own(i) : V(t)
  <2> HIDE DEF Own, V, N
  <2> QED
    BY <1>4 DEF TextsValid, V
<1> QED
  BY <1>5, <1>6, <1>7

LEMMA CameraBack ==
  ASSUME NEW info \in CameraData,
         \A i \in 1 .. Len(info.stream_info) :
           StreamInfo_ByteSizeLong(StreamNode(info.stream_info[i])) < IntSpan
  PROVE  LET m == CameraSaved(info, Len(CameraNodes(info)))
         IN  HasStreams(m) /\ CameraOf(m) = info
<1> DEFINE l == info.stream_info
           nodes == CameraNodes(info)
           N == Len(nodes)
           m == CameraSaved(info, N)
<1>1. /\ nodes \in Seq(RawStreams) /\ N = Len(l) /\ N \in Nat /\ DOMAIN l = 1 .. N
      /\ \A i \in 1 .. N : nodes[i] = StreamNode(l[i]) /\ l[i] \in StreamData
      /\ IsName(CameraName(info), info.camera_name)
  BY CameraInfoIs
<1>2. /\ info = [camera_guid |-> info.camera_guid, camera_name |-> info.camera_name, stream_info |-> l]
      /\ l = [i \in 1 .. StreamCount |-> l[i]] /\ DOMAIN l = 1 .. StreamCount
  <2> DEFINE S == [1 .. StreamCount -> StreamData]
             T == CodePageText
             W == WideText
  <2>1. info \in [camera_guid : T, camera_name : W, stream_info : S]
    BY DEF CameraData
  <2>2. l \in S
    <3> HIDE DEF S, T, W
    <3> QED
      BY <2>1
  <2>3. info = [camera_guid |-> info.camera_guid, camera_name |-> info.camera_name, stream_info |-> l]
    <3> HIDE DEF S, T, W
    <3> QED
      BY <2>1
  <2> HIDE DEF l
  <2> QED
    BY <2>2, <2>3
<1>3. N = StreamCount /\ StreamCount \in Nat
  BY <1>1, <1>2 DEF StreamCount
<1>4. /\ m.camera_guid = info.camera_guid /\ m.camera_name = CameraName(info)
      /\ m.stream_info = SubSeq(nodes, 1, N)
  <2>1. N \in 0 .. N
    BY <1>1
  <2> HIDE DEF N, nodes
  <2>2. N = Len(CameraNodes(info)) /\ nodes = CameraNodes(info)
    BY DEF N, nodes
  <2> QED
    BY <2>1, <2>2, CameraSavedFields DEF CameraGuid
<1> HIDE DEF m, nodes
<1>5. m.stream_info = nodes
  BY <1>1, <1>4
<1>6. HasStreams(m)
  BY <1>1, <1>3, <1>5 DEF HasStreams
<1>7. convert_utf8_to_unicode(m.camera_name) = info.camera_name
  BY <1>1, <1>4 DEF IsName, convert_utf8_to_unicode
<1>8. [i \in 1 .. StreamCount |-> StreamOf(m.stream_info[i])] = l
  <2>1. ASSUME NEW i \in 1 .. StreamCount PROVE StreamOf(m.stream_info[i]) = l[i]
    <3>1. i \in 1 .. N
      BY <1>3
    <3>2. m.stream_info[i] = StreamNode(l[i]) /\ l[i] \in StreamData
      BY <1>1, <1>5, <3>1
    <3> HIDE DEF l
    <3> QED
      BY <3>2, StreamNodeRaw
  <2> HIDE DEF l
  <2> QED
    BY <1>2, <2>1
<1>9. CameraOf(m) = [camera_guid |-> info.camera_guid, camera_name |-> info.camera_name, stream_info |-> l]
  BY <1>4, <1>7, <1>8 DEF CameraOf
<1>10. CameraOf(m) = info
  <2> HIDE DEF l
  <2> QED
    BY <1>2, <1>9
<1> QED
  BY <1>6, <1>10 DEF m, nodes

(* A camera's file that is not whole has too few streams. *)
LEMMA CameraTorn ==
  ASSUME NEW info \in CameraData,
         \A i \in 1 .. Len(info.stream_info) :
           StreamInfo_ByteSizeLong(StreamNode(info.stream_info[i])) < IntSpan,
         NEW m \in TornRead(Camera_SharedCtor, "camera_guid", "camera_name", "stream_info",
                            CameraGuid(info), CameraName(info), CameraNodes(info))
  PROVE  ~HasStreams(m)
<1> DEFINE nodes == CameraNodes(info)
           N == Len(nodes)
           new == Camera_SharedCtor
<1>1. nodes \in Seq(RawStreams) /\ N = Len(info.stream_info) /\ N \in Nat
  BY CameraInfoIs
<1>2. N = StreamCount
  <2> DEFINE l == info.stream_info
             S == [1 .. StreamCount -> StreamData]
             T == CodePageText
             W == WideText
  <2>1. info \in [camera_guid : T, camera_name : W, stream_info : S]
    BY DEF CameraData
  <2>2. l \in S
    <3> HIDE DEF S, T, W
    <3> QED
      BY <2>1
  <2>3. l \in Seq(StreamData) /\ DOMAIN l = 1 .. StreamCount
    <3>1. StreamCount \in Nat
      BY DEF StreamCount
    <3> HIDE DEF l
    <3> QED
      BY <2>2, <3>1
  <2> HIDE DEF l
  <2>4. Len(l) = StreamCount
    BY <2>3, LenProperties DEF StreamCount
  <2> QED
    BY <1>1, <2>4 DEF l
<1>3. NewHolder(new, "camera_guid", "camera_name", "stream_info")
  BY CameraNewHolder
<1>4. new["stream_info"] = << >>
  BY <1>3 DEF NewHolder
<1>5. ASSUME NEW a, a["stream_info"] = << >> PROVE ~HasStreams(a)
  <2>1. Len(a.stream_info) = 0
    BY <1>5
  <2> QED
    BY <2>1 DEF HasStreams, StreamCount
<1>6. CASE m = new
  BY <1>4, <1>5, <1>6
<1>7. CASE m = Guided(new, "camera_guid", CameraGuid(info))
  <2> DEFINE g1 == Guided(new, "camera_guid", CameraGuid(info))
  <2>1. /\ g1["stream_info"] = << >>
        /\ Named(new, "camera_guid", "camera_name", CameraGuid(info), CameraName(info))["stream_info"] = << >>
    <3> HIDE DEF new
    <3> QED
      BY <1>3, NewHolderFields
  <2> QED
    BY <1>5, <1>7, <2>1
<1>8. ASSUME NEW n \in 0 .. (N - 1), m = CameraSaved(info, n) PROVE ~HasStreams(m)
  <2>1. n \in 0 .. N /\ n < StreamCount
    BY <1>1, <1>2
  <2>2. m.stream_info = SubSeq(nodes, 1, n)
    BY <1>8, <2>1, CameraSavedFields
  <2>3. Len(SubSeq(nodes, 1, n)) = n
    <3> HIDE DEF nodes
    <3> QED
      BY <1>1, <2>1
  <2> HIDE DEF nodes
  <2> QED
    BY <1>1, <2>1, <2>2, <2>3 DEF HasStreams, StreamCount
<1> HIDE DEF nodes, N, new
<1>9. m = new \/ m = Guided(new, "camera_guid", CameraGuid(info))
      \/ \E n \in 0 .. (N - 1) : m = CameraSaved(info, n)
  BY DEF TornRead, CameraSaved, nodes, N, new
<1> QED
  BY <1>6, <1>7, <1>8, <1>9

LEMMA SystemGoodTexts ==
  ASSUME NEW info \in SystemData,
         \A i \in 1 .. Len(info.cameras) :
           System_CameraInfo_ByteSizeLong(CameraNode(info.cameras[i])) < IntSpan
  PROVE  SystemGood(info) <=> TextsValid("system", info)
<1> DEFINE l == info.cameras
           N == Len(l)
           nodes == SystemNodes(info)
           V(t) == IsStructurallyValidUTF8(t)
<1>1. /\ Len(nodes) = N /\ DOMAIN l = 1 .. N
      /\ \A i \in 1 .. N : nodes[i] = CameraNode(l[i]) /\ l[i] \in CodePageText
      /\ IsName(SystemName(info), info.system_name)
  BY SystemInfoIs
<1>2. IsStructurallyValidUTF8(SystemName(info))
  BY <1>1 DEF IsName
<1>3. ASSUME NEW i \in 1 .. N PROVE SystemCameraFits(nodes)[i] <=> V(l[i])
  <2>1. nodes[i] = CameraNode(l[i]) /\ l[i] \in CodePageText
    BY <1>1
  <2>2. SystemCameraFits(nodes)[i] = SystemCameraTextsValid(nodes[i])
    BY <1>1 DEF SystemCameraFits
  <2>3. SystemCameraTextsValid(nodes[i]) <=> V(l[i])
    <3> HIDE DEF l, nodes
    <3> QED
      BY <2>1, CameraNodeRaw
  <2> HIDE DEF l, nodes, V
  <2> QED
    BY <2>2, <2>3
<1>4. RawTexts("system", info) = {info.system_guid} \cup {l[i] : i \in 1 .. N}
  BY <1>1 DEF RawTexts
<1>5. SystemGood(info) <=> V(info.system_guid) /\ AllFit(SystemCameraFits(nodes), N)
  BY <1>1, <1>2 DEF SystemGood, HolderFits, SystemGuid
<1>6. AllFit(SystemCameraFits(nodes), N) <=> \A i \in 1 .. N : V(l[i])
  <2> HIDE DEF V, nodes, N
  <2> QED
    BY <1>3 DEF AllFit
<1>7. TextsValid("system", info) <=> V(info.system_guid) /\ \A i \in 1 .. N : V(l[i])
  <2> HIDE DEF V, N
  <2> QED
    BY <1>4 DEF TextsValid, V
<1> QED
  BY <1>5, <1>6, <1>7

LEMMA SystemCut ==
  ASSUME NEW info \in SystemData,
         \A i \in 1 .. Len(info.cameras) :
           System_CameraInfo_ByteSizeLong(CameraNode(info.cameras[i])) < IntSpan,
         NEW n \in 0 .. Len(info.cameras),
         NEW m, m.cameras = SubSeq(SystemNodes(info), 1, n)
  PROVE  SystemOf(m).cameras = SubSeq(info.cameras, 1, n)
<1> DEFINE l == info.cameras
           N == Len(l)
           nodes == SystemNodes(info)
           p == SubSeq(nodes, 1, n)
           q == SubSeq(l, 1, n)
           r == [i \in DOMAIN p |-> p[i].camera_guid]
<1>1. /\ nodes \in Seq(RawSystemCameras) /\ Len(nodes) = N /\ N \in Nat
      /\ \A i \in 1 .. N : nodes[i] = CameraNode(l[i]) /\ l[i] \in CodePageText
  BY SystemInfoIs
<1>2. l \in Seq(CodePageText)
  <2> DEFINE S == Seq(CodePageText)
             T == CodePageText
             W == WideText
  <2>1. info \in [system_guid : T, system_name : W, cameras : S]
    BY DEF SystemData
  <2> HIDE DEF S, T, W
  <2>2. info.cameras \in S
    BY <2>1
  <2> QED
    BY <2>2 DEF S
<1>3. SystemOf(m).cameras = r
  BY DEF SystemOf
<1>4. n \in 0 .. N
  OBVIOUS
<1> HIDE DEF l, N, nodes
<1>5. DOMAIN p = 1 .. n /\ \A i \in 1 .. n : p[i] = nodes[i]
  BY <1>1, <1>4
<1>6. q \in Seq(CodePageText) /\ Len(q) = n /\ \A i \in 1 .. n : q[i] = l[i]
  BY <1>2, <1>4 DEF N
<1>7. \A i \in 1 .. n : p[i].camera_guid = l[i]
  <2> TAKE i \in 1 .. n
  <2>1. i \in 1 .. N
    BY <1>1, <1>4
  <2>2. p[i] = CameraNode(l[i]) /\ l[i] \in CodePageText
    BY <1>1, <1>5, <2>1
  <2> HIDE DEF p
  <2> QED
    BY <2>2, CameraNodeRaw
<1>8. r = [i \in 1 .. n |-> l[i]]
  <2> HIDE DEF p
  <2> QED
    BY <1>5, <1>7
<1> HIDE DEF p, q, r
<1>9. q = [i \in 1 .. n |-> l[i]]
  BY <1>6
<1> QED
  BY <1>3, <1>8, <1>9 DEF q, l

LEMMA SystemInfoParts ==
  ASSUME NEW info \in SystemData
  PROVE  /\ info = [system_guid |-> info.system_guid, system_name |-> info.system_name,
                    cameras |-> info.cameras]
         /\ info.cameras \in Seq(CodePageText)
<1> DEFINE S == Seq(CodePageText)
           T == CodePageText
           W == WideText
<1>1. info \in [system_guid : T, system_name : W, cameras : S]
  BY DEF SystemData
<1> HIDE DEF S, T, W
<1>2. /\ info.cameras \in S
      /\ info = [system_guid |-> info.system_guid, system_name |-> info.system_name,
                 cameras |-> info.cameras]
  BY <1>1
<1> QED
  BY <1>2 DEF S

(* What is read of the first cameras, all of them included. *)
LEMMA SystemSavedOf ==
  ASSUME NEW info \in SystemData,
         \A i \in 1 .. Len(info.cameras) :
           System_CameraInfo_ByteSizeLong(CameraNode(info.cameras[i])) < IntSpan,
         NEW n \in 0 .. Len(info.cameras)
  PROVE  LET read == SystemOf(SystemSaved(info, n))
         IN  /\ read.system_guid = info.system_guid /\ read.system_name = info.system_name
             /\ read.cameras = SubSeq(info.cameras, 1, n)
<1> DEFINE m == SystemSaved(info, n)
<1>1. n \in 0 .. Len(SystemNodes(info)) /\ IsName(SystemName(info), info.system_name)
  BY SystemInfoIs
<1>2. /\ m.system_guid = SystemGuid(info) /\ m.system_name = SystemName(info)
      /\ m.cameras = SubSeq(SystemNodes(info), 1, n)
  BY <1>1, SystemSavedFields
<1> HIDE DEF m
<1>3. SystemOf(m).cameras = SubSeq(info.cameras, 1, n)
  BY <1>2, SystemCut
<1>4. SystemOf(m).system_guid = info.system_guid /\ SystemOf(m).system_name = info.system_name
  BY <1>1, <1>2 DEF SystemOf, SystemGuid, IsName, convert_utf8_to_unicode
<1> QED
  BY <1>3, <1>4 DEF m

LEMMA SystemBack ==
  ASSUME NEW info \in SystemData,
         \A i \in 1 .. Len(info.cameras) :
           System_CameraInfo_ByteSizeLong(CameraNode(info.cameras[i])) < IntSpan
  PROVE  SystemOf(SystemSaved(info, Len(SystemNodes(info)))) = info
<1> DEFINE l == info.cameras
           m == SystemSaved(info, Len(l))
<1>1. Len(SystemNodes(info)) = Len(l) /\ Len(l) \in 0 .. Len(l)
  BY SystemInfoIs
<1>2. /\ info = [system_guid |-> info.system_guid, system_name |-> info.system_name, cameras |-> l]
      /\ l \in Seq(CodePageText)
  BY SystemInfoParts
<1>3. /\ SystemOf(m).system_guid = info.system_guid /\ SystemOf(m).system_name = info.system_name
      /\ SystemOf(m).cameras = SubSeq(l, 1, Len(l))
  BY <1>1, SystemSavedOf
<1> HIDE DEF l, m
<1>4. SubSeq(l, 1, Len(l)) = l
  BY <1>2
<1>5. SystemOf(m) = [system_guid |-> SystemOf(m).system_guid, system_name |-> SystemOf(m).system_name,
                     cameras |-> SystemOf(m).cameras]
  BY DEF SystemOf
<1>6. SystemOf(m) = info
  BY <1>2, <1>3, <1>4, <1>5
<1> QED
  BY <1>1, <1>6 DEF m, l

(* Of a system's file that is not whole. *)
TornSystem(read, info) ==
  /\ \E n \in 0 .. Len(info.cameras) : read.cameras = SubSeq(info.cameras, 1, n)
  /\ read.cameras # << >> =>
       read.system_name = info.system_name /\ read.system_guid = info.system_guid
  /\ read.system_name \in {<< >>, info.system_name}
  /\ read.system_guid \in {<< >>, info.system_guid}

LEMMA SystemTorn ==
  ASSUME NEW info \in SystemData,
         \A i \in 1 .. Len(info.cameras) :
           System_CameraInfo_ByteSizeLong(CameraNode(info.cameras[i])) < IntSpan,
         NEW m \in TornRead(System_SharedCtor, "system_guid", "system_name", "cameras",
                            SystemGuid(info), SystemName(info), SystemNodes(info))
  PROVE  TornSystem(SystemOf(m), info)
<1> DEFINE l == info.cameras
           nodes == SystemNodes(info)
           N == Len(nodes)
           new == System_SharedCtor
           none == << >>
<1>1. N = Len(l) /\ N \in Nat
  BY SystemInfoIs
<1>2. NewHolder(new, "system_guid", "system_name", "cameras")
  BY SystemNewHolder
<1>3. /\ new["system_guid"] = none /\ new["system_name"] = none /\ new["cameras"] = none
  BY <1>2 DEF NewHolder
<1>4. ASSUME NEW a, a["cameras"] = none, a["system_name"] = none,
             a["system_guid"] \in {none, info.system_guid}
      PROVE  TornSystem(SystemOf(a), info)
  <2>1. 0 \in 0 .. Len(l) /\ SubSeq(nodes, 1, 0) = none /\ SubSeq(l, 1, 0) = none
    BY <1>1
  <2>2. SystemOf(a).cameras = SubSeq(l, 1, 0)
    <3>1. a.cameras = SubSeq(nodes, 1, 0)
      BY <1>4, <2>1
    <3> QED
      BY <2>1, <3>1, SystemCut
  <2>3. convert_utf8_to_unicode(none) = none
    BY NoName DEF IsName, convert_utf8_to_unicode
  <2>4. SystemOf(a).system_name = none /\ SystemOf(a).system_guid \in {none, info.system_guid}
    <3> HIDE DEF none
    <3> QED
      BY <1>4, <2>3 DEF SystemOf
  <2> HIDE DEF l
  <2>5. SystemOf(a).cameras = none
    BY <2>1, <2>2
  <2> QED
    BY <2>1, <2>2, <2>4, <2>5 DEF TornSystem, l
<1>5. CASE m = new
  BY <1>3, <1>4, <1>5
<1>6. CASE m = Guided(new, "system_guid", SystemGuid(info))
  <2> DEFINE g1 == Guided(new, "system_guid", SystemGuid(info))
  <2>1. /\ g1["cameras"] = none /\ g1["system_name"] = none /\ g1["system_guid"] = SystemGuid(info)
        /\ Named(new, "system_guid", "system_name", SystemGuid(info), SystemName(info))["cameras"] = none
    <3> HIDE DEF new
    <3> QED
      BY <1>2, NewHolderFields
  <2>2. SystemGuid(info) = info.system_guid
    BY DEF SystemGuid
  <2> HIDE DEF g1
  <2>3. TornSystem(SystemOf(g1), info)
    BY <1>4, <2>1, <2>2
  <2> QED
    BY <1>6, <2>3 DEF g1
<1>7. ASSUME NEW n \in 0 .. (N - 1), m = SystemSaved(info, n) PROVE TornSystem(SystemOf(m), info)
  <2>1. n \in 0 .. Len(l)
    BY <1>1
  <2>2. /\ SystemOf(m).system_guid = info.system_guid /\ SystemOf(m).system_name = info.system_name
        /\ SystemOf(m).cameras = SubSeq(l, 1, n)
    BY <1>7, <2>1, SystemSavedOf
  <2> QED
    BY <2>1, <2>2 DEF TornSystem
<1> HIDE DEF nodes, N, new
<1>8. m = new \/ m = Guided(new, "system_guid", SystemGuid(info))
      \/ \E n \in 0 .. (N - 1) : m = SystemSaved(info, n)
  BY DEF TornRead, SystemSaved, nodes, N, new
<1> QED
  BY <1>5, <1>6, <1>7, <1>8

(* The watchdog's file. *)
LEMMA WatchdogInfoIs ==
  ASSUME NEW info \in WatchdogData
  PROVE  info.pid \in CInt /\ info = [pid |-> info.pid]
<1> DEFINE C == CInt
<1>1. info \in [pid : C]
  BY DEF WatchdogData
<1> HIDE DEF C
<1>2. info.pid \in C /\ info = [pid |-> info.pid]
  BY <1>1
<1> QED
  BY <1>2 DEF C

LEMMA WatchdogSavedBytes ==
  ASSUME NEW info \in WatchdogData
  PROVE  LET pid == ToUInt32(info.pid)
             w == Unless(pid = 0, WriteUInt32(1, pid))
         IN  w \in Seq(Octet) /\ Bytes("watchdog", info) = w
<1> DEFINE full == Bytes("watchdog", info)
           pid == ToUInt32(info.pid)
           w == Unless(pid = 0, WriteUInt32(1, pid))
<1>2. pid \in UInt32
  BY WatchdogInfoIs, NumberBack
<1>4. w \in Seq(Octet)
  <2> HIDE DEF pid
  <2> DEFINE number == 1
  <2>1. pid \in 0 .. (IntSpan - 1) /\ number \in 1 .. 9 /\ number = 1
    BY <1>2 DEF UInt32
  <2> HIDE DEF number
  <2>2. Unless(pid = 0, WriteUInt32(number, pid)) \in Seq(Octet)
    BY <2>1, NumberBytes
  <2> QED
    BY <2>1, <2>2
<1>5. full = w
  <2> DEFINE e == WatchdogMessage(info)
  <2>1. e = [pid |-> pid, unknown |-> << >>]
    BY DEF WatchdogMessage, CameraWatchdog_set_pid, CameraWatchdog_SharedCtor
  <2>2. full = Unless(e.pid = 0, WriteUInt32(1, e.pid)) \o e.unknown
    BY DEF Bytes, CameraWatchdog_SerializeToArray
  <2> HIDE DEF e, full, pid
  <2>3. full = w \o << >>
    BY <2>1, <2>2
  <2> HIDE DEF w
  <2> QED
    BY <1>4, <2>3, ConcatEmptySeq
<1> QED
  BY <1>4, <1>5

LEMMA WatchdogFileRead ==
  ASSUME NEW info \in WatchdogData, NEW b \in Seq(Octet), Prefix(b, Bytes("watchdog", info))
  PROVE  LET full == Bytes("watchdog", info)
             read == Parsed("watchdog", b)
         IN  /\ full \in Seq(Octet)
             /\ Len(b) = Len(full) => read.ok /\ WatchdogOf(read.m) = info
             /\ Len(b) # Len(full) /\ read.ok => WatchdogOf(read.m).pid = 0
<1> DEFINE k == "CameraWatchdog"
           full == Bytes("watchdog", info)
           m0 == CameraWatchdog_SharedCtor
           pid == ToUInt32(info.pid)
           w == Unless(pid = 0, WriteUInt32(1, pid))
           R == {m0}
           m == FieldSet(m0, "pid", Assigned(m0["pid"], pid, 0))
           read == Parse(k, m0, b)
           good == TRUE
           first == 1
<1>1. info.pid \in CInt /\ info = [pid |-> info.pid]
  BY WatchdogInfoIs
<1>2. pid \in UInt32 /\ ToInt(pid) = info.pid
  BY <1>1, NumberBack
<1>3. k \in Classes
  BY DEF Classes
<1>4. w \in Seq(Octet) /\ full = w
  BY WatchdogSavedBytes
<1>6. Parsed("watchdog", b) = read
  BY DEF Parsed, Parse, ByClass
<1>7. /\ IsRecord(m0) /\ DOMAIN m0 = {"pid", "unknown"} /\ m0["pid"] = 0
  BY DEF CameraWatchdog_SharedCtor, IsRecord
<1>8. Prefix(b, full)
  OBVIOUS
<1> HIDE DEF full, m0, pid, k
<1>9. HasField(m0, "pid") /\ m["pid"] = Assigned(m0["pid"], pid, 0)
  <2> DEFINE v == Assigned(m0["pid"], pid, 0)
  <2> HIDE DEF v
  <2>0. IsRecord(m0)
    BY <1>7
  <2>1. "pid" \in DOMAIN m0
    BY <1>7
  <2>2. HasField(m0, "pid") /\ FieldSet(m0, "pid", v)["pid"] = v
    BY <2>0, <2>1, FieldSetIs
  <2> QED
    BY <2>2 DEF v
<1>10. m["pid"] = pid
  <2> HIDE DEF m
  <2> QED
    BY <1>7, <1>9 DEF Assigned
<1>11. Settled(k, b, m0, good, R, m0, first) /\ good \in BOOLEAN /\ m0 \in R
  BY SettledStart
<1>12. Holds(full, first, w) /\ first = 1
  BY <1>4, HoldsAll
<1> HIDE DEF good, R, first
<1>13. Settled(k, b, m0, good, R, m, first + Len(w))
  <2> HIDE DEF m
  <2>1. full \in Seq(Octet)
    BY <1>4
  <2> QED
    BY <1>2, <1>8, <1>9, <1>11, <1>12, <2>1, PidReads DEF k, m
<1>14. read = Loop(k, m0, b)[LastStep(b)]
  BY <1>3, ParseIsLoop
<1>15. Len(b) \in Nat /\ Len(full) \in Nat /\ Len(b) <= Len(full)
  BY <1>4, <1>8 DEF Prefix
<1>16. Settled(k, b, m0, good, R, m, 1 + Len(full))
  BY <1>4, <1>12, <1>13
<1> HIDE DEF read, m, w
<1>17. ASSUME Len(b) = Len(full) PROVE read.ok /\ WatchdogOf(read.m) = info
  <2>1. 1 + Len(full) = Len(b) + 1
    BY <1>15, <1>17
  <2>2. Settled(k, b, m0, good, R, m, Len(b) + 1)
    BY <1>16, <2>1
  <2>3. read = Going(m, Len(b) + 1)
    <3>1. good
      BY DEF good
    <3> QED
      BY <1>11, <1>14, <2>2, <3>1, SettledEnd
  <2>4. read.ok /\ read.m = m
    BY <2>3 DEF Going, Cursor
  <2> QED
    BY <1>1, <1>2, <1>10, <2>4 DEF WatchdogOf
<1>18. ASSUME Len(b) # Len(full), read.ok PROVE WatchdogOf(read.m).pid = 0
  <2>1. ~((1 + Len(full)) - 1 <= Len(b))
    BY <1>15, <1>18
  <2>2. read.m \in R
    BY <1>14, <1>16, <1>18, <2>1 DEF Settled
  <2>3. read.m.pid = 0
    BY <1>7, <2>2 DEF R
  <2>4. ToInt(0) = 0
    BY SpanFacts DEF ToInt
  <2> QED
    BY <2>3, <2>4 DEF WatchdogOf
<1> QED
  BY <1>4, <1>6, <1>17, <1>18 DEF full

----------------------------------------------------------------------------
(* Whatever is saved, and whatever part of it is on the disk: what a load  *)
(* makes of it.                                                            *)
LEMMA CameraFits3 ==
  ASSUME NEW info \in CameraInfos
  PROVE  /\ info \in CameraData
         /\ \A i \in 1 .. Len(info.stream_info) :
              StreamInfo_ByteSizeLong(StreamNode(info.stream_info[i])) < IntSpan
<1> DEFINE l == info.stream_info
           S == [1 .. StreamCount -> StreamData]
           T == CodePageText
           W == WideText
<1>1. /\ info \in CameraData
      /\ \A i \in 1 .. StreamCount : StreamInfo_ByteSizeLong(StreamNode(info.stream_info[i])) < IntSpan
  BY FileAssumption
<1>2. info \in [camera_guid : T, camera_name : W, stream_info : S]
  BY <1>1 DEF CameraData
<1>3. l \in S
  <2> HIDE DEF S, T, W
  <2> QED
    BY <1>2
<1>4. l \in Seq(StreamData) /\ DOMAIN l = 1 .. StreamCount
  <2>1. StreamCount \in Nat
    BY DEF StreamCount
  <2> HIDE DEF l
  <2> QED
    BY <1>3, <2>1
<1> HIDE DEF l
<1>5. Len(l) = StreamCount
  BY <1>4, LenProperties DEF StreamCount
<1>6. Len(info.stream_info) = StreamCount
  BY <1>5 DEF l
<1> QED
  BY <1>1, <1>6

LEMMA SystemFits3 ==
  ASSUME NEW info \in SystemInfos
  PROVE  /\ info \in SystemData
         /\ \A i \in 1 .. Len(info.cameras) :
              System_CameraInfo_ByteSizeLong(CameraNode(info.cameras[i])) < IntSpan
<1>1. /\ info \in SystemData
      /\ \A i \in DOMAIN info.cameras : System_CameraInfo_ByteSizeLong(CameraNode(info.cameras[i])) < IntSpan
  BY FileAssumption
<1>2. info.cameras \in Seq(CodePageText)
  BY <1>1, SystemInfoParts
<1>3. DOMAIN info.cameras = 1 .. Len(info.cameras)
  BY <1>2
<1> QED
  BY <1>1, <1>3

LEMMA BytesAre ==
  ASSUME NEW k \in Kinds, NEW info \in Infos(k)
  PROVE  Bytes(k, info) \in Seq(Octet)
<1>1. k = "camera" \/ k = "system" \/ k = "watchdog"
  BY DEF Kinds
<1>2. CASE k = "camera"
  <2>1. info \in CameraInfos
    BY <1>2 DEF Infos
  <2> QED
    BY <1>2, <2>1, CameraFits3, CameraSavedBytes
<1>3. CASE k = "system"
  <2>1. info \in SystemInfos
    BY <1>3 DEF Infos
  <2> QED
    BY <1>3, <2>1, SystemFits3, SystemSavedBytes
<1>4. CASE k = "watchdog"
  <2>1. info \in WatchdogData
    BY <1>4, FileAssumption DEF Infos
  <2> QED
    BY <1>4, <2>1, WatchdogSavedBytes
<1> QED
  BY <1>1, <1>2, <1>3, <1>4

(* A part of a file that is read without failing, and what it gives. *)
LoadedPart(k, info, m) ==
  /\ k = "camera" => ~HasStreams(m)
  /\ k = "system" => TornSystem(SystemOf(m), info)
  /\ k = "watchdog" => WatchdogOf(m).pid = 0

IsFile(k, info, b) == info \in Infos(k) /\ b \in Seq(Octet) /\ Prefix(b, Bytes(k, info))

LEMMA FileReads ==
  ASSUME NEW k \in Kinds, NEW info, NEW b, IsFile(k, info, b)
  PROVE  LET full == Bytes(k, info)
             read == Parsed(k, b)
         IN  /\ Len(b) = Len(full) /\ TextsValid(k, info) =>
                  read.ok /\ InfoOf(k, read.m) = info /\ (k = "camera" => HasStreams(read.m))
             /\ Len(b) = Len(full) /\ ~TextsValid(k, info) => ~read.ok
             /\ Len(b) # Len(full) /\ read.ok => LoadedPart(k, info, read.m)
<1> DEFINE full == Bytes(k, info)
           read == Parsed(k, b)
<1>0. info \in Infos(k) /\ b \in Seq(Octet) /\ Prefix(b, Bytes(k, info))
  BY DEF IsFile
<1>1. k = "camera" \/ k = "system" \/ k = "watchdog"
  BY DEF Kinds
<1>2. CASE k = "camera"
  <2>1. info \in CameraInfos
    BY <1>0, <1>2 DEF Infos
  <2> DEFINE m == CameraSaved(info, Len(CameraNodes(info)))
             R == TornRead(Camera_SharedCtor, "camera_guid", "camera_name", "stream_info",
                           CameraGuid(info), CameraName(info), CameraNodes(info))
             good == CameraGood(info)
             valid == TextsValid(k, info)
  <2>2. /\ info \in CameraData
        /\ \A i \in 1 .. Len(info.stream_info) :
             StreamInfo_ByteSizeLong(StreamNode(info.stream_info[i])) < IntSpan
    BY <2>1, CameraFits3
  <2>3. good <=> valid
    BY <1>2, <2>2, CameraGoodTexts
  <2>4. /\ Len(b) = Len(full) /\ good => read.ok /\ read.m = m
        /\ Len(b) = Len(full) /\ ~good => ~read.ok
        /\ Len(b) # Len(full) /\ read.ok => read.m \in R
    BY <1>0, <1>2, <2>2, CameraFileRead
  <2>5. HasStreams(m) /\ CameraOf(m) = info
    BY <2>2, CameraBack
  <2>6. read.m \in R => ~HasStreams(read.m)
    BY <2>2, CameraTorn
  <2>7. InfoOf(k, read.m) = CameraOf(read.m)
    BY <1>2 DEF InfoOf
  <2>8. LoadedPart(k, info, read.m) <=> ~HasStreams(read.m)
    BY <1>2 DEF LoadedPart
  <2> HIDE DEF full, read, m, R, good, valid
  <2>9. /\ Len(b) = Len(full) /\ valid =>
             read.ok /\ InfoOf(k, read.m) = info /\ (k = "camera" => HasStreams(read.m))
        /\ Len(b) = Len(full) /\ ~valid => ~read.ok
        /\ Len(b) # Len(full) /\ read.ok => LoadedPart(k, info, read.m)
    BY <2>3, <2>4, <2>5, <2>6, <2>7, <2>8
  <2> QED
    BY <2>9 DEF full, read, valid
<1>3. CASE k = "system"
  <2>1. info \in SystemInfos
    BY <1>0, <1>3 DEF Infos
  <2> DEFINE m == SystemSaved(info, Len(SystemNodes(info)))
             R == TornRead(System_SharedCtor, "system_guid", "system_name", "cameras",
                           SystemGuid(info), SystemName(info), SystemNodes(info))
             good == SystemGood(info)
             valid == TextsValid(k, info)
  <2>2. /\ info \in SystemData
        /\ \A i \in 1 .. Len(info.cameras) :
             System_CameraInfo_ByteSizeLong(CameraNode(info.cameras[i])) < IntSpan
    BY <2>1, SystemFits3
  <2>3. good <=> valid
    BY <1>3, <2>2, SystemGoodTexts
  <2>4. /\ Len(b) = Len(full) /\ good => read.ok /\ read.m = m
        /\ Len(b) = Len(full) /\ ~good => ~read.ok
        /\ Len(b) # Len(full) /\ read.ok => read.m \in R
    BY <1>0, <1>3, <2>2, SystemFileRead
  <2>5. SystemOf(m) = info
    BY <2>2, SystemBack
  <2>6. read.m \in R => TornSystem(SystemOf(read.m), info)
    BY <2>2, SystemTorn
  <2>7. InfoOf(k, read.m) = SystemOf(read.m) /\ k # "camera"
    BY <1>3 DEF InfoOf
  <2>8. LoadedPart(k, info, read.m) <=> TornSystem(SystemOf(read.m), info)
    BY <1>3 DEF LoadedPart
  <2> HIDE DEF full, read, m, R, good, valid
  <2>9. /\ Len(b) = Len(full) /\ valid =>
             read.ok /\ InfoOf(k, read.m) = info /\ (k = "camera" => HasStreams(read.m))
        /\ Len(b) = Len(full) /\ ~valid => ~read.ok
        /\ Len(b) # Len(full) /\ read.ok => LoadedPart(k, info, read.m)
    BY <2>3, <2>4, <2>5, <2>6, <2>7, <2>8
  <2> QED
    BY <2>9 DEF full, read, valid
<1>4. CASE k = "watchdog"
  <2>1. info \in WatchdogData
    BY <1>0, <1>4, FileAssumption DEF Infos
  <2> DEFINE valid == TextsValid(k, info)
  <2>2. valid
    BY <1>4 DEF TextsValid, RawTexts
  <2>3. /\ Len(b) = Len(full) => read.ok /\ WatchdogOf(read.m) = info
        /\ Len(b) # Len(full) /\ read.ok => WatchdogOf(read.m).pid = 0
    BY <1>0, <1>4, <2>1, WatchdogFileRead
  <2>4. InfoOf(k, read.m) = WatchdogOf(read.m) /\ k # "camera"
    BY <1>4 DEF InfoOf
  <2>5. LoadedPart(k, info, read.m) <=> WatchdogOf(read.m).pid = 0
    BY <1>4 DEF LoadedPart
  <2> HIDE DEF full, read, valid
  <2>6. /\ Len(b) = Len(full) /\ valid =>
             read.ok /\ InfoOf(k, read.m) = info /\ (k = "camera" => HasStreams(read.m))
        /\ Len(b) = Len(full) /\ ~valid => ~read.ok
        /\ Len(b) # Len(full) /\ read.ok => LoadedPart(k, info, read.m)
    BY <2>2, <2>3, <2>4, <2>5
  <2> QED
    BY <2>6 DEF full, read, valid
<1> QED
  BY <1>1, <1>2, <1>3, <1>4

----------------------------------------------------------------------------
(* The saver and the loader: what is on the disk is a part of what the     *)
(* latest save that opened the file would write, and what was loaded is    *)
(* what such a part makes of it.                                           *)
LoadsOf(k, info, b, code, filled) ==
  /\ IsFile(k, info, b)
  /\ LET read == Parsed(k, b)
     IN  \/ ~read.ok /\ code = 2
         \/ /\ read.ok /\ (k = "camera" => HasStreams(read.m))
            /\ code = 0 /\ filled = InfoOf(k, read.m)

LoadsUndefined(k, info, b) ==
  /\ IsFile(k, info, b)
  /\ LET read == Parsed(k, b) IN read.ok /\ k = "camera" /\ ~HasStreams(read.m)

DiskInv ==
  /\ kind \in Kinds
  /\ exists => IsFile(kind, saving, disk)
  /\ saver \in {"idle", "open", "written"}
  /\ saver # "idle" => exists

LoadInv ==
  /\ loader \in {"idle", "exists", "done", "undefined"}
  /\ loader = "exists" => exists
  /\ ~exists => seen.of = Nothing
  /\ loader = "done" =>
       \/ result = 1 /\ seen.of = Nothing
       \/ LoadsOf(kind, seen.of, seen.bytes, result, loaded)
  /\ loader = "undefined" => LoadsUndefined(kind, seen.of, seen.bytes)

FilesInv == DiskInv /\ LoadInv

LEMMA CutIsFile ==
  ASSUME NEW k \in Kinds, NEW info \in Infos(k), NEW n \in 0 .. Len(Bytes(k, info))
  PROVE  IsFile(k, info, SubSeq(Bytes(k, info), 1, n))
<1> DEFINE full == Bytes(k, info)
           b == SubSeq(full, 1, n)
<1>1. full \in Seq(Octet)
  BY BytesAre
<1>2. n \in 0 .. Len(full)
  OBVIOUS
<1> HIDE DEF full
<1>3. b \in Seq(Octet) /\ Len(b) = n /\ \A i \in 1 .. n : b[i] = full[i]
  BY <1>1, <1>2
<1>4. Prefix(b, full)
  <2> HIDE DEF b
  <2> QED
    BY <1>1, <1>2, <1>3 DEF Prefix
<1> QED
  BY <1>3, <1>4 DEF IsFile, full

LEMMA EmptyIsFile ==
  ASSUME NEW k \in Kinds, NEW info \in Infos(k)
  PROVE  IsFile(k, info, << >>)
<1>1. Bytes(k, info) \in Seq(Octet)
  BY BytesAre
<1>2. << >> \in Seq(Octet) /\ Prefix(<< >>, Bytes(k, info))
  <2> DEFINE full == Bytes(k, info)
  <2>1. Len(full) \in Nat
    BY <1>1
  <2> HIDE DEF full
  <2>2. Prefix(<< >>, full)
    BY <2>1 DEF Prefix
  <2> QED
    BY <2>2 DEF full
<1> QED
  BY <1>2 DEF IsFile

LEMMA FilesInvInit == FilesInit => FilesInv
  BY DEF FilesInit, FilesInv, DiskInv, LoadInv, Nothing

LEMMA LoadStays ==
  ASSUME LoadInv, UNCHANGED <<kind, loaderVars>>, exists => exists'
  PROVE  LoadInv'
  BY DEF LoadInv, loaderVars, LoadsOf, LoadsUndefined

LEMMA FilesInvNext ==
  ASSUME FilesInv, [FilesNext]_files
  PROVE  FilesInv'
<1> USE DEF FilesInv
<1>1. ASSUME NEW info \in Infos(kind), SaveOpen(info) PROVE FilesInv'
  <2>1. DiskInv'
    BY <1>1, EmptyIsFile DEF SaveOpen, DiskInv
  <2> QED
    BY <1>1, <2>1, LoadStays DEF SaveOpen
<1>2. CASE SaveOpenFails
  <2>1. DiskInv'
    BY <1>2 DEF SaveOpenFails, DiskInv
  <2> QED
    BY <1>2, <2>1, LoadStays DEF SaveOpenFails
<1>3. CASE SaveSerialize
  <2>1. DiskInv'
    BY <1>3 DEF SaveSerialize, DiskInv
  <2> QED
    BY <1>3, <2>1, LoadStays DEF SaveSerialize
<1>4. CASE SaveClose
  <2>1. kind \in Kinds /\ saving \in Infos(kind)
    BY <1>4 DEF SaveClose, DiskInv, IsFile
  <2>2. IsFile(kind, saving, disk')
    BY <1>4, <2>1, CutIsFile DEF SaveClose
  <2>3. DiskInv'
    BY <1>4, <2>2 DEF SaveClose, DiskInv
  <2> QED
    BY <1>4, <2>3, LoadStays DEF SaveClose
<1>5. CASE SaverDies
  <2>1. DiskInv'
    BY <1>5 DEF SaverDies, DiskInv
  <2> QED
    BY <1>5, <2>1, LoadStays DEF SaverDies
<1>6. CASE Load
  <2>1. DiskInv'
    BY <1>6 DEF Load, DiskInv, saverVars
  <2>2. LoadInv'
    BY <1>6 DEF Load, LoadInv, LoadReturns
  <2> QED
    BY <2>1, <2>2
<1>7. CASE LoadParse
  <2> DEFINE read == Parsed(kind, disk)
  <2>1. DiskInv'
    BY <1>7 DEF LoadParse, DiskInv, saverVars
  <2>2. IsFile(kind, saving, disk) /\ exists' /\ kind' = kind
    BY <1>7 DEF LoadParse, DiskInv, LoadInv
  <2>3. seen'.bytes = disk /\ seen'.of = saving
    BY <1>7 DEF LoadParse
  <2>4. CASE ~read.ok
    <3>1. loader' = "done" /\ result' = 2
      BY <1>7, <2>4 DEF LoadParse, LoadReturns
    <3>2. LoadsOf(kind, saving, disk, result', loaded')
      BY <2>2, <2>4, <3>1 DEF LoadsOf
    <3> QED
      BY <2>1, <2>2, <2>3, <3>1, <3>2 DEF LoadInv
  <2>5. CASE read.ok /\ kind = "camera" /\ ~HasStreams(read.m)
    <3>1. loader' = "undefined"
      BY <1>7, <2>5 DEF LoadParse
    <3>2. LoadsUndefined(kind, saving, disk)
      BY <2>2, <2>5 DEF LoadsUndefined
    <3> QED
      BY <2>1, <2>2, <2>3, <3>1, <3>2 DEF LoadInv
  <2>6. CASE read.ok /\ (kind = "camera" => HasStreams(read.m))
    <3>1. loader' = "done" /\ result' = 0 /\ loaded' = InfoOf(kind, read.m)
      BY <1>7, <2>6 DEF LoadParse, LoadReturns
    <3>2. LoadsOf(kind, saving, disk, result', loaded')
      BY <2>2, <2>6, <3>1 DEF LoadsOf
    <3> QED
      BY <2>1, <2>2, <2>3, <3>1, <3>2 DEF LoadInv
  <2> QED
    BY <2>4, <2>5, <2>6
<1>8. CASE UNCHANGED files
  <2>1. DiskInv'
    BY <1>8 DEF files, saverVars, DiskInv
  <2> QED
    BY <1>8, <2>1, LoadStays DEF files
<1> QED
  BY <1>1, <1>2, <1>3, <1>4, <1>5, <1>6, <1>7, <1>8 DEF FilesNext

(* What a load makes of a file that is whole, and of one that is not. *)
LEMMA WholeReads ==
  ASSUME NEW k \in Kinds, NEW info, IsFile(k, info, Bytes(k, info))
  PROVE  LET read == Parsed(k, Bytes(k, info))
         IN  IF TextsValid(k, info)
             THEN read.ok /\ InfoOf(k, read.m) = info /\ (k = "camera" => HasStreams(read.m))
             ELSE ~read.ok
  BY FileReads

LEMMA FilesInvWhole ==
  ASSUME FilesInv PROVE WholeFileLoads
<1> SUFFICES ASSUME loader \in {"done", "undefined"}, seen.of # Nothing,
                    seen.bytes = Bytes(kind, seen.of)
             PROVE  /\ loader = "done"
                    /\ IF TextsValid(kind, seen.of) THEN result = 0 /\ loaded = seen.of
                       ELSE result = 2
  BY DEF WholeFileLoads, TextsValid
<1>1. kind \in Kinds
  BY DEF FilesInv, DiskInv
<1>2. CASE loader = "done"
  <2>1. LoadsOf(kind, seen.of, Bytes(kind, seen.of), result, loaded)
    BY <1>2 DEF FilesInv, LoadInv
  <2>2. IsFile(kind, seen.of, Bytes(kind, seen.of))
    BY <2>1 DEF LoadsOf
  <2> QED
    BY <1>1, <1>2, <2>1, <2>2, WholeReads DEF LoadsOf
<1>3. CASE loader = "undefined"
  <2>1. LoadsUndefined(kind, seen.of, Bytes(kind, seen.of))
    BY <1>3 DEF FilesInv, LoadInv
  <2>2. IsFile(kind, seen.of, Bytes(kind, seen.of))
    BY <2>1 DEF LoadsUndefined
  <2> QED
    BY <1>1, <2>1, <2>2, WholeReads DEF LoadsUndefined
<1> QED
  BY <1>2, <1>3

LEMMA WholeSystem ==
  ASSUME NEW info \in SystemInfos
  PROVE  TornSystem(info, info)
<1> DEFINE l == info.cameras
<1>1. l \in Seq(CodePageText)
  BY SystemFits3, SystemInfoParts
<1> HIDE DEF l
<1>2. Len(l) \in 0 .. Len(l) /\ l = SubSeq(l, 1, Len(l))
  BY <1>1
<1> QED
  BY <1>2 DEF TornSystem, l

LEMMA LoadedReads ==
  ASSUME NEW k \in Kinds, NEW info, NEW b, NEW filled, LoadsOf(k, info, b, 0, filled)
  PROVE  /\ k = "camera" => filled = info
         /\ k = "system" => TornSystem(filled, info)
         /\ k = "watchdog" => filled.pid \in {0, info.pid}
<1> DEFINE read == Parsed(k, b)
           full == Bytes(k, info)
<1>1. /\ IsFile(k, info, b) /\ read.ok /\ (k = "camera" => HasStreams(read.m))
      /\ filled = InfoOf(k, read.m)
  BY DEF LoadsOf
<1>2. /\ Len(b) = Len(full) /\ TextsValid(k, info) => InfoOf(k, read.m) = info
      /\ Len(b) = Len(full) /\ ~TextsValid(k, info) => ~read.ok
      /\ Len(b) # Len(full) /\ read.ok => LoadedPart(k, info, read.m)
  BY <1>1, FileReads
<1>3. info \in Infos(k)
  BY <1>1 DEF IsFile
<1> HIDE DEF read, full
<1>4. filled = info \/ LoadedPart(k, info, read.m)
  BY <1>1, <1>2
<1>5. CASE k = "camera"
  BY <1>1, <1>4, <1>5 DEF LoadedPart
<1>6. CASE k = "system"
  <2>1. info \in SystemInfos /\ InfoOf(k, read.m) = SystemOf(read.m)
    BY <1>3, <1>6 DEF Infos, InfoOf
  <2>2. TornSystem(filled, info)
    BY <1>1, <1>4, <1>6, <2>1, WholeSystem DEF LoadedPart
  <2> QED
    BY <1>6, <2>2
<1>7. CASE k = "watchdog"
  <2>1. InfoOf(k, read.m) = WatchdogOf(read.m)
    BY <1>7 DEF InfoOf
  <2> QED
    BY <1>1, <1>4, <1>7, <2>1 DEF LoadedPart
<1> QED
  BY <1>5, <1>6, <1>7 DEF Kinds

LEMMA FilesInvTorn ==
  ASSUME FilesInv PROVE TornNeverMixed
<1> SUFFICES ASSUME loader = "done", result = 0 PROVE TornNeverMixed
  BY DEF TornNeverMixed
<1>1. kind \in Kinds
  BY DEF FilesInv, DiskInv
<1>2. LoadsOf(kind, seen.of, seen.bytes, 0, loaded)
  BY DEF FilesInv, LoadInv
<1>3. /\ kind = "camera" => loaded = seen.of
      /\ kind = "system" => TornSystem(loaded, seen.of)
      /\ kind = "watchdog" => loaded.pid \in {0, seen.of.pid}
  BY <1>1, <1>2, LoadedReads
<1>4. CASE kind = "camera"
  BY <1>3, <1>4 DEF TornNeverMixed
<1>5. CASE kind = "system"
  BY <1>3, <1>5 DEF TornNeverMixed, TornSystem
<1>6. CASE kind = "watchdog"
  BY <1>3, <1>6 DEF TornNeverMixed
<1> QED
  BY <1>1, <1>4, <1>5, <1>6 DEF Kinds

(* The invariant of the saver and the loader of SystemInfo.cpp: the file   *)
(* holds a part, or all, of what the latest save that opened it writes.    *)
THEOREM FilesInvariant == FilesSpec => []FilesInv
<1>1. FilesInit => FilesInv
  BY FilesInvInit
<1>2. FilesInv /\ [FilesNext]_files => FilesInv'
  BY FilesInvNext
<1> QED
  BY <1>1, <1>2, PTL DEF FilesSpec

(* LoadCameraInfoPB, LoadSystemInfoPB and LoadCameraWatchdog: of every     *)
(* file that SaveCameraInfoPB, SaveSystemInfoPB or SaveCameraWatchdog      *)
(* wrote in full, a load gives back every value as it was saved, or        *)
(* refuses the file, exactly if a text that is saved without conversion is *)
(* not UTF-8; it never reads past the streams of such a file.              *)
THEOREM FilesWholeFileLoads == FilesSpec => []WholeFileLoads
<1>1. FilesInv => WholeFileLoads
  BY FilesInvWhole
<1> QED
  BY <1>1, FilesInvariant, PTL

(* The same loads, of a file that another process has just opened with     *)
(* trunc or that the disk took in part: what they return with 0 is the     *)
(* camera that was saved last, or the beginning of the system that was, or *)
(* its watchdog's process or none.                                         *)
THEOREM FilesTornNeverMixed == FilesSpec => []TornNeverMixed
<1>1. FilesInv => TornNeverMixed
  BY FilesInvTorn
<1> QED
  BY <1>1, FilesInvariant, PTL
=============================================================================
