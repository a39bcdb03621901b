--------------------------- MODULE CameraInfoFile ---------------------------
(***************************************************************************)
(* The messages of CameraInfoFile.pb.h and CameraInfoFile.pb.cc: a camera  *)
(* with its streams, the watchdog's entry, and a system with its cameras.  *)
(* A message is the record of its fields, and unknown holds the bytes of   *)
(* _internal_metadata_.  Every function takes the fields in the order of   *)
(* the generated code.                                                     *)
(***************************************************************************)
EXTENDS WireFormat

(* InternalSwap of the fields it names. *)
SwapFields(a, b, fields) ==
  <<[f \in DOMAIN a |-> IF f \in fields THEN b[f] ELSE a[f]],
    [f \in DOMAIN b |-> IF f \in fields THEN a[f] ELSE b[f]]>>

(* A value that is not the default one replaces the old one. *)
Assigned(old, new, default) == IF new # default THEN new ELSE old
----------------------------------------------------------------------------
(* Camera.StreamInfo                                                       *)
StreamInfo_SharedCtor ==
  [url |-> << >>, ip |-> << >>, user_id |-> << >>, user_pw |-> << >>,
   port |-> 0, stream_accumulate_time |-> 0, tcp |-> FALSE, stream_used |-> FALSE, fps |-> 0,
   unknown |-> << >>]

(* The accessors of a field: it is read as the component of the record,    *)
(* and clear_, mutable_, release_ and set_allocated_ are a setting, to the *)
(* default or to the caller's value.                                       *)
StreamInfo_set_url(m, value) == [m EXCEPT !.url = value]
StreamInfo_set_ip(m, value) == [m EXCEPT !.ip = value]
StreamInfo_set_port(m, value) == [m EXCEPT !.port = ToUInt32(value)]
StreamInfo_set_user_id(m, value) == [m EXCEPT !.user_id = value]
StreamInfo_set_user_pw(m, value) == [m EXCEPT !.user_pw = value]
StreamInfo_set_tcp(m, value) == [m EXCEPT !.tcp = value]
StreamInfo_set_stream_accumulate_time(m, value) ==
  [m EXCEPT !.stream_accumulate_time = ToUInt32(value)]
StreamInfo_set_fps(m, value) == [m EXCEPT !.fps = ToUInt32(value)]
StreamInfo_set_stream_used(m, value) == [m EXCEPT !.stream_used = value]

(* The copy constructor. *)
StreamInfo_Copy(from) ==
  [StreamInfo_SharedCtor EXCEPT
     !.unknown = from.unknown,
     !.url = Assigned(@, from.url, << >>), !.ip = Assigned(@, from.ip, << >>),
     !.user_id = Assigned(@, from.user_id, << >>), !.user_pw = Assigned(@, from.user_pw, << >>),
     !.port = from.port, !.stream_accumulate_time = from.stream_accumulate_time,
     !.tcp = from.tcp, !.stream_used = from.stream_used, !.fps = from.fps]

StreamInfo_Clear(m) ==
  [m EXCEPT !.url = << >>, !.ip = << >>, !.user_id = << >>, !.user_pw = << >>,
            !.port = 0, !.stream_accumulate_time = 0, !.tcp = FALSE, !.stream_used = FALSE,
            !.fps = 0, !.unknown = << >>]

StreamInfo_MergePartialFromCodedStream(m, b) ==
  LET Field(c, tag, tag_at) ==
        CASE tag = 10 -> ReadString(c, "url", b)
          [] tag = 18 -> ReadString(c, "ip", b)
          [] tag = 24 -> ReadUInt32(c, "port", b)
          [] tag = 34 -> ReadString(c, "user_id", b)
          [] tag = 42 -> ReadString(c, "user_pw", b)
          [] tag = 48 -> ReadBool(c, "tcp", b)
          [] tag = 56 -> ReadUInt32(c, "stream_accumulate_time", b)
          [] tag = 64 -> ReadUInt32(c, "fps", b)
          [] tag = 72 -> ReadBool(c, "stream_used", b)
          [] OTHER -> SkipField(c, tag_at, b)
  IN  ParseFields(m, b, Field)

StreamInfo_SerializeWithCachedSizes(m) ==
  Unless(m.url = << >>, WriteString(1, m.url))
  \o Unless(m.ip = << >>, WriteString(2, m.ip))
  \o Unless(m.port = 0, WriteUInt32(3, m.port))
  \o Unless(m.user_id = << >>, WriteString(4, m.user_id))
  \o Unless(m.user_pw = << >>, WriteString(5, m.user_pw))
  \o Unless(~m.tcp, WriteBool(6, m.tcp))
  \o Unless(m.stream_accumulate_time = 0, WriteUInt32(7, m.stream_accumulate_time))
  \o Unless(m.fps = 0, WriteUInt32(8, m.fps))
  \o Unless(~m.stream_used, WriteBool(9, m.stream_used))
  \o m.unknown

StreamInfo_SerializeToArray(m) ==
  Unless(m.url = << >>, WriteString(1, m.url))
  \o Unless(m.ip = << >>, WriteString(2, m.ip))
  \o Unless(m.port = 0, WriteUInt32(3, m.port))
  \o Unless(m.user_id = << >>, WriteString(4, m.user_id))
  \o Unless(m.user_pw = << >>, WriteString(5, m.user_pw))
  \o Unless(~m.tcp, WriteBool(6, m.tcp))
  \o Unless(m.stream_accumulate_time = 0, WriteUInt32(7, m.stream_accumulate_time))
  \o Unless(m.fps = 0, WriteUInt32(8, m.fps))
  \o Unless(~m.stream_used, WriteBool(9, m.stream_used))
  \o m.unknown

StreamInfo_ByteSizeLong(m) ==
  Len(m.unknown)
  + UnlessSize(m.url = << >>, 1 + StringSize(m.url))
  + UnlessSize(m.ip = << >>, 1 + StringSize(m.ip))
  + UnlessSize(m.user_id = << >>, 1 + StringSize(m.user_id))
  + UnlessSize(m.user_pw = << >>, 1 + StringSize(m.user_pw))
  + UnlessSize(m.port = 0, 1 + UInt32Size(m.port))
  + UnlessSize(m.stream_accumulate_time = 0, 1 + UInt32Size(m.stream_accumulate_time))
  + UnlessSize(~m.tcp, 1 + 1)
  + UnlessSize(~m.stream_used, 1 + 1)
  + UnlessSize(m.fps = 0, 1 + UInt32Size(m.fps))

StreamInfo_MergeFrom(m, from) ==
  [m EXCEPT
     !.unknown = @ \o from.unknown,
     !.url = Assigned(@, from.url, << >>), !.ip = Assigned(@, from.ip, << >>),
     !.user_id = Assigned(@, from.user_id, << >>), !.user_pw = Assigned(@, from.user_pw, << >>),
     !.port = Assigned(@, from.port, 0),
     !.stream_accumulate_time = Assigned(@, from.stream_accumulate_time, 0),
     !.tcp = Assigned(@, from.tcp, FALSE), !.stream_used = Assigned(@, from.stream_used, FALSE),
     !.fps = Assigned(@, from.fps, 0)]

StreamInfo_CopyFrom(m, from) == StreamInfo_MergeFrom(StreamInfo_Clear(m), from)

StreamInfo_Swap(a, b) ==
  SwapFields(a, b, {"unknown", "url", "ip", "user_id", "user_pw", "port",
                    "stream_accumulate_time", "tcp", "stream_used", "fps"})
----------------------------------------------------------------------------
(* Camera                                                                  *)
Camera_SharedCtor ==
  [camera_guid |-> << >>, camera_name |-> << >>, stream_info |-> << >>, unknown |-> << >>]

Camera_set_camera_guid(m, value) == [m EXCEPT !.camera_guid = value]
Camera_set_camera_name(m, value) == [m EXCEPT !.camera_name = value]
Camera_add_stream_info(m, node) == [m EXCEPT !.stream_info = Append(@, node)]

(* MergeFrom of a RepeatedPtrField: each element into a new one. *)
MergedStreams(nodes) ==
  [i \in DOMAIN nodes |-> StreamInfo_MergeFrom(StreamInfo_SharedCtor, nodes[i])]

Camera_Copy(from) ==
  [Camera_SharedCtor EXCEPT
     !.stream_info = MergedStreams(from.stream_info),
     !.unknown = from.unknown,
     !.camera_guid = Assigned(@, from.camera_guid, << >>),
     !.camera_name = Assigned(@, from.camera_name, << >>)]

Camera_Clear(m) ==
  [m EXCEPT !.stream_info = << >>, !.camera_guid = << >>, !.camera_name = << >>,
            !.unknown = << >>]

Camera_MergePartialFromCodedStream(m, b) ==
  LET NewStream(c) ==
        StreamInfo_MergePartialFromCodedStream(StreamInfo_SharedCtor, Delimited(b, c.at))
      Field(c, tag, tag_at) ==
        CASE tag = 10 -> ReadString(c, "camera_guid", b)
          [] tag = 18 -> ReadString(c, "camera_name", b)
          [] tag = 26 -> ReadMessage(c, "stream_info", b, NewStream(c))
          [] OTHER -> SkipField(c, tag_at, b)
  IN  ParseFields(m, b, Field)

Camera_SerializeWithCachedSizes(m) ==
  Unless(m.camera_guid = << >>, WriteString(1, m.camera_guid))
  \o Unless(m.camera_name = << >>, WriteString(2, m.camera_name))
  \o Concatenated([i \in DOMAIN m.stream_info |->
       WriteMessage(3, StreamInfo_ByteSizeLong(m.stream_info[i]),
                    StreamInfo_SerializeWithCachedSizes(m.stream_info[i]))])
  \o m.unknown

Camera_SerializeToArray(m) ==
  Unless(m.camera_guid = << >>, WriteString(1, m.camera_guid))
  \o Unless(m.camera_name = << >>, WriteString(2, m.camera_name))
  \o Concatenated([i \in DOMAIN m.stream_info |->
       WriteMessage(3, StreamInfo_ByteSizeLong(m.stream_info[i]),
                    StreamInfo_SerializeToArray(m.stream_info[i]))])
  \o m.unknown

Camera_ByteSizeLong(m) ==
  Len(m.unknown)
  + Len(m.stream_info)
  + Total([i \in DOMAIN m.stream_info |-> MessageSize(StreamInfo_ByteSizeLong(m.stream_info[i]))])
  + UnlessSize(m.camera_guid = << >>, 1 + StringSize(m.camera_guid))
  + UnlessSize(m.camera_name = << >>, 1 + StringSize(m.camera_name))

Camera_MergeFrom(m, from) ==
  [m EXCEPT
     !.unknown = @ \o from.unknown,
     !.stream_info = @ \o MergedStreams(from.stream_info),
     !.camera_guid = Assigned(@, from.camera_guid, << >>),
     !.camera_name = Assigned(@, from.camera_name, << >>)]

(* Mutant: what the object had before stays. *)
Camera_CopyOnto(m, from) == Camera_MergeFrom(m, from)

Camera_CopyFrom(m, from) == Camera_MergeFrom(Camera_Clear(m), from)

Camera_Swap(a, b) == SwapFields(a, b, {"unknown", "stream_info", "camera_guid", "camera_name"})
----------------------------------------------------------------------------
(* CameraWatchdog                                                          *)
CameraWatchdog_SharedCtor == [pid |-> 0, unknown |-> << >>]

CameraWatchdog_set_pid(m, value) == [m EXCEPT !.pid = ToUInt32(value)]

CameraWatchdog_Copy(from) ==
  [CameraWatchdog_SharedCtor EXCEPT !.unknown = from.unknown, !.pid = from.pid]

CameraWatchdog_Clear(m) == [m EXCEPT !.pid = 0, !.unknown = << >>]

CameraWatchdog_MergePartialFromCodedStream(m, b) ==
  LET Field(c, tag, tag_at) ==
        IF tag = 8 THEN ReadUInt32(c, "pid", b) ELSE SkipField(c, tag_at, b)
  IN  ParseFields(m, b, Field)

CameraWatchdog_SerializeWithCachedSizes(m) ==
  Unless(m.pid = 0, WriteUInt32(1, m.pid)) \o m.unknown

CameraWatchdog_SerializeToArray(m) == Unless(m.pid = 0, WriteUInt32(1, m.pid)) \o m.unknown

CameraWatchdog_ByteSizeLong(m) == Len(m.unknown) + UnlessSize(m.pid = 0, 1 + UInt32Size(m.pid))

CameraWatchdog_MergeFrom(m, from) ==
  [m EXCEPT !.unknown = @ \o from.unknown, !.pid = Assigned(@, from.pid, 0)]

CameraWatchdog_CopyFrom(m, from) == CameraWatchdog_MergeFrom(CameraWatchdog_Clear(m), from)

CameraWatchdog_Swap(a, b) == SwapFields(a, b, {"unknown", "pid"})
----------------------------------------------------------------------------
(* System.CameraInfo                                                       *)
System_CameraInfo_SharedCtor == [camera_guid |-> << >>, unknown |-> << >>]

System_CameraInfo_set_camera_guid(m, value) == [m EXCEPT !.camera_guid = value]

System_CameraInfo_Copy(from) ==
  [System_CameraInfo_SharedCtor EXCEPT
     !.unknown = from.unknown, !.camera_guid = Assigned(@, from.camera_guid, << >>)]

System_CameraInfo_Clear(m) == [m EXCEPT !.camera_guid = << >>, !.unknown = << >>]

System_CameraInfo_MergePartialFromCodedStream(m, b) ==
  LET Field(c, tag, tag_at) ==
        IF tag = 10 THEN ReadString(c, "camera_guid", b) ELSE SkipField(c, tag_at, b)
  IN  ParseFields(m, b, Field)

System_CameraInfo_SerializeWithCachedSizes(m) ==
  Unless(m.camera_guid = << >>, WriteString(1, m.camera_guid)) \o m.unknown

System_CameraInfo_SerializeToArray(m) ==
  Unless(m.camera_guid = << >>, WriteString(1, m.camera_guid)) \o m.unknown

System_CameraInfo_ByteSizeLong(m) ==
  Len(m.unknown) + UnlessSize(m.camera_guid = << >>, 1 + StringSize(m.camera_guid))

System_CameraInfo_MergeFrom(m, from) ==
  [m EXCEPT !.unknown = @ \o from.unknown,
            !.camera_guid = Assigned(@, from.camera_guid, << >>)]

System_CameraInfo_CopyFrom(m, from) ==
  System_CameraInfo_MergeFrom(System_CameraInfo_Clear(m), from)

System_CameraInfo_Swap(a, b) == SwapFields(a, b, {"unknown", "camera_guid"})
----------------------------------------------------------------------------
(* System                                                                  *)
System_SharedCtor ==
  [system_guid |-> << >>, system_name |-> << >>, cameras |-> << >>, unknown |-> << >>]

System_set_system_guid(m, value) == [m EXCEPT !.system_guid = value]
System_set_system_name(m, value) == [m EXCEPT !.system_name = value]
System_add_cameras(m, node) == [m EXCEPT !.cameras = Append(@, node)]

MergedCameras(nodes) ==
  [i \in DOMAIN nodes |-> System_CameraInfo_MergeFrom(System_CameraInfo_SharedCtor, nodes[i])]

System_Copy(from) ==
  [System_SharedCtor EXCEPT
     !.cameras = MergedCameras(from.cameras),
     !.unknown = from.unknown,
     !.system_guid = Assigned(@, from.system_guid, << >>),
     !.system_name = Assigned(@, from.system_name, << >>)]

System_Clear(m) ==
  [m EXCEPT !.cameras = << >>, !.system_guid = << >>, !.system_name = << >>, !.unknown = << >>]

System_MergePartialFromCodedStream(m, b) ==
  LET NewCamera(c) ==
        System_CameraInfo_MergePartialFromCodedStream(System_CameraInfo_SharedCtor,
                                                      Delimited(b, c.at))
      Field(c, tag, tag_at) ==
        CASE tag = 10 -> ReadString(c, "system_guid", b)
          [] tag = 18 -> ReadString(c, "system_name", b)
          [] tag = 26 -> ReadMessage(c, "cameras", b, NewCamera(c))
          [] OTHER -> SkipField(c, tag_at, b)
  IN  ParseFields(m, b, Field)

System_SerializeWithCachedSizes(m) ==
  Unless(m.system_guid = << >>, WriteString(1, m.system_guid))
  \o Unless(m.system_name = << >>, WriteString(2, m.system_name))
  \o Concatenated([i \in DOMAIN m.cameras |->
       WriteMessage(3, System_CameraInfo_ByteSizeLong(m.cameras[i]),
                    System_CameraInfo_SerializeWithCachedSizes(m.cameras[i]))])
  \o m.unknown

System_SerializeToArray(m) ==
  Unless(m.system_guid = << >>, WriteString(1, m.system_guid))
  \o Unless(m.system_name = << >>, WriteString(2, m.system_name))
  \o Concatenated([i \in DOMAIN m.cameras |->
       WriteMessage(3, System_CameraInfo_ByteSizeLong(m.cameras[i]),
                    System_CameraInfo_SerializeToArray(m.cameras[i]))])
  \o m.unknown

System_ByteSizeLong(m) ==
  Len(m.unknown)
  + Len(m.cameras)
  + Total([i \in DOMAIN m.cameras |-> MessageSize(System_CameraInfo_ByteSizeLong(m.cameras[i]))])
  + UnlessSize(m.system_guid = << >>, 1 + StringSize(m.system_guid))
  + UnlessSize(m.system_name = << >>, 1 + StringSize(m.system_name))

System_MergeFrom(m, from) ==
  [m EXCEPT
     !.unknown = @ \o from.unknown,
     !.cameras = @ \o MergedCameras(from.cameras),
     !.system_guid = Assigned(@, from.system_guid, << >>),
     !.system_name = Assigned(@, from.system_name, << >>)]

System_CopyFrom(m, from) == System_MergeFrom(System_Clear(m), from)

System_Swap(a, b) == SwapFields(a, b, {"unknown", "cameras", "system_guid", "system_name"})
=============================================================================
