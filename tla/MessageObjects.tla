--------------------------- MODULE MessageObjects ---------------------------
(***************************************************************************)
(* Two objects of one message class of CameraInfoFile.pb.h, and every call *)
(* of the generated code on them: assigning the fields, clearing, copying, *)
(* merging, swapping, and writing one object and reading it into the other *)
(* from a file that a later version of the program may have written.       *)
(***************************************************************************)
EXTENDS CameraInfoFile

CONSTANTS
  Messages,    (* for each class, the values an object is given            *)
  NewFields,   (* bytes of fields that this version does not know          *)
  MaxCalls     (* bound: calls in one behaviour                            *)

Classes == {"StreamInfo", "Camera", "CameraWatchdog", "System_CameraInfo", "System"}

----------------------------------------------------------------------------
(* The functions of the classes, by the class of the object.               *)
ByClass(class, stream, camera, watchdog, system_camera, system) ==
  CASE class = "StreamInfo" -> stream
    [] class = "Camera" -> camera
    [] class = "CameraWatchdog" -> watchdog
    [] class = "System_CameraInfo" -> system_camera
    [] class = "System" -> system

New(k) ==
  ByClass(k, StreamInfo_SharedCtor, Camera_SharedCtor, CameraWatchdog_SharedCtor,
          System_CameraInfo_SharedCtor, System_SharedCtor)
Copy(k, m) ==
  ByClass(k, StreamInfo_Copy(m), Camera_Copy(m), CameraWatchdog_Copy(m),
          System_CameraInfo_Copy(m), System_Copy(m))
ClearMessage(k, m) ==
  ByClass(k, StreamInfo_Clear(m), Camera_Clear(m), CameraWatchdog_Clear(m),
          System_CameraInfo_Clear(m), System_Clear(m))
Merge(k, m, from) ==
  ByClass(k, StreamInfo_MergeFrom(m, from), Camera_MergeFrom(m, from),
          CameraWatchdog_MergeFrom(m, from), System_CameraInfo_MergeFrom(m, from),
          System_MergeFrom(m, from))
CopyFrom(k, m, from) ==
  ByClass(k, StreamInfo_CopyFrom(m, from), Camera_CopyFrom(m, from),
          CameraWatchdog_CopyFrom(m, from), System_CameraInfo_CopyFrom(m, from),
          System_CopyFrom(m, from))
Swap(k, a, b) ==
  ByClass(k, StreamInfo_Swap(a, b), Camera_Swap(a, b), CameraWatchdog_Swap(a, b),
          System_CameraInfo_Swap(a, b), System_Swap(a, b))
Size(k, m) ==
  ByClass(k, StreamInfo_ByteSizeLong(m), Camera_ByteSizeLong(m), CameraWatchdog_ByteSizeLong(m),
          System_CameraInfo_ByteSizeLong(m), System_ByteSizeLong(m))
Serialize(k, m) ==
  ByClass(k, StreamInfo_SerializeWithCachedSizes(m), Camera_SerializeWithCachedSizes(m),
          CameraWatchdog_SerializeWithCachedSizes(m),
          System_CameraInfo_SerializeWithCachedSizes(m), System_SerializeWithCachedSizes(m))
SerializeToArray(k, m) ==
  ByClass(k, StreamInfo_SerializeToArray(m), Camera_SerializeToArray(m),
          CameraWatchdog_SerializeToArray(m), System_CameraInfo_SerializeToArray(m),
          System_SerializeToArray(m))
Parse(k, m, bytes) ==
  ByClass(k, StreamInfo_MergePartialFromCodedStream(m, bytes),
          Camera_MergePartialFromCodedStream(m, bytes),
          CameraWatchdog_MergePartialFromCodedStream(m, bytes),
          System_CameraInfo_MergePartialFromCodedStream(m, bytes),
          System_MergePartialFromCodedStream(m, bytes))
----------------------------------------------------------------------------
(* The tags that each class knows. *)
Tags(k) ==
  ByClass(k, {10, 18, 24, 34, 42, 48, 56, 64, 72}, {10, 18, 26}, {8}, {10}, {10, 18, 26})

(* Fields that a class does not know, one after another: at every place    *)
(* where one starts there is a whole one.                                  *)
Skipped(u, i) == SkipField(Cursor([unknown |-> << >>], VarintEnd(u, i) + 1, TRUE), i, u)
NewFieldAt(k, u, i) ==
  VarintEnd(u, i) # 0 /\ VarintValue(u, i) \notin Tags(k) \cup {0} /\ Skipped(u, i).ok
NewTo(k) ==
  {u \in Seq(Octet) :
     \E starts \in SUBSET (1..(Len(u) + 1)) :
       1 \in starts /\ \A i \in starts : i <= Len(u) => NewFieldAt(k, u, i) /\ Skipped(u, i).at \in starts}

(* The values of the fields: texts that SerializeWithCachedSizes does not  *)
(* complain about, and parts whose sizes a uint32 can count.               *)
Text == {s \in Seq(Octet) : Len(s) < IntSpan /\ IsStructurallyValidUTF8(s)}
UInt32 == 0..(IntSpan - 1)
StreamInfos ==
  [url : Text, ip : Text, user_id : Text, user_pw : Text, port : UInt32,
   stream_accumulate_time : UInt32, tcp : BOOLEAN, stream_used : BOOLEAN, fps : UInt32,
   unknown : NewTo("StreamInfo")]
SystemCameras == [camera_guid : Text, unknown : NewTo("System_CameraInfo")]
Objects(k) ==
  ByClass(k, StreamInfos,
    [camera_guid : Text, camera_name : Text, stream_info : Seq(StreamInfos), unknown : NewTo("Camera")],
    [pid : UInt32, unknown : NewTo("CameraWatchdog")], SystemCameras,
    [system_guid : Text, system_name : Text, cameras : Seq(SystemCameras), unknown : NewTo("System")])

PartsFit(k, m) ==
  ByClass(k, TRUE,
    \A i \in DOMAIN m.stream_info : StreamInfo_ByteSizeLong(m.stream_info[i]) < IntSpan, TRUE, TRUE,
    \A i \in DOMAIN m.cameras : System_CameraInfo_ByteSizeLong(m.cameras[i]) < IntSpan)

ASSUME ObjectsAssumption ==
  /\ Classes \subseteq DOMAIN Messages /\ MaxCalls \in Nat
  /\ \A k \in Classes :
       /\ NewFields \subseteq NewTo(k) /\ Messages[k] \subseteq Objects(k)
       /\ \A m \in Messages[k] : PartsFit(k, m)
----------------------------------------------------------------------------
VARIABLES class, x, y, calls

objects == <<class, x, y, calls>>

ObjectsInit ==
  /\ class \in Classes
  /\ x = New(class) /\ y = New(class)
  /\ calls = 0

Call == calls < MaxCalls /\ calls' = calls + 1 /\ UNCHANGED class

Assign == Call /\ x' \in Messages[class] /\ UNCHANGED y
ClearObject == Call /\ x' = ClearMessage(class, x) /\ UNCHANGED y
CopyConstruct == Call /\ x' = Copy(class, y) /\ UNCHANGED y
CopyObject == Call /\ x' = CopyFrom(class, x, y) /\ UNCHANGED y
MergeObject == Call /\ x' = Merge(class, x, y) /\ UNCHANGED y
SwapObjects ==
  LET swapped == Swap(class, x, y) IN Call /\ x' = swapped[1] /\ y' = swapped[2]

(* ParseFromIstream of what the other object and new fields make: it       *)
(* clears first.                                                           *)
ReadObject ==
  /\ Call
  /\ \E new \in NewFields :
       x' = Parse(class, ClearMessage(class, x), SerializeToArray(class, y) \o new).m
  /\ UNCHANGED y

ObjectsNext ==
  \/ Assign \/ ClearObject \/ CopyConstruct \/ CopyObject \/ MergeObject \/ SwapObjects
  \/ ReadObject

ObjectsSpec == ObjectsInit /\ [][ObjectsNext]_objects
----------------------------------------------------------------------------
(* The generated functions agree with each other, whatever calls made the  *)
(* objects: the size they count is the size they write, in both ways of    *)
(* writing; a copy, by either way of copying, is the object; and reading   *)
(* two objects one after the other gives their merge, so that nothing that *)
(* was written is lost, a field of a later version included.               *)
MessageLaws ==
  calls > 0 =>
    LET written == [m \in {x, y} |-> Serialize(class, m)]
        Reads(bytes) == Parse(class, New(class), bytes)
    IN  /\ \A m \in {x, y} :
             /\ Size(class, m) = Len(written[m])
             /\ SerializeToArray(class, m) = written[m]
             /\ Copy(class, m) = m
             /\ CopyFrom(class, x, m) = m
        /\ ClearMessage(class, x) = New(class)
        /\ Swap(class, x, y) = <<y, x>>
        /\ \A read \in {<<written[x], x>>, <<written[y], y>>,
                        <<written[x] \o written[y], Merge(class, x, y)>>} :
             Reads(read[1]) = Cursor(read[2], Len(read[1]) + 1, TRUE)
=============================================================================
