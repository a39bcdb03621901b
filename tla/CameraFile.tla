----------------------------- MODULE CameraFile -----------------------------
(***************************************************************************)
(* The files of SystemInfo.cpp: a process saves a camera, a system or a    *)
(* watchdog's entry while another one, the camera process of               *)
(* Camera::LoadCamerasPbFile, loads it.  A file is opened with trunc, the  *)
(* message goes to the stream's buffer, and the buffer to the disk when    *)
(* the stream is destroyed, after the result has been decided.  The saving *)
(* process may die at any point and the disk may be full.                  *)
(*                                                                         *)
(* Files are smaller than the stream's buffer.                             *)
(***************************************************************************)
EXTENDS CameraInfoFile

CONSTANTS
  CameraInfos, SystemInfos, Watchdogs,   (* what is saved                  *)
  MaxSaves                               (* bound: saves in one behaviour  *)

Kinds == {"camera", "system", "watchdog"}
Infos(k) == CASE k = "camera" -> CameraInfos [] k = "system" -> SystemInfos
              [] k = "watchdog" -> Watchdogs

StreamCount == 3

(* The structures of SystemInfo.h.  A name has characters, the other texts *)
(* are the bytes of some code page.  A uint32 can count the bytes of each. *)
CInt == (-(IntSpan \div 2))..((IntSpan \div 2) - 1)
WideText ==
  {s \in Seq(Nat) : /\ \A i \in DOMAIN s : IsCharacter(s[i])
                    /\ Len(convert_unicode_to_utf8(s)) < IntSpan}
CodePageText == {s \in Seq(Octet) : Len(s) < IntSpan}
StreamData ==
  [url : CodePageText, ip : CodePageText, port : CInt, user_id : CodePageText, user_pw : CodePageText,
   tcp : BOOLEAN, stream_accumulate_time : CInt, fps : CInt, stream_used : BOOLEAN]
CameraData ==
  [camera_guid : CodePageText, camera_name : WideText, stream_info : [1..StreamCount -> StreamData]]
SystemData == [system_guid : CodePageText, system_name : WideText, cameras : Seq(CodePageText)]
WatchdogData == [pid : CInt]
----------------------------------------------------------------------------
(* SaveCameraInfoPB, SaveSystemInfoPB, SaveCameraWatchdog: the message.    *)

(* Mutant: the password is written over the user. *)
StreamNodeTwice(info) ==
  [StreamInfo_SharedCtor EXCEPT
     !.url = info.url, !.ip = info.ip, !.port = ToUInt32(info.port), !.user_id = info.user_pw,
     !.tcp = info.tcp, !.stream_accumulate_time = ToUInt32(info.stream_accumulate_time),
     !.fps = ToUInt32(info.fps), !.stream_used = info.stream_used]

StreamNode(info) ==
  LET url == StreamInfo_set_url(StreamInfo_SharedCtor, info.url)
      ip == StreamInfo_set_ip(url, info.ip)
      port == StreamInfo_set_port(ip, info.port)
      user_id == StreamInfo_set_user_id(port, info.user_id)
      user_pw == StreamInfo_set_user_pw(user_id, info.user_pw)
      tcp == StreamInfo_set_tcp(user_pw, info.tcp)
      time == StreamInfo_set_stream_accumulate_time(tcp, info.stream_accumulate_time)
      fps == StreamInfo_set_fps(time, info.fps)
  IN  StreamInfo_set_stream_used(fps, info.stream_used)

CameraMessage(info) ==
  LET guid == Camera_set_camera_guid(Camera_SharedCtor, info.camera_guid)
      name == Camera_set_camera_name(guid, convert_unicode_to_utf8(info.camera_name))
      added[n \in 0..Len(info.stream_info)] ==
        IF n = 0 THEN name
        ELSE Camera_add_stream_info(added[n - 1], StreamNode(info.stream_info[n]))
  IN  added[Len(info.stream_info)]

CameraNode(guid) == System_CameraInfo_set_camera_guid(System_CameraInfo_SharedCtor, guid)

SystemMessage(info) ==
  LET guid == System_set_system_guid(System_SharedCtor, info.system_guid)
      name == System_set_system_name(guid, convert_unicode_to_utf8(info.system_name))
      added[n \in 0..Len(info.cameras)] ==
        IF n = 0 THEN name ELSE System_add_cameras(added[n - 1], CameraNode(info.cameras[n]))
  IN  added[Len(info.cameras)]

WatchdogMessage(info) == CameraWatchdog_set_pid(CameraWatchdog_SharedCtor, info.pid)

(* SerializeToOstream: the message fits into one block of the output, so   *)
(* it is written by SerializeToArray.                                      *)
Bytes(k, info) ==
  CASE k = "camera" -> Camera_SerializeToArray(CameraMessage(info))
    [] k = "system" -> System_SerializeToArray(SystemMessage(info))
    [] k = "watchdog" -> CameraWatchdog_SerializeToArray(WatchdogMessage(info))

(* What is saved fits into the structures, and a uint32 can count the      *)
(* bytes of a message inside another one.                                  *)
ASSUME FileAssumption ==
  /\ CameraInfos \subseteq CameraData /\ SystemInfos \subseteq SystemData
  /\ Watchdogs \subseteq WatchdogData
  /\ \A info \in CameraInfos : \A i \in 1..StreamCount :
       StreamInfo_ByteSizeLong(StreamNode(info.stream_info[i])) < IntSpan
  /\ \A info \in SystemInfos : \A i \in DOMAIN info.cameras :
       System_CameraInfo_ByteSizeLong(CameraNode(info.cameras[i])) < IntSpan
  /\ MaxSaves \in Nat
----------------------------------------------------------------------------
(* LoadCameraInfoPB, LoadSystemInfoPB, LoadCameraWatchdog: the structure   *)
(* that a message fills.                                                   *)
StreamOf(node) ==
  [url |-> node.url, ip |-> node.ip, port |-> ToInt(node.port),
   user_id |-> node.user_id, user_pw |-> node.user_pw, tcp |-> node.tcp,
   stream_accumulate_time |-> ToInt(node.stream_accumulate_time),
   fps |-> ToInt(node.fps), stream_used |-> node.stream_used]

(* It reads three streams whatever the message has; Get(index) past them   *)
(* is undefined.                                                           *)
HasStreams(m) == Len(m.stream_info) >= StreamCount
CameraOf(m) ==
  [camera_guid |-> m.camera_guid, camera_name |-> convert_utf8_to_unicode(m.camera_name),
   stream_info |-> [i \in 1..StreamCount |-> StreamOf(m.stream_info[i])]]

SystemOf(m) ==
  [system_guid |-> m.system_guid, system_name |-> convert_utf8_to_unicode(m.system_name),
   cameras |-> [i \in DOMAIN m.cameras |-> m.cameras[i].camera_guid]]

WatchdogOf(m) == [pid |-> ToInt(m.pid)]

(* ParseFromIstream, and what it gives. *)
Parsed(k, bytes) ==
  CASE k = "camera" -> Camera_MergePartialFromCodedStream(Camera_SharedCtor, bytes)
    [] k = "system" -> System_MergePartialFromCodedStream(System_SharedCtor, bytes)
    [] k = "watchdog" ->
         CameraWatchdog_MergePartialFromCodedStream(CameraWatchdog_SharedCtor, bytes)
InfoOf(k, m) ==
  CASE k = "camera" -> CameraOf(m) [] k = "system" -> SystemOf(m)
    [] k = "watchdog" -> WatchdogOf(m)
----------------------------------------------------------------------------
VARIABLES
  kind,      (* which of the files                                         *)
  exists,    (* there is such a file                                       *)
  disk,      (* its bytes                                                  *)
  saver,     (* "idle", "open", "written"                                  *)
  saving,    (* the info of the latest save that opened the file           *)
  saves,
  loader,    (* "idle", "exists", "done", "undefined"                      *)
  result,    (* what the load returned                                     *)
  loaded,    (* what it filled, << >> if nothing                           *)
  seen       (* the bytes it parsed, and what was being saved then         *)

saverVars == <<saver, saving, saves>>
loaderVars == <<loader, result, loaded, seen>>
files == <<kind, exists, disk, saverVars, loaderVars>>

Nothing == << >>

FilesInit ==
  /\ kind \in Kinds
  /\ exists = FALSE /\ disk = << >>
  /\ saver = "idle" /\ saving = Nothing /\ saves = 0
  /\ loader = "idle" /\ result = 0 /\ loaded = Nothing
  /\ seen = [bytes |-> << >>, of |-> Nothing]

(* The file is opened and is empty from now on. *)
SaveOpen(info) ==
  /\ saver = "idle" /\ saves < MaxSaves
  /\ saver' = "open" /\ saving' = info /\ saves' = saves + 1
  /\ exists' = TRUE /\ disk' = << >>
  /\ UNCHANGED <<kind, loaderVars>>

(* It cannot be opened: SerializeToOstream fails, the file stays.  *)
SaveOpenFails ==
  /\ saver = "idle" /\ saves < MaxSaves
  /\ saves' = saves + 1
  /\ UNCHANGED <<kind, exists, disk, saver, saving, loaderVars>>

(* SerializeToOstream into the buffer; the save will return 0. *)
SaveSerialize ==
  /\ saver = "open"
  /\ saver' = "written"
  /\ UNCHANGED <<kind, exists, disk, saving, saves, loaderVars>>

(* The stream's destructor; the disk may not take everything. *)
SaveClose ==
  /\ saver = "written"
  /\ saver' = "idle"
  /\ \E n \in 0..Len(Bytes(kind, saving)) : disk' = SubSeq(Bytes(kind, saving), 1, n)
  /\ UNCHANGED <<kind, exists, saving, saves, loaderVars>>

(* The saving process dies, and starts again. *)
SaverDies ==
  /\ saver \in {"open", "written"}
  /\ saver' = "idle"
  /\ UNCHANGED <<kind, exists, disk, saving, saves, loaderVars>>

LoadReturns(code, info) == loader' = "done" /\ result' = code /\ loaded' = info

(* IsExistFile. *)
Load ==
  /\ loader \in {"idle", "done"}
  /\ IF exists
     THEN loader' = "exists" /\ UNCHANGED <<result, loaded>>
     ELSE LoadReturns(1, Nothing)
  /\ UNCHANGED <<kind, exists, disk, saverVars, seen>>

(* The rest of the load: the file is read in one piece. *)
LoadParse ==
  /\ loader = "exists"
  /\ seen' = [bytes |-> disk, of |-> saving]
  /\ LET parsed == Parsed(kind, disk)
     IN  CASE ~parsed.ok -> LoadReturns(2, Nothing)
           [] parsed.ok /\ kind = "camera" /\ ~HasStreams(parsed.m) ->
                loader' = "undefined" /\ UNCHANGED <<result, loaded>>
           [] OTHER -> LoadReturns(0, InfoOf(kind, parsed.m))
  /\ UNCHANGED <<kind, exists, disk, saverVars>>

FilesNext ==
  \/ \E info \in Infos(kind) : SaveOpen(info)
  \/ SaveOpenFails \/ SaveSerialize \/ SaveClose \/ SaverDies
  \/ Load \/ LoadParse

FilesSpec == FilesInit /\ [][FilesNext]_files
----------------------------------------------------------------------------
(* The texts that are saved as they are. *)
RawTexts(k, info) ==
  CASE k = "camera" ->
         {info.camera_guid} \cup
         UNION {LET s == info.stream_info[i] IN {s.url, s.ip, s.user_id, s.user_pw}
                 : i \in DOMAIN info.stream_info}
    [] k = "system" -> {info.system_guid} \cup {info.cameras[i] : i \in DOMAIN info.cameras}
    [] k = "watchdog" -> {}

(* A file that was written in full is loaded, with every value as it was   *)
(* saved, a name in any script and a negative number included; it is       *)
(* refused exactly if a text that is saved without conversion is not       *)
(* UTF-8.  Such a file never makes the load read past its streams.         *)
WholeFileLoads ==
  loader \in {"done", "undefined"} /\ seen.of # Nothing
    /\ seen.bytes = Bytes(kind, seen.of) =>
  /\ loader = "done"
  /\ IF \A t \in RawTexts(kind, seen.of) : IsStructurallyValidUTF8(t)
     THEN result = 0 /\ loaded = seen.of
     ELSE result = 2

(* A file that another process has just emptied, or could not write in     *)
(* full, is never loaded as something that nobody saved: a camera is the   *)
(* one that was saved last, as a whole; of a system the later cameras, or  *)
(* also the name, may be missing, of the watchdog the process.             *)
TornNeverMixed ==
  loader = "done" /\ result = 0 =>
    CASE kind = "camera" -> loaded = seen.of
      [] kind = "system" ->
           /\ \E n \in 0..Len(seen.of.cameras) : loaded.cameras = SubSeq(seen.of.cameras, 1, n)
           /\ loaded.cameras # << >> =>
                loaded.system_name = seen.of.system_name /\ loaded.system_guid = seen.of.system_guid
           /\ loaded.system_name \in {<< >>, seen.of.system_name}
           /\ loaded.system_guid \in {<< >>, seen.of.system_guid}
      [] kind = "watchdog" -> loaded.pid \in {0, seen.of.pid}
=============================================================================
