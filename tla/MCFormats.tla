----------------------------- MODULE MCFormats -----------------------------
(***************************************************************************)
(* What the program writes and reads back: bytes in a ring, packets,       *)
(* messages, files of messages, and the pictures that go through the       *)
(* buffers of a sink and of a decoder.  A behaviour is about one of them;  *)
(* the others stay as they are.                                            *)
(***************************************************************************)
EXTENDS RingQueue, PacketCodec, MessageObjects, CameraFile, MCVideoPath

VARIABLE part

formats == <<part, vars, codec, objects, files, pathVars>>

FormatsInit ==
  /\ part \in {"ring", "packets", "objects", "files", "pictures"}
  /\ Init /\ PacketsInit /\ ObjectsInit /\ FilesInit /\ PathInit
  /\ part # "objects" => class = "StreamInfo"
  /\ part # "files" => kind = "camera"

FormatsNext ==
  /\ UNCHANGED part
  /\ \/ part = "ring" /\ Next /\ UNCHANGED <<codec, objects, files, pathVars>>
     \/ part = "packets" /\ PacketsNext /\ UNCHANGED <<vars, objects, files, pathVars>>
     \/ part = "objects" /\ ObjectsNext /\ UNCHANGED <<vars, codec, files, pathVars>>
     \/ part = "files" /\ FilesNext /\ UNCHANGED <<vars, codec, objects, pathVars>>
     \/ part = "pictures" /\ PathNext /\ UNCHANGED <<vars, codec, objects, files>>

FormatsSpec == FormatsInit /\ [][FormatsNext]_formats
----------------------------------------------------------------------------
CONSTANTS b0, b1, h0, h1

(* Two byte values, and a sender's and a receiver's handle of the ring. *)
MCByte == {b0, b1}
MCHandles == {h0, h1}

(* Nothing, a long text of delimiters, and one that looks like the end of  *)
(* a packet and the start of another.                                      *)
MCTexts ==
  {<< >>, <<ETX, STX, Char("1")>>,
   [i \in 1..7 |-> IF i = 2 THEN StartBlockDelimiter ELSE BlockDataDelimiter]}

(* No frame type, the first stream, a width. *)
MCNumbers == {-1, 0, 1920}

(* A stream as the program makes it, one with every field, a number that   *)
(* is negative and texts that are not ASCII, and one that was cleared.     *)
NewStream ==
  [url |-> <<114, 58>>, ip |-> << >>, user_id |-> << >>, user_pw |-> << >>, port |-> 554,
   stream_accumulate_time |-> 500, fps |-> 0, tcp |-> TRUE, stream_used |-> FALSE]
FullStream ==
  [url |-> <<114, 47>>, ip |-> <<49>>, user_id |-> <<195, 169>>, user_pw |-> <<0>>, port |-> -1,
   stream_accumulate_time |-> 127, fps |-> 128, tcp |-> TRUE, stream_used |-> TRUE]
NoStream ==
  [url |-> << >>, ip |-> << >>, user_id |-> << >>, user_pw |-> << >>, port |-> 0,
   stream_accumulate_time |-> 0, fps |-> 0, tcp |-> FALSE, stream_used |-> FALSE]

(* A text in the code page of the system, which is not UTF-8. *)
AnsiText == <<199, 65>>

(* Characters of one, two, three and four bytes. *)
Name == <<65, 233, 54620, 128247>>

MCCameraInfos ==
  {[camera_guid |-> <<123>>, camera_name |-> Name,
    stream_info |-> <<NewStream, FullStream, NoStream>>],
   [camera_guid |-> << >>, camera_name |-> << >>,
    stream_info |-> <<NoStream, NewStream, NewStream>>],
   [camera_guid |-> <<123>>, camera_name |-> <<66>>,
    stream_info |-> <<NewStream, [FullStream EXCEPT !.user_pw = AnsiText], NoStream>>]}

MCSystemInfos ==
  {[system_guid |-> <<123>>, system_name |-> Name, cameras |-> <<<<49>>, << >>, <<50, 51>>>>],
   [system_guid |-> <<125>>, system_name |-> << >>, cameras |-> << >>],
   [system_guid |-> AnsiText, system_name |-> <<66>>, cameras |-> <<<<49>>>>]}

MCWatchdogs == {[pid |-> 0], [pid |-> 300], [pid |-> -2]}

MCStreams == {StreamNode(s) : s \in {NewStream, FullStream}}
MCMessages ==
  [StreamInfo |-> MCStreams,
   Camera |-> {CameraMessage(i) : i \in {c \in MCCameraInfos : c.camera_name # <<66>>}},
   CameraWatchdog |-> {WatchdogMessage(i) : i \in MCWatchdogs},
   System_CameraInfo |-> {[camera_guid |-> g, unknown |-> << >>] : g \in {<< >>, <<49>>, <<50, 51>>}},
   System |-> {SystemMessage(i) : i \in {s \in MCSystemInfos : s.system_name # <<66>>}}]

(* None, a number of field 15, and a text of field 16 with a number after it. *)
MCNewFields == {<< >>, <<120, 129, 1>>, <<130, 1, 2, 10, 8, 120, 0>>}
=============================================================================
