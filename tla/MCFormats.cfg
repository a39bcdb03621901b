\* A ring of four cells shared by a sender's and a receiver's handle; packets,
\* messages and files of the shapes that MCFormats lists; two pictures of up to
\* three NAL units, and two changes of the frame info.
SPECIFICATION FormatsSpec
CONSTANTS
  b0 = b0
  b1 = b1
  h0 = h0
  h1 = h1
  QueueSize = 4
  Wrap = 16
  Byte <- MCByte
  Blank = b0
  Handles <- MCHandles
  MaxLen = 3
  Types = {"PACKEK_TYPE_FRAME", "PACKEK_TYPE_PROCESS_INFO_REQ", "PACKEK_TYPE_PROCESS_INFO",
           "PACKEK_TYPE_STREAM_INFO", "PACKEK_TYPE_STREAM_REQUEST",
           "PACKEK_TYPE_STREAM_STATUS"}
  Texts <- MCTexts
  Numbers <- MCNumbers
  BufferSize = 0
  LeastSize = 9
  MaxPackets = 2
  IntSpan = 65536
  Messages <- MCMessages
  NewFields <- MCNewFields
  MaxCalls = 4
  CameraInfos <- MCCameraInfos
  SystemInfos <- MCSystemInfos
  Watchdogs <- MCWatchdogs
  MaxSaves = 2
  Lengths = {1, 2, 3, 4, 5, 6, 7}
  QueueRoom = 9
  Requests <- MCRequests
  StreamSizes = {1, 2}
  LeastData = 5
  MaxPictures = 2
  MaxChanges = 2
  NalUnits <- MCNalUnits
  Sprops <- MCSprops
  CodeSize = 1
  HeaderRoom = 2
  PacketRoom = 3
  ReceivedRoom = 7
  MaxNals = 3
  MaxSinks = 1
INVARIANTS RingShape OnlyETXOverruns ReadsBack MessageLaws WholeFileLoads TornNeverMixed
INVARIANTS OnePicture StaysInside SendsWhatItSays DeliversUnit
PROPERTY FifoSpec
CHECK_DEADLOCK FALSE
