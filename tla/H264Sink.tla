------------------------------ MODULE H264Sink ------------------------------
(***************************************************************************)
(* The end of the RTSP client: H264Sink gets the NAL units of the stream   *)
(* one at a time, collects those of a picture in m_received_buffer, each   *)
(* with a start code, and delivers them when the RTP marker says that the  *)
(* picture is complete.  The SPS and PPS of the session's description go   *)
(* in before the last NAL unit.  A NAL unit may be lost on the way, the    *)
(* one with the marker too; what has no room is left out, piece by piece   *)
(* and unnoticed.                                                          *)
(*                                                                         *)
(* A buffer is the sequence of the pieces that were appended to it.  The   *)
(* module leaves open what a delivery does: see VideoPath.                 *)
(***************************************************************************)
EXTENDS Naturals, Sequences, SequencesExt, FiniteSetsExt

CONSTANTS
  NalUnits,       (* the NAL units a camera sends: their type and size     *)
  Sprops,         (* the SPS and PPS records a camera may announce         *)
  CodeSize,       (* of g_H264StartCode                                    *)
  HeaderRoom,     (* of m_header_buffer                                    *)
  PacketRoom,     (* g_rtp_packet_buffer_size                              *)
  ReceivedRoom,   (* of m_received_buffer                                  *)
  MaxNals,        (* bound: NAL units a camera sends in one behaviour      *)
  MaxSinks        (* bound: sessions after the first                       *)

ASSUME SinkAssumption ==
  /\ \A u \in NalUnits : u.size \in Nat \ {0}
  /\ \A s \in Sprops : s \in Seq([type : STRING, size : Nat])
  /\ {CodeSize, HeaderRoom, PacketRoom, ReceivedRoom, MaxNals, MaxSinks} \subseteq Nat

(* A piece: what it is, the number of its NAL unit, and its size. *)
Piece(what, nal, size) == [what |-> what, nal |-> nal, size |-> size]
Code == Piece("code", 0, CodeSize)

SizeOf(pieces) == FoldLeft(LAMBDA n, p : n + p.size, 0, pieces)

(* array_ex::append: nothing is appended if it does not fit. *)
append(buffer, piece, room) ==
  IF SizeOf(buffer) + piece.size > room THEN buffer ELSE Append(buffer, piece)

VARIABLES
  header,      (* m_header_buffer                                          *)
  received,    (* m_received_buffer                                        *)
  nals,        (* the NAL units the camera sent, each with its marker, and *)
               (* LostUnit in the place of those that were lost            *)
  since,       (* how many of them there were when collecting began        *)
  delivered,   (* the pictures that were delivered                         *)
  sinks

sink == <<header, received, nals, since, delivered, sinks>>

(* setSpropRecords: a record that is empty, or neither an SPS nor a PPS,   *)
(* is left out.                                                            *)
setSpropRecords(records) ==
  LET Add(buffer, r) ==
        IF r.size = 0 \/ r.type \notin {"sps", "pps"} THEN buffer
        ELSE append(append(buffer, Code, HeaderRoom), Piece(r.type, 0, r.size), HeaderRoom)
  IN  FoldLeft(Add, << >>, records)

SinkInit ==
  /\ header \in {setSpropRecords(s) : s \in Sprops}
  /\ received = << >> /\ nals = << >> /\ since = 0
  /\ delivered = << >> /\ sinks = 0

(* A new session has a new sink; what the old one had collected is gone. *)
NewSink ==
  /\ sinks < MaxSinks
  /\ sinks' = sinks + 1
  /\ header' \in {setSpropRecords(s) : s \in Sprops}
  /\ received' = << >> /\ since' = Len(nals)
  /\ UNCHANGED <<nals, delivered>>
----------------------------------------------------------------------------
isKeyFrame(type) == type = "idr"

(* appendH264HeaderPacket: the header is one piece of the size it has. *)
appendH264HeaderPacket(buffer) ==
  append(buffer, Piece("header", 0, SizeOf(header)), ReceivedRoom)

appendH264BodyPacket(buffer, nal, size) ==
  append(append(buffer, Code, ReceivedRoom), Piece("body", nal, size), ReceivedRoom)

LostUnit == [type |-> "lost", size |-> 0]

Sends(unit, marker) ==
  /\ Len(nals) < MaxNals
  /\ nals' = Append(nals, [unit |-> unit, marker |-> marker])

(* What is in m_received_buffer once this NAL unit is appended. *)
Collected(size, marker) ==
  appendH264BodyPacket(IF marker THEN appendH264HeaderPacket(received) ELSE received,
                       Len(nals) + 1, size)

(* continuePlaying: the source gives at most PacketRoom bytes of a unit.   *)
continuePlaying(size) == Min({size, PacketRoom})

(* afterGettingFrame for a NAL unit with the marker: the picture is given  *)
(* to callback_video_frame_received.                                       *)
FinishKeeping(unit, left) ==
  /\ Sends(unit, TRUE)
  /\ delivered' = Append(delivered,
       [pieces |-> Collected(continuePlaying(unit.size), TRUE),
        key_frame |-> isKeyFrame(unit.type), header |-> header,
        since |-> since, upto |-> Len(nals) + 1])
  /\ received' = left /\ since' = Len(nals) + 1
  /\ UNCHANGED <<header, sinks>>

(* Mutant: m_received_buffer is not cleared. *)
FinishUncleared(unit) == FinishKeeping(unit, Collected(continuePlaying(unit.size), TRUE))

FinishPicture(unit) == FinishKeeping(unit, << >>)

(* The same without the marker. *)
CollectNal(unit) ==
  /\ Sends(unit, FALSE)
  /\ received' = Collected(continuePlaying(unit.size), FALSE)
  /\ UNCHANGED <<header, since, delivered, sinks>>

(* A NAL unit is lost on the way, or the sink has no RTP source and asks   *)
(* for the next one.                                                       *)
LoseNal(marker) ==
  /\ Sends(LostUnit, marker)
  /\ UNCHANGED <<header, received, since, delivered, sinks>>
=============================================================================
