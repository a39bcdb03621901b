----------------------------- MODULE VideoPath -----------------------------
(***************************************************************************)
(* The way of a picture through a streamer: what H264Sink delivers on the  *)
(* session's thread, Streamer::OnVideoFrameReceived pushes to the decoder, *)
(* within the same call.                                                   *)
(***************************************************************************)
EXTENDS DecoderFrames, H264Sink

pathVars == <<frameVars, sink>>

(* The sink's buffer holds a start code, and whatever it holds may be      *)
(* pushed.                                                                 *)
ASSUME PathAssumption ==
  CodeSize \in 1..ReceivedRoom /\ 1..ReceivedRoom \subseteq Lengths

PathInit == FramesInit /\ SinkInit

(* OnVideoFrameReceived: the buffer of the sink is pushed with its length. *)
OnVideoFrameReceived(unit) ==
  /\ FinishPicture(unit)
  /\ QueuePush(SizeOf(Collected(continuePlaying(unit.size), TRUE)))

SinkStep ==
  \/ NewSink
  \/ \E unit \in NalUnits : CollectNal(unit)
  \/ \E marker \in BOOLEAN : LoseNal(marker)

DecoderStep ==
  \/ \E i \in Requests : SetFrameInfo(i)
  \/ FrameInfoSet
  \/ PopSource \/ SetDstBufferInfo \/ Decode \/ DecodeFails \/ SetAllocBuffer
  \/ KeepBuffer \/ Callback \/ Restart \/ Replace

PathNext ==
  \/ \E unit \in NalUnits : OnVideoFrameReceived(unit)
  \/ SinkStep /\ UNCHANGED frameVars
  \/ DecoderStep /\ UNCHANGED sink

PathSpec == PathInit /\ [][PathNext]_pathVars
----------------------------------------------------------------------------
(* The NAL units that arrived from the one after `from` up to `to`, and    *)
(* how they look in a buffer that has room for them: a start code before   *)
(* each, and for a whole picture the header before the last.               *)
Arrived(n) == nals[n].unit # LostUnit
Body(n) == Piece("body", n, Min({nals[n].unit.size, PacketRoom}))
Units(from, to) ==
  LET pieces[n \in from..to] ==
        IF n = from THEN << >>
        ELSE IF Arrived(n) THEN Append(Append(pieces[n - 1], Code), Body(n))
        ELSE pieces[n - 1]
  IN  pieces[to]
Whole(d) ==
  Append(Append(Append(Units(d.since, d.upto - 1), Piece("header", 0, SizeOf(d.header))),
                Code), Body(d.upto))

(* The NAL units in a buffer are some that arrived, in their order. *)
InOrder(pieces, from, to) ==
  LET bodies == {i \in DOMAIN pieces : pieces[i].what = "body"}
  IN  /\ \A i \in bodies : pieces[i].nal \in (from + 1)..to /\ Arrived(pieces[i].nal)
      /\ \A i, j \in bodies : i < j => pieces[i].nal < pieces[j].nal

(* The picture that the decoder takes is the one that H264Sink collected:  *)
(* all of the NAL units that arrived since the last delivery, none of an   *)
(* earlier one and none twice, if there was room, and otherwise some of    *)
(* them in their order, whatever was lost on the way; it is never longer   *)
(* than the buffer.                                                        *)
DeliversUnit ==
  thread # "pop" =>
    LET d == delivered[item.id]
    IN  /\ item.length = SizeOf(d.pieces) /\ SizeOf(d.pieces) <= ReceivedRoom
        /\ IF SizeOf(Whole(d)) <= ReceivedRoom
           THEN d.pieces = Whole(d)
           ELSE InOrder(d.pieces, d.since, d.upto)
        /\ item.id > 1 => delivered[item.id - 1].upto <= d.since
        /\ d.key_frame <=> nals[d.upto].unit.type = "idr"
=============================================================================
