---------------------------- MODULE MCVideoPath ----------------------------
EXTENDS VideoPath

(* A slice, and an IDR slice that is longer than the packet's buffer. *)
MCNalUnits == {[type |-> "slice", size |-> 1], [type |-> "idr", size |-> 4]}

(* An SPS, a PPS that is empty, and a record of no use. *)
MCSprops ==
  {<<[type |-> "sps", size |-> 1], [type |-> "pps", size |-> 0], [type |-> "sei", size |-> 1]>>}

(* Clients ask for frames of every format, with even and odd edges, too    *)
(* small to be converted, and of a format that is not known.               *)
Ask(format, width, height) ==
  [format |-> format, width |-> width, height |-> height, decode |-> TRUE]
MCRequests ==
  {Ask("rgb", 3, 2), Ask("rgb", 1, 1), Ask("yuy2", 2, 3), Ask("yv12", 3, 3), Ask("other", 2, 2)}
=============================================================================
