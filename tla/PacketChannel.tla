---------------------------- MODULE PacketChannel ----------------------------
(***************************************************************************)
(* What the shared-memory transport promises the processes that use it:    *)
(* one FIFO of packets.  A packet a sender was told is queued reaches one  *)
(* receiver, once and in order, unless the queue is cleared, disappears    *)
(* with the last process that had it open, or is entered by two threads at *)
(* once, after which nothing is promised until it has disappeared.         *)
(***************************************************************************)
EXTENDS Naturals, Sequences

CONSTANTS Packet

VARIABLES channel,    (* packets accepted and not yet taken               *)
          delivered   (* packets taken, in order, since the last Reset     *)

Init == channel = << >> /\ delivered = << >>

(* Each packet is offered at most once. *)
Send(p) ==
  /\ \A i \in DOMAIN channel : channel[i] # p
  /\ \A i \in DOMAIN delivered : delivered[i] # p
  /\ channel' = Append(channel, p)
  /\ UNCHANGED delivered

Receive ==
  /\ channel # << >>
  /\ delivered' = Append(delivered, Head(channel))
  /\ channel' = Tail(channel)

Clear == channel' = << >> /\ UNCHANGED delivered

Reset == channel' = << >> /\ delivered' = << >>

Next == (\E p \in Packet : Send(p)) \/ Receive \/ Clear \/ Reset

Spec == Init /\ [][Next]_<<channel, delivered>>
=============================================================================
