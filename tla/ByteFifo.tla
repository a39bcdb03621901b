------------------------------ MODULE ByteFifo ------------------------------
(***************************************************************************)
(* What a byte queue of this program promises its users: a bounded FIFO of *)
(* bytes.  Front copies the oldest n bytes without removing them and Pop   *)
(* removes what the same handle last read with Front.  QueueSharedMemory   *)
(* and QueueLocalMemory implement it with a ring (module RingQueue).       *)
(***************************************************************************)
EXTENDS Integers, Sequences

CONSTANTS Byte,      (* what one cell of the queue holds                   *)
          Handles,   (* the objects through which the queue is used        *)
          Capacity   (* the most bytes the queue stores                    *)

VARIABLES bytes,     (* the stored bytes, oldest first                     *)
          pending,   (* per handle, the bytes its next Pop removes         *)
          out,       (* per handle, what its last Front returned           *)
          given      (* what the last Push was given, until bytes leave    *)

fifoVars == <<bytes, pending, out, given>>

Init ==
  /\ bytes = << >>
  /\ pending = [h \in Handles |-> 0]
  /\ out = [h \in Handles |-> << >>]
  /\ given = << >>

Push(data) ==
  /\ Len(bytes) + Len(data) <= Capacity
  /\ bytes' = bytes \o data
  /\ given' = data
  /\ UNCHANGED <<pending, out>>

Front(h, n) ==
  /\ n <= Len(bytes)
  /\ pending' = [pending EXCEPT ![h] = n]
  /\ out' = [out EXCEPT ![h] = SubSeq(bytes, 1, n)]
  /\ UNCHANGED <<bytes, given>>

(* Only bytes that are there can be removed. *)
Pop(h) ==
  /\ pending[h] \in 1 .. Len(bytes)
  /\ bytes' = SubSeq(bytes, pending[h] + 1, Len(bytes))
  /\ pending' = [pending EXCEPT ![h] = 0]
  /\ given' = << >>
  /\ UNCHANGED out

Clear ==
  /\ bytes' = << >>
  /\ given' = << >>
  /\ UNCHANGED <<pending, out>>

Next ==
  \/ \E n \in 1 .. Capacity : \E data \in [1 .. n -> Byte] : Push(data)
  \/ \E h \in Handles, n \in 1 .. Capacity : Front(h, n)
  \/ \E h \in Handles : Pop(h)
  \/ Clear

Spec == Init /\ [][Next]_fifoVars
=============================================================================
