----------------------------- MODULE RingQueue -----------------------------
(***************************************************************************)
(* The ring of bytes behind QueueSharedMemory and QueueLocalMemory (the    *)
(* two classes hold the same algorithm; the mapped lines are the shared    *)
(* one's).  tail, head and use_size live in the memory itself, so they are *)
(* common to every process that maps it; m_pop_data_len belongs to the     *)
(* object, so there is one per handle.                                     *)
(*                                                                         *)
(* The class does no locking.  Its callers do: SyncSharedMemory runs every *)
(* callback inside the queue's named mutex and Decoder holds m_queue_mutex,*)
(* and both call Pop only after a Front in the same critical section.  So  *)
(* a handle uses the queue between Enter and Leave.                        *)
(***************************************************************************)
EXTENDS Integers, Sequences

CONSTANTS QueueSize,  (* bytes of the ring                                 *)
          Wrap,       (* uint32_t arithmetic is modulo Wrap                *)
          Byte,       (* the byte values                                   *)
          Blank,      (* the byte a fresh or cleared ring is filled with   *)
          Handles,    (* the queue objects that map this memory            *)
          MaxLen      (* bound: longest buffer passed to Push or Front     *)

ASSUME RingAssumption ==
  /\ QueueSize \in Nat \ {0}
  /\ Wrap \in Nat /\ QueueSize < Wrap
  /\ Blank \in Byte
  /\ MaxLen \in Nat

VARIABLES queue_buffer,   (* m_queue_buffer                                *)
          head,
          tail,
          use_size,
          pop_data_len,   (* m_pop_data_len of each handle                 *)
          out,            (* the caller's buffer, as its last Front left it*)
          given,          (* the buffer last passed to Push                *)
          section,        (* the handles inside the callers' lock          *)
          fronted         (* those that have read and not yet popped       *)

ring == <<queue_buffer, head, tail, use_size>>
vars == <<ring, pop_data_len, out, given, section, fronted>>

Index == 0 .. (QueueSize - 1)
Buffers == UNION {[1 .. n -> Byte] : n \in 1 .. MaxLen}

FreeSize == (QueueSize - 1) - use_size

(* Mutant: memcpy is given one byte too few. *)
CopiedShort(buffer, pos, data) ==
  [i \in Index |-> IF i \in pos .. (pos + Len(data) - 2)
                   THEN data[i - pos + 1] ELSE buffer[i]]

(* memcpy of data to position pos. *)
Copied(buffer, pos, data) ==
  [i \in Index |-> IF i \in pos .. (pos + Len(data) - 1)
                   THEN data[i - pos + 1] ELSE buffer[i]]

(* The k-th cell from pos, around the end. *)
Cell(pos, k) ==
  IF pos + k - 1 < QueueSize THEN pos + k - 1 ELSE pos + k - 1 - QueueSize

(* The two memcpy calls of Front: up to the end, then from the start. *)
ReadAt(pos, n) == [k \in 1 .. n |-> queue_buffer[Cell(pos, k)]]

Advanced(pos, n) == IF QueueSize - pos < n THEN n - (QueueSize - pos) ELSE pos + n

----------------------------------------------------------------------------
Init ==
  /\ queue_buffer = [i \in Index |-> Blank]
  /\ head = 0 /\ tail = 0 /\ use_size = 0
  /\ pop_data_len = [h \in Handles |-> 0]
  /\ out = [h \in Handles |-> << >>]
  /\ given = << >>
  /\ section = {}
  /\ fronted = {}

(* The lock that SyncSharedMemory takes around a callback, ...             *)
Enter(h) ==
  /\ section = {}
  /\ section' = {h}
  /\ UNCHANGED <<ring, pop_data_len, out, given, fronted>>

(* ... and its release; a callback may leave with a Front not popped.      *)
Leave(h) ==
  /\ h \in section
  /\ section' = section \ {h}
  /\ fronted' = fronted \ {h}
  /\ UNCHANGED <<ring, pop_data_len, out, given>>

(* A buffer longer than FreeSize is refused and changes nothing. *)
Push(h, data) ==
  LET write_size == QueueSize - tail
      n == Len(data)
  IN /\ h \in section
     /\ n <= FreeSize
     /\ queue_buffer' =
          IF write_size < n
          THEN Copied(Copied(queue_buffer, tail, SubSeq(data, 1, write_size)),
                      0, SubSeq(data, write_size + 1, n))
          ELSE Copied(queue_buffer, tail, data)
     /\ tail' = Advanced(tail, n)
     /\ use_size' = (use_size + n) % Wrap
     /\ given' = data
     /\ UNCHANGED <<head, pop_data_len, out, section, fronted>>

(* More than use_size bytes are refused and change nothing. *)
ReadFront(h, n) ==
  /\ h \in section
  /\ n <= use_size
  /\ out' = [out EXCEPT ![h] = ReadAt(head, n)]
  /\ pop_data_len' = [pop_data_len EXCEPT ![h] = n]
  /\ fronted' = fronted \cup {h}
  /\ UNCHANGED <<ring, given, section>>

(* The class checks nothing but m_pop_data_len: that the bytes are still   *)
(* there is the callers' doing (fronted).                                  *)
Pop(h) ==
  LET n == pop_data_len[h]
  IN /\ h \in section
     /\ h \in fronted
     /\ n # 0
     /\ head' = Advanced(head, n)
     /\ use_size' = (use_size - n) % Wrap
     /\ pop_data_len' = [pop_data_len EXCEPT ![h] = 0]
     /\ fronted' = fronted \ {h}
     /\ given' = << >>
     /\ UNCHANGED <<queue_buffer, tail, out, section>>

ClearTo(h, size) ==
  /\ h \in section
  /\ queue_buffer' = [i \in Index |-> Blank]
  /\ head' = 0 /\ tail' = 0 /\ use_size' = size
  /\ fronted' = fronted \ {h}
  /\ given' = << >>
  /\ UNCHANGED <<pop_data_len, out, section>>

(* Mutant: Clear forgets use_size. *)
ClearKeepingUse(h) == ClearTo(h, use_size)

(* m_pop_data_len is not reset: a Pop may still be pending on a handle. *)
Clear(h) == ClearTo(h, 0)

Next ==
  \E h \in Handles :
    \/ Enter(h)
    \/ Leave(h)
    \/ \E data \in Buffers : Push(h, data)
    \/ \E n \in 1 .. MaxLen : ReadFront(h, n)
    \/ Pop(h)
    \/ Clear(h)

Spec == Init /\ [][Next]_vars
----------------------------------------------------------------------------
(* Every variable keeps its range; head and tail may rest on QueueSize     *)
(* itself, one past the last cell, because an exact fit does not wrap.     *)
TypeOK ==
  /\ queue_buffer \in [Index -> Byte]
  /\ head \in 0 .. QueueSize
  /\ tail \in 0 .. QueueSize
  /\ use_size \in 0 .. (QueueSize - 1)
  /\ pop_data_len \in [Handles -> 0 .. MaxLen]
  /\ out \in [Handles -> Seq(Byte)]
  /\ given \in Seq(Byte)
  /\ section \in SUBSET Handles
  /\ fronted \in SUBSET Handles

(* The three redundant shared words agree: walking use_size bytes from     *)
(* head reaches tail, directly or around the end once.  Push moves tail    *)
(* and use_size, Pop moves head and use_size, each by its own wrap rule.   *)
RingShape ==
  \/ head + use_size = tail
  \/ head + use_size = tail + QueueSize

(* A Pop that may come never removes more than is stored, so the unchecked *)
(* subtraction in Pop (QueueSharedMemory.cpp:281) never goes below zero.   *)
PopWithinUse == \A h \in fronted : pop_data_len[h] \in 1 .. use_size

(* The stored bytes, oldest first. *)
Contents == ReadAt(head, use_size)

(* The ring behaves as a bounded FIFO of bytes: what Front copies out and  *)
(* Pop drops is what Push put in, across every wrap.                       *)
Fifo == INSTANCE ByteFifo
          WITH bytes <- Contents, pending <- pop_data_len,
               Capacity <- QueueSize - 1
FifoSpec == Fifo!Spec
=============================================================================
