-------------------------- MODULE RepeatWorkProofs --------------------------
(***************************************************************************)
(* Proofs about RepeatWork, for every set of works and every bound: types, *)
(* that the thread never sleeps on queued work, and what Deactivate leaves.*)
(***************************************************************************)
EXTENDS RepeatWork, TLAPS

(* A callback, or AddWork, that is under way has its work. *)
UnderWay ==
  /\ tick \in [at : {None, "push", "wake"}, work : Works \cup {None}]
  /\ adding \in [at : {None, "entry", "timer"}, work : Works \cup {None}]
  /\ tick.at # None => tick.work \in Works
  /\ adding.at # None => adding.work \in Works
  /\ tick.at = None => tick = Elsewhere

(* The room that Expire found is still there when the work is pushed. *)
RoomToPush == tick.at = "push" => Len(queue) < MaxQueue

(* main and the thread agree on whether there is a thread. *)
ThreadThere == thread = "none" <=> main \in {"off", "queue"}

(* What is queued has its wake-up whenever the thread is yet to wait, but  *)
(* for what a stopped thread left for Deactivate to drop.                  *)
WakeUpKept ==
  thread \in {"none", "starting", "wait"} /\ main # "queue" /\ queue # << >> =>
    event = 1 \/ tick.at = "wake"

(* From each statement of Deactivate on, what it removed is gone. *)
LateTimers ==
  main # "on" => timed \subseteq late /\ (tick.at # None => tick.work \in late)
LateWorks == main \notin {"on", "works"} => works \subseteq late
LateQueue == main = "off" => \A i \in DOMAIN queue : queue[i] \in late

IInv ==
  /\ TypeOK
  /\ UnderWay /\ RoomToPush /\ ThreadThere /\ WakeUpKept
  /\ LateTimers /\ LateWorks /\ LateQueue
----------------------------------------------------------------------------
(* A queue after a push and after a pop. *)
LEMMA PushedQueue ==
  ASSUME NEW q \in Seq(Works), NEW w \in Works
  PROVE  /\ Append(q, w) \in Seq(Works) /\ Len(Append(q, w)) = Len(q) + 1
         /\ \A i \in DOMAIN Append(q, w) :
              Append(q, w)[i] = w \/ (i \in DOMAIN q /\ Append(q, w)[i] = q[i])
  OBVIOUS

LEMMA PoppedQueue ==
  ASSUME NEW q \in Seq(Works), q # << >>
  PROVE  /\ Tail(q) \in Seq(Works) /\ Len(Tail(q)) = Len(q) - 1
         /\ Head(q) \in Works /\ Len(q) \in Nat
  OBVIOUS

LEMMA RepeatInit == ASSUME Init PROVE IInv
<1>1. MaxQueue \in Nat /\ MaxTicks \in Nat /\ MaxStarts \in Nat
  BY RepeatAssumption
<1>2. queue = << >> /\ queue \in Seq(Works) /\ Len(queue) = 0
  BY DEF Init
<1>3. event \in {0, 1} /\ Len(queue) <= MaxQueue
      /\ ticks \in 0..MaxTicks /\ starts \in 0..MaxStarts
  BY <1>1, <1>2 DEF Init
<1>4. /\ running \in BOOLEAN
      /\ works \subseteq Works /\ timed \subseteq Works /\ late \subseteq Works
  BY DEF Init
<1>5. /\ tick.at \in {None, "push", "wake"} /\ tick.work \in Works \cup {None}
      /\ adding.at \in {None, "entry", "timer"} /\ adding.work \in Works \cup {None}
  BY DEF Init, Elsewhere
<1>6. TypeOK
  BY <1>2, <1>3, <1>4, <1>5 DEF Init, TypeOK
<1>7. UnderWay /\ RoomToPush
  BY DEF Init, UnderWay, RoomToPush, Elsewhere, None
<1>8. ThreadThere /\ WakeUpKept /\ LateTimers /\ LateWorks /\ LateQueue
  BY DEF Init, ThreadThere, WakeUpKept, LateTimers, LateWorks, LateQueue, Elsewhere, None
<1> QED
  BY <1>6, <1>7, <1>8 DEF IInv

(* Every step keeps every part of the invariant. *)
LEMMA RepeatStep == ASSUME IInv, [Next]_vars PROVE IInv'
<1> USE RepeatAssumption DEF IInv
<1>1. ASSUME NEW w \in Works, Expire(w) PROVE IInv'
  <2> USE <1>1 DEF Expire, maps
  <2>1. TypeOK'
    BY DEF TypeOK, UnderWay, RoomToPush, Elsewhere, None
  <2>2. UnderWay'
    BY DEF UnderWay, TypeOK, Elsewhere, None
  <2>3. RoomToPush'
    BY DEF RoomToPush, TypeOK, UnderWay, Elsewhere, None
  <2>4. ThreadThere'
    BY DEF ThreadThere, TypeOK, Elsewhere, None
  <2>5. WakeUpKept'
    BY DEF WakeUpKept, ThreadThere, TypeOK, UnderWay, Elsewhere, None
  <2>6. LateTimers'
    BY DEF LateTimers, UnderWay, TypeOK, Elsewhere, None
  <2>7. LateWorks'
    BY DEF LateWorks, Elsewhere, None
  <2>8. LateQueue'
    BY DEF LateQueue, TypeOK, UnderWay, LateTimers, ThreadThere, Elsewhere, None
  <2> QED
    BY <2>1, <2>2, <2>3, <2>4, <2>5, <2>6, <2>7, <2>8
<1>2. ASSUME CallbackStep("push", "wake", TRUE, FALSE) PROVE IInv'
  <2> USE <1>2 DEF CallbackStep, maps
  <2>1. TypeOK'
    BY PushedQueue DEF TypeOK, UnderWay, RoomToPush, Elsewhere, None
  <2>2. UnderWay'
    BY DEF UnderWay, TypeOK, Elsewhere, None
  <2>3. RoomToPush'
    BY PushedQueue DEF RoomToPush, TypeOK, UnderWay, Elsewhere, None
  <2>4. ThreadThere'
    BY DEF ThreadThere, TypeOK, Elsewhere, None
  <2>5. WakeUpKept'
    BY DEF WakeUpKept, ThreadThere, TypeOK, UnderWay, Elsewhere, None
  <2>6. LateTimers'
    BY DEF LateTimers, UnderWay, TypeOK, Elsewhere, None
  <2>7. LateWorks'
    BY DEF LateWorks, Elsewhere, None
  <2>8. LateQueue'
    BY PushedQueue DEF LateQueue, TypeOK, UnderWay, LateTimers, ThreadThere, Elsewhere, None
  <2> QED
    BY <2>1, <2>2, <2>3, <2>4, <2>5, <2>6, <2>7, <2>8
<1>3. ASSUME CallbackStep("wake", None, FALSE, TRUE) PROVE IInv'
  <2> USE <1>3 DEF CallbackStep, maps
  <2>1. TypeOK'
    BY DEF TypeOK, UnderWay, RoomToPush, Elsewhere, None
  <2>2. UnderWay'
    BY DEF UnderWay, TypeOK, Elsewhere, None
  <2>3. RoomToPush'
    BY DEF RoomToPush, TypeOK, UnderWay, Elsewhere, None
  <2>4. ThreadThere'
    BY DEF ThreadThere, TypeOK, Elsewhere, None
  <2>5. WakeUpKept'
    BY DEF WakeUpKept, ThreadThere, TypeOK, UnderWay, Elsewhere, None
  <2>6. LateTimers'
    BY DEF LateTimers, UnderWay, TypeOK, Elsewhere, None
  <2>7. LateWorks'
    BY DEF LateWorks, Elsewhere, None
  <2>8. LateQueue'
    BY DEF LateQueue, TypeOK, UnderWay, LateTimers, ThreadThere, Elsewhere, None
  <2> QED
    BY <2>1, <2>2, <2>3, <2>4, <2>5, <2>6, <2>7, <2>8
<1>4. ASSUME StartLoop PROVE IInv'
  <2> USE <1>4 DEF StartLoop, ThreadStep, maps
  <2>1. TypeOK'
    BY DEF TypeOK, UnderWay, RoomToPush, Elsewhere, None
  <2>2. UnderWay'
    BY DEF UnderWay, TypeOK, Elsewhere, None
  <2>3. RoomToPush'
    BY DEF RoomToPush, TypeOK, UnderWay, Elsewhere, None
  <2>4. ThreadThere'
    BY DEF ThreadThere, TypeOK, Elsewhere, None
  <2>5. WakeUpKept'
    BY DEF WakeUpKept, ThreadThere, TypeOK, UnderWay, Elsewhere, None
  <2>6. LateTimers'
    BY DEF LateTimers, UnderWay, TypeOK, Elsewhere, None
  <2>7. LateWorks'
    BY DEF LateWorks, Elsewhere, None
  <2>8. LateQueue'
    BY DEF LateQueue, TypeOK, UnderWay, LateTimers, ThreadThere, Elsewhere, None
  <2> QED
    BY <2>1, <2>2, <2>3, <2>4, <2>5, <2>6, <2>7, <2>8
<1>5. ASSUME WaitEvent PROVE IInv'
  <2> USE <1>5 DEF WaitEvent, ThreadStep, maps
  <2>1. TypeOK'
    BY DEF TypeOK, UnderWay, RoomToPush, Elsewhere, None
  <2>2. UnderWay'
    BY DEF UnderWay, TypeOK, Elsewhere, None
  <2>3. RoomToPush'
    BY DEF RoomToPush, TypeOK, UnderWay, Elsewhere, None
  <2>4. ThreadThere'
    BY DEF ThreadThere, TypeOK, Elsewhere, None
  <2>5. WakeUpKept'
    BY DEF WakeUpKept, ThreadThere, TypeOK, UnderWay, Elsewhere, None
  <2>6. LateTimers'
    BY DEF LateTimers, UnderWay, TypeOK, Elsewhere, None
  <2>7. LateWorks'
    BY DEF LateWorks, Elsewhere, None
  <2>8. LateQueue'
    BY DEF LateQueue, TypeOK, UnderWay, LateTimers, ThreadThere, Elsewhere, None
  <2> QED
    BY <2>1, <2>2, <2>3, <2>4, <2>5, <2>6, <2>7, <2>8
<1>6. ASSUME TestRunning PROVE IInv'
  <2> USE <1>6 DEF TestRunning, ThreadStep, maps
  <2>1. TypeOK'
    BY DEF TypeOK, UnderWay, RoomToPush, Elsewhere, None
  <2>2. UnderWay'
    BY DEF UnderWay, TypeOK, Elsewhere, None
  <2>3. RoomToPush'
    BY DEF RoomToPush, TypeOK, UnderWay, Elsewhere, None
  <2>4. ThreadThere'
    BY DEF ThreadThere, TypeOK, Elsewhere, None
  <2>5. WakeUpKept'
    BY DEF WakeUpKept, ThreadThere, TypeOK, UnderWay, Elsewhere, None
  <2>6. LateTimers'
    BY DEF LateTimers, UnderWay, TypeOK, Elsewhere, None
  <2>7. LateWorks'
    BY DEF LateWorks, Elsewhere, None
  <2>8. LateQueue'
    BY DEF LateQueue, TypeOK, UnderWay, LateTimers, ThreadThere, Elsewhere, None
  <2> QED
    BY <2>1, <2>2, <2>3, <2>4, <2>5, <2>6, <2>7, <2>8
<1>7. ASSUME TakeWork PROVE IInv'
  <2> USE <1>7 DEF TakeWork, TakeThen, ThreadStep, maps
  <2>1. TypeOK'
    BY PoppedQueue DEF TypeOK, UnderWay, RoomToPush, Elsewhere, None
  <2>2. UnderWay'
    BY DEF UnderWay, TypeOK, Elsewhere, None
  <2>3. RoomToPush'
    BY PoppedQueue DEF RoomToPush, TypeOK, UnderWay, Elsewhere, None
  <2>4. ThreadThere'
    BY DEF ThreadThere, TypeOK, Elsewhere, None
  <2>5. WakeUpKept'
    BY DEF WakeUpKept, ThreadThere, TypeOK, UnderWay, Elsewhere, None
  <2>6. LateTimers'
    BY DEF LateTimers, UnderWay, TypeOK, Elsewhere, None
  <2>7. LateWorks'
    BY DEF LateWorks, Elsewhere, None
  <2>8. LateQueue'
    BY PoppedQueue DEF LateQueue, TypeOK, UnderWay, LateTimers, ThreadThere, Elsewhere, None
  <2> QED
    BY <2>1, <2>2, <2>3, <2>4, <2>5, <2>6, <2>7, <2>8
<1>8. ASSUME WorkReturns PROVE IInv'
  <2> USE <1>8 DEF WorkReturns, ThreadStep, maps
  <2>1. TypeOK'
    BY DEF TypeOK, UnderWay, RoomToPush, Elsewhere, None
  <2>2. UnderWay'
    BY DEF UnderWay, TypeOK, Elsewhere, None
  <2>3. RoomToPush'
    BY DEF RoomToPush, TypeOK, UnderWay, Elsewhere, None
  <2>4. ThreadThere'
    BY DEF ThreadThere, TypeOK, Elsewhere, None
  <2>5. WakeUpKept'
    BY DEF WakeUpKept, ThreadThere, TypeOK, UnderWay, Elsewhere, None
  <2>6. LateTimers'
    BY DEF LateTimers, UnderWay, TypeOK, Elsewhere, None
  <2>7. LateWorks'
    BY DEF LateWorks, Elsewhere, None
  <2>8. LateQueue'
    BY DEF LateQueue, TypeOK, UnderWay, LateTimers, ThreadThere, Elsewhere, None
  <2> QED
    BY <2>1, <2>2, <2>3, <2>4, <2>5, <2>6, <2>7, <2>8
<1>9. ASSUME DeleteWork PROVE IInv'
  <2> USE <1>9 DEF DeleteWork, ThreadStep, maps
  <2>1. TypeOK'
    BY DEF TypeOK, UnderWay, RoomToPush, Elsewhere, None
  <2>2. UnderWay'
    BY DEF UnderWay, TypeOK, Elsewhere, None
  <2>3. RoomToPush'
    BY DEF RoomToPush, TypeOK, UnderWay, Elsewhere, None
  <2>4. ThreadThere'
    BY DEF ThreadThere, TypeOK, Elsewhere, None
  <2>5. WakeUpKept'
    BY DEF WakeUpKept, ThreadThere, TypeOK, UnderWay, Elsewhere, None
  <2>6. LateTimers'
    BY DEF LateTimers, UnderWay, TypeOK, Elsewhere, None
  <2>7. LateWorks'
    BY DEF LateWorks, Elsewhere, None
  <2>8. LateQueue'
    BY DEF LateQueue, TypeOK, UnderWay, LateTimers, ThreadThere, Elsewhere, None
  <2> QED
    BY <2>1, <2>2, <2>3, <2>4, <2>5, <2>6, <2>7, <2>8
<1>10. ASSUME QueueEmpty PROVE IInv'
  <2> USE <1>10 DEF QueueEmpty, ThreadStep, maps
  <2>1. TypeOK'
    BY DEF TypeOK, UnderWay, RoomToPush, Elsewhere, None
  <2>2. UnderWay'
    BY DEF UnderWay, TypeOK, Elsewhere, None
  <2>3. RoomToPush'
    BY DEF RoomToPush, TypeOK, UnderWay, Elsewhere, None
  <2>4. ThreadThere'
    BY DEF ThreadThere, TypeOK, Elsewhere, None
  <2>5. WakeUpKept'
    BY DEF WakeUpKept, ThreadThere, TypeOK, UnderWay, Elsewhere, None
  <2>6. LateTimers'
    BY DEF LateTimers, UnderWay, TypeOK, Elsewhere, None
  <2>7. LateWorks'
    BY DEF LateWorks, Elsewhere, None
  <2>8. LateQueue'
    BY DEF LateQueue, TypeOK, UnderWay, LateTimers, ThreadThere, Elsewhere, None
  <2> QED
    BY <2>1, <2>2, <2>3, <2>4, <2>5, <2>6, <2>7, <2>8
<1>11. ASSUME NEW w \in Works, AddWork(w) PROVE IInv'
  <2> USE <1>11 DEF AddWork, maps
  <2>1. TypeOK'
    BY DEF TypeOK, UnderWay, RoomToPush, Elsewhere, None
  <2>2. UnderWay'
    BY DEF UnderWay, TypeOK, Elsewhere, None
  <2>3. RoomToPush'
    BY DEF RoomToPush, TypeOK, UnderWay, Elsewhere, None
  <2>4. ThreadThere'
    BY DEF ThreadThere, TypeOK, Elsewhere, None
  <2>5. WakeUpKept'
    BY DEF WakeUpKept, ThreadThere, TypeOK, UnderWay, Elsewhere, None
  <2>6. LateTimers'
    BY DEF LateTimers, UnderWay, TypeOK, Elsewhere, None
  <2>7. LateWorks'
    BY DEF LateWorks, Elsewhere, None
  <2>8. LateQueue'
    BY DEF LateQueue, TypeOK, UnderWay, LateTimers, ThreadThere, Elsewhere, None
  <2> QED
    BY <2>1, <2>2, <2>3, <2>4, <2>5, <2>6, <2>7, <2>8
<1>12. ASSUME AddEntry PROVE IInv'
  <2> USE <1>12 DEF AddEntry, maps
  <2>1. TypeOK'
    BY DEF TypeOK, UnderWay, RoomToPush, Elsewhere, None
  <2>2. UnderWay'
    BY DEF UnderWay, TypeOK, Elsewhere, None
  <2>3. RoomToPush'
    BY DEF RoomToPush, TypeOK, UnderWay, Elsewhere, None
  <2>4. ThreadThere'
    BY DEF ThreadThere, TypeOK, Elsewhere, None
  <2>5. WakeUpKept'
    BY DEF WakeUpKept, ThreadThere, TypeOK, UnderWay, Elsewhere, None
  <2>6. LateTimers'
    BY DEF LateTimers, UnderWay, TypeOK, Elsewhere, None
  <2>7. LateWorks'
    BY DEF LateWorks, Elsewhere, None
  <2>8. LateQueue'
    BY DEF LateQueue, TypeOK, UnderWay, LateTimers, ThreadThere, Elsewhere, None
  <2> QED
    BY <2>1, <2>2, <2>3, <2>4, <2>5, <2>6, <2>7, <2>8
<1>13. ASSUME AddTimer PROVE IInv'
  <2> USE <1>13 DEF AddTimer, maps
  <2>1. TypeOK'
    BY DEF TypeOK, UnderWay, RoomToPush, Elsewhere, None
  <2>2. UnderWay'
    BY DEF UnderWay, TypeOK, Elsewhere, None
  <2>3. RoomToPush'
    BY DEF RoomToPush, TypeOK, UnderWay, Elsewhere, None
  <2>4. ThreadThere'
    BY DEF ThreadThere, TypeOK, Elsewhere, None
  <2>5. WakeUpKept'
    BY DEF WakeUpKept, ThreadThere, TypeOK, UnderWay, Elsewhere, None
  <2>6. LateTimers'
    BY DEF LateTimers, UnderWay, TypeOK, Elsewhere, None
  <2>7. LateWorks'
    BY DEF LateWorks, Elsewhere, None
  <2>8. LateQueue'
    BY DEF LateQueue, TypeOK, UnderWay, LateTimers, ThreadThere, Elsewhere, None
  <2> QED
    BY <2>1, <2>2, <2>3, <2>4, <2>5, <2>6, <2>7, <2>8
<1>14. ASSUME Activate PROVE IInv'
  <2> USE <1>14 DEF Activate, maps
  <2>1. TypeOK'
    BY DEF TypeOK, UnderWay, RoomToPush, Elsewhere, None
  <2>2. UnderWay'
    BY DEF UnderWay, TypeOK, Elsewhere, None
  <2>3. RoomToPush'
    BY DEF RoomToPush, TypeOK, UnderWay, Elsewhere, None
  <2>4. ThreadThere'
    BY DEF ThreadThere, TypeOK, Elsewhere, None
  <2>5. WakeUpKept'
    BY DEF WakeUpKept, ThreadThere, TypeOK, UnderWay, Elsewhere, None
  <2>6. LateTimers'
    BY DEF LateTimers, UnderWay, TypeOK, Elsewhere, None
  <2>7. LateWorks'
    BY DEF LateWorks, Elsewhere, None
  <2>8. LateQueue'
    BY DEF LateQueue, TypeOK, UnderWay, LateTimers, ThreadThere, Elsewhere, None
  <2> QED
    BY <2>1, <2>2, <2>3, <2>4, <2>5, <2>6, <2>7, <2>8
<1>15. ASSUME DeleteTimers PROVE IInv'
  <2> USE <1>15 DEF DeleteTimers, DeleteTimersWhen, MainStep, maps
  <2>1. TypeOK'
    BY DEF TypeOK, UnderWay, RoomToPush, Elsewhere, None
  <2>2. UnderWay'
    BY DEF UnderWay, TypeOK, Elsewhere, None
  <2>3. RoomToPush'
    BY DEF RoomToPush, TypeOK, UnderWay, Elsewhere, None
  <2>4. ThreadThere'
    BY DEF ThreadThere, TypeOK, Elsewhere, None
  <2>5. WakeUpKept'
    BY DEF WakeUpKept, ThreadThere, TypeOK, UnderWay, Elsewhere, None
  <2>6. LateTimers'
    BY DEF LateTimers, UnderWay, TypeOK, Elsewhere, None
  <2>7. LateWorks'
    BY DEF LateWorks, Elsewhere, None
  <2>8. LateQueue'
    BY DEF LateQueue, TypeOK, UnderWay, LateTimers, ThreadThere, Elsewhere, None
  <2> QED
    BY <2>1, <2>2, <2>3, <2>4, <2>5, <2>6, <2>7, <2>8
<1>16. ASSUME ClearWorks PROVE IInv'
  <2> USE <1>16 DEF ClearWorks, MainStep, maps
  <2>1. TypeOK'
    BY DEF TypeOK, UnderWay, RoomToPush, Elsewhere, None
  <2>2. UnderWay'
    BY DEF UnderWay, TypeOK, Elsewhere, None
  <2>3. RoomToPush'
    BY DEF RoomToPush, TypeOK, UnderWay, Elsewhere, None
  <2>4. ThreadThere'
    BY DEF ThreadThere, TypeOK, Elsewhere, None
  <2>5. WakeUpKept'
    BY DEF WakeUpKept, ThreadThere, TypeOK, UnderWay, Elsewhere, None
  <2>6. LateTimers'
    BY DEF LateTimers, UnderWay, TypeOK, Elsewhere, None
  <2>7. LateWorks'
    BY DEF LateWorks, Elsewhere, None
  <2>8. LateQueue'
    BY DEF LateQueue, TypeOK, UnderWay, LateTimers, ThreadThere, Elsewhere, None
  <2> QED
    BY <2>1, <2>2, <2>3, <2>4, <2>5, <2>6, <2>7, <2>8
<1>17. ASSUME ClearRunning PROVE IInv'
  <2> USE <1>17 DEF ClearRunning, MainStep, maps
  <2>1. TypeOK'
    BY DEF TypeOK, UnderWay, RoomToPush, Elsewhere, None
  <2>2. UnderWay'
    BY DEF UnderWay, TypeOK, Elsewhere, None
  <2>3. RoomToPush'
    BY DEF RoomToPush, TypeOK, UnderWay, Elsewhere, None
  <2>4. ThreadThere'
    BY DEF ThreadThere, TypeOK, Elsewhere, None
  <2>5. WakeUpKept'
    BY DEF WakeUpKept, ThreadThere, TypeOK, UnderWay, Elsewhere, None
  <2>6. LateTimers'
    BY DEF LateTimers, UnderWay, TypeOK, Elsewhere, None
  <2>7. LateWorks'
    BY DEF LateWorks, Elsewhere, None
  <2>8. LateQueue'
    BY DEF LateQueue, TypeOK, UnderWay, LateTimers, ThreadThere, Elsewhere, None
  <2> QED
    BY <2>1, <2>2, <2>3, <2>4, <2>5, <2>6, <2>7, <2>8
<1>18. ASSUME WakeThread PROVE IInv'
  <2> USE <1>18 DEF WakeThread, WakeTo, MainStep, maps
  <2>1. TypeOK'
    BY DEF TypeOK, UnderWay, RoomToPush, Elsewhere, None
  <2>2. UnderWay'
    BY DEF UnderWay, TypeOK, Elsewhere, None
  <2>3. RoomToPush'
    BY DEF RoomToPush, TypeOK, UnderWay, Elsewhere, None
  <2>4. ThreadThere'
    BY DEF ThreadThere, TypeOK, Elsewhere, None
  <2>5. WakeUpKept'
    BY DEF WakeUpKept, ThreadThere, TypeOK, UnderWay, Elsewhere, None
  <2>6. LateTimers'
    BY DEF LateTimers, UnderWay, TypeOK, Elsewhere, None
  <2>7. LateWorks'
    BY DEF LateWorks, Elsewhere, None
  <2>8. LateQueue'
    BY DEF LateQueue, TypeOK, UnderWay, LateTimers, ThreadThere, Elsewhere, None
  <2> QED
    BY <2>1, <2>2, <2>3, <2>4, <2>5, <2>6, <2>7, <2>8
<1>19. ASSUME JoinThread PROVE IInv'
  <2> USE <1>19 DEF JoinThread, MainStep, maps
  <2>1. TypeOK'
    BY DEF TypeOK, UnderWay, RoomToPush, Elsewhere, None
  <2>2. UnderWay'
    BY DEF UnderWay, TypeOK, Elsewhere, None
  <2>3. RoomToPush'
    BY DEF RoomToPush, TypeOK, UnderWay, Elsewhere, None
  <2>4. ThreadThere'
    BY DEF ThreadThere, TypeOK, Elsewhere, None
  <2>5. WakeUpKept'
    BY DEF WakeUpKept, ThreadThere, TypeOK, UnderWay, Elsewhere, None
  <2>6. LateTimers'
    BY DEF LateTimers, UnderWay, TypeOK, Elsewhere, None
  <2>7. LateWorks'
    BY DEF LateWorks, Elsewhere, None
  <2>8. LateQueue'
    BY DEF LateQueue, TypeOK, UnderWay, LateTimers, ThreadThere, Elsewhere, None
  <2> QED
    BY <2>1, <2>2, <2>3, <2>4, <2>5, <2>6, <2>7, <2>8
<1>20. ASSUME ClearQueue PROVE IInv'
  <2> USE <1>20 DEF ClearQueue, MainStep, maps
  <2>1. TypeOK'
    BY DEF TypeOK, UnderWay, RoomToPush, Elsewhere, None
  <2>2. UnderWay'
    BY DEF UnderWay, TypeOK, Elsewhere, None
  <2>3. RoomToPush'
    BY DEF RoomToPush, TypeOK, UnderWay, Elsewhere, None
  <2>4. ThreadThere'
    BY DEF ThreadThere, TypeOK, Elsewhere, None
  <2>5. WakeUpKept'
    BY DEF WakeUpKept, ThreadThere, TypeOK, UnderWay, Elsewhere, None
  <2>6. LateTimers'
    BY DEF LateTimers, UnderWay, TypeOK, Elsewhere, None
  <2>7. LateWorks'
    BY DEF LateWorks, Elsewhere, None
  <2>8. LateQueue'
    BY DEF LateQueue, TypeOK, UnderWay, LateTimers, ThreadThere, Elsewhere, None
  <2> QED
    BY <2>1, <2>2, <2>3, <2>4, <2>5, <2>6, <2>7, <2>8
<1>21. ASSUME UNCHANGED vars PROVE IInv'
  <2> USE <1>21 DEF vars, maps
  <2>1. TypeOK'
    BY DEF TypeOK, UnderWay, RoomToPush, Elsewhere, None
  <2>2. UnderWay'
    BY DEF UnderWay, TypeOK, Elsewhere, None
  <2>3. RoomToPush'
    BY DEF RoomToPush, TypeOK, UnderWay, Elsewhere, None
  <2>4. ThreadThere'
    BY DEF ThreadThere, TypeOK, Elsewhere, None
  <2>5. WakeUpKept'
    BY DEF WakeUpKept, ThreadThere, TypeOK, UnderWay, Elsewhere, None
  <2>6. LateTimers'
    BY DEF LateTimers, UnderWay, TypeOK, Elsewhere, None
  <2>7. LateWorks'
    BY DEF LateWorks, Elsewhere, None
  <2>8. LateQueue'
    BY DEF LateQueue, TypeOK, UnderWay, LateTimers, ThreadThere, Elsewhere, None
  <2> QED
    BY <2>1, <2>2, <2>3, <2>4, <2>5, <2>6, <2>7, <2>8
<1> QED
  BY <1>1, <1>2, <1>3, <1>4, <1>5, <1>6, <1>7, <1>8, <1>9, <1>10, <1>11,
     <1>12, <1>13, <1>14, <1>15, <1>16, <1>17, <1>18, <1>19, <1>20, <1>21
  DEF Next, Callback, Thread, Caller, Deactivate
----------------------------------------------------------------------------
(* The invariant holds throughout. *)
THEOREM RepeatInductive == Spec => []IInv
<1>1. Init => IInv
  BY RepeatInit
<1>2. IInv /\ [Next]_vars => IInv'
  BY RepeatStep
<1> QED
  BY <1>1, <1>2, PTL DEF Spec

(* Types; the count of the thread's Locker stays 0 or 1. *)
THEOREM RepeatTypeCorrect == Spec => []TypeOK
<1>1. IInv => TypeOK
  BY DEF IInv
<1> QED
  BY <1>1, RepeatInductive, PTL

(* RepeatWorkProc's thread waits only when nothing is queued or its        *)
(* wake-up is there or about to come: no work is forgotten.                *)
THEOREM RepeatWakeUpPending == Spec => []WakeUpPending
<1>1. IInv => WakeUpPending
  BY DEF IInv, WakeUpPending, WakeUpKept, ThreadThere
<1> QED
  BY <1>1, RepeatInductive, PTL

(* RepeatWorkProc::Deactivate leaves behind only what AddWork registered   *)
(* since it began.                                                         *)
THEOREM RepeatStopLeavesOnlyLate == Spec => []StopLeavesOnlyLate
<1>1. IInv => StopLeavesOnlyLate
  BY DEF IInv, StopLeavesOnlyLate, LateTimers, LateWorks, LateQueue
<1> QED
  BY <1>1, RepeatInductive, PTL
=============================================================================
