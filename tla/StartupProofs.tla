--------------------------- MODULE StartupProofs ---------------------------
(***************************************************************************)
(* That one process at a time works on a camera's queue, for every number  *)
(* of processes, however they start, fail, end and die.  The event decides *)
(* it: whoever works on the memory has a handle to the event until it has  *)
(* let go of the memory, so nobody can find the event absent meanwhile.    *)
(*                                                                         *)
(* And that the ring in that memory stays sound, for every number of       *)
(* cameras and clients and every size, also while it has no size yet: the  *)
(* semaphore's tokens keep the senders within it until then.               *)
(* Who is in a call owns the mutex (MutexHolds), as long as that mutex is  *)
(* not made anew while the receive thread is still in a call.              *)
(***************************************************************************)
EXTENDS Startup, TLAPS

Labels == {"off", "event", "open", "create", "size", "objects", "up",
           "keys", "waiting", "unsync", "unhandle", "join", "unmap", "unevent",
           "hung"}

(* The kernel objects keep their fields. *)
Shape ==
  /\ pc \in [Processes -> Labels]
  /\ "holders" \in DOMAIN event
  /\ "holders" \in DOMAIN mapping
  /\ "holders" \in DOMAIN sem

Holds(c) == c \in mapping.holders \cup sem.holders

(* From the creation of the event until the memory is let go. *)
Works(c) == Holds(c) \/ pc[c] \in {"open", "create", "size", "objects"}

(* Who works has the event; ... *)
WorkersHaveEvent == \A c \in Cameras : Works(c) => c \in event.holders

(* ... who is yet to create it, or has only it left, holds nothing else. *)
NothingHeld ==
  \A c \in Cameras :
    /\ pc[c] \in {"off", "event", "unevent"} => ~Holds(c)
    /\ pc[c] \in {"join", "unmap"} => c \notin sem.holders

OneWorks == \A c, d \in Cameras : Works(c) /\ Works(d) => c = d

IInv == Shape /\ WorkersHaveEvent /\ NothingHeld /\ OneWorks
----------------------------------------------------------------------------
(* What a handle made, and a handle closed, does to an object's holders. *)
LEMMA HeldHolders ==
  ASSUME NEW object, NEW p, "holders" \in DOMAIN object
  PROVE  /\ Held(object, p).holders = object.holders \cup {p}
         /\ "holders" \in DOMAIN Held(object, p)
  BY DEF Held

LEMMA LeftHolders ==
  ASSUME NEW object, NEW p, NEW none,
         "holders" \in DOMAIN object, "holders" \in DOMAIN none, none.holders = {}
  PROVE  /\ Left(object, p, none).holders = object.holders \ {p}
         /\ "holders" \in DOMAIN Left(object, p, none)
<1>1. CASE object.holders \subseteq {p}
  BY <1>1 DEF Left
<1>2. CASE ~(object.holders \subseteq {p})
  BY <1>2 DEF Left
<1> QED
  BY <1>1, <1>2

LEMMA NothingThere ==
  /\ "holders" \in DOMAIN NoEvent /\ NoEvent.holders = {}
  /\ "holders" \in DOMAIN NoMapping /\ NoMapping.holders = {}
  /\ "holders" \in DOMAIN NoSem /\ NoSem.holders = {}
  BY DEF NoEvent, NoMapping, NoSem

LEMMA StartupInit == ASSUME Init PROVE IInv
<1>1. Shape
  BY NothingThere DEF Init, Shape, Labels
<1>2. \A c \in Cameras : ~Works(c)
  BY NothingThere DEF Init, Works, Holds, Processes
<1>3. NothingHeld
  BY NothingThere DEF Init, NothingHeld, Holds
<1> QED
  BY <1>1, <1>2, <1>3 DEF IInv, WorkersHaveEvent, OneWorks

(* A step of p that gives nobody else a handle, takes none from another    *)
(* camera, and makes p a worker only when p has the event alone.           *)
LEMMA OwnStep ==
  ASSUME IInv, Shape', NEW p \in Processes,
         \A q \in Processes \ {p} : pc'[q] = pc[q],
         \A q \in Processes \ {p} :
           /\ q \in event'.holders <=> q \in event.holders
           /\ q \in mapping'.holders <=> q \in mapping.holders
           /\ q \in sem'.holders <=> q \in sem.holders,
         p \in Cameras /\ Works(p)' => p \in event'.holders,
         p \in Cameras /\ Works(p)' => Works(p) \/ event.holders = {},
         p \in Cameras => (pc'[p] \in {"off", "event", "unevent"} => ~Holds(p)'),
         p \in Cameras => (pc'[p] \in {"join", "unmap"} => p \notin sem'.holders)
  PROVE  IInv'
<1>1. \A c \in Cameras \ {p} : c \in Processes /\ (Works(c)' <=> Works(c))
                                /\ (Holds(c)' <=> Holds(c))
  BY DEF Works, Holds, Processes
<1>2. WorkersHaveEvent'
  <2> SUFFICES ASSUME NEW c \in Cameras, Works(c)'
               PROVE  c \in event'.holders
    BY DEF WorkersHaveEvent
  <2>1. CASE c = p
    BY <2>1
  <2>2. CASE c # p
    BY <2>2, <1>1 DEF IInv, WorkersHaveEvent
  <2> QED
    BY <2>1, <2>2
<1>3. NothingHeld'
  <2> SUFFICES ASSUME NEW c \in Cameras
               PROVE  /\ pc'[c] \in {"off", "event", "unevent"} => ~Holds(c)'
                      /\ pc'[c] \in {"join", "unmap"} => c \notin sem'.holders
    BY DEF NothingHeld
  <2>1. CASE c = p
    BY <2>1
  <2>2. CASE c # p
    BY <2>2, <1>1 DEF IInv, NothingHeld
  <2> QED
    BY <2>1, <2>2
<1>4. OneWorks'
  <2> SUFFICES ASSUME NEW c \in Cameras, NEW d \in Cameras,
                      Works(c)', Works(d)'
               PROVE  c = d
    BY DEF OneWorks
  <2>1. ASSUME NEW e \in Cameras, Works(e)'
        PROVE  Works(e) \/ (e = p /\ event.holders = {})
    BY <1>1, <2>1
  <2>2. \A e \in Cameras : Works(e) => event.holders # {}
    BY DEF IInv, WorkersHaveEvent
  <2> QED
    BY <2>1, <2>2 DEF IInv, OneWorks
<1> QED
  BY <1>2, <1>3, <1>4 DEF IInv

(* What each action changes that the invariant speaks of. *)
LEMMA StartupStep == ASSUME IInv, [Next]_vars PROVE IInv'
<1> USE NothingThere
<1> DEFINE Facts(p) ==
      /\ Shape'
      /\ \A q \in Processes \ {p} : pc'[q] = pc[q]
      /\ \A q \in Processes \ {p} :
           /\ q \in event'.holders <=> q \in event.holders
           /\ q \in mapping'.holders <=> q \in mapping.holders
           /\ q \in sem'.holders <=> q \in sem.holders
      /\ p \in Cameras /\ Works(p)' => p \in event'.holders
      /\ p \in Cameras /\ Works(p)' => Works(p) \/ event.holders = {}
      /\ p \in Cameras => (pc'[p] \in {"off", "event", "unevent"} => ~Holds(p)')
      /\ p \in Cameras => (pc'[p] \in {"join", "unmap"} => p \notin sem'.holders)
<1>0. ASSUME NEW p \in Processes, Facts(p) PROVE IInv'
  BY <1>0, OwnStep
<1>a. /\ pc \in [Processes -> Labels] /\ "holders" \in DOMAIN event
      /\ "holders" \in DOMAIN mapping /\ "holders" \in DOMAIN sem
  BY DEF IInv, Shape
<1>b. \A c \in Cameras : Works(c) => c \in event.holders
  BY DEF IInv, WorkersHaveEvent
<1>c. \A c \in Cameras :
        /\ pc[c] \in {"off", "event", "unevent"} => ~Holds(c)
        /\ pc[c] \in {"join", "unmap"} => c \notin sem.holders
  BY DEF IInv, NothingHeld
<1>d. \A p \in Clients : p \notin Cameras
  BY StartupAssumption
<1>1. ASSUME NEW p \in Processes, Start(p)
      PROVE  IInv'
  <2>1. Facts(p)
    BY <1>1, <1>a, <1>b, <1>c, <1>d
    DEF Start, Goto, kernel, Shape, Labels, Works, Holds
  <2> QED
    BY <2>1, <1>0
<1>2. ASSUME NEW p \in Processes, CreateEvent(p)
      PROVE  IInv'
  <2>1. event'.holders = event.holders \cup {p} /\ "holders" \in DOMAIN event'
    BY <1>2, <1>a, HeldHolders DEF CreateEvent, CreatesEvent
  <2>2. Facts(p)
    BY <1>2, <1>a, <1>b, <1>c, <1>d, <2>1
    DEF CreateEvent, CreatesEvent, Goto, kernel, Shape, Labels, Works, Holds
  <2> QED
    BY <2>2, <1>0
<1>3. ASSUME NEW p \in Processes, CreateEventFails(p)
      PROVE  IInv'
  <2>1. Facts(p)
    BY <1>3, <1>a, <1>b, <1>c, <1>d
    DEF CreateEventFails, Goto, kernel, Shape, Labels, Works, Holds
  <2> QED
    BY <2>1, <1>0
<1>4. ASSUME NEW p \in Processes, OpenSharedMemory(p)
      PROVE  IInv'
  <2>1. mapping' = mapping \/ (mapping'.holders = mapping.holders \cup {p} /\ "holders" \in DOMAIN mapping')
    BY <1>4, <1>a, HeldHolders DEF OpenSharedMemory
  <2>2. Facts(p)
    BY <1>4, <1>a, <1>b, <1>c, <1>d, <2>1
    DEF OpenSharedMemory, Goto, kernel, Shape, Labels, Works, Holds
  <2> QED
    BY <2>2, <1>0
<1>5. ASSUME NEW p \in Processes, CreateSharedMemory(p)
      PROVE  IInv'
  <2>1. mapping'.holders = mapping.holders \cup {p} /\ "holders" \in DOMAIN mapping'
    BY <1>5, <1>a, HeldHolders DEF CreateSharedMemory
  <2>2. Facts(p)
    BY <1>5, <1>a, <1>b, <1>c, <1>d, <2>1
    DEF CreateSharedMemory, Goto, kernel, Shape, Labels, Works, Holds
  <2> QED
    BY <2>2, <1>0
<1>6. ASSUME NEW p \in Processes, WriteQueueSize(p)
      PROVE  IInv'
  <2>1. mapping'.holders = mapping.holders /\ "holders" \in DOMAIN mapping'
    BY <1>6, <1>a DEF WriteQueueSize, WritesSize
  <2>2. Facts(p)
    BY <1>6, <1>a, <1>b, <1>c, <1>d, <2>1
    DEF WriteQueueSize, WritesSize, Goto, kernel, Shape, Labels, Works, Holds
  <2> QED
    BY <2>2, <1>0
<1>7. ASSUME NEW p \in Processes, ActivateFails(p)
      PROVE  IInv'
  <2>1. Facts(p)
    BY <1>7, <1>a, <1>b, <1>c, <1>d
    DEF ActivateFails, Goto, kernel, Shape, Labels, Works, Holds
  <2> QED
    BY <2>1, <1>0
<1>8. ASSUME NEW p \in Processes, CreateObjects(p)
      PROVE  IInv'
  <2>1. sem'.holders = sem.holders \cup {p} /\ "holders" \in DOMAIN sem'
    BY <1>8, <1>a, HeldHolders DEF CreateObjects
  <2>2. Facts(p)
    BY <1>8, <1>a, <1>b, <1>c, <1>d, <2>1
    DEF CreateObjects, Goto, kernel, Shape, Labels, Works, Holds
  <2> QED
    BY <2>2, <1>0
<1>9. ASSUME NEW p \in Processes, QuitKey(p)
      PROVE  IInv'
  <2>1. Facts(p)
    BY <1>9, <1>a, <1>b, <1>c, <1>d
    DEF QuitKey, Goto, kernel, Shape, Labels, Works, Holds
  <2> QED
    BY <2>1, <1>0
<1>10. ASSUME NEW p \in Processes, NoKey(p)
      PROVE  IInv'
  <2>1. Facts(p)
    BY <1>10, <1>a, <1>b, <1>c, <1>d
    DEF NoKey, Goto, kernel, Shape, Labels, Works, Holds
  <2> QED
    BY <2>1, <1>0
<1>11. ASSUME NEW p \in Processes, RecvExitEvent(p)
      PROVE  IInv'
  <2>1. event'.holders = event.holders /\ "holders" \in DOMAIN event'
    BY <1>11, <1>a DEF RecvExitEvent, WakesLeaving
  <2>2. Facts(p)
    BY <1>11, <1>a, <1>b, <1>c, <1>d, <2>1
    DEF RecvExitEvent, WakesLeaving, Goto, kernel, Shape, Labels, Works, Holds
  <2> QED
    BY <2>2, <1>0
<1>12. ASSUME NEW p \in Processes, CloseObjects(p) \/ CloseSender(p)
      PROVE  IInv'
  <2>1. sem'.holders = sem.holders \ {p} /\ "holders" \in DOMAIN sem'
    BY <1>12, <1>a, LeftHolders DEF CloseObjects, CloseSender
  <2>2. Facts(p)
    BY <1>12, <1>a, <1>b, <1>c, <1>d, <2>1
    DEF CloseObjects, CloseSender, Goto, kernel, Shape, Labels, Works, Holds
  <2> QED
    BY <2>2, <1>0
<1>13. ASSUME NEW p \in Processes, FinalizeQueue(p)
      PROVE  IInv'
  <2>1. mapping'.holders = mapping.holders \ {p} /\ "holders" \in DOMAIN mapping'
    BY <1>13, <1>a, LeftHolders DEF FinalizeQueue
  <2>2. Facts(p)
    BY <1>13, <1>a, <1>b, <1>c, <1>d, <2>1
    DEF FinalizeQueue, Goto, kernel, Shape, Labels, Works, Holds
  <2> QED
    BY <2>2, <1>0
<1>14. ASSUME NEW p \in Processes, CloseEvent(p)
      PROVE  IInv'
  <2>1. event'.holders = event.holders \ {p} /\ "holders" \in DOMAIN event'
    BY <1>14, <1>a, LeftHolders DEF CloseEvent
  <2>2. Facts(p)
    BY <1>14, <1>a, <1>b, <1>c, <1>d, <2>1
    DEF CloseEvent, Goto, kernel, Shape, Labels, Works, Holds
  <2> QED
    BY <2>2, <1>0
<1>15. ASSUME NEW p \in Processes, Crash(p)
      PROVE  IInv'
  <2>1. event'.holders = event.holders \ {p} /\ "holders" \in DOMAIN event'
    BY <1>15, <1>a, LeftHolders DEF Crash
  <2>2. mapping'.holders = mapping.holders \ {p} /\ "holders" \in DOMAIN mapping'
    BY <1>15, <1>a, LeftHolders DEF Crash
  <2>3. sem'.holders = sem.holders \ {p} /\ "holders" \in DOMAIN sem'
    <3> DEFINE freed == [sem EXCEPT !.owner = @ \ {p}]
    <3>1. "holders" \in DOMAIN freed /\ freed.holders = sem.holders
      BY <1>a
    <3>2. sem' = Left(freed, p, NoSem)
      BY <1>15 DEF Crash
    <3> HIDE DEF freed
    <3> QED
      BY <3>1, <3>2, LeftHolders
  <2>4. Facts(p)
    BY <1>15, <1>a, <1>b, <1>c, <1>d, <2>1, <2>2, <2>3
    DEF Crash, Goto, kernel, Shape, Labels, Works, Holds
  <2> QED
    BY <2>4, <1>0
<1>16. ASSUME NEW p \in Processes, NEW m \in Lens, CallPush(p, m)
      PROVE  IInv'
  <2>1. sem'.holders = sem.holders /\ "holders" \in DOMAIN sem'
    BY <1>16, <1>a DEF CallPush
  <2>2. Facts(p)
    BY <1>16, <1>a, <1>b, <1>c, <1>d, <2>1
    DEF CallPush, Goto, kernel, Shape, Labels, Works, Holds
  <2> QED
    BY <2>2, <1>0
<1>17. ASSUME NEW p \in Processes, PushCopy(p)
      PROVE  IInv'
  <2>1. mapping'.holders = mapping.holders /\ "holders" \in DOMAIN mapping'
    BY <1>17, <1>a DEF PushCopy
  <2>2. Facts(p)
    BY <1>17, <1>a, <1>b, <1>c, <1>d, <2>1
    DEF PushCopy, Goto, kernel, Shape, Labels, Works, Holds
  <2> QED
    BY <2>2, <1>0
<1>18. ASSUME NEW p \in Processes, PushIndex(p)
      PROVE  IInv'
  <2>1. mapping'.holders = mapping.holders /\ "holders" \in DOMAIN mapping'
    BY <1>18, <1>a DEF PushIndex
  <2>2. Facts(p)
    BY <1>18, <1>a, <1>b, <1>c, <1>d, <2>1
    DEF PushIndex, Goto, kernel, Shape, Labels, Works, Holds
  <2> QED
    BY <2>2, <1>0
<1>19. ASSUME NEW p \in Processes, PushUse(p)
      PROVE  IInv'
  <2>1. mapping'.holders = mapping.holders /\ "holders" \in DOMAIN mapping'
    BY <1>19, <1>a DEF PushUse
  <2>2. sem'.holders = sem.holders /\ "holders" \in DOMAIN sem'
    BY <1>19, <1>a DEF PushUse
  <2>3. Facts(p)
    BY <1>19, <1>a, <1>b, <1>c, <1>d, <2>1, <2>2
    DEF PushUse, Goto, kernel, Shape, Labels, Works, Holds
  <2> QED
    BY <2>3, <1>0
<1>20. ASSUME NEW p \in Processes, CallPop(p)
      PROVE  IInv'
  <2>1. sem'.holders = sem.holders /\ "holders" \in DOMAIN sem'
    BY <1>20, <1>a DEF CallPop
  <2>2. Facts(p)
    BY <1>20, <1>a, <1>b, <1>c, <1>d, <2>1
    DEF CallPop, Goto, kernel, Shape, Labels, Works, Holds
  <2> QED
    BY <2>2, <1>0
<1>21. ASSUME NEW p \in Processes, PopIndex(p)
      PROVE  IInv'
  <2>1. mapping'.holders = mapping.holders /\ "holders" \in DOMAIN mapping'
    BY <1>21, <1>a DEF PopIndex
  <2>2. Facts(p)
    BY <1>21, <1>a, <1>b, <1>c, <1>d, <2>1
    DEF PopIndex, Goto, kernel, Shape, Labels, Works, Holds
  <2> QED
    BY <2>2, <1>0
<1>22. ASSUME NEW p \in Processes, PopUse(p)
      PROVE  IInv'
  <2>1. mapping'.holders = mapping.holders /\ "holders" \in DOMAIN mapping'
    BY <1>22, <1>a DEF PopUse
  <2>2. sem'.holders = sem.holders /\ "holders" \in DOMAIN sem'
    BY <1>22, <1>a DEF PopUse
  <2>3. Facts(p)
    BY <1>22, <1>a, <1>b, <1>c, <1>d, <2>1, <2>2
    DEF PopUse, Goto, kernel, Shape, Labels, Works, Holds
  <2> QED
    BY <2>3, <1>0
<1>23. ASSUME NEW p \in Processes,
              StopWorker(p) \/ JoinThread(p) \/ JoinHangs(p) \/ ThreadBegins(p)
       PROVE  IInv'
  <2>1. Facts(p)
    BY <1>23, <1>a, <1>b, <1>c, <1>d
    DEF StopWorker, JoinThread, JoinHangs, ThreadBegins, Goto, kernel, Shape, Labels,
        Works, Holds
  <2> QED
    BY <2>1, <1>0
<1>24. ASSUME NEW p \in Processes, ThreadEnds(p)
       PROVE  IInv'
  <2>1. sem'.holders = sem.holders /\ "holders" \in DOMAIN sem'
    BY <1>24, <1>a DEF ThreadEnds
  <2>2. Facts(p)
    BY <1>24, <1>a, <1>b, <1>c, <1>d, <2>1
    DEF ThreadEnds, Goto, kernel, Shape, Labels, Works, Holds
  <2> QED
    BY <2>2, <1>0
<1>25. CASE UNCHANGED vars
  BY <1>25 DEF vars, kernel, IInv, Shape, WorkersHaveEvent, NothingHeld, OneWorks,
              Works, Holds
<1> QED
  BY <1>1, <1>2, <1>3, <1>4, <1>5, <1>6, <1>7, <1>8, <1>9, <1>10, <1>11, <1>12, <1>13, <1>14, <1>15, <1>16, <1>17, <1>18, <1>19, <1>20, <1>21, <1>22, <1>23,
     <1>24, <1>25
  DEF Next, MainSteps, ThreadSteps, RingSteps, Environment
----------------------------------------------------------------------------
(* The invariant holds throughout. *)
THEOREM StartupInductive == Spec => []IInv
<1>1. Init => IInv
  BY StartupInit
<1>2. IInv /\ [Next]_vars => IInv'
  BY StartupStep
<1> QED
  BY <1>1, <1>2, PTL DEF Spec

(* Application::Initialize lets one process of a name work on its camera's *)
(* queue at a time, until Finalize closes the event behind the memory.     *)
THEOREM StartupOneCamera == Spec => []OneCamera
<1>1. IInv => OneCamera
  BY DEF IInv, OneWorks, OneCamera, Works, Holds
<1> QED
  BY <1>1, StartupInductive, PTL
----------------------------------------------------------------------------
(* The ring.  What keeps it sound between the writes of its words is which *)
(* call is under way, and how far it has come.                             *)
Ops == {"idle", "copy", "index", "use"}
Stages == {"none", "new", "loop", "ended"}

RingType ==
  /\ thread \in [Processes -> Stages]
  /\ op \in [Processes -> Ops]
  /\ len \in [Processes -> Nat]
  /\ mapping \in [holders : SUBSET Processes, queue_size : {0, Capacity},
                  head : Nat, tail : Nat, use_size : Nat,
                  packets : [0 .. (Wrap - 1) -> Nat]]
  /\ sem \in [holders : SUBSET Processes, producer : 0 .. SyncCount,
              consumer : 0 .. SyncCount, owner : SUBSET Processes]
  /\ torn \in BOOLEAN /\ unsized \in BOOLEAN /\ overtaken \in BOOLEAN

(* Who is in a call has the memory, a sender the semaphores too; the       *)
(* receive worker's thread is in calls only while it is in its loop, and   *)
(* gone when the memory is let go.                                         *)
AttachedAt(p) ==
  /\ pc[p] \in {"off", "event", "open", "create", "unevent"} => p \notin mapping.holders
  /\ pc[p] \in {"size", "objects", "up"} => p \in mapping.holders
  /\ pc[p] = "up" => p \in Clients /\ p \in sem.holders
  /\ p \in sem.holders =>
       /\ p \in mapping.holders
       /\ pc[p] \in {"up", "keys", "waiting", "unsync", "unhandle", "hung"}
  /\ pc[p] \in {"off", "event", "open", "create", "size", "objects"} => thread[p] = "none"
  /\ pc[p] \in {"unmap", "unevent"} => thread[p] \in {"none", "ended"}
  /\ p \in Clients => /\ thread[p] = "none"
                      /\ pc[p] \in {"off", "open", "create", "size", "objects", "up", "unmap"}
  /\ op[p] # "idle" => /\ p \in mapping.holders
                       /\ p \in Clients => p \in sem.holders
                       /\ p \notin Clients => thread[p] = "loop"
  /\ op[p] = "index" => p \in Clients

Attached == \A p \in Processes : AttachedAt(p)

(* The mutex keeps the calls apart, until it is made anew under one of     *)
(* them.                                                                   *)
OneCall == \A p, q \in Processes : op[p] # "idle" /\ op[q] # "idle" => p = q
CallerOwns == sem.holders # {} => \A p \in Processes : op[p] # "idle" => sem.owner = {p}
MutexHolds == ~overtaken => OneCall /\ CallerOwns

(* An object without a handle is gone, and with it what went wrong in it. *)
Unused ==
  /\ mapping.holders = {} => mapping = NoMapping /\ ~torn /\ ~unsized /\ ~overtaken
  /\ sem.holders = {} => sem = NoSem

(* A memory without its size has somebody who will write it. *)
SizeComes ==
  ~unsized /\ mapping.holders # {} /\ mapping.queue_size # Capacity =>
    \E q \in mapping.holders : pc[q] = "size"

(* head and tail are use_size apart, around the ring. *)
Agree(h, t, u) == \E turn \in {0, Capacity} : h + u = t + turn

(* The words of a memory that has its size, in and between the calls. *)
Sized ==
  /\ mapping.head \in 0 .. Capacity /\ mapping.tail \in 0 .. Capacity
  /\ mapping.use_size < Capacity \/ mapping.use_size = 0
  /\ NoCall => Agree(mapping.head, mapping.tail, mapping.use_size)
  /\ \A p \in Clients :
       /\ op[p] \in {"copy", "index"} => Agree(mapping.head, mapping.tail, mapping.use_size)
       /\ op[p] = "use" => Agree(mapping.head, mapping.tail, mapping.use_size + len[p])
       /\ op[p] # "idle" => len[p] \in 1 .. (Capacity - 1 - mapping.use_size)
  /\ \A c \in Cameras :
       /\ op[c] = "copy" => Agree(mapping.head, mapping.tail, mapping.use_size)
       /\ op[c] = "use" => Agree(mapping.head, mapping.tail, mapping.use_size - len[c])
       /\ op[c] # "idle" => len[c] \in 1 .. mapping.use_size

(* The tokens taken when left are left pay for n bytes: all of them pay    *)
(* for the ring.                                                           *)
Paid(n, left) == SyncCount * n <= (SyncCount - left) * (Capacity - 1)

(* Before it has its size: senders alone fill the memory from its start,   *)
(* and the tokens end before the memory does.                              *)
Early ==
  /\ mapping.head = 0 /\ mapping.tail < Capacity
  /\ \A c \in Cameras : op[c] = "idle"
  /\ NoCall => mapping.tail = mapping.use_size
  /\ \A p \in Clients :
       /\ op[p] \in {"copy", "index"} =>
            /\ mapping.tail = mapping.use_size /\ len[p] > 0
            /\ mapping.tail + len[p] < Capacity /\ Paid(mapping.tail + len[p], sem.producer)
       /\ op[p] = "use" => mapping.tail = mapping.use_size + len[p] /\ len[p] > 0
  /\ sem.holders # {} => Paid(mapping.tail, sem.producer)

RingOk ==
  ~torn /\ ~unsized /\ ~overtaken /\ mapping.holders # {} =>
    IF mapping.queue_size = Capacity THEN Sized ELSE Early

RingInv == RingType /\ Attached /\ MutexHolds /\ Unused /\ SizeComes /\ RingOk
----------------------------------------------------------------------------
(* Arithmetic of the ring. *)
LEMMA WordSmall == \A n \in 0 .. (Wrap - 1) : Word(n) = n
  BY StartupAssumption DEF Word

LEMMA WordType == Wrap > 0 => \A n \in Int : Word(n) \in 0 .. (Wrap - 1)
  BY StartupAssumption DEF Word

LEMMA Wrapped == \A n \in 1 .. (Wrap - 1) : Word(0 - n) = Wrap - n
  BY StartupAssumption DEF Word

LEMMA LensFit ==
  \A n \in Lens : n \in 1 .. (Capacity - 1) /\ SyncCount * n <= Capacity - 1
<1> SUFFICES ASSUME NEW n \in Lens PROVE n \in 1 .. (Capacity - 1) /\ SyncCount * n <= Capacity - 1
  OBVIOUS
<1>1. n \in Nat \ {0} /\ SyncCount \in Nat \ {0} /\ Capacity \in Nat /\ SyncCount * n < Capacity
  BY StartupAssumption
<1>2. SyncCount * n >= n
  <2>1. \E k \in Nat : SyncCount = k + 1
    <3>1. SyncCount - 1 \in Nat /\ SyncCount = (SyncCount - 1) + 1
      BY <1>1
    <3> QED
      BY <3>1
  <2>2. PICK k \in Nat : SyncCount = k + 1
    BY <2>1
  <2>3. (k + 1) * n = k * n + n /\ k * n \in Nat
    BY <1>1, <2>2
  <2> QED
    BY <1>1, <2>2, <2>3
<1> QED
  BY <1>1, <1>2

(* The position after n bytes, in a ring that has its size. *)
LEMMA AdvancedSized ==
  ASSUME mapping.queue_size = Capacity, NEW pos \in 0 .. Capacity, NEW n \in 1 .. (Capacity - 1)
  PROVE  /\ Advanced(pos, n) \in 0 .. Capacity
         /\ Advanced(pos, n) = pos + n \/ (Advanced(pos, n) = pos + n - Capacity /\ Advanced(pos, n) > 0)
         /\ Touched(pos, n) \subseteq 0 .. (Capacity - 1)
<1>1. Capacity \in Nat /\ Wrap \in Nat /\ Capacity < Wrap
  BY StartupAssumption
<1>2. Behind(pos) = Capacity - pos
  BY <1>1, WordSmall DEF Behind
<1>3. Capacity - pos >= n => Word(pos + n) = pos + n
  BY <1>1, WordSmall
<1>4. CASE Capacity - pos < n
  BY <1>1, <1>2, <1>4 DEF Advanced, Touched
<1>5. CASE ~(Capacity - pos < n)
  BY <1>1, <1>2, <1>3, <1>5 DEF Advanced, Touched
<1> QED
  BY <1>4, <1>5

(* The same before the size is written, as far as the memory goes. *)
LEMMA AdvancedEarly ==
  ASSUME mapping.queue_size = 0, NEW pos \in Nat, NEW n \in Nat \ {0}, pos + n < Capacity
  PROVE  /\ Advanced(pos, n) = pos + n
         /\ Touched(pos, n) \subseteq 0 .. (Capacity - 1)
<1>1. Capacity \in Nat /\ Wrap \in Nat /\ Capacity < Wrap
  BY StartupAssumption
<1>2. CASE pos = 0
  <2>1. Behind(pos) = 0
    BY <1>1, <1>2, WordSmall DEF Behind
  <2> QED
    BY <1>1, <1>2, <2>1 DEF Advanced, Touched
<1>3. CASE pos # 0
  <2>1. Behind(pos) = Wrap - pos
    BY <1>1, <1>3, Wrapped DEF Behind
  <2>2. Word(pos + n) = pos + n
    BY <1>1, WordSmall
  <2> QED
    BY <1>1, <1>3, <2>1, <2>2 DEF Advanced, Touched
<1> QED
  BY <1>2, <1>3

LEMMA FreeSpace ==
  ASSUME mapping.queue_size = Capacity, mapping.use_size \in Nat,
         mapping.use_size < Capacity \/ mapping.use_size = 0, NEW n \in Lens, n <= GetFreeSize
  PROVE  n \in 1 .. (Capacity - 1 - mapping.use_size)
<1>1. Capacity \in Nat /\ Wrap \in Nat /\ Capacity < Wrap /\ n \in 1 .. (Capacity - 1)
  BY StartupAssumption, LensFit
<1>2. Word(Capacity - 1) = Capacity - 1
  BY <1>1, WordSmall
<1>3. Word(Capacity - 1 - mapping.use_size) = Capacity - 1 - mapping.use_size
  BY <1>1, WordSmall
<1> QED
  BY <1>1, <1>2, <1>3 DEF GetFreeSize

LEMMA AgreeTail ==
  ASSUME NEW h \in 0 .. Capacity, NEW t \in 0 .. Capacity, NEW u \in Nat,
         NEW n \in 1 .. (Capacity - 1 - u), Agree(h, t, u),
         NEW v \in 0 .. Capacity, v = t + n \/ v = t + n - Capacity
  PROVE  Agree(h, v, u + n)
  BY StartupAssumption DEF Agree

LEMMA AgreeHead ==
  ASSUME NEW h \in 0 .. Capacity, NEW t \in 0 .. Capacity, NEW u \in 0 .. Capacity,
         NEW n \in 1 .. u, Agree(h, t, u),
         NEW v \in 0 .. Capacity, v = h + n \/ (v = h + n - Capacity /\ v > 0)
  PROVE  Agree(v, t, u - n)
  BY StartupAssumption DEF Agree

(* What a token pays for. *)
LEMMA PaidBound ==
  ASSUME NEW n \in Nat, Capacity > 0, NEW left \in 0 .. SyncCount, Paid(n, left)
  PROVE  n < Capacity
<1> DEFINE S == SyncCount
           k == SyncCount - left
           C == Capacity - 1
<1>1. S \in Nat \ {0} /\ k \in 0 .. S /\ C \in Nat /\ S * n <= k * C
  BY StartupAssumption DEF Paid
<1> HIDE DEF S, k, C
<1>2. k * C <= S * C
  <2>1. S - k \in Nat /\ S = k + (S - k)
    BY <1>1
  <2>2. (k + (S - k)) * C = k * C + (S - k) * C /\ (S - k) * C \in Nat /\ k * C \in Nat
    BY <1>1, <2>1
  <2> QED
    BY <2>1, <2>2
<1>3. S * n <= S * C
  BY <1>1, <1>2
<1>4. ASSUME n >= C + 1 PROVE FALSE
  <2>1. n - C \in Nat \ {0} /\ n = C + (n - C)
    BY <1>1, <1>4
  <2>2. S * (C + (n - C)) = S * C + S * (n - C) /\ S * C \in Nat /\ S * (n - C) \in Nat
    BY <1>1, <2>1
  <2>3. S * (n - C) > 0
    BY <1>1, <2>1
  <2>4. S * n = S * C + S * (n - C)
    BY <2>1, <2>2
  <2> QED
    BY <1>3, <2>2, <2>3, <2>4
<1> QED
  BY <1>1, <1>4, StartupAssumption DEF C

LEMMA PaidMore ==
  ASSUME NEW n \in Nat, NEW m \in Lens, NEW left \in 1 .. SyncCount, Paid(n, left)
  PROVE  Paid(n + m, left - 1) /\ Paid(n, left - 1)
<1> DEFINE S == SyncCount
           k == SyncCount - left
           C == Capacity - 1
<1>1. S \in Nat \ {0} /\ k \in Nat /\ C \in Nat /\ S * n <= k * C /\ S * m <= C /\ m \in Nat
  BY StartupAssumption, LensFit DEF Paid
<1>2. SyncCount - (left - 1) = k + 1
  BY StartupAssumption
<1> HIDE DEF S, k, C
<1>3. S * (n + m) = S * n + S * m /\ (k + 1) * C = k * C + C
      /\ S * n \in Nat /\ S * m \in Nat /\ k * C \in Nat
  BY <1>1
<1>4. S * (n + m) <= (k + 1) * C
  BY <1>1, <1>3
<1>5. S * n <= (k + 1) * C
  BY <1>1, <1>3
<1> QED
  BY <1>2, <1>4, <1>5 DEF S, C, Paid

LEMMA PaidNothing ==
  ASSUME Capacity > 0, NEW left \in 0 .. SyncCount
  PROVE  Paid(0, left)
<1>1. SyncCount - left \in Nat /\ Capacity - 1 \in Nat /\ SyncCount \in Nat
  BY StartupAssumption
<1>2. (SyncCount - left) * (Capacity - 1) \in Nat /\ SyncCount * 0 = 0
  BY <1>1
<1> QED
  BY <1>2 DEF Paid
----------------------------------------------------------------------------
(* The types of the objects' fields. *)
MappingType == [holders : SUBSET Processes, queue_size : {0, Capacity},
                head : Nat, tail : Nat, use_size : Nat,
                packets : [0 .. (Wrap - 1) -> Nat]]
SemType == [holders : SUBSET Processes, producer : 0 .. SyncCount,
            consumer : 0 .. SyncCount, owner : SUBSET Processes]

LEMMA NothingType == NoMapping \in MappingType /\ NoSem \in SemType
  BY StartupAssumption DEF NoMapping, NoSem, MappingType, SemType

LEMMA HeldType ==
  ASSUME RingType, NEW p \in Processes
  PROVE  /\ Held(mapping, p) \in MappingType
         /\ Held(mapping, p) = [mapping EXCEPT !.holders = mapping.holders \cup {p}]
         /\ Held(sem, p) \in SemType
         /\ Held(sem, p) = [sem EXCEPT !.holders = sem.holders \cup {p}]
  BY DEF RingType, Held, MappingType, SemType

LEMMA LeftMapping ==
  ASSUME RingType, NEW p \in Processes
  PROVE  /\ Left(mapping, p, NoMapping) \in MappingType
         /\ Left(mapping, p, NoMapping).holders = mapping.holders \ {p}
         /\ \/ Left(mapping, p, NoMapping) = NoMapping
            \/ /\ mapping.holders \ {p} # {}
               /\ Left(mapping, p, NoMapping) = [mapping EXCEPT !.holders = mapping.holders \ {p}]
<1>1. NoMapping \in MappingType /\ NoMapping.holders = {}
  BY NothingType, NothingThere
<1>2. mapping \in MappingType
  BY DEF RingType, MappingType
<1>3. /\ [mapping EXCEPT !.holders = mapping.holders \ {p}] \in MappingType
      /\ [mapping EXCEPT !.holders = mapping.holders \ {p}].holders = mapping.holders \ {p}
  BY <1>2 DEF MappingType
<1>4. mapping.holders \subseteq {p} <=> mapping.holders \ {p} = {}
  OBVIOUS
<1>5. CASE mapping.holders \subseteq {p}
  BY <1>1, <1>4, <1>5 DEF Left
<1>6. CASE ~(mapping.holders \subseteq {p})
  BY <1>3, <1>4, <1>6 DEF Left
<1> QED
  BY <1>5, <1>6

LEMMA LeftSem ==
  ASSUME NEW s \in SemType, NEW p \in Processes
  PROVE  /\ Left(s, p, NoSem) \in SemType
         /\ Left(s, p, NoSem).holders = s.holders \ {p}
         /\ \/ Left(s, p, NoSem) = NoSem
            \/ /\ s.holders \ {p} # {}
               /\ Left(s, p, NoSem) = [s EXCEPT !.holders = s.holders \ {p}]
<1>1. NoSem \in SemType /\ NoSem.holders = {}
  BY NothingType, NothingThere
<1>2. /\ [s EXCEPT !.holders = s.holders \ {p}] \in SemType
      /\ [s EXCEPT !.holders = s.holders \ {p}].holders = s.holders \ {p}
  BY DEF SemType
<1>3. s.holders \subseteq {p} <=> s.holders \ {p} = {}
  OBVIOUS
<1>4. CASE s.holders \subseteq {p}
  BY <1>1, <1>3, <1>4 DEF Left
<1>5. CASE ~(s.holders \subseteq {p})
  BY <1>2, <1>3, <1>5 DEF Left
<1> QED
  BY <1>4, <1>5

(* The semaphores when p closes its handles, and when it dies. *)
LEMMA LeftSemaphores ==
  ASSUME RingType, NEW p \in Processes, NEW freed, NEW left,
         freed = sem \/ freed = [sem EXCEPT !.owner = sem.owner \ {p}],
         left = Left(freed, p, NoSem)
  PROVE  /\ left \in SemType /\ left.holders = sem.holders \ {p}
         /\ left.holders = {} => left = NoSem
         /\ left.holders # {} => /\ left.producer = sem.producer
                                 /\ left.owner = freed.owner /\ sem.holders # {}
<1>1. sem \in SemType
  BY DEF RingType, SemType
<1>2. freed \in SemType /\ freed.holders = sem.holders /\ freed.producer = sem.producer
  BY <1>1 DEF SemType
<1>3. /\ left \in SemType /\ left.holders = sem.holders \ {p}
      /\ \/ left = NoSem
         \/ /\ sem.holders \ {p} # {}
            /\ left = [freed EXCEPT !.holders = sem.holders \ {p}]
  BY <1>2, LeftSem
<1>4. NoSem.holders = {}
  BY NothingThere
<1>5. CASE left = NoSem
  BY <1>3, <1>4, <1>5
<1>6. CASE left # NoSem
  BY <1>2, <1>3, <1>6 DEF SemType
<1> QED
  BY <1>5, <1>6

(* What the calls do to the semaphores and the mutex. *)
LEMMA CallPushSem ==
  ASSUME RingType, NEW p \in Processes, NEW n, CallPush(p, n)
  PROVE  /\ sem' \in SemType /\ sem'.holders = sem.holders /\ sem'.owner = {p}
         /\ sem'.producer = sem.producer - 1 /\ sem.producer \in 1 .. SyncCount
<1>1. sem \in SemType /\ SyncCount \in Nat
  BY StartupAssumption DEF RingType, SemType
<1>2. /\ sem.producer > 0
      /\ sem' = [sem EXCEPT !.producer = sem.producer - 1, !.owner = {p}]
  BY DEF CallPush
<1>3. {p} \in SUBSET Processes
  OBVIOUS
<1>4. sem.producer \in 1 .. SyncCount /\ sem.producer - 1 \in 0 .. SyncCount
  BY <1>1, <1>2 DEF SemType
<1> QED
  BY <1>1, <1>2, <1>3, <1>4 DEF SemType

LEMMA CallPopSem ==
  ASSUME RingType, NEW p \in Processes, CallPop(p)
  PROVE  sem' \in SemType /\ sem'.holders = sem.holders /\ sem'.owner = {p}
<1>1. sem \in SemType /\ SyncCount \in Nat
  BY StartupAssumption DEF RingType, SemType
<1>2. /\ sem.consumer > 0
      /\ sem' = [sem EXCEPT !.consumer = sem.consumer - 1, !.owner = {p}]
  BY DEF CallPop
<1>3. {p} \in SUBSET Processes
  OBVIOUS
<1>4. sem.consumer - 1 \in 0 .. SyncCount
  BY <1>1, <1>2 DEF SemType
<1> QED
  BY <1>1, <1>2, <1>3, <1>4 DEF SemType

LEMMA PushUseSem ==
  ASSUME RingType, NEW p \in Processes, PushUse(p)
  PROVE  sem' \in SemType /\ sem'.holders = sem.holders /\ sem'.producer = sem.producer
<1>1. sem \in SemType /\ SyncCount \in Nat
  BY StartupAssumption DEF RingType, SemType
<1> DEFINE n == IF sem.consumer < SyncCount THEN sem.consumer + 1 ELSE sem.consumer
<1>2. sem' = [sem EXCEPT !.owner = {}, !.consumer = n]
  BY DEF PushUse
<1>3. {} \in SUBSET Processes
  OBVIOUS
<1>4. n \in 0 .. SyncCount
  BY <1>1 DEF SemType
<1> HIDE DEF n
<1> QED
  BY <1>1, <1>2, <1>3, <1>4 DEF SemType

LEMMA PopUseSem ==
  ASSUME RingType, NEW p \in Processes, PopUse(p)
  PROVE  sem' \in SemType /\ sem'.holders = sem.holders /\ (p \notin sem.holders => sem' = sem)
<1>1. sem \in SemType /\ SyncCount \in Nat
  BY StartupAssumption DEF RingType, SemType
<1> DEFINE n == IF sem.producer < SyncCount THEN sem.producer + 1 ELSE sem.producer
<1>2. sem' = IF p \in sem.holders
             THEN [sem EXCEPT !.owner = sem.owner \ {p}, !.producer = n] ELSE sem
  BY DEF PopUse
<1>3. n \in 0 .. SyncCount /\ sem.owner \ {p} \in SUBSET Processes
  BY <1>1 DEF SemType
<1> HIDE DEF n
<1>4. CASE p \in sem.holders
  BY <1>1, <1>2, <1>3, <1>4 DEF SemType
<1>5. CASE p \notin sem.holders
  BY <1>1, <1>2, <1>5
<1> QED
  BY <1>4, <1>5

(* Whoever writes use_size alone writes what it means to. *)
LEMMA WritesAlone ==
  ASSUME NEW p, NEW size, \A q \in Processes \ {p} : op[q] = "idle"
  PROVE  UseSizes(p, size) = {size}
  BY DEF UseSizes

LEMMA AdvancedType ==
  ASSUME RingType, NEW pos \in Nat, NEW n \in Nat PROVE Advanced(pos, n) \in Nat
<1>1. Wrap \in Nat \ {0} /\ mapping.queue_size \in Nat
  BY StartupAssumption DEF RingType
<1>2. Behind(pos) \in Nat /\ Word(pos + n) \in Nat
  BY <1>1, WordType DEF Behind
<1> QED
  BY <1>2 DEF Advanced

LEMMA RingTypeStep == ASSUME RingType, [Next]_vars PROVE RingType'
<1>0. /\ thread \in [Processes -> Stages]
      /\ op \in [Processes -> Ops] /\ len \in [Processes -> Nat]
      /\ mapping \in MappingType /\ sem \in SemType
      /\ torn \in BOOLEAN /\ unsized \in BOOLEAN /\ overtaken \in BOOLEAN
      /\ Wrap \in Nat \ {0} /\ SyncCount \in Nat \ {0} /\ Capacity \in Nat /\ Lens \subseteq Nat
  BY StartupAssumption DEF RingType, MappingType, SemType
<1> DEFINE Typed == /\ thread' \in [Processes -> Stages]
                    /\ op' \in [Processes -> Ops] /\ len' \in [Processes -> Nat]
                    /\ mapping' \in MappingType /\ sem' \in SemType
                    /\ torn' \in BOOLEAN /\ unsized' \in BOOLEAN /\ overtaken' \in BOOLEAN
<1>1. ASSUME NEW p \in Processes, MainSteps(p) PROVE Typed
  <2>1. UNCHANGED <<op, len>>
    BY <1>1 DEF call, MainSteps, CreateEvent, CreatesEvent, OpenSharedMemory, CreateSharedMemory,
                WriteQueueSize, WritesSize, CreateObjects, NoKey, RecvExitEvent, WakesLeaving,
                StopWorker, CloseObjects, JoinThread, FinalizeQueue, CloseEvent
  <2>2. mapping' = mapping \/ mapping' = Held(mapping, p)
          \/ mapping' = [mapping EXCEPT !.queue_size = Capacity]
          \/ mapping' = Left(mapping, p, NoMapping)
    BY <1>1 DEF MainSteps, CreateEvent, CreatesEvent, OpenSharedMemory, CreateSharedMemory,
                WriteQueueSize, WritesSize, CreateObjects, NoKey, RecvExitEvent, WakesLeaving,
                StopWorker, CloseObjects, JoinThread, FinalizeQueue, CloseEvent, kernel
  <2>3. sem' = sem \/ sem' = Held(sem, p) \/ sem' = Left(sem, p, NoSem)
    BY <1>1 DEF MainSteps, CreateEvent, CreatesEvent, OpenSharedMemory, CreateSharedMemory,
                WriteQueueSize, WritesSize, CreateObjects, NoKey, RecvExitEvent, WakesLeaving,
                StopWorker, CloseObjects, JoinThread, FinalizeQueue, CloseEvent, kernel
  <2>4. torn' \in BOOLEAN /\ unsized' \in BOOLEAN /\ overtaken' \in BOOLEAN
    BY <1>1, <1>0 DEF MainSteps, CreateEvent, CreatesEvent, OpenSharedMemory, CreateSharedMemory,
                WriteQueueSize, WritesSize, CreateObjects, NoKey, RecvExitEvent, WakesLeaving,
                StopWorker, CloseObjects, JoinThread, FinalizeQueue, CloseEvent, ghost
  <2>5. [mapping EXCEPT !.queue_size = Capacity] \in MappingType
    BY <1>0 DEF MappingType
  <2>6. thread' = thread \/ \E stage \in Stages : thread' = [thread EXCEPT ![p] = stage]
    BY <1>1, <1>0 DEF Stages, worker, MainSteps, CreateEvent, CreatesEvent, OpenSharedMemory, CreateSharedMemory,
                WriteQueueSize, WritesSize, CreateObjects, NoKey, RecvExitEvent, WakesLeaving,
                StopWorker, CloseObjects, JoinThread, FinalizeQueue, CloseEvent
  <2>7. thread' \in [Processes -> Stages]
    BY <1>0, <2>6
  <2>8. sem' \in SemType
    BY <1>0, <2>3, HeldType, LeftSem
  <2>9. mapping' \in MappingType
    BY <1>0, <2>2, <2>5, HeldType, LeftMapping
  <2> QED
    BY <1>0, <2>1, <2>4, <2>7, <2>8, <2>9
<1>2. ASSUME NEW p \in Processes,
             \/ Start(p) \/ CreateEventFails(p) \/ ActivateFails(p) \/ QuitKey(p)
             \/ JoinHangs(p) \/ ThreadBegins(p)
      PROVE  Typed
  BY <1>0, <1>2 DEF Start, CreateEventFails, ActivateFails, QuitKey, JoinHangs, ThreadBegins,
                    Stages, worker, call, kernel, ghost
<1>3. ASSUME NEW p \in Processes, CloseSender(p) \/ ThreadEnds(p) PROVE Typed
  <2>1. [sem EXCEPT !.owner = @ \ {p}] \in SemType
    BY <1>0 DEF SemType
  <2>2. [thread EXCEPT ![p] = "ended"] \in [Processes -> Stages]
    BY <1>0 DEF Stages
  <2>3. CASE CloseSender(p)
    BY <1>0, <2>3, LeftSem DEF CloseSender, worker, call, ghost
  <2>4. CASE ThreadEnds(p)
    BY <1>0, <2>1, <2>2, <2>4 DEF ThreadEnds, call, ghost
  <2> QED
    BY <1>3, <2>3, <2>4
<1>4. ASSUME NEW p \in Processes, Crash(p) PROVE Typed
  <2>1. /\ op' = [op EXCEPT ![p] = "idle"] /\ len' = [len EXCEPT ![p] = 0]
        /\ thread' = [thread EXCEPT ![p] = "none"]
        /\ mapping' = Left(mapping, p, NoMapping)
        /\ torn' \in BOOLEAN /\ unsized' \in BOOLEAN /\ overtaken' \in BOOLEAN
    BY <1>0, <1>4 DEF Crash
  <2>2. sem' \in SemType
    <3> DEFINE freed == [sem EXCEPT !.owner = @ \ {p}]
    <3>1. freed \in SemType
      BY <1>0 DEF SemType
    <3>2. sem' = Left(freed, p, NoSem)
      BY <1>4 DEF Crash
    <3> HIDE DEF freed
    <3> QED
      BY <3>1, <3>2, LeftSem
  <2> QED
    BY <1>0, <2>1, <2>2, LeftMapping DEF Ops, Stages
<1>5. ASSUME NEW p \in Processes, NEW n \in Lens, CallPush(p, n) PROVE Typed
  <2>1. sem' \in SemType
    BY <1>5, CallPushSem
  <2> QED
    BY <1>0, <1>5, <2>1 DEF CallPush, worker, ghost, Ops
<1>6. ASSUME NEW p \in Processes, PushCopy(p) PROVE Typed
  <2>1. mapping.packets \in [0 .. (Wrap - 1) -> Nat] /\ len[p] \in Nat
    BY <1>0 DEF MappingType
  <2> DEFINE new == [i \in DOMAIN mapping.packets |->
                        IF i = FirstByte(mapping.tail) THEN len[p]
                        ELSE IF i \in Touched(mapping.tail, len[p]) THEN 0
                        ELSE mapping.packets[i]]
  <2>2. new \in [0 .. (Wrap - 1) -> Nat]
    BY <2>1
  <2>3. mapping' = [mapping EXCEPT !.packets = new]
    BY <1>6 DEF PushCopy
  <2> HIDE DEF new
  <2>4. mapping' \in MappingType
    BY <1>0, <2>2, <2>3 DEF MappingType
  <2> QED
    BY <1>0, <1>6, <2>4 DEF PushCopy, worker, ghost, Ops
<1>7. ASSUME NEW p \in Processes, PushIndex(p) PROVE Typed
  <2>1. Advanced(mapping.tail, len[p]) \in Nat
    BY <1>0, AdvancedType DEF MappingType
  <2>2. mapping' = [mapping EXCEPT !.tail = Advanced(mapping.tail, len[p])]
    BY <1>7 DEF PushIndex
  <2>3. mapping' \in MappingType
    BY <1>0, <2>1, <2>2 DEF MappingType
  <2> QED
    BY <1>0, <1>7, <2>3 DEF PushIndex, worker, ghost, Ops
<1>8. ASSUME NEW p \in Processes, PushUse(p) PROVE Typed
  <2>1. Word(mapping.use_size + len[p]) \in Nat
    <3>1. mapping.use_size + len[p] \in Int
      BY <1>0 DEF MappingType
    <3> QED
      BY <1>0, <3>1, WordType
  <2>2. PICK size \in UseSizes(p, Word(mapping.use_size + len[p])) :
          mapping' = [mapping EXCEPT !.use_size = size]
    BY <1>8 DEF PushUse
  <2>3. mapping' \in MappingType
    <3>1. size \in Nat
      BY <1>0, <2>1 DEF UseSizes, MappingType
    <3> QED
      BY <1>0, <2>2, <3>1 DEF MappingType
  <2>4. sem' \in SemType
    BY <1>8, PushUseSem
  <2> QED
    BY <1>0, <1>8, <2>3, <2>4 DEF PushUse, worker, ghost, Ops
<1>9. ASSUME NEW p \in Processes, CallPop(p) PROVE Typed
  <2> DEFINE n == mapping.packets[FirstByte(mapping.head)]
  <2>1. /\ n \in 1 .. mapping.use_size /\ sem.consumer > 0
        /\ sem' = [sem EXCEPT !.consumer = @ - 1, !.owner = {p}]
        /\ op' = [op EXCEPT ![p] = "copy"] /\ len' = [len EXCEPT ![p] = n]
        /\ unsized' = (unsized \/ SizeIsPending)
        /\ UNCHANGED <<thread, mapping, torn, overtaken>>
    BY <1>9 DEF CallPop, worker
  <2>2. n \in Nat
    BY <1>0, <2>1 DEF MappingType
  <2> HIDE DEF n
  <2>3. sem' \in SemType
    BY <1>9, CallPopSem
  <2> QED
    BY <1>0, <2>1, <2>2, <2>3 DEF Ops
<1>10. ASSUME NEW p \in Processes, PopIndex(p) PROVE Typed
  <2>1. Advanced(mapping.head, len[p]) \in Nat
    BY <1>0, AdvancedType DEF MappingType
  <2>2. mapping' = [mapping EXCEPT !.head = Advanced(mapping.head, len[p])]
    BY <1>10 DEF PopIndex
  <2>3. mapping' \in MappingType
    BY <1>0, <2>1, <2>2 DEF MappingType
  <2> QED
    BY <1>0, <1>10, <2>3 DEF PopIndex, worker, ghost, Ops
<1>11. ASSUME NEW p \in Processes, PopUse(p) PROVE Typed
  <2>1. Word(mapping.use_size - len[p]) \in Nat
    <3>1. mapping.use_size - len[p] \in Int
      BY <1>0 DEF MappingType
    <3> QED
      BY <1>0, <3>1, WordType
  <2>2. PICK size \in UseSizes(p, Word(mapping.use_size - len[p])) :
          mapping' = [mapping EXCEPT !.use_size = size]
    BY <1>11 DEF PopUse
  <2>3. mapping' \in MappingType
    <3>1. size \in Nat
      BY <1>0, <2>1 DEF UseSizes, MappingType
    <3> QED
      BY <1>0, <2>2, <3>1 DEF MappingType
  <2>4. sem' \in SemType
    BY <1>11, PopUseSem
  <2> QED
    BY <1>0, <1>11, <2>3, <2>4 DEF PopUse, worker, ghost, Ops
<1>12. ASSUME UNCHANGED vars PROVE Typed
  <2>1. thread' = thread /\ op' = op /\ len' = len /\ mapping' = mapping /\ sem' = sem
    BY <1>12 DEF vars, worker, call, kernel, ghost
  <2>2. torn' = torn /\ unsized' = unsized /\ overtaken' = overtaken
    BY <1>12 DEF vars, kernel, ghost
  <2> QED
    BY <1>0, <2>1, <2>2
<1> HIDE DEF Typed
<1>13. ASSUME NEW p \in Processes, ThreadSteps(p) \/ RingSteps(p) \/ Environment(p)
       PROVE  Typed
  BY <1>2, <1>3, <1>4, <1>5, <1>6, <1>7, <1>8, <1>9, <1>10, <1>11, <1>13
     DEF ThreadSteps, RingSteps, Environment
<1>14. Typed
  BY <1>1, <1>12, <1>13 DEF Next
<1> QED
  BY <1>14 DEF Typed, RingType, MappingType, SemType
----------------------------------------------------------------------------
(* Who has what, whatever is in the words. *)
Shell == Attached /\ MutexHolds /\ Unused /\ SizeComes

LEMMA AttachedOwn ==
  ASSUME Attached, NEW p \in Processes,
         \A q \in Processes \ {p} : pc'[q] = pc[q] /\ op'[q] = op[q] /\ thread'[q] = thread[q],
         \A q \in Processes \ {p} : /\ q \in mapping'.holders <=> q \in mapping.holders
                                    /\ q \in sem'.holders <=> q \in sem.holders,
         AttachedAt(p)'
  PROVE  Attached'
<1> SUFFICES ASSUME NEW q \in Processes PROVE AttachedAt(q)'
  BY DEF Attached
<1>1. CASE q = p
  BY <1>1
<1>2. CASE q # p
  BY <1>2 DEF Attached, AttachedAt
<1> QED
  BY <1>1, <1>2

(* Calls and objects stay what they are. *)
LEMMA MutexKept ==
  ASSUME MutexHolds, op' = op, overtaken' = overtaken,
         sem'.holders # {} => sem.holders # {} /\ sem'.owner = sem.owner
  PROVE  MutexHolds'
  BY DEF MutexHolds, OneCall, CallerOwns

(* A step of p that leaves the memory and the semaphores alone. *)
LEMMA AloneStep ==
  ASSUME RingType, Shell, NEW p \in Processes, AttachedAt(p)',
         \A q \in Processes \ {p} : pc'[q] = pc[q] /\ thread'[q] = thread[q],
         pc[p] # "size", op' = op, mapping' = mapping, sem' = sem, UNCHANGED ghost
  PROVE  Shell'
<1>0. Attached /\ MutexHolds /\ Unused /\ SizeComes /\ mapping.holders \subseteq Processes
  BY DEF Shell, RingType
<1>1. Attached'
  BY <1>0, AttachedOwn
<1>2. SizeComes'
  BY <1>0 DEF SizeComes, ghost
<1>3. MutexHolds' /\ Unused'
  BY <1>0, MutexKept DEF Unused, ghost
<1> QED
  BY <1>1, <1>2, <1>3 DEF Shell

(* A step of a call by p. *)
LEMMA CallingStep ==
  ASSUME RingType, Shell, NEW p \in Processes, NEW l,
         op' = [op EXCEPT ![p] = l],
         l = "index" => p \in Clients,
         p \in mapping.holders, p \in Clients => p \in sem.holders,
         p \notin Clients => thread[p] = "loop",
         pc' = pc, thread' = thread,
         mapping'.holders = mapping.holders, sem'.holders = sem.holders,
         sem.holders = {} => sem' = sem,
         mapping'.queue_size = mapping.queue_size,
         MutexHolds', torn' = torn, unsized => unsized', overtaken' = overtaken
  PROVE  Shell'
<1>0. op \in [Processes -> Ops] /\ Attached /\ Unused /\ SizeComes
      /\ \A q \in Processes \ {p} : op'[q] = op[q]
  BY DEF Shell, RingType
<1>1. op'[p] = l
  BY <1>0
<1>2. AttachedAt(p)
  BY <1>0 DEF Attached
<1>3. AttachedAt(p)'
  BY <1>1, <1>2 DEF AttachedAt
<1>4. Attached'
  BY <1>0, <1>3, AttachedOwn
<1>5. Unused'
  BY <1>0 DEF Unused
<1>6. SizeComes'
  BY <1>0 DEF SizeComes
<1> QED
  BY <1>4, <1>5, <1>6 DEF Shell

(* A free mutex lets one call in. *)
LEMMA FreeMutex ==
  ASSUME MutexHolds, ~overtaken, sem.holders # {}, sem.owner = {}
  PROVE  NoCall
  BY DEF MutexHolds, CallerOwns, NoCall

LEMMA CallStarts ==
  ASSUME RingType, MutexHolds, NEW p \in Processes, p \in sem.holders, sem.owner = {},
         op' = [op EXCEPT ![p] = "copy"], sem'.owner = {p}, overtaken' = overtaken
  PROVE  MutexHolds'
<1>0. op \in [Processes -> Ops]
  BY DEF RingType
<1>1. CASE overtaken
  BY <1>1 DEF MutexHolds
<1>2. CASE ~overtaken
  <2>1. \A q \in Processes : op[q] = "idle"
    BY <1>2, FreeMutex DEF NoCall
  <2>2. \A q \in Processes : op'[q] # "idle" => q = p
    BY <1>0, <2>1
  <2> QED
    BY <2>2 DEF MutexHolds, OneCall, CallerOwns
<1> QED
  BY <1>1, <1>2

(* A call that goes on keeps the mutex; one that ends leaves nobody in it. *)
LEMMA CallGoesOn ==
  ASSUME RingType, MutexHolds, NEW p \in Processes, op[p] # "idle", NEW l,
         op' = [op EXCEPT ![p] = l],
         l = "idle" \/ sem'.owner = sem.owner,
         sem'.holders = sem.holders, overtaken' = overtaken
  PROVE  MutexHolds'
<1>0. op \in [Processes -> Ops]
  BY DEF RingType
<1>1. CASE overtaken
  BY <1>1 DEF MutexHolds
<1>2. CASE ~overtaken
  <2>1. \A q \in Processes : op[q] # "idle" => q = p
    BY <1>2 DEF MutexHolds, OneCall
  <2>2. \A q \in Processes : op'[q] # "idle" => q = p
    BY <1>0, <2>1
  <2>3. CASE l = "idle"
    BY <1>0, <2>2, <2>3 DEF MutexHolds, OneCall, CallerOwns
  <2>4. CASE sem'.owner = sem.owner
    BY <1>2, <2>2, <2>4 DEF MutexHolds, OneCall, CallerOwns
  <2> QED
    BY <2>3, <2>4
<1> QED
  BY <1>1, <1>2

LEMMA ShellStep == ASSUME Shape, RingType, Shell, [Next]_vars PROVE Shell'
<1>0. /\ pc \in [Processes -> Labels] /\ Attached /\ MutexHolds /\ Unused /\ SizeComes
      /\ op \in [Processes -> Ops] /\ thread \in [Processes -> Stages]
      /\ mapping \in MappingType /\ sem \in SemType
      /\ mapping.holders \subseteq Processes /\ sem.holders \subseteq Processes
      /\ \A p \in Cameras : p \notin Clients /\ p \in Processes
      /\ \A p \in Processes : p \in Cameras \/ p \in Clients
      /\ \A p \in Processes : AttachedAt(p)
  BY StartupAssumption DEF Shape, Shell, RingType, Processes, MappingType, SemType, Attached
<1>1. ASSUME NEW p \in Processes,
             \/ Start(p) \/ CreateEvent(p) \/ CreateEventFails(p) \/ QuitKey(p) \/ NoKey(p)
             \/ RecvExitEvent(p) \/ CloseEvent(p) \/ StopWorker(p) \/ JoinThread(p)
             \/ JoinHangs(p) \/ ThreadBegins(p)
      PROVE  Shell'
  <2>1. \/ op' = op /\ mapping' = mapping /\ sem' = sem /\ UNCHANGED ghost /\ pc[p] # "size"
        \/ ThreadBegins(p)
    BY <1>1 DEF Start, CreateEvent, CreatesEvent, CreateEventFails, QuitKey, NoKey, RecvExitEvent,
                WakesLeaving, CloseEvent, StopWorker, JoinThread, JoinHangs, ThreadBegins,
                kernel, call
  <2>2. op' = op /\ mapping' = mapping /\ sem' = sem /\ UNCHANGED ghost
    BY <2>1 DEF ThreadBegins, kernel, call
  <2>3. \A q \in Processes \ {p} : pc'[q] = pc[q] /\ thread'[q] = thread[q]
    BY <1>1, <1>0 DEF Start, CreateEvent, CreatesEvent, CreateEventFails, QuitKey, NoKey,
                RecvExitEvent, WakesLeaving, CloseEvent, StopWorker, JoinThread, JoinHangs,
                ThreadBegins, Goto, worker
  <2>4. pc[p] # "size"
    BY <2>1, <1>0 DEF ThreadBegins, AttachedAt
  <2>5. AttachedAt(p)'
    <3>1. AttachedAt(p) /\ op'[p] = op[p]
      BY <1>0, <2>2
    <3>2. CASE Start(p) \/ CreateEvent(p) \/ CreateEventFails(p)
      <4>1. pc[p] \in {"off", "event"} /\ pc'[p] \in {"event", "open", "keys"} /\ thread' = thread
        BY <1>0, <3>2 DEF Start, CreateEvent, CreatesEvent, CreateEventFails, Goto, worker
      <4>2. p \in Clients => pc'[p] = "open"
        <5>1. CASE Start(p)
          BY <1>0, <5>1 DEF Start, Goto
        <5>2. CASE CreateEvent(p) \/ CreateEventFails(p)
          BY <1>0, <5>2 DEF CreateEvent, CreatesEvent, CreateEventFails, AttachedAt
        <5> QED
          BY <3>2, <5>1, <5>2
      <4> QED
        BY <2>2, <3>1, <4>1, <4>2 DEF AttachedAt
    <3>3. CASE QuitKey(p) \/ NoKey(p) \/ RecvExitEvent(p)
      <4>1. pc[p] \in {"keys", "waiting"} /\ pc'[p] \in {"waiting", "unsync"} /\ thread' = thread
        BY <1>0, <3>3 DEF QuitKey, NoKey, RecvExitEvent, WakesLeaving, Goto, worker
      <4> QED
        BY <2>2, <3>1, <4>1 DEF AttachedAt
    <3>4. CASE CloseEvent(p)
      <4>1. pc[p] = "unevent" /\ pc'[p] = "off" /\ thread'[p] = "none"
        BY <1>0, <3>4 DEF CloseEvent, Goto
      <4> QED
        BY <2>2, <3>1, <4>1 DEF AttachedAt
    <3>5. CASE StopWorker(p) \/ JoinHangs(p)
      <4>1. pc[p] \in {"unsync", "unevent"} /\ pc'[p] \in {"unhandle", "hung"} /\ thread' = thread
        BY <1>0, <3>5 DEF StopWorker, JoinHangs, Goto, worker
      <4> QED
        BY <2>2, <3>1, <4>1 DEF AttachedAt
    <3>6. CASE JoinThread(p)
      <4>1. /\ pc[p] = "join" /\ pc'[p] = "unmap" /\ thread' = thread
            /\ thread[p] \in {"none", "ended"}
        BY <1>0, <3>6 DEF JoinThread, Goto, worker
      <4> QED
        BY <2>2, <3>1, <4>1 DEF AttachedAt
    <3>7. CASE ThreadBegins(p)
      <4>1. pc' = pc /\ thread[p] = "new" /\ thread'[p] = "loop"
        BY <1>0, <3>7 DEF ThreadBegins
      <4> QED
        BY <2>2, <3>1, <4>1 DEF AttachedAt
    <3> QED
      BY <1>1, <3>2, <3>3, <3>4, <3>5, <3>6, <3>7
  <2> QED
    BY <2>2, <2>3, <2>4, <2>5, AloneStep
<1>2. ASSUME NEW p \in Processes, OpenSharedMemory(p) PROVE Shell'
  <2>1. /\ pc[p] = "open" /\ op' = op /\ thread' = thread /\ sem' = sem /\ UNCHANGED ghost
        /\ \/ /\ mapping.holders = {} /\ mapping' = mapping
              /\ pc' = [pc EXCEPT ![p] = "create"]
           \/ /\ mapping.holders # {} /\ mapping' = Held(mapping, p)
              /\ pc' = [pc EXCEPT ![p] = "objects"]
    BY <1>2 DEF OpenSharedMemory, Goto, worker, call
  <2>2. mapping' = mapping \/ (mapping'.holders = mapping.holders \cup {p} /\ mapping'.queue_size = mapping.queue_size)
    BY <2>1, <1>0, HeldType DEF MappingType
  <2>3. AttachedAt(p) /\ p \notin sem.holders /\ op[p] = "idle" /\ p \notin mapping.holders
    BY <2>1, <1>0 DEF AttachedAt
  <2>4. \A q \in Processes \ {p} : pc'[q] = pc[q] /\ (q \in mapping'.holders <=> q \in mapping.holders)
    BY <2>1, <2>2, <1>0
  <2>5. \/ pc'[p] = "create" /\ p \notin mapping'.holders
        \/ pc'[p] = "objects" /\ p \in mapping'.holders
    BY <2>1, <2>2, <2>3, <1>0, HeldType DEF MappingType
  <2>6. Attached'
    BY <2>1, <2>3, <2>4, <2>5, <1>0, AttachedOwn DEF AttachedAt
  <2>7. MutexHolds' /\ Unused'
    BY <2>1, <2>2, <1>0, MutexKept DEF Unused, ghost
  <2>8. SizeComes'
    BY <2>1, <2>2, <2>4, <1>0 DEF SizeComes, ghost
  <2> QED
    BY <2>6, <2>7, <2>8 DEF Shell
<1>3. ASSUME NEW p \in Processes, CreateSharedMemory(p) PROVE Shell'
  <2>1. /\ pc[p] = "create" /\ op' = op /\ thread' = thread /\ sem' = sem /\ UNCHANGED ghost
        /\ mapping' = Held(mapping, p) /\ pc' = [pc EXCEPT ![p] = "size"]
    BY <1>3 DEF CreateSharedMemory, Goto, worker, call
  <2>2. mapping'.holders = mapping.holders \cup {p}
    BY <2>1, <1>0, HeldType DEF MappingType
  <2>3. AttachedAt(p) /\ p \notin sem.holders /\ op[p] = "idle" /\ p \notin mapping.holders
    BY <2>1, <1>0 DEF AttachedAt
  <2>4. \A q \in Processes \ {p} : pc'[q] = pc[q] /\ (q \in mapping'.holders <=> q \in mapping.holders)
    BY <2>1, <2>2, <1>0
  <2>5. pc'[p] = "size" /\ p \in mapping'.holders
    BY <2>1, <2>2, <1>0
  <2>6. Attached'
    BY <2>1, <2>3, <2>4, <2>5, <1>0, AttachedOwn DEF AttachedAt
  <2>7. MutexHolds' /\ Unused'
    BY <2>1, <2>2, <1>0, MutexKept DEF Unused, ghost
  <2>8. SizeComes'
    BY <2>5 DEF SizeComes
  <2> QED
    BY <2>6, <2>7, <2>8 DEF Shell
<1>4. ASSUME NEW p \in Processes, WriteQueueSize(p) PROVE Shell'
  <2>1. /\ pc[p] = "size" /\ op' = op /\ thread' = thread /\ sem' = sem /\ UNCHANGED ghost
        /\ mapping' = [mapping EXCEPT !.queue_size = Capacity]
        /\ pc' = [pc EXCEPT ![p] = "objects"]
    BY <1>4 DEF WriteQueueSize, WritesSize, Goto, worker, call
  <2>2. mapping'.holders = mapping.holders /\ mapping'.queue_size = Capacity
    BY <2>1, <1>0 DEF MappingType
  <2>3. /\ AttachedAt(p) /\ p \notin sem.holders /\ p \in mapping.holders
        /\ op[p] = "idle" /\ thread[p] = "none"
    BY <2>1, <1>0 DEF AttachedAt
  <2>4. \A q \in Processes \ {p} : pc'[q] = pc[q]
    BY <2>1, <1>0
  <2>5. pc'[p] = "objects"
    BY <2>1, <1>0
  <2>6. Attached'
    BY <2>1, <2>2, <2>3, <2>4, <2>5, <1>0, AttachedOwn DEF AttachedAt
  <2>7. MutexHolds' /\ Unused'
    BY <2>1, <2>2, <2>3, <1>0, MutexKept DEF Unused, ghost
  <2>8. SizeComes'
    BY <2>2 DEF SizeComes
  <2> QED
    BY <2>6, <2>7, <2>8 DEF Shell
<1>5. ASSUME NEW p \in Processes, ActivateFails(p) PROVE Shell'
  <2>1. /\ pc[p] \in {"create", "size", "objects"} /\ op' = op /\ sem' = sem /\ torn' = torn
        /\ thread' = thread /\ overtaken' = overtaken
        /\ unsized' = (unsized \/ LastToWriteSize(p)) /\ mapping' = mapping
        /\ pc' = [pc EXCEPT ![p] = IF p \in Cameras THEN "keys" ELSE "unmap"]
    BY <1>5 DEF ActivateFails, Goto, worker, call, kernel
  <2>3. AttachedAt(p) /\ p \notin sem.holders /\ op[p] = "idle"
    BY <2>1, <1>0 DEF AttachedAt
  <2>4. \A q \in Processes \ {p} : pc'[q] = pc[q]
    BY <2>1, <1>0
  <2>5. pc'[p] \in {"keys", "unmap"}
    BY <2>1, <1>0
  <2>6. Attached'
    BY <2>1, <2>3, <2>4, <2>5, <1>0, AttachedOwn DEF AttachedAt
  <2>9. LastToWriteSize(p) => p \in mapping.holders
    BY <1>0 DEF LastToWriteSize, AttachedAt
  <2>7. MutexHolds' /\ Unused'
    BY <2>1, <2>9, <1>0, MutexKept DEF Unused
  <2>8. SizeComes'
    <3> SUFFICES ASSUME ~unsized', mapping.holders # {}, mapping.queue_size # Capacity
                 PROVE  \E q \in mapping.holders : pc'[q] = "size"
      BY <2>1 DEF SizeComes
    <3>1. mapping.queue_size = 0 /\ ~unsized /\ ~LastToWriteSize(p)
      BY <2>1, <1>0 DEF MappingType
    <3>2. \E q \in mapping.holders : pc[q] = "size"
      BY <3>1, <1>0 DEF SizeComes
    <3>3. \E q \in mapping.holders \ {p} : pc[q] = "size"
      BY <3>1, <3>2 DEF LastToWriteSize
    <3> QED
      BY <3>3, <2>4, <1>0
  <2> QED
    BY <2>6, <2>7, <2>8 DEF Shell
<1>6. ASSUME NEW p \in Processes, CreateObjects(p) PROVE Shell'
  <2>0. torn' = torn /\ (unsized => unsized')
    BY <1>6 DEF CreateObjects
  <2>1. /\ pc[p] = "objects" /\ op' = op /\ mapping' = mapping
        /\ thread' = [thread EXCEPT ![p] = IF p \in Cameras THEN "new" ELSE @]
        /\ overtaken' = (overtaken \/ (sem.holders = {} /\ ~NoCall))
        /\ sem' = Held(sem, p)
        /\ pc' = [pc EXCEPT ![p] = IF p \in Cameras THEN "keys" ELSE "up"]
    BY <1>6 DEF CreateObjects, Goto, call
  <2>2. sem'.holders = sem.holders \cup {p} /\ sem'.owner = sem.owner
    <3>1. Held(sem, p) = [sem EXCEPT !.holders = sem.holders \cup {p}]
      BY HeldType
    <3> QED
      BY <2>1, <3>1, <1>0 DEF SemType
  <2>3. /\ AttachedAt(p) /\ p \notin sem.holders /\ p \in mapping.holders
        /\ op[p] = "idle" /\ thread[p] = "none"
    BY <2>1, <1>0 DEF AttachedAt
  <2>4. \A q \in Processes \ {p} :
          pc'[q] = pc[q] /\ thread'[q] = thread[q] /\ (q \in sem'.holders <=> q \in sem.holders)
    BY <2>1, <2>2, <1>0
  <2>5. pc'[p] = "keys" \/ (pc'[p] = "up" /\ p \in Clients)
    BY <2>1, <1>0
  <2>10. p \in Clients => thread'[p] = "none"
    BY <2>1, <2>3, <1>0
  <2>6. Attached'
    BY <2>1, <2>2, <2>3, <2>4, <2>5, <2>10, <1>0, AttachedOwn DEF AttachedAt
  <2>7. MutexHolds'
    <3> SUFFICES ASSUME ~overtaken' PROVE OneCall' /\ CallerOwns'
      BY DEF MutexHolds
    <3>1. ~overtaken /\ (sem.holders # {} \/ NoCall) /\ OneCall /\ CallerOwns
      BY <2>1, <1>0 DEF MutexHolds
    <3> QED
      BY <2>1, <2>2, <3>1 DEF OneCall, CallerOwns, NoCall
  <2>9. Unused'
    BY <2>0, <2>1, <2>2, <2>3, <1>0 DEF Unused
  <2>8. SizeComes'
    <3> SUFFICES ASSUME ~unsized', mapping.holders # {}, mapping.queue_size # Capacity
                 PROVE  \E q \in mapping.holders : pc'[q] = "size"
      BY <2>1 DEF SizeComes
    <3>1. ~unsized
      BY <2>0
    <3>2. \E q \in mapping.holders : pc[q] = "size"
      BY <3>1, <1>0 DEF SizeComes
    <3> QED
      BY <3>2, <2>1, <2>4, <1>0
  <2> QED
    BY <2>6, <2>7, <2>8, <2>9 DEF Shell
<1>7. ASSUME NEW p \in Processes, CloseObjects(p) \/ CloseSender(p) PROVE Shell'
  <2>1. /\ op' = op /\ UNCHANGED ghost /\ mapping' = mapping
        /\ sem' = Left(sem, p, NoSem)
    BY <1>7 DEF CloseObjects, CloseSender, call
  <2>2. /\ sem'.holders = sem.holders \ {p} /\ (sem'.holders = {} => sem' = NoSem)
        /\ sem'.holders # {} => sem'.owner = sem.owner /\ sem.holders # {}
    BY <2>1, LeftSemaphores
  <2>3. /\ pc[p] # "size"
        /\ \A q \in Processes \ {p} : pc'[q] = pc[q] /\ thread'[q] = thread[q]
    BY <1>7, <1>0 DEF CloseObjects, CloseSender, Goto, worker
  <2>4. \A q \in Processes \ {p} : q \in sem'.holders <=> q \in sem.holders
    BY <2>2
  <2>5. AttachedAt(p)'
    <3>1. AttachedAt(p) /\ op'[p] = op[p] /\ p \notin sem'.holders
      BY <1>0, <2>1, <2>2
    <3>2. CASE CloseObjects(p)
      <4>1. /\ pc[p] = "unhandle" /\ pc'[p] = "join"
            /\ \/ thread'[p] = thread[p]
               \/ thread[p] = "loop" /\ op[p] = "idle" /\ thread'[p] = "ended"
        BY <1>0, <3>2 DEF CloseObjects, Goto
      <4>2. p \notin Clients
        BY <3>1, <4>1 DEF AttachedAt
      <4> QED
        BY <2>1, <3>1, <4>1, <4>2 DEF AttachedAt
    <3>3. CASE CloseSender(p)
      <4>1. pc[p] = "up" /\ pc'[p] = "unmap" /\ thread' = thread /\ op[p] = "idle"
        BY <1>0, <3>3 DEF CloseSender, Goto, worker
      <4> QED
        BY <2>1, <3>1, <4>1 DEF AttachedAt
    <3> QED
      BY <1>7, <3>2, <3>3
  <2>6. Attached'
    BY <2>1, <2>3, <2>4, <2>5, <1>0, AttachedOwn
  <2>7. MutexHolds' /\ Unused'
    BY <2>1, <2>2, <1>0, MutexKept DEF Unused, ghost
  <2>8. SizeComes'
    BY <2>1, <2>3, <1>0 DEF SizeComes, ghost
  <2> QED
    BY <2>6, <2>7, <2>8 DEF Shell
<1>8. ASSUME NEW p \in Processes, FinalizeQueue(p) PROVE Shell'
  <2>1. /\ pc[p] = "unmap" /\ op' = op /\ thread' = thread /\ sem' = sem
        /\ mapping' = Left(mapping, p, NoMapping)
        /\ torn' = (torn /\ mapping'.holders # {})
        /\ unsized' = (unsized /\ mapping'.holders # {})
        /\ overtaken' = (overtaken /\ mapping'.holders # {})
        /\ pc' = [pc EXCEPT ![p] = IF p \in Cameras THEN "unevent" ELSE "off"]
    BY <1>8 DEF FinalizeQueue, Goto, worker, call
  <2>2. /\ mapping'.holders = mapping.holders \ {p}
        /\ mapping'.holders = {} => mapping' = NoMapping
        /\ mapping'.holders # {} => mapping'.queue_size = mapping.queue_size
    <3>1. /\ mapping'.holders = mapping.holders \ {p}
          /\ \/ mapping' = NoMapping
             \/ /\ mapping.holders \ {p} # {}
                /\ mapping' = [mapping EXCEPT !.holders = mapping.holders \ {p}]
      BY <2>1, LeftMapping
    <3>2. mapping' = NoMapping => mapping'.holders = {}
      BY NothingThere
    <3>3. mapping' = [mapping EXCEPT !.holders = mapping.holders \ {p}]
            => mapping'.queue_size = mapping.queue_size
      BY <1>0 DEF MappingType
    <3> QED
      BY <3>1, <3>2, <3>3
  <2>3. AttachedAt(p) /\ p \notin sem.holders /\ op[p] = "idle"
    BY <2>1, <1>0 DEF AttachedAt
  <2>4. \A q \in Processes \ {p} : pc'[q] = pc[q] /\ (q \in mapping'.holders <=> q \in mapping.holders)
    BY <2>1, <2>2, <1>0
  <2>9. pc'[p] = "off" => thread[p] = "none"
    BY <2>1, <2>3, <1>0 DEF AttachedAt
  <2>5. pc'[p] \in {"unevent", "off"} /\ p \notin mapping'.holders
    BY <2>1, <2>2, <1>0
  <2>6. Attached'
    BY <2>1, <2>3, <2>4, <2>5, <2>9, <1>0, AttachedOwn DEF AttachedAt
  <2>10. mapping'.holders = {} => NoCall
    <3>1. \A q \in Processes : op[q] # "idle" => q \in mapping.holders \ {p}
      BY <2>3, <1>0 DEF AttachedAt
    <3> QED
      BY <2>2, <3>1 DEF NoCall
  <2>7. MutexHolds'
    <3>1. CASE overtaken' = overtaken
      BY <2>1, <3>1, <1>0, MutexKept
    <3>2. CASE overtaken' # overtaken
      BY <2>1, <2>10, <3>2, <1>0 DEF MutexHolds, OneCall, CallerOwns, NoCall
    <3> QED
      BY <3>1, <3>2
  <2>11. Unused'
    BY <2>1, <2>2, <1>0 DEF Unused
  <2>8. SizeComes'
    BY <2>1, <2>2, <2>4, <1>0 DEF SizeComes
  <2> QED
    BY <2>6, <2>7, <2>8, <2>11 DEF Shell
<1>9. ASSUME NEW p \in Processes, Crash(p) PROVE Shell'
  <2>1. /\ op' = [op EXCEPT ![p] = "idle"] /\ pc' = [pc EXCEPT ![p] = "off"]
        /\ thread' = [thread EXCEPT ![p] = "none"]
        /\ mapping' = Left(mapping, p, NoMapping)
        /\ sem' = Left([sem EXCEPT !.owner = sem.owner \ {p}], p, NoSem)
        /\ overtaken' = (mapping'.holders # {} /\ overtaken)
        /\ torn' = (mapping'.holders # {} /\ (torn \/ op[p] = "use"))
        /\ unsized' = (mapping'.holders # {} /\ (unsized \/ LastToWriteSize(p)))
    BY <1>9 DEF Crash, Goto
  <2>2. /\ mapping'.holders = mapping.holders \ {p}
        /\ mapping'.holders = {} => mapping' = NoMapping
        /\ mapping'.holders # {} => mapping'.queue_size = mapping.queue_size
    <3>1. /\ mapping'.holders = mapping.holders \ {p}
          /\ \/ mapping' = NoMapping
             \/ /\ mapping.holders \ {p} # {}
                /\ mapping' = [mapping EXCEPT !.holders = mapping.holders \ {p}]
      BY <2>1, LeftMapping
    <3>2. mapping' = NoMapping => mapping'.holders = {}
      BY NothingThere
    <3>3. mapping' = [mapping EXCEPT !.holders = mapping.holders \ {p}]
            => mapping'.queue_size = mapping.queue_size
      BY <1>0 DEF MappingType
    <3> QED
      BY <3>1, <3>2, <3>3
  <2>3. /\ sem'.holders = sem.holders \ {p} /\ (sem'.holders = {} => sem' = NoSem)
        /\ sem'.holders # {} => sem'.owner = sem.owner \ {p} /\ sem.holders # {}
    <3> DEFINE freed == [sem EXCEPT !.owner = sem.owner \ {p}]
    <3>1. sem' = Left(freed, p, NoSem) /\ freed.owner = sem.owner \ {p}
      BY <2>1, <1>0 DEF SemType
    <3>2. freed = [sem EXCEPT !.owner = sem.owner \ {p}]
      OBVIOUS
    <3> HIDE DEF freed
    <3> QED
      BY <3>1, <3>2, LeftSemaphores
  <2>4. \A q \in Processes \ {p} :
          /\ pc'[q] = pc[q] /\ op'[q] = op[q] /\ thread'[q] = thread[q]
          /\ q \in mapping'.holders <=> q \in mapping.holders
          /\ q \in sem'.holders <=> q \in sem.holders
    BY <2>1, <2>2, <2>3, <1>0
  <2>5. /\ pc'[p] = "off" /\ op'[p] = "idle" /\ thread'[p] = "none"
        /\ p \notin mapping'.holders /\ p \notin sem'.holders
    BY <2>1, <2>2, <2>3, <1>0
  <2>6. Attached'
    BY <2>4, <2>5, <1>0, AttachedOwn DEF AttachedAt
  <2>7. MutexHolds'
    <3>1. \A q \in Processes : op'[q] # "idle" => q # p /\ op[q] # "idle" /\ q \in mapping'.holders
      BY <2>4, <2>5, <1>0 DEF AttachedAt
    <3>2. CASE mapping'.holders = {}
      BY <3>1, <3>2 DEF MutexHolds, OneCall, CallerOwns
    <3>3. CASE overtaken
      BY <2>1, <3>2, <3>3 DEF MutexHolds
    <3>4. CASE ~overtaken
      <4>1. OneCall /\ CallerOwns
        BY <1>0, <3>4 DEF MutexHolds
      <4> QED
        BY <2>3, <3>1, <4>1 DEF MutexHolds, OneCall, CallerOwns
    <3> QED
      BY <2>1, <3>2, <3>3, <3>4 DEF MutexHolds
  <2>9. Unused'
    BY <2>1, <2>2, <2>3, <1>0 DEF Unused
  <2>8. SizeComes'
    <3> SUFFICES ASSUME ~unsized', mapping'.holders # {}, mapping'.queue_size # Capacity
                 PROVE  \E q \in mapping'.holders : pc'[q] = "size"
      BY DEF SizeComes
    <3>1. mapping.queue_size = 0 /\ ~unsized /\ ~LastToWriteSize(p)
      BY <2>1, <2>2, <1>0 DEF MappingType
    <3>2. \E q \in mapping.holders : pc[q] = "size"
      BY <3>1, <2>2, <1>0 DEF SizeComes
    <3>3. \E q \in mapping.holders \ {p} : pc[q] = "size"
      BY <3>1, <3>2 DEF LastToWriteSize
    <3> QED
      BY <3>3, <2>2, <2>4, <1>0
  <2> QED
    BY <2>6, <2>7, <2>8, <2>9 DEF Shell
<1>10. ASSUME NEW p \in Processes, NEW n \in Lens, CallPush(p, n) PROVE Shell'
  <2>1. /\ pc[p] = "up" /\ sem.owner = {} /\ pc' = pc /\ thread' = thread /\ mapping' = mapping
        /\ op' = [op EXCEPT ![p] = "copy"] /\ UNCHANGED ghost
    BY <1>10 DEF CallPush, worker
  <2>2. sem'.holders = sem.holders /\ sem'.owner = {p}
    BY <1>10, CallPushSem
  <2>3. p \in sem.holders /\ p \in mapping.holders /\ p \in Clients
    BY <2>1, <1>0 DEF AttachedAt
  <2>4. torn' = torn /\ unsized' = unsized /\ overtaken' = overtaken
    BY <2>1 DEF ghost
  <2>5. MutexHolds'
    BY <2>1, <2>2, <2>3, <2>4, <1>0, CallStarts
  <2> QED
    BY <2>1, <2>2, <2>3, <2>4, <2>5, CallingStep
<1>11. ASSUME NEW p \in Processes, CallPop(p) PROVE Shell'
  <2>1. /\ p \in sem.holders /\ p \in Cameras /\ thread[p] = "loop" /\ sem.owner = {}
        /\ pc' = pc /\ thread' = thread /\ mapping' = mapping
        /\ op' = [op EXCEPT ![p] = "copy"]
        /\ torn' = torn /\ overtaken' = overtaken /\ unsized' = (unsized \/ SizeIsPending)
    BY <1>11 DEF CallPop, worker
  <2>2. sem'.holders = sem.holders /\ sem'.owner = {p}
    BY <1>11, CallPopSem
  <2>3. p \in mapping.holders
    BY <2>1, <1>0 DEF AttachedAt
  <2>4. MutexHolds'
    BY <2>1, <2>2, <1>0, CallStarts
  <2> QED
    BY <2>1, <2>2, <2>3, <2>4, CallingStep
<1>12. ASSUME NEW p \in Processes,
              PushCopy(p) \/ PushIndex(p) \/ PushUse(p) \/ PopIndex(p) \/ PopUse(p)
       PROVE  Shell'
  <2>1. op[p] # "idle" /\ pc' = pc /\ thread' = thread /\ UNCHANGED ghost
    BY <1>12 DEF PushCopy, PushIndex, PushUse, PopIndex, PopUse, worker
  <2>2. \E l : /\ op' = [op EXCEPT ![p] = l] /\ (l = "index" => p \in Clients)
               /\ l = "idle" \/ sem' = sem
    BY <1>12 DEF PushCopy, PushIndex, PushUse, PopIndex, PopUse
  <2>3. mapping'.holders = mapping.holders /\ mapping'.queue_size = mapping.queue_size
    BY <1>12, <1>0 DEF PushCopy, PushIndex, PushUse, PopIndex, PopUse, MappingType
  <2>4. sem'.holders = sem.holders
    BY <1>12, PushUseSem, PopUseSem DEF PushCopy, PushIndex, PopIndex
  <2>5. sem.holders = {} => sem' = sem
    <3>1. CASE PushUse(p)
      BY <3>1, <1>0 DEF PushUse, AttachedAt
    <3>2. CASE PopUse(p)
      BY <3>2, PopUseSem
    <3> QED
      BY <1>12, <3>1, <3>2 DEF PushCopy, PushIndex, PopIndex
  <2>6. /\ p \in mapping.holders
        /\ p \in Clients => p \in sem.holders
        /\ p \notin Clients => thread[p] = "loop"
    BY <2>1, <1>0 DEF AttachedAt
  <2>7. torn' = torn /\ unsized' = unsized /\ overtaken' = overtaken
    BY <2>1 DEF ghost
  <2>8. PICK l : /\ op' = [op EXCEPT ![p] = l] /\ (l = "index" => p \in Clients)
                 /\ l = "idle" \/ sem' = sem
    BY <2>2
  <2>9. MutexHolds'
    BY <2>1, <2>4, <2>7, <2>8, <1>0, CallGoesOn
  <2> QED
    BY <2>1, <2>3, <2>4, <2>5, <2>6, <2>7, <2>8, <2>9, CallingStep
<1>13. ASSUME NEW p \in Processes, ThreadEnds(p) PROVE Shell'
  <2>1. /\ thread[p] = "loop" /\ op[p] = "idle" /\ thread' = [thread EXCEPT ![p] = "ended"]
        /\ sem' = [sem EXCEPT !.owner = sem.owner \ {p}]
        /\ pc' = pc /\ op' = op /\ mapping' = mapping /\ UNCHANGED ghost
    BY <1>13 DEF ThreadEnds, call
  <2>2. sem'.holders = sem.holders /\ sem'.owner = sem.owner \ {p}
    BY <2>1, <1>0 DEF SemType
  <2>3. AttachedAt(p)'
    BY <2>1, <2>2, <1>0 DEF AttachedAt
  <2>4. Attached'
    BY <2>1, <2>2, <2>3, <1>0, AttachedOwn
  <2>5. Unused'
    <3>1. sem.holders = {} => sem' = NoSem
      <4>1. sem = NoSem => sem.owner \ {p} = sem.owner
        BY DEF NoSem
      <4>2. [sem EXCEPT !.owner = sem.owner] = sem
        BY <1>0 DEF SemType
      <4> QED
        BY <2>1, <4>1, <4>2, <1>0 DEF Unused
    <3> QED
      BY <2>1, <2>2, <3>1, <1>0 DEF Unused, ghost
  <2>6. MutexHolds'
    <3>1. overtaken' = overtaken
      BY <2>1 DEF ghost
    <3> QED
      BY <2>1, <2>2, <3>1, <1>0 DEF MutexHolds, OneCall, CallerOwns
  <2>7. SizeComes'
    BY <2>1, <1>0 DEF SizeComes, ghost
  <2> QED
    BY <2>4, <2>5, <2>6, <2>7 DEF Shell
<1>14. CASE UNCHANGED vars
  <2>1. pc' = pc /\ op' = op /\ thread' = thread /\ mapping' = mapping /\ sem' = sem
        /\ UNCHANGED ghost
    BY <1>14 DEF vars, worker, call, kernel
  <2> QED
    BY <2>1, <1>0 DEF Shell, Attached, AttachedAt, MutexHolds, OneCall, CallerOwns, Unused,
                      SizeComes, ghost
<1>15. ASSUME NEW p \in Processes, MainSteps(p) PROVE Shell'
  BY <1>1, <1>2, <1>3, <1>4, <1>6, <1>7, <1>8, <1>15 DEF MainSteps
<1>16. ASSUME NEW p \in Processes, ThreadSteps(p) \/ RingSteps(p) \/ Environment(p) PROVE Shell'
  BY <1>1, <1>5, <1>7, <1>9, <1>10, <1>11, <1>12, <1>13, <1>16
     DEF ThreadSteps, RingSteps, Environment
<1> QED
  BY <1>14, <1>15, <1>16 DEF Next
----------------------------------------------------------------------------
(* The words themselves. *)
SameWords ==
  /\ mapping'.queue_size = mapping.queue_size /\ mapping'.head = mapping.head
  /\ mapping'.tail = mapping.tail /\ mapping'.use_size = mapping.use_size

(* A step outside the calls: nobody's call moves, and the words stay as    *)
(* long as the memory does.                                                *)
LEMMA WordsKept ==
  ASSUME RingType, Shell', RingOk, op' = op, len' = len,
         mapping'.holders # {} => SameWords,
         ~torn' /\ ~unsized' /\ ~overtaken' /\ mapping'.holders # {} =>
           ~torn /\ ~unsized /\ ~overtaken /\ mapping.holders # {},
         \/ sem'.holders = {}
         \/ /\ sem'.producer = sem.producer
            /\ \/ sem.holders # {}
               \/ unsized' \/ mapping.queue_size # 0 \/ mapping.tail = 0
  PROVE  RingOk'
<1> SUFFICES ASSUME ~torn', ~unsized', ~overtaken', mapping'.holders # {}
             PROVE  IF mapping'.queue_size = Capacity THEN Sized' ELSE Early'
  BY DEF RingOk
<1>1. SameWords /\ IF mapping.queue_size = Capacity THEN Sized ELSE Early
  BY DEF RingOk
<1>2. CASE mapping.queue_size = Capacity
  <2>1. Sized'
    BY <1>1, <1>2 DEF SameWords, Sized, NoCall
  <2> QED
    BY <1>1, <1>2, <2>1 DEF SameWords
<1>3. CASE mapping.queue_size # Capacity
  <2>1. Early /\ mapping.queue_size = 0 /\ Capacity \in Nat \ {0}
        /\ sem.producer \in 0 .. SyncCount
    BY <1>1, <1>3, StartupAssumption DEF RingType
  <2>2. \A p \in Clients : op[p] # "idle" => sem'.holders # {}
    <3>1. \A p \in Clients : op'[p] # "idle" => p \in sem'.holders
      BY DEF Shell, Attached, AttachedAt, Processes
    <3> QED
      BY <3>1
  <2>3. sem'.holders # {} => sem'.producer = sem.producer /\ Paid(mapping.tail, sem.producer)
    BY <2>1, PaidNothing DEF Early
  <2>4. Early'
    BY <1>1, <2>1, <2>2, <2>3 DEF SameWords, Early, NoCall
  <2> QED
    BY <1>1, <1>3, <2>4 DEF SameWords
<1> QED
  BY <1>2, <1>3

(* The creator writes the size behind what the senders have put already.   *)
LEMMA SizeWritten ==
  ASSUME RingType, RingOk, UNCHANGED <<op, len, ghost>>,
         mapping'.holders = mapping.holders, mapping'.queue_size = Capacity,
         mapping'.head = mapping.head, mapping'.tail = mapping.tail,
         mapping'.use_size = mapping.use_size
  PROVE  RingOk'
<1> SUFFICES ASSUME ~torn, ~unsized, ~overtaken, mapping.holders # {}
             PROVE  Sized'
  BY DEF RingOk, ghost
<1>0. IF mapping.queue_size = Capacity THEN Sized ELSE Early
  BY DEF RingOk
<1>1. CASE mapping.queue_size = Capacity
  BY <1>0, <1>1 DEF Sized, NoCall
<1>2. CASE mapping.queue_size # Capacity
  <2>1. /\ Early /\ Capacity \in Nat \ {0}
        /\ mapping.head \in Nat /\ mapping.tail \in Nat /\ mapping.use_size \in Nat
        /\ \A p \in Clients : len[p] \in Nat
    BY <1>0, <1>2, StartupAssumption DEF RingType, Processes
  <2>2. \A u \in Nat : Agree(0, u, u)
    BY DEF Agree
  <2>3. \A p \in Clients :
          /\ op[p] \in {"copy", "index"} => Agree(mapping.head, mapping.tail, mapping.use_size)
          /\ op[p] = "use" => Agree(mapping.head, mapping.tail, mapping.use_size + len[p])
          /\ op[p] # "idle" => len[p] \in 1 .. (Capacity - 1 - mapping.use_size)
    <3> SUFFICES ASSUME NEW p \in Clients
        PROVE
          /\ op[p] \in {"copy", "index"} => Agree(mapping.head, mapping.tail, mapping.use_size)
          /\ op[p] = "use" => Agree(mapping.head, mapping.tail, mapping.use_size + len[p])
          /\ op[p] # "idle" => len[p] \in 1 .. (Capacity - 1 - mapping.use_size)
      OBVIOUS
    <3>1. op[p] \in {"idle", "copy", "index", "use"}
      BY DEF RingType, Ops, Processes
    <3>2. CASE op[p] \in {"copy", "index"}
      BY <2>1, <2>2, <3>2 DEF Early
    <3>3. CASE op[p] = "use"
      BY <2>1, <2>2, <3>3 DEF Early
    <3> QED
      BY <3>1, <3>2, <3>3
  <2>4. mapping.use_size < Capacity \/ mapping.use_size = 0
    <3>1. CASE NoCall
      BY <2>1, <3>1 DEF Early
    <3>2. CASE ~NoCall
      <4>1. PICK p \in Processes : op[p] # "idle"
        BY <3>2 DEF NoCall
      <4>2. p \in Clients
        BY <2>1, <4>1 DEF Early, Processes
      <4> QED
        BY <2>1, <2>3, <4>1, <4>2
    <3> QED
      BY <3>1, <3>2
  <2>5. NoCall => Agree(mapping.head, mapping.tail, mapping.use_size)
    BY <2>1, <2>2 DEF Early
  <2> QED
    BY <2>1, <2>3, <2>4, <2>5 DEF Sized, Early, NoCall
<1> QED
  BY <1>1, <1>2

(* A memory nobody had. *)
LEMMA NewMemory ==
  ASSUME RingType, Shell, mapping.holders = {}, op' = op, sem' = sem,
         mapping'.queue_size = 0, mapping'.head = 0, mapping'.tail = 0, mapping'.use_size = 0
  PROVE  RingOk'
<1>1. \A p \in Processes : op[p] = "idle" /\ p \notin sem.holders
  BY DEF Shell, Attached, AttachedAt
<1>2. sem.holders = {}
  BY <1>1 DEF RingType
<1>3. Capacity \in Nat /\ Agree(0, 0, 0)
  BY StartupAssumption DEF Agree
<1>4. \A p \in Clients \cup Cameras : op'[p] = "idle"
  BY <1>1 DEF Processes
<1>5. CASE Capacity = 0
  <2>1. Sized'
    BY <1>3, <1>4, <1>5 DEF Sized
  <2> QED
    BY <1>5, <2>1 DEF RingOk
<1>6. CASE Capacity # 0
  <2>1. Early'
    BY <1>2, <1>3, <1>4, <1>6 DEF Early
  <2> QED
    BY <1>6, <2>1 DEF RingOk
<1> QED
  BY <1>5, <1>6

(* A death outside the two places where it tears the words apart. *)
LEMMA DeathStep ==
  ASSUME RingType, Shell, Shell', RingOk, NEW p \in Processes, op[p] # "use",
         op' = [op EXCEPT ![p] = "idle"], len' = [len EXCEPT ![p] = 0],
         mapping'.holders # {} => SameWords /\ mapping.holders # {},
         ~torn' /\ ~unsized' /\ ~overtaken' /\ mapping'.holders # {} =>
           ~torn /\ ~unsized /\ ~overtaken,
         sem'.holders # {} => sem'.producer = sem.producer /\ sem.holders # {}
  PROVE  RingOk'
<1> SUFFICES ASSUME ~torn', ~unsized', ~overtaken', mapping'.holders # {}
             PROVE  IF mapping'.queue_size = Capacity THEN Sized' ELSE Early'
  BY DEF RingOk
<1>0. /\ op \in [Processes -> Ops] /\ len \in [Processes -> Nat]
      /\ Clients \subseteq Processes /\ Cameras \subseteq Processes
  BY DEF RingType, Processes
<1>1. SameWords /\ IF mapping.queue_size = Capacity THEN Sized ELSE Early
  BY DEF RingOk
<1>2. /\ \A q \in Processes \ {p} : op'[q] = op[q] /\ len'[q] = len[q]
      /\ op'[p] = "idle"
  BY <1>0
<1>3. NoCall' => NoCall \/ op[p] \in {"copy", "index"}
  BY <1>0, <1>2 DEF NoCall, Ops
<1>4. CASE mapping.queue_size = Capacity
  <2>1. Sized
    BY <1>1, <1>4
  <2>2. NoCall' => Agree(mapping.head, mapping.tail, mapping.use_size)
    <3>1. p \in Clients \/ p \in Cameras
      BY DEF Processes
    <3>2. op[p] = "index" => p \in Clients
      BY DEF Shell, Attached, AttachedAt
    <3> QED
      BY <1>3, <2>1, <3>1, <3>2 DEF Sized
  <2>3. Sized'
    BY <1>0, <1>1, <1>2, <2>1, <2>2 DEF Sized, SameWords
  <2> QED
    BY <1>1, <1>4, <2>3 DEF SameWords
<1>5. CASE mapping.queue_size # Capacity
  <2>1. Early
    BY <1>1, <1>5
  <2>2. NoCall' => mapping.tail = mapping.use_size
    <3>1. p \in Clients \/ p \in Cameras
      BY DEF Processes
    <3> QED
      BY <1>3, <2>1, <3>1 DEF Early
  <2>3. \A q \in Clients : op'[q] # "idle" => sem'.holders # {}
    <3>1. \A q \in Clients : op'[q] # "idle" => q \in sem'.holders
      BY DEF Shell, Attached, AttachedAt, Processes
    <3> QED
      BY <3>1
  <2>4. Early'
    BY <1>0, <1>1, <1>2, <2>1, <2>2, <2>3 DEF Early, SameWords
  <2> QED
    BY <1>1, <1>5, <2>4 DEF SameWords
<1> QED
  BY <1>4, <1>5
----------------------------------------------------------------------------
(* The steps of the calls. *)
LEMMA CallPushStep ==
  ASSUME RingType, Shell, RingOk, ~overtaken, NEW p \in Processes, NEW n \in Lens, CallPush(p, n)
  PROVE  RingOk'
<1>0. /\ op \in [Processes -> Ops] /\ len \in [Processes -> Nat]
      /\ mapping \in MappingType /\ sem \in SemType
      /\ Clients \subseteq Processes /\ Cameras \subseteq Processes
      /\ p \in Clients /\ p \notin Cameras /\ p \in mapping.holders /\ p \in sem.holders
  BY StartupAssumption
     DEF RingType, Processes, CallPush, Shell, Attached, AttachedAt, MappingType, SemType
<1>1. /\ n <= GetFreeSize /\ sem.owner = {}
      /\ op' = [op EXCEPT ![p] = "copy"] /\ len' = [len EXCEPT ![p] = n]
      /\ mapping' = mapping /\ torn' = torn /\ unsized' = unsized /\ overtaken' = overtaken
  BY DEF CallPush, ghost
<1>2. /\ sem'.holders = sem.holders /\ sem'.producer = sem.producer - 1
      /\ sem.producer \in 1 .. SyncCount
  BY CallPushSem
<1>8. NoCall
  BY <1>0, <1>1, FreeMutex DEF Shell
<1>3. /\ op'[p] = "copy" /\ len'[p] = n /\ ~NoCall'
      /\ \A q \in Processes \ {p} : op'[q] = "idle"
  BY <1>0, <1>1, <1>8 DEF NoCall
<1> SUFFICES ASSUME ~torn, ~unsized
             PROVE  IF mapping.queue_size = Capacity THEN Sized' ELSE Early'
  BY <1>1 DEF RingOk
<1>4. IF mapping.queue_size = Capacity THEN Sized ELSE Early
  BY <1>0 DEF RingOk
<1>5. CASE mapping.queue_size = Capacity
  <2>1. Sized
    BY <1>4, <1>5
  <2>2. n \in 1 .. (Capacity - 1 - mapping.use_size)
    BY <1>0, <1>1, <1>5, <1>8, <2>1, FreeSpace DEF Sized, MappingType
  <2>3. Sized'
    BY <1>0, <1>1, <1>3, <1>8, <2>1, <2>2 DEF Sized
  <2> QED
    BY <1>5, <2>3
<1>6. CASE mapping.queue_size # Capacity
  <2>1. Early /\ Paid(mapping.tail, sem.producer) /\ mapping.tail = mapping.use_size
    BY <1>0, <1>1, <1>4, <1>6, <1>8 DEF Early
  <2>2. /\ mapping.tail \in Nat /\ n \in Nat \ {0} /\ mapping.tail + n \in Nat
        /\ Capacity > 0 /\ sem.producer - 1 \in 0 .. SyncCount
    BY <1>0, <1>2, <1>6, StartupAssumption DEF MappingType
  <2>3. /\ Paid(mapping.tail + n, sem.producer - 1)
        /\ Paid(mapping.tail, sem.producer - 1)
    BY <1>2, <2>1, <2>2, PaidMore
  <2>4. mapping.tail + n < Capacity
    BY <2>2, <2>3, PaidBound
  <2>5. Early'
    BY <1>0, <1>1, <1>2, <1>3, <1>8, <2>1, <2>2, <2>3, <2>4, SMTT(30) DEF Early
  <2> QED
    BY <1>6, <2>5
<1> QED
  BY <1>5, <1>6

(* What is common to the later steps of a call by p: nobody else is in one.*)
LEMMA InOneCall ==
  ASSUME RingType, Shell, ~overtaken, NEW p \in Processes, op[p] # "idle"
  PROVE  /\ op \in [Processes -> Ops] /\ len \in [Processes -> Nat]
         /\ mapping \in MappingType /\ sem \in SemType
         /\ Clients \subseteq Processes /\ Cameras \subseteq Processes
         /\ Cameras \cap Clients = {} /\ Capacity \in Nat /\ Wrap \in Nat /\ Capacity < Wrap
         /\ p \in mapping.holders /\ (p \in Clients => p \in sem.holders)
         /\ \A q \in Processes \ {p} : op[q] = "idle"
         /\ ~NoCall
  BY StartupAssumption
     DEF RingType, Processes, Shell, Attached, AttachedAt, MutexHolds, OneCall, MappingType,
         SemType, NoCall

LEMMA PushCopyStep ==
  ASSUME RingType, Shell, RingOk, ~overtaken, NEW p \in Processes, PushCopy(p)
  PROVE  RingOk'
<1>1. /\ op[p] = "copy" /\ p \in Clients /\ op' = [op EXCEPT ![p] = "index"] /\ len' = len
      /\ sem' = sem /\ torn' = torn /\ unsized' = unsized /\ overtaken' = overtaken
  BY DEF PushCopy, ghost
<1>0. /\ op \in [Processes -> Ops] /\ len \in [Processes -> Nat] /\ mapping \in MappingType
      /\ Clients \subseteq Processes /\ Cameras \subseteq Processes /\ Cameras \cap Clients = {}
      /\ \A q \in Processes \ {p} : op[q] = "idle"
      /\ p \in mapping.holders /\ ~NoCall
  BY <1>1, InOneCall
<1>2. SameWords /\ mapping'.holders = mapping.holders
  BY <1>0 DEF PushCopy, SameWords, MappingType
<1>3. /\ op'[p] = "index" /\ ~NoCall' /\ \A q \in Processes \ {p} : op'[q] = "idle"
  BY <1>0, <1>1 DEF NoCall
<1> SUFFICES ASSUME ~torn, ~unsized
             PROVE  IF mapping.queue_size = Capacity THEN Sized' ELSE Early'
  BY <1>1, <1>2 DEF RingOk, SameWords
<1>4. IF mapping.queue_size = Capacity THEN Sized ELSE Early
  BY <1>0 DEF RingOk
<1>5. CASE mapping.queue_size = Capacity
  <2>1. Sized'
    BY <1>0, <1>1, <1>2, <1>3, <1>4, <1>5 DEF Sized, SameWords
  <2> QED
    BY <1>5, <2>1
<1>6. CASE mapping.queue_size # Capacity
  <2>1. Early'
    BY <1>0, <1>1, <1>2, <1>3, <1>4, <1>6 DEF Early, SameWords
  <2> QED
    BY <1>6, <2>1
<1> QED
  BY <1>5, <1>6

LEMMA PushIndexStep ==
  ASSUME RingType, Shell, RingOk, ~overtaken, NEW p \in Processes, PushIndex(p)
  PROVE  RingOk'
<1>1. /\ op[p] = "index" /\ p \in Clients /\ op' = [op EXCEPT ![p] = "use"] /\ len' = len
      /\ mapping' = [mapping EXCEPT !.tail = Advanced(mapping.tail, len[p])]
      /\ sem' = sem /\ torn' = torn /\ unsized' = unsized /\ overtaken' = overtaken
  BY DEF PushIndex, ghost
<1>0. /\ op \in [Processes -> Ops] /\ len \in [Processes -> Nat] /\ mapping \in MappingType
      /\ Clients \subseteq Processes /\ Cameras \subseteq Processes /\ Cameras \cap Clients = {}
      /\ \A q \in Processes \ {p} : op[q] = "idle"
      /\ p \in mapping.holders /\ p \in sem.holders /\ ~NoCall /\ Capacity \in Nat
  BY <1>1, InOneCall
<1>2. /\ mapping'.holders = mapping.holders /\ mapping'.queue_size = mapping.queue_size
      /\ mapping'.head = mapping.head /\ mapping'.use_size = mapping.use_size
      /\ mapping'.tail = Advanced(mapping.tail, len[p])
      /\ mapping.tail \in Nat /\ mapping.use_size \in Nat /\ len[p] \in Nat
      /\ mapping.queue_size \in {0, Capacity}
  BY <1>0, <1>1 DEF MappingType
<1>3. /\ op'[p] = "use" /\ ~NoCall' /\ \A q \in Processes \ {p} : op'[q] = "idle"
  BY <1>0, <1>1 DEF NoCall
<1> SUFFICES ASSUME ~torn, ~unsized
             PROVE  IF mapping.queue_size = Capacity THEN Sized' ELSE Early'
  BY <1>1, <1>2 DEF RingOk
<1>4. IF mapping.queue_size = Capacity THEN Sized ELSE Early
  BY <1>0 DEF RingOk
<1>5. CASE mapping.queue_size = Capacity
  <2> DEFINE v == Advanced(mapping.tail, len[p])
  <2>1. /\ Sized /\ len[p] \in 1 .. (Capacity - 1 - mapping.use_size)
        /\ mapping.head \in 0 .. Capacity /\ mapping.tail \in 0 .. Capacity
        /\ Agree(mapping.head, mapping.tail, mapping.use_size)
    BY <1>1, <1>4, <1>5 DEF Sized
  <2>2. len[p] \in 1 .. (Capacity - 1)
    BY <1>0, <1>2, <2>1
  <2>3. v \in 0 .. Capacity /\ (v = mapping.tail + len[p] \/ v = mapping.tail + len[p] - Capacity)
    BY <1>5, <2>1, <2>2, AdvancedSized
  <2> HIDE DEF v
  <2>4. Agree(mapping.head, v, mapping.use_size + len[p])
    BY <1>2, <2>1, <2>3, AgreeTail
  <2>5. Sized'
    BY <1>0, <1>1, <1>2, <1>3, <2>1, <2>3, <2>4 DEF Sized, v
  <2> QED
    BY <1>5, <2>5
<1>6. CASE mapping.queue_size # Capacity
  <2>1. Early /\ mapping.tail = mapping.use_size /\ len[p] > 0
        /\ mapping.tail + len[p] < Capacity /\ Paid(mapping.tail + len[p], sem.producer)
    BY <1>1, <1>4, <1>6 DEF Early
  <2>2. Advanced(mapping.tail, len[p]) = mapping.tail + len[p]
    BY <1>2, <1>6, <2>1, AdvancedEarly
  <2>3. Early'
    BY <1>0, <1>1, <1>2, <1>3, <2>1, <2>2 DEF Early
  <2> QED
    BY <1>6, <2>3
<1> QED
  BY <1>5, <1>6

LEMMA PushUseStep ==
  ASSUME RingType, Shell, RingOk, ~overtaken, NEW p \in Processes, PushUse(p)
  PROVE  RingOk'
<1>1. /\ op[p] = "use" /\ p \in Clients /\ op' = [op EXCEPT ![p] = "idle"]
      /\ \E size \in UseSizes(p, Word(mapping.use_size + len[p])) :
           mapping' = [mapping EXCEPT !.use_size = size]
      /\ torn' = torn /\ unsized' = unsized /\ overtaken' = overtaken
  BY DEF PushUse, ghost
<1>0. /\ op \in [Processes -> Ops] /\ len \in [Processes -> Nat] /\ mapping \in MappingType
      /\ sem \in SemType
      /\ Clients \subseteq Processes /\ Cameras \subseteq Processes /\ Cameras \cap Clients = {}
      /\ \A q \in Processes \ {p} : op[q] = "idle"
      /\ p \in mapping.holders /\ p \in sem.holders
      /\ Capacity \in Nat /\ Wrap \in Nat /\ Capacity < Wrap
  BY <1>1, InOneCall
<1>8. mapping' = [mapping EXCEPT !.use_size = Word(mapping.use_size + len[p])]
  <2>1. UseSizes(p, Word(mapping.use_size + len[p])) = {Word(mapping.use_size + len[p])}
    BY <1>0, WritesAlone
  <2> QED
    BY <1>1, <2>1
<1>2. /\ mapping'.holders = mapping.holders /\ mapping'.queue_size = mapping.queue_size
      /\ mapping'.head = mapping.head /\ mapping'.tail = mapping.tail
      /\ mapping'.use_size = Word(mapping.use_size + len[p])
      /\ mapping.tail \in Nat /\ mapping.use_size \in Nat /\ len[p] \in Nat
      /\ sem'.holders = sem.holders /\ sem'.producer = sem.producer
  BY <1>0, <1>1, <1>8, PushUseSem DEF MappingType, SemType
<1>3. \A q \in Processes : op'[q] = "idle"
  BY <1>0, <1>1
<1>7. mapping.use_size + len[p] < Capacity => Word(mapping.use_size + len[p]) = mapping.use_size + len[p]
  BY <1>0, <1>2, WordSmall
<1> SUFFICES ASSUME ~torn, ~unsized
             PROVE  IF mapping.queue_size = Capacity THEN Sized' ELSE Early'
  BY <1>1, <1>2 DEF RingOk
<1>4. IF mapping.queue_size = Capacity THEN Sized ELSE Early
  BY <1>0 DEF RingOk
<1>5. CASE mapping.queue_size = Capacity
  <2>1. /\ len[p] \in 1 .. (Capacity - 1 - mapping.use_size)
        /\ mapping.head \in 0 .. Capacity /\ mapping.tail \in 0 .. Capacity
        /\ Agree(mapping.head, mapping.tail, mapping.use_size + len[p])
    BY <1>1, <1>4, <1>5 DEF Sized
  <2>2. mapping'.use_size = mapping.use_size + len[p] /\ mapping'.use_size < Capacity
    BY <1>0, <1>2, <1>7, <2>1
  <2>3. Sized'
    BY <1>0, <1>2, <1>3, <2>1, <2>2 DEF Sized
  <2> QED
    BY <1>5, <2>3
<1>6. CASE mapping.queue_size # Capacity
  <2>1. Early /\ mapping.tail = mapping.use_size + len[p] /\ mapping.tail < Capacity
    BY <1>1, <1>4, <1>6 DEF Early
  <2>2. mapping'.use_size = mapping.tail
    BY <1>2, <1>7, <2>1
  <2>3. Early'
    BY <1>0, <1>2, <1>3, <2>1, <2>2 DEF Early
  <2> QED
    BY <1>6, <2>3
<1> QED
  BY <1>5, <1>6

(* A packet is taken from a memory that has its size, or the history says so. *)
LEMMA CallPopStep ==
  ASSUME RingType, Shell, RingOk, ~overtaken, NEW c \in Processes, CallPop(c)
  PROVE  RingOk'
<1> DEFINE n == mapping.packets[FirstByte(mapping.head)]
<1>1. /\ c \in sem.holders /\ c \in Cameras /\ sem.owner = {} /\ n \in 1 .. mapping.use_size
      /\ op' = [op EXCEPT ![c] = "copy"] /\ len' = [len EXCEPT ![c] = n] /\ mapping' = mapping
  BY DEF CallPop
<1> HIDE DEF n
<1>6. NoCall
  BY <1>1, FreeMutex DEF Shell
<1>2. torn' = torn /\ overtaken' = overtaken /\ unsized' = (unsized \/ SizeIsPending)
  BY DEF CallPop
<1>0. /\ op \in [Processes -> Ops] /\ len \in [Processes -> Nat]
      /\ Clients \subseteq Processes /\ Cameras \subseteq Processes
      /\ c \notin Clients /\ c \in mapping.holders /\ mapping.queue_size \in {0, Capacity}
  BY <1>1, StartupAssumption DEF RingType, Processes, Shell, Attached, AttachedAt
<1> SUFFICES ASSUME ~torn, ~unsized, ~SizeIsPending
             PROVE  mapping.queue_size = Capacity /\ Sized'
  BY <1>1, <1>2 DEF RingOk
<1>3. mapping.queue_size = Capacity
  BY <1>0 DEF Shell, SizeComes, SizeIsPending
<1>4. Sized
  BY <1>0, <1>3 DEF RingOk
<1>5. /\ op'[c] = "copy" /\ len'[c] = n /\ ~NoCall'
      /\ \A q \in Processes \ {c} : op'[q] = "idle"
  BY <1>0, <1>1, <1>6 DEF NoCall
<1> QED
  BY <1>0, <1>1, <1>3, <1>4, <1>5, <1>6 DEF Sized

LEMMA PopIndexStep ==
  ASSUME RingType, Shell, RingOk, ~overtaken, NEW c \in Processes, PopIndex(c)
  PROVE  RingOk'
<1>1. /\ op[c] = "copy" /\ c \in Cameras /\ op' = [op EXCEPT ![c] = "use"] /\ len' = len
      /\ mapping' = [mapping EXCEPT !.head = Advanced(mapping.head, len[c])]
      /\ torn' = torn /\ unsized' = unsized /\ overtaken' = overtaken
  BY DEF PopIndex, ghost
<1>0. /\ op \in [Processes -> Ops] /\ len \in [Processes -> Nat] /\ mapping \in MappingType
      /\ Clients \subseteq Processes /\ Cameras \subseteq Processes /\ Cameras \cap Clients = {}
      /\ \A q \in Processes \ {c} : op[q] = "idle"
      /\ c \in mapping.holders /\ Capacity \in Nat
  BY <1>1, InOneCall
<1>2. /\ mapping'.holders = mapping.holders /\ mapping'.queue_size = mapping.queue_size
      /\ mapping'.tail = mapping.tail /\ mapping'.use_size = mapping.use_size
      /\ mapping'.head = Advanced(mapping.head, len[c])
      /\ mapping.use_size \in Nat /\ len[c] \in Nat
  BY <1>0, <1>1 DEF MappingType
<1>3. /\ op'[c] = "use" /\ ~NoCall' /\ \A q \in Processes \ {c} : op'[q] = "idle"
  BY <1>0, <1>1 DEF NoCall
<1> SUFFICES ASSUME ~torn, ~unsized
             PROVE  mapping.queue_size = Capacity /\ Sized'
  BY <1>1, <1>2 DEF RingOk
<1>4. mapping.queue_size = Capacity /\ Sized
  BY <1>0, <1>1 DEF RingOk, Early
<1> DEFINE v == Advanced(mapping.head, len[c])
<1>5. /\ len[c] \in 1 .. mapping.use_size /\ mapping.use_size \in 0 .. Capacity
      /\ mapping.use_size < Capacity \/ mapping.use_size = 0
      /\ mapping.head \in 0 .. Capacity /\ mapping.tail \in 0 .. Capacity
      /\ Agree(mapping.head, mapping.tail, mapping.use_size)
  BY <1>0, <1>1, <1>2, <1>4 DEF Sized
<1>6. len[c] \in 1 .. (Capacity - 1)
  BY <1>0, <1>2, <1>5
<1>7. v \in 0 .. Capacity
        /\ (v = mapping.head + len[c] \/ (v = mapping.head + len[c] - Capacity /\ v > 0))
  BY <1>4, <1>5, <1>6, AdvancedSized
<1> HIDE DEF v
<1>8. Agree(v, mapping.tail, mapping.use_size - len[c])
  BY <1>5, <1>7, AgreeHead
<1>9. Sized'
  BY <1>0, <1>1, <1>2, <1>3, <1>5, <1>7, <1>8 DEF Sized, v
<1> QED
  BY <1>4, <1>9

LEMMA PopUseStep ==
  ASSUME RingType, Shell, RingOk, ~overtaken, NEW c \in Processes, PopUse(c)
  PROVE  RingOk'
<1>1. /\ op[c] = "use" /\ c \in Cameras /\ op' = [op EXCEPT ![c] = "idle"]
      /\ \E size \in UseSizes(c, Word(mapping.use_size - len[c])) :
           mapping' = [mapping EXCEPT !.use_size = size]
      /\ torn' = torn /\ unsized' = unsized /\ overtaken' = overtaken
  BY DEF PopUse, ghost
<1>0. /\ op \in [Processes -> Ops] /\ len \in [Processes -> Nat] /\ mapping \in MappingType
      /\ Clients \subseteq Processes /\ Cameras \subseteq Processes /\ Cameras \cap Clients = {}
      /\ \A q \in Processes \ {c} : op[q] = "idle"
      /\ c \in mapping.holders /\ Capacity \in Nat /\ Wrap \in Nat /\ Capacity < Wrap
  BY <1>1, InOneCall
<1>9. mapping' = [mapping EXCEPT !.use_size = Word(mapping.use_size - len[c])]
  <2>1. UseSizes(c, Word(mapping.use_size - len[c])) = {Word(mapping.use_size - len[c])}
    BY <1>0, WritesAlone
  <2> QED
    BY <1>1, <2>1
<1>2. /\ mapping'.holders = mapping.holders /\ mapping'.queue_size = mapping.queue_size
      /\ mapping'.tail = mapping.tail /\ mapping'.head = mapping.head
      /\ mapping'.use_size = Word(mapping.use_size - len[c])
      /\ mapping.use_size \in Nat /\ len[c] \in Nat
  BY <1>0, <1>1, <1>9 DEF MappingType
<1>3. \A q \in Processes : op'[q] = "idle"
  BY <1>0, <1>1
<1> SUFFICES ASSUME ~torn, ~unsized
             PROVE  mapping.queue_size = Capacity /\ Sized'
  BY <1>1, <1>2 DEF RingOk
<1>4. mapping.queue_size = Capacity /\ Sized
  BY <1>0, <1>1 DEF RingOk, Early
<1>5. /\ len[c] \in 1 .. mapping.use_size
      /\ mapping.use_size < Capacity \/ mapping.use_size = 0
      /\ mapping.head \in 0 .. Capacity /\ mapping.tail \in 0 .. Capacity
      /\ Agree(mapping.head, mapping.tail, mapping.use_size - len[c])
  BY <1>0, <1>1, <1>4 DEF Sized
<1>6. mapping.use_size - len[c] \in 0 .. (Wrap - 1) /\ mapping.use_size - len[c] < Capacity
  BY <1>0, <1>2, <1>5
<1>7. mapping'.use_size = mapping.use_size - len[c]
  BY <1>2, <1>6, WordSmall
<1>8. Sized'
  BY <1>0, <1>2, <1>3, <1>5, <1>6, <1>7 DEF Sized
<1> QED
  BY <1>4, <1>8
----------------------------------------------------------------------------
LEMMA RingOkStep ==
  ASSUME Shape, RingType, Shell, Shell', RingOk, [Next]_vars
  PROVE  RingOk'
<1>0. /\ mapping \in MappingType /\ sem \in SemType /\ Attached
      /\ op \in [Processes -> Ops] /\ len \in [Processes -> Nat]
  BY DEF RingType, MappingType, SemType, Shell
<1>1. ASSUME NEW p \in Processes,
             \/ Start(p) \/ CreateEvent(p) \/ CreateEventFails(p) \/ QuitKey(p) \/ NoKey(p)
             \/ RecvExitEvent(p) \/ CloseEvent(p) \/ StopWorker(p) \/ JoinThread(p)
             \/ JoinHangs(p) \/ ThreadBegins(p)
      PROVE  RingOk'
  <2>1. op' = op /\ len' = len /\ mapping' = mapping /\ sem' = sem
        /\ torn' = torn /\ unsized' = unsized /\ overtaken' = overtaken
    BY <1>1 DEF Start, CreateEvent, CreatesEvent, CreateEventFails, QuitKey, NoKey, RecvExitEvent,
                WakesLeaving, CloseEvent, StopWorker, JoinThread, JoinHangs, ThreadBegins,
                call, kernel, ghost
  <2> QED
    BY <2>1 DEF RingOk, Sized, Early, NoCall
<1>2. ASSUME NEW p \in Processes, OpenSharedMemory(p) PROVE RingOk'
  <2>1. /\ op' = op /\ len' = len /\ sem' = sem
        /\ \/ mapping.holders = {} /\ mapping' = mapping
           \/ mapping.holders # {} /\ mapping' = [mapping EXCEPT !.holders = mapping.holders \cup {p}]
    BY <1>2, HeldType DEF OpenSharedMemory, call
  <2>2. torn' = torn /\ unsized' = unsized /\ overtaken' = overtaken
    BY <1>2 DEF OpenSharedMemory, ghost
  <2>3. SameWords /\ (mapping'.holders # {} => mapping.holders # {})
    BY <2>1, <1>0 DEF SameWords, MappingType
  <2>4. sem'.producer = sem.producer /\ (sem'.holders = {} \/ sem.holders # {})
    BY <2>1
  <2> QED
    BY <2>1, <2>2, <2>3, <2>4, WordsKept
<1>3. ASSUME NEW p \in Processes, CreateSharedMemory(p) PROVE RingOk'
  <2>1. /\ op' = op /\ len' = len /\ sem' = sem
        /\ mapping' = [mapping EXCEPT !.holders = mapping.holders \cup {p}]
    BY <1>3, HeldType DEF CreateSharedMemory, call
  <2>2. torn' = torn /\ unsized' = unsized /\ overtaken' = overtaken
    BY <1>3 DEF CreateSharedMemory, ghost
  <2>3. SameWords /\ sem'.producer = sem.producer /\ (sem'.holders = {} \/ sem.holders # {})
    BY <2>1, <1>0 DEF SameWords, MappingType
  <2>4. CASE mapping.holders # {}
    BY <2>1, <2>2, <2>3, <2>4, WordsKept
  <2>5. CASE mapping.holders = {}
    <3>1. mapping = NoMapping
      BY <2>5 DEF Shell, Unused
    <3>2. /\ mapping'.queue_size = 0 /\ mapping'.head = 0 /\ mapping'.tail = 0
          /\ mapping'.use_size = 0
      BY <2>3, <3>1 DEF SameWords, NoMapping
    <3> QED
      BY <2>1, <2>5, <3>2, NewMemory
  <2> QED
    BY <2>4, <2>5
<1>4. ASSUME NEW p \in Processes, WriteQueueSize(p) PROVE RingOk'
  <2>1. /\ UNCHANGED <<op, len, ghost>>
        /\ mapping' = [mapping EXCEPT !.queue_size = Capacity]
    BY <1>4 DEF WriteQueueSize, WritesSize, call
  <2>2. /\ mapping'.holders = mapping.holders /\ mapping'.queue_size = Capacity
        /\ mapping'.head = mapping.head /\ mapping'.tail = mapping.tail
        /\ mapping'.use_size = mapping.use_size
    BY <2>1, <1>0 DEF MappingType
  <2> QED
    BY <2>1, <2>2, SizeWritten
<1>5. ASSUME NEW p \in Processes, ActivateFails(p) PROVE RingOk'
  <2>1. op' = op /\ len' = len /\ sem' = sem /\ mapping' = mapping
    BY <1>5 DEF ActivateFails, call, kernel
  <2>2. torn' = torn /\ (unsized => unsized') /\ overtaken' = overtaken
    BY <1>5 DEF ActivateFails
  <2>3. SameWords /\ sem'.producer = sem.producer /\ (sem'.holders = {} \/ sem.holders # {})
    BY <2>1 DEF SameWords
  <2> QED
    BY <2>1, <2>2, <2>3, WordsKept
<1>6. ASSUME NEW p \in Processes, CreateObjects(p) PROVE RingOk'
  <2>1. op' = op /\ len' = len /\ mapping' = mapping
        /\ sem' = [sem EXCEPT !.holders = sem.holders \cup {p}]
    BY <1>6, HeldType DEF CreateObjects, call
  <2>2. torn' = torn /\ (unsized => unsized') /\ (overtaken => overtaken')
    BY <1>6 DEF CreateObjects
  <2>3. SameWords /\ sem'.producer = sem.producer
    BY <2>1, <1>0 DEF SameWords, SemType
  <2>4. sem.holders # {} \/ unsized' \/ mapping.queue_size # 0 \/ mapping.tail = 0
    BY <1>6 DEF CreateObjects
  <2> QED
    BY <2>1, <2>2, <2>3, <2>4, WordsKept
<1>7. ASSUME NEW p \in Processes, CloseObjects(p) \/ CloseSender(p) PROVE RingOk'
  <2>1. op' = op /\ len' = len /\ mapping' = mapping /\ sem' = Left(sem, p, NoSem)
    BY <1>7 DEF CloseObjects, CloseSender, call
  <2>2. torn' = torn /\ unsized' = unsized /\ overtaken' = overtaken
    BY <1>7 DEF CloseObjects, CloseSender, ghost
  <2>3. SameWords
    BY <2>1 DEF SameWords
  <2>4. sem'.holders = {} \/ (sem'.producer = sem.producer /\ sem.holders # {})
    BY <2>1, LeftSemaphores
  <2> QED
    BY <2>1, <2>2, <2>3, <2>4, WordsKept
<1>8. ASSUME NEW p \in Processes, FinalizeQueue(p) PROVE RingOk'
  <2>1. op' = op /\ len' = len /\ sem' = sem /\ mapping' = Left(mapping, p, NoMapping)
    BY <1>8 DEF FinalizeQueue, call
  <2>2. /\ torn' = (torn /\ mapping'.holders # {}) /\ unsized' = (unsized /\ mapping'.holders # {})
        /\ overtaken' = (overtaken /\ mapping'.holders # {})
    BY <1>8 DEF FinalizeQueue
  <2>3. \/ mapping' = NoMapping
        \/ /\ mapping.holders \ {p} # {}
           /\ mapping' = [mapping EXCEPT !.holders = mapping.holders \ {p}]
    BY <2>1, LeftMapping
  <2>4. mapping'.holders # {} => SameWords /\ mapping.holders # {}
    BY <2>3, <1>0, NothingThere DEF SameWords, MappingType
  <2>5. sem'.producer = sem.producer /\ (sem'.holders = {} \/ sem.holders # {})
    BY <2>1
  <2> QED
    BY <2>1, <2>2, <2>4, <2>5, WordsKept
<1>9. ASSUME NEW p \in Processes, Crash(p) PROVE RingOk'
  <2>1. /\ op' = [op EXCEPT ![p] = "idle"] /\ len' = [len EXCEPT ![p] = 0]
        /\ mapping' = Left(mapping, p, NoMapping)
    BY <1>9 DEF Crash
  <2>2. /\ torn' = (mapping'.holders # {} /\ (torn \/ op[p] = "use"))
        /\ unsized' = (mapping'.holders # {} /\ (unsized \/ LastToWriteSize(p)))
        /\ overtaken' = (mapping'.holders # {} /\ overtaken)
    BY <1>9 DEF Crash
  <2>3. \/ mapping' = NoMapping
        \/ /\ mapping.holders \ {p} # {}
           /\ mapping' = [mapping EXCEPT !.holders = mapping.holders \ {p}]
    BY <2>1, LeftMapping
  <2>4. mapping'.holders # {} => SameWords /\ mapping.holders # {}
    BY <2>3, <1>0, NothingThere DEF SameWords, MappingType
  <2>6. sem'.holders # {} => sem'.producer = sem.producer /\ sem.holders # {}
    <3> DEFINE freed == [sem EXCEPT !.owner = sem.owner \ {p}]
    <3>1. sem' = Left(freed, p, NoSem)
      BY <1>9 DEF Crash
    <3>2. freed = [sem EXCEPT !.owner = sem.owner \ {p}]
      OBVIOUS
    <3> HIDE DEF freed
    <3> QED
      BY <3>1, <3>2, LeftSemaphores
  <2>7. CASE op[p] = "use"
    BY <2>2, <2>7 DEF RingOk
  <2>8. CASE op[p] # "use"
    BY <2>1, <2>2, <2>4, <2>6, <2>8, DeathStep
  <2> QED
    BY <2>7, <2>8
<1>10. CASE UNCHANGED vars
  <2>1. op' = op /\ len' = len /\ mapping' = mapping /\ sem' = sem
        /\ torn' = torn /\ unsized' = unsized /\ overtaken' = overtaken
    BY <1>10 DEF vars, call, kernel, ghost
  <2> QED
    BY <2>1 DEF RingOk, Sized, Early, NoCall
<1>11. ASSUME NEW p \in Processes, RingSteps(p) \/ \E n \in Lens : CallPush(p, n)
       PROVE  RingOk'
  <2>1. overtaken' = overtaken
    BY <1>11 DEF RingSteps, CallPush, PushCopy, PushIndex, PushUse, CallPop, PopIndex, PopUse, ghost
  <2>2. CASE overtaken
    BY <2>1, <2>2 DEF RingOk
  <2>3. CASE ~overtaken
    BY <1>11, <2>3, CallPushStep, PushCopyStep, PushIndexStep, PushUseStep, CallPopStep,
       PopIndexStep, PopUseStep DEF RingSteps
  <2> QED
    BY <2>2, <2>3
<1>12. ASSUME NEW p \in Processes, MainSteps(p) PROVE RingOk'
  BY <1>12, <1>1, <1>2, <1>3, <1>4, <1>6, <1>7, <1>8 DEF MainSteps
<1>13. ASSUME NEW p \in Processes, ThreadEnds(p) PROVE RingOk'
  <2>1. /\ op' = op /\ len' = len /\ mapping' = mapping
        /\ sem' = [sem EXCEPT !.owner = sem.owner \ {p}]
    BY <1>13 DEF ThreadEnds, call
  <2>2. torn' = torn /\ unsized' = unsized /\ overtaken' = overtaken
    BY <1>13 DEF ThreadEnds, ghost
  <2>3. SameWords /\ sem'.producer = sem.producer /\ (sem'.holders = {} \/ sem.holders # {})
    BY <2>1, <1>0 DEF SameWords, SemType
  <2> QED
    BY <2>1, <2>2, <2>3, WordsKept
<1>14. ASSUME NEW p \in Processes, ThreadSteps(p) \/ Environment(p) PROVE RingOk'
  BY <1>14, <1>1, <1>5, <1>7, <1>9, <1>11, <1>13 DEF ThreadSteps, Environment
<1> QED
  BY <1>10, <1>11, <1>12, <1>14 DEF Next

LEMMA RingInit == Init => RingInv
<1> SUFFICES ASSUME Init PROVE RingInv
  OBVIOUS
<1>1. /\ \A p \in Processes : pc[p] = "off" /\ op[p] = "idle" /\ thread[p] = "none"
      /\ mapping = NoMapping /\ sem = NoSem /\ ~torn /\ ~unsized /\ ~overtaken
      /\ mapping.holders = {} /\ sem.holders = {}
  BY NothingThere DEF Init
<1>2. RingType
  BY NothingType DEF Init, RingType, Ops, Stages, MappingType, SemType
<1>3. Attached /\ MutexHolds /\ Unused /\ SizeComes /\ RingOk
  BY <1>1 DEF Attached, AttachedAt, MutexHolds, OneCall, CallerOwns, Unused, SizeComes, RingOk
<1> QED
  BY <1>2, <1>3 DEF RingInv

LEMMA RingInductive == Spec => []RingInv
<1>1. Init => RingInv
  BY RingInit
<1>2. IInv /\ RingInv /\ [Next]_vars => RingInv'
  <2> SUFFICES ASSUME IInv, RingInv, [Next]_vars PROVE RingInv'
    OBVIOUS
  <2>1. Shape /\ RingType /\ Shell /\ RingOk
    BY DEF IInv, RingInv, Shell
  <2>2. RingType'
    BY <2>1, RingTypeStep
  <2>3. Shell'
    BY <2>1, ShellStep
  <2>4. RingOk'
    BY <2>1, <2>3, RingOkStep
  <2> QED
    BY <2>2, <2>3, <2>4 DEF RingInv, Shell
<1> QED
  BY <1>1, <1>2, StartupInductive, PTL DEF Spec

(* No process touches a byte behind the memory, and head, tail and         *)
(* use_size agree between calls, although the memory may be used before it *)
(* has its size and its users may die: unless one died between the two     *)
(* words of a call, the size came too late, or the mutex was made anew     *)
(* under a call of the receive thread, whose handles were closed.          *)
THEOREM StartupRingSound == Spec => []RingSound
<1>1. RingInv => RingSound
  <2> SUFFICES ASSUME RingInv, ~torn, ~unsized, ~overtaken
               PROVE  /\ \A p \in Processes :
                           op[p] = "copy" =>
                             Touched(IF p \in Clients THEN mapping.tail ELSE mapping.head, len[p])
                               \subseteq 0 .. (Capacity - 1)
                      /\ NoCall => \E turn \in {0, Capacity} :
                           mapping.head + mapping.use_size = mapping.tail + turn
    BY DEF RingSound
  <2>0. /\ mapping.head \in Nat /\ mapping.tail \in Nat /\ mapping.use_size \in Nat
        /\ mapping.queue_size \in {0, Capacity} /\ Capacity \in Nat
        /\ \A p \in Processes : len[p] \in Nat /\ (p \in Cameras => p \notin Clients)
    BY StartupAssumption DEF RingInv, RingType
  <2>1. mapping.holders # {} => IF mapping.queue_size = Capacity THEN Sized ELSE Early
    BY DEF RingInv, RingOk
  <2>2. ASSUME NEW p \in Processes, op[p] = "copy"
        PROVE  Touched(IF p \in Clients THEN mapping.tail ELSE mapping.head, len[p])
                 \subseteq 0 .. (Capacity - 1)
    <3>1. mapping.holders # {}
      BY <2>2 DEF RingInv, Attached, AttachedAt
    <3>2. CASE mapping.queue_size = Capacity
      <4>1. Sized
        BY <2>1, <3>1, <3>2
      <4>2. CASE p \in Clients
        <5>1. mapping.tail \in 0 .. Capacity /\ len[p] \in 1 .. (Capacity - 1)
          BY <2>0, <2>2, <4>1, <4>2 DEF Sized
        <5> QED
          BY <3>2, <4>2, <5>1, AdvancedSized
      <4>3. CASE p \notin Clients
        <5>1. p \in Cameras
          BY <4>3 DEF Processes
        <5>2. mapping.head \in 0 .. Capacity /\ len[p] \in 1 .. (Capacity - 1)
          BY <2>0, <2>2, <4>1, <5>1 DEF Sized
        <5> QED
          BY <3>2, <4>3, <5>2, AdvancedSized
      <4> QED
        BY <4>2, <4>3
    <3>3. CASE mapping.queue_size # Capacity
      <4>1. Early /\ mapping.queue_size = 0
        BY <2>0, <2>1, <3>1, <3>3
      <4>2. p \in Clients
        BY <2>2, <4>1 DEF Early, Processes
      <4>3. len[p] > 0 /\ mapping.tail + len[p] < Capacity
        BY <2>2, <4>1, <4>2 DEF Early
      <4> QED
        BY <2>0, <4>1, <4>2, <4>3, AdvancedEarly
    <3> QED
      BY <3>2, <3>3
  <2>3. ASSUME NoCall
        PROVE  \E turn \in {0, Capacity} : mapping.head + mapping.use_size = mapping.tail + turn
    <3>1. CASE mapping.holders = {}
      BY <3>1 DEF RingInv, Unused, NoMapping
    <3>2. CASE mapping.holders # {} /\ mapping.queue_size = Capacity
      BY <2>1, <2>3, <3>2 DEF Sized, Agree
    <3>3. CASE mapping.holders # {} /\ mapping.queue_size # Capacity
      BY <2>0, <2>1, <2>3, <3>3 DEF Early
    <3> QED
      BY <3>1, <3>2, <3>3
  <2> QED
    BY <2>2, <2>3
<1> QED
  BY <1>1, RingInductive, PTL
=============================================================================
