------------------------------ MODULE Startup ------------------------------
(***************************************************************************)
(* Processes that start, meet in named kernel objects, end and die.        *)
(*                                                                         *)
(* A camera process (main, Application, Camera) creates the event that is  *)
(* named after the process and, when it is the first, brings up the        *)
(* receive worker of its queue; a client process brings up a send worker   *)
(* on the same queue.  A kernel object lives as long as a process has a    *)
(* handle to it, so each object is kept with its holders: the event, the   *)
(* mapped memory, and the synchronisation objects (semaphores and mutex).  *)
(*                                                                         *)
(* The memory is shared by processes that may die between any two of its   *)
(* writes: the ring's words are written one at a time.  Of a packet only   *)
(* its length is kept, at the position of its first byte.  How the calls   *)
(* of SyncSharedMemory wait and fail is that module's subject; here a call *)
(* has its token and the mutex, or it does not start, and an abandoned     *)
(* mutex is free.                                                          *)
(*                                                                         *)
(* Camera::Deactivate closes the receive worker's handles while its thread *)
(* may be in a call, and joins the thread then.  The thread raises its     *)
(* flag itself when it begins, so that a stop can be lost; the joins of    *)
(* the other threads (StreamSession, RepeatWork) may hang likewise.        *)
(***************************************************************************)
EXTENDS Integers, FiniteSets

CONSTANTS Cameras, Clients,  (* processes, by what they run                *)
          Capacity,          (* bytes behind QueueInfo                     *)
          Wrap,              (* uint32_t arithmetic is modulo Wrap         *)
          Lens,              (* lengths of the packets                     *)
          SyncCount,         (* sync_count of every endpoint               *)
          MaxStarts, MaxCrashes, MaxFailures, MaxSends, MaxKeys
                             (* bounds on what the environment does        *)

Processes == Cameras \cup Clients

(* All packets that fit the semaphores fit the ring. *)
ASSUME StartupAssumption ==
  /\ Cameras \cap Clients = {}
  /\ SyncCount \in Nat \ {0} /\ Lens \subseteq Nat \ {0}
  /\ Capacity \in Nat /\ Wrap \in Nat /\ Capacity < Wrap
  /\ \A n \in Lens : SyncCount * n < Capacity

VARIABLES
  pc,        (* main thread of each process                                *)
  thread,    (* the receive worker's thread: "none", "new", "loop", "ended"*)
  running,   (* the cameras whose m_thread_running is up                   *)
  op,        (* the Push or Pop it is in: at "idle", "copy", "index", "use"*)
  len,       (* the length of the packet pushed or popped                  *)
  event,     (* the named event: its holders, whether it is set            *)
  mapping,   (* the named memory: its holders and its words                *)
  sem,       (* the named semaphores and mutex: their holders and counts,  *)
             (* and who owns the mutex                                     *)
  torn,      (* history: somebody died between the two writes of a call    *)
  unsized,   (* history: the creator was gone before it wrote queue_size,  *)
             (* or slept through a restart of the other process or through *)
             (* the receipt of a packet                                    *)
  overtaken, (* history: the mutex was made anew under a running call      *)
  used       (* environment actions spent, against their bounds            *)

call   == <<op, len>>
worker == <<thread, running>>
kernel == <<event, mapping, sem>>
ghost  == <<torn, unsized, overtaken>>
vars   == <<pc, worker, call, kernel, ghost, used>>

Bounded == {"starts", "crashes", "failures", "sends", "keys"}
Spend(kind, max) == used[kind] < max /\ used' = [used EXCEPT ![kind] = @ + 1]

Goto(p, label) == pc' = [pc EXCEPT ![p] = label]

(* Nobody is in a call of SyncSharedMemory. *)
NoCall == \A p \in Processes : op[p] = "idle"

(* Nobody is left that will write queue_size when p goes. *)
LastToWriteSize(p) ==
  /\ pc[p] = "size" /\ mapping.queue_size = 0
  /\ \A q \in mapping.holders \ {p} : pc[q] # "size"

(* The memory has no size yet, and will. *)
SizeIsPending ==
  mapping.queue_size = 0 /\ \E q \in mapping.holders : pc[q] = "size"

(* What a kernel object is when its first handle is made. *)
NoEvent == [holders |-> {}, set |-> FALSE]
NoMapping ==
  [holders |-> {}, queue_size |-> 0, head |-> 0, tail |-> 0, use_size |-> 0,
   packets |-> [i \in 0 .. (Wrap - 1) |-> 0]]
NoSem == [holders |-> {}, producer |-> SyncCount, consumer |-> 0, owner |-> {}]

Held(object, p) == [object EXCEPT !.holders = @ \cup {p}]
Left(object, p, none) ==
  IF object.holders \subseteq {p} THEN none ELSE [object EXCEPT !.holders = @ \ {p}]

----------------------------------------------------------------------------
Init ==
  /\ pc = [p \in Processes |-> "off"]
  /\ op = [p \in Processes |-> "idle"]
  /\ len = [p \in Processes |-> 0]
  /\ event = NoEvent /\ mapping = NoMapping /\ sem = NoSem
  /\ thread = [p \in Processes |-> "none"] /\ running = {}
  /\ torn = FALSE /\ unsized = FALSE /\ overtaken = FALSE
  /\ used = [k \in Bounded |-> 0]

Start(p) ==
  /\ pc[p] = "off"
  /\ Spend("starts", MaxStarts)
  /\ Goto(p, IF p \in Cameras THEN "event" ELSE "open")
  /\ UNCHANGED <<worker, call, kernel, ghost>>

CreatesEvent(c, exists) ==
  /\ pc[c] = "event"
  /\ event' = [Held(event, c) EXCEPT !.set = @ \/ exists]
  /\ Goto(c, IF exists THEN "keys" ELSE "open")
  /\ UNCHANGED <<worker, call, mapping, sem, ghost, used>>

(* Mutant: an event that is set already counts as left over. *)
CreateEventUnlessSet(c) == CreatesEvent(c, event.holders # {} /\ ~event.set)

(* Application::Initialize: the second of a name sets the event of the     *)
(* first (SetExitCode) and goes to main's loop without a camera.           *)
CreateEvent(c) == CreatesEvent(c, event.holders # {})

(* CreateEvent fails: SetExitCode has no event to set, main's wait fails   *)
(* at once and its loop turns until the key.                               *)
CreateEventFails(c) ==
  /\ pc[c] = "event"
  /\ Spend("failures", MaxFailures)
  /\ Goto(c, "keys")
  /\ UNCHANGED <<worker, call, kernel, ghost>>
----------------------------------------------------------------------------
(* QueueSharedMemory::Initialize: open, or else create, ...                *)
OpenSharedMemory(p) ==
  /\ pc[p] = "open"
  /\ IF mapping.holders = {}
     THEN Goto(p, "create") /\ UNCHANGED mapping
     ELSE mapping' = Held(mapping, p) /\ Goto(p, "objects")
  /\ UNCHANGED <<worker, call, event, sem, ghost, used>>

(* ... which opens the memory too, when somebody was faster, ...           *)
CreateSharedMemory(p) ==
  /\ pc[p] = "create"
  /\ mapping' = Held(mapping, p)
  /\ Goto(p, "size")
  /\ UNCHANGED <<worker, call, event, sem, ghost, used>>

WritesSize(p, size) ==
  /\ pc[p] = "size"
  /\ mapping' = [mapping EXCEPT !.queue_size = size]
  /\ Goto(p, "objects")
  /\ UNCHANGED <<worker, call, event, sem, ghost, used>>

(* Mutant: the size is never written. *)
WriteNoSize(p) == WritesSize(p, mapping.queue_size)

(* ... and the one that called create writes the size: the same one,       *)
(* whoever it is.                                                          *)
WriteQueueSize(p) == WritesSize(p, Capacity)

(* The creation, the mapping or a semaphore fails.  The camera logs it and *)
(* runs on without its worker; the handle stays until its end.  The        *)
(* client's worker is destroyed.                                           *)
ActivateFails(p) ==
  /\ pc[p] \in {"create", "size", "objects"}
  /\ Spend("failures", MaxFailures)
  /\ Goto(p, IF p \in Cameras THEN "keys" ELSE "unmap")
  /\ unsized' = (unsized \/ LastToWriteSize(p))
  /\ UNCHANGED <<worker, call, kernel, torn, overtaken>>

(* SyncSharedMemory::Activate: the semaphores and the mutex are created,   *)
(* or opened as they are.  The receive worker starts its thread.           *)
CreateObjects(p) ==
  /\ pc[p] = "objects"
  /\ sem' = Held(sem, p)
  /\ overtaken' = (overtaken \/ (sem.holders = {} /\ ~NoCall))
  /\ unsized' = (unsized \/ (sem.holders = {} /\ mapping.queue_size = 0 /\ mapping.tail # 0))
  /\ thread' = [thread EXCEPT ![p] = IF p \in Cameras THEN "new" ELSE @]
  /\ Goto(p, IF p \in Cameras THEN "keys" ELSE "up")
  /\ UNCHANGED <<running, call, event, mapping, torn, used>>
----------------------------------------------------------------------------
(* main: one look at the keyboard, ...                                     *)
QuitKey(c) ==
  /\ pc[c] = "keys"
  /\ Spend("keys", MaxKeys)
  /\ Goto(c, "unsync")
  /\ UNCHANGED <<worker, call, kernel, ghost>>

(* ... then the wait without end; without an event it fails and the loop   *)
(* turns.                                                                  *)
NoKey(c) ==
  /\ pc[c] = "keys" /\ c \in event.holders
  /\ Goto(c, "waiting")
  /\ UNCHANGED <<worker, call, kernel, ghost, used>>

WakesLeaving(c, set) ==
  /\ pc[c] = "waiting" /\ event.set
  /\ event' = [event EXCEPT !.set = set]
  /\ Goto(c, "unsync")
  /\ UNCHANGED <<worker, call, mapping, sem, ghost, used>>

(* Mutant: an event that resets itself. *)
WakesOne(c) == WakesLeaving(c, FALSE)

(* A manual-reset event wakes everybody. *)
RecvExitEvent(c) == WakesLeaving(c, TRUE)

(* The receive worker's thread: it raises its flag, ...                    *)
ThreadBegins(c) ==
  /\ thread[c] = "new"
  /\ thread' = [thread EXCEPT ![c] = "loop"]
  /\ running' = running \cup {c}
  /\ UNCHANGED <<pc, call, kernel, ghost, used>>

(* ... and leaves its loop between two calls when it is down.  What it     *)
(* could not release any more is abandoned.                                *)
ThreadEnds(c) ==
  /\ thread[c] = "loop" /\ op[c] = "idle" /\ c \notin running
  /\ thread' = [thread EXCEPT ![c] = "ended"]
  /\ sem' = [sem EXCEPT !.owner = @ \ {c}]
  /\ UNCHANGED <<pc, running, call, event, mapping, ghost, used>>

(* Camera::Deactivate: the flag of the worker's thread, ...                *)
StopWorker(c) ==
  /\ pc[c] = "unsync"
  /\ running' = running \ {c}
  /\ Goto(c, "unhandle")
  /\ UNCHANGED <<thread, call, kernel, ghost, used>>

(* ... its handles, whatever the thread is about (in one step here, one    *)
(* after the other in SyncSharedMemory::Deactivate); if it waits, the exit *)
(* event ends its loop, ...                                                *)
CloseObjects(c) ==
  /\ pc[c] = "unhandle"
  /\ sem' = Left(sem, c, NoSem)
  /\ \/ UNCHANGED thread
     \/ /\ thread[c] = "loop" /\ op[c] = "idle"
        /\ thread' = [thread EXCEPT ![c] = "ended"]
  /\ Goto(c, "join")
  /\ UNCHANGED <<running, call, event, mapping, ghost, used>>

(* ... the join, ...                                                       *)
JoinThread(c) ==
  /\ pc[c] = "join" /\ thread[c] \in {"none", "ended"}
  /\ Goto(c, "unmap")
  /\ UNCHANGED <<worker, call, kernel, ghost, used>>

(* ... which may be for ever, as those of the repeat worker before and of  *)
(* the streams after it, if a stop is lost.                                *)
JoinHangs(c) ==
  /\ pc[c] \in {"unsync", "unevent"} /\ thread[c] # "none"
  /\ Spend("failures", MaxFailures)
  /\ Goto(c, "hung")
  /\ UNCHANGED <<worker, call, kernel, ghost>>

(* A client stops whenever it likes, between its calls. *)
CloseSender(p) ==
  /\ pc[p] = "up" /\ op[p] = "idle"
  /\ sem' = Left(sem, p, NoSem)
  /\ Goto(p, "unmap")
  /\ UNCHANGED <<worker, call, event, mapping, ghost, used>>

(* ... then the memory, ...                                                *)
FinalizeQueue(p) ==
  /\ pc[p] = "unmap"
  /\ mapping' = Left(mapping, p, NoMapping)
  /\ torn' = (torn /\ mapping'.holders # {})
  /\ unsized' = (unsized /\ mapping'.holders # {})
  /\ overtaken' = (overtaken /\ mapping'.holders # {})
  /\ Goto(p, IF p \in Cameras THEN "unevent" ELSE "off")
  /\ UNCHANGED <<worker, call, event, sem, used>>

(* ... and Application::Finalize closes the event last. *)
CloseEvent(c) ==
  /\ pc[c] = "unevent"
  /\ event' = Left(event, c, NoEvent)
  /\ thread' = [thread EXCEPT ![c] = "none"]
  /\ Goto(c, "off")
  /\ UNCHANGED <<running, call, mapping, sem, ghost, used>>

(* The process dies: the system closes its handles and frees its mutex. *)
Crash(p) ==
  /\ pc[p] # "off"
  /\ Spend("crashes", MaxCrashes)
  /\ Goto(p, "off")
  /\ op' = [op EXCEPT ![p] = "idle"]
  /\ len' = [len EXCEPT ![p] = 0]
  /\ event' = Left(event, p, NoEvent)
  /\ thread' = [thread EXCEPT ![p] = "none"]
  /\ running' = running \ {p}
  /\ sem' = Left([sem EXCEPT !.owner = @ \ {p}], p, NoSem)
  /\ mapping' = Left(mapping, p, NoMapping)
  /\ overtaken' = (mapping'.holders # {} /\ overtaken)
  /\ torn' = (mapping'.holders # {} /\ (torn \/ op[p] = "use"))
  /\ unsized' = (mapping'.holders # {} /\ (unsized \/ LastToWriteSize(p)))
----------------------------------------------------------------------------
(* The ring, with queue_size as it is in the memory. *)
Word(n) == n % Wrap
GetFreeSize == Word(Word(mapping.queue_size - 1) - mapping.use_size)
Behind(pos) == Word(mapping.queue_size - pos)
Advanced(pos, n) == IF Behind(pos) < n THEN n - Behind(pos) ELSE Word(pos + n)

(* The position of the first byte of a packet put at, or read from, pos. *)
FirstByte(pos) == IF Behind(pos) = 0 THEN 0 ELSE pos

(* The bytes that a copy of n bytes at pos touches. *)
Touched(pos, n) ==
  IF Behind(pos) < n
  THEN pos .. (pos + Behind(pos) - 1) \cup 0 .. (n - Behind(pos) - 1)
  ELSE pos .. (pos + n - 1)

(* use_size when p has written it: of two calls that add to it at once,    *)
(* under different mutexes, one may undo the other.                        *)
UseSizes(p, size) ==
  {size} \cup {mapping.use_size : q \in {q \in Processes \ {p} : op[q] = "use"}}

(* A call of the send worker: a token, the mutex, and space. *)
CallPush(p, n) ==
  /\ pc[p] = "up" /\ op[p] = "idle" /\ sem.owner = {}
  /\ sem.producer > 0 /\ n <= GetFreeSize
  /\ Spend("sends", MaxSends)
  /\ sem' = [sem EXCEPT !.producer = @ - 1, !.owner = {p}]
  /\ op' = [op EXCEPT ![p] = "copy"]
  /\ len' = [len EXCEPT ![p] = n]
  /\ UNCHANGED <<pc, worker, event, mapping, ghost>>

PushCopy(p) ==
  /\ op[p] = "copy" /\ p \in Clients
  /\ mapping' =
       [mapping EXCEPT
         !.packets = [i \in DOMAIN @ |->
                        IF i = FirstByte(mapping.tail) THEN len[p]
                        ELSE IF i \in Touched(mapping.tail, len[p]) THEN 0 ELSE @[i]]]
  /\ op' = [op EXCEPT ![p] = "index"]
  /\ UNCHANGED <<pc, worker, len, event, sem, ghost, used>>

PushIndex(p) ==
  /\ op[p] = "index" /\ p \in Clients
  /\ mapping' = [mapping EXCEPT !.tail = Advanced(@, len[p])]
  /\ op' = [op EXCEPT ![p] = "use"]
  /\ UNCHANGED <<pc, worker, len, event, sem, ghost, used>>

(* use_size is written, the mutex and the consumers' semaphore released. *)
PushUse(p) ==
  /\ op[p] = "use" /\ p \in Clients
  /\ \E size \in UseSizes(p, Word(mapping.use_size + len[p])) :
       mapping' = [mapping EXCEPT !.use_size = size]
  /\ sem' = [sem EXCEPT !.owner = {},
                         !.consumer = IF @ < SyncCount THEN @ + 1 ELSE @]
  /\ op' = [op EXCEPT ![p] = "idle"]
  /\ len' = [len EXCEPT ![p] = 0]
  /\ UNCHANGED <<pc, worker, event, ghost, used>>

(* A call of the receive worker: a token, the mutex, and a whole packet.   *)
CallPop(c) ==
  LET n == mapping.packets[FirstByte(mapping.head)]
  IN /\ thread[c] = "loop" /\ op[c] = "idle" /\ c \in running
     /\ c \in sem.holders \cap Cameras /\ sem.owner = {}
     /\ sem.consumer > 0 /\ n \in 1 .. mapping.use_size
     /\ sem' = [sem EXCEPT !.consumer = @ - 1, !.owner = {c}]
     /\ op' = [op EXCEPT ![c] = "copy"]
     /\ len' = [len EXCEPT ![c] = n]
     /\ unsized' = (unsized \/ SizeIsPending)
     /\ UNCHANGED <<pc, worker, event, mapping, torn, overtaken, used>>

PopIndex(c) ==
  /\ op[c] = "copy" /\ c \in Cameras
  /\ mapping' = [mapping EXCEPT !.head = Advanced(@, len[c])]
  /\ op' = [op EXCEPT ![c] = "use"]
  /\ UNCHANGED <<pc, worker, len, event, sem, ghost, used>>

(* The handles may be closed by now: then nothing is released. *)
PopUse(c) ==
  /\ op[c] = "use" /\ c \in Cameras
  /\ \E size \in UseSizes(c, Word(mapping.use_size - len[c])) :
       mapping' = [mapping EXCEPT !.use_size = size]
  /\ sem' = IF c \in sem.holders
            THEN [sem EXCEPT !.owner = @ \ {c},
                             !.producer = IF @ < SyncCount THEN @ + 1 ELSE @]
            ELSE sem
  /\ op' = [op EXCEPT ![c] = "idle"]
  /\ len' = [len EXCEPT ![c] = 0]
  /\ UNCHANGED <<pc, worker, event, ghost, used>>
----------------------------------------------------------------------------
MainSteps(p) ==
  \/ CreateEvent(p) \/ OpenSharedMemory(p) \/ CreateSharedMemory(p)
  \/ WriteQueueSize(p) \/ CreateObjects(p) \/ NoKey(p) \/ RecvExitEvent(p)
  \/ StopWorker(p) \/ CloseObjects(p) \/ JoinThread(p)
  \/ FinalizeQueue(p) \/ CloseEvent(p)

ThreadSteps(p) == ThreadBegins(p) \/ ThreadEnds(p)

RingSteps(p) ==
  PushCopy(p) \/ PushIndex(p) \/ PushUse(p) \/ CallPop(p) \/ PopIndex(p) \/ PopUse(p)

Environment(p) ==
  \/ Start(p) \/ CreateEventFails(p) \/ ActivateFails(p) \/ QuitKey(p)
  \/ CloseSender(p) \/ JoinHangs(p) \/ Crash(p)
  \/ \E n \in Lens : CallPush(p, n)

Next ==
  \E p \in Processes :
    MainSteps(p) \/ ThreadSteps(p) \/ RingSteps(p) \/ Environment(p)

Spec == Init /\ [][Next]_vars

(* The threads run; nothing is promised of what the environment does. *)
Fairness ==
  \A p \in Processes :
    WF_vars(MainSteps(p)) /\ WF_vars(ThreadSteps(p)) /\ WF_vars(RingSteps(p))

FairSpec == Spec /\ Fairness
----------------------------------------------------------------------------
(* At most one process of the name works on the camera's queue, from the   *)
(* opening of its memory until it has let it go: whoever starts late, dies *)
(* or ends at the same time (Application.cpp:62-73, 91-106).               *)
OneCamera ==
  \A c, d \in Cameras : c \in mapping.holders \cup sem.holders
                          /\ d \in mapping.holders \cup sem.holders => c = d

(* Every byte that a Push or a Pop touches is in the memory, and head,     *)
(* tail and use_size agree between calls, although the processes may see   *)
(* the memory before it has its size, all of them may write it, and any of *)
(* them may die.  The places where that does not hold are named: a death   *)
(* between a call's two words (QueueSharedMemory.cpp:225-228, 279-281); a  *)
(* memory without its size (128) for good, over a restart of the           *)
(* semaphores, or while the first packet is taken: only sync_count tokens  *)
(* keep the senders within a memory that has no size yet; and a mutex made *)
(* anew while the receive thread is in its call, after Deactivate closed   *)
(* the handles under it (RecvWorkerSyncQueue.cpp:55-56).                   *)
RingSound ==
  ~torn /\ ~unsized /\ ~overtaken =>
    /\ \A p \in Processes :
         op[p] = "copy" =>
           Touched(IF p \in Clients THEN mapping.tail ELSE mapping.head, len[p])
             \subseteq 0 .. (Capacity - 1)
    /\ NoCall => \E turn \in {0, Capacity} :
                   mapping.head + mapping.use_size = mapping.tail + turn

(* The joins that do not return: the receive thread raised its flag after  *)
(* the stop (RecvWorkerSyncQueue.cpp:53, 110), or another thread did so.   *)
StopLost(c) ==
  \/ pc[c] = "hung"
  \/ pc[c] = "join" /\ thread[c] = "loop" /\ c \in running

(* Everybody that has the event ends when it is set: the second process of *)
(* a name ends itself and the first (Application.cpp:147-152), unless a    *)
(* stop is lost on the way.                                                *)
SetEndsAll ==
  \A c \in Cameras :
    c \in event.holders /\ event.set ~> c \notin event.holders \/ StopLost(c)

(* "The consumer semaphore starts at 0 because there is no data to take    *)
(* when the queue is first created" (SyncSharedMemory.cpp:37): whenever    *)
(* the semaphores are made, the memory holds no packet.                    *)
FreshMeansEmpty ==
  [][\A p \in Processes :
       sem.holders = {} /\ sem'.holders = {p} => mapping.use_size = 0]_vars
=============================================================================
