----------------------------- MODULE RepeatWork -----------------------------
(***************************************************************************)
(* RepeatWorkProc: works that are called again and again, each from its    *)
(* timer by way of a queue and of the thread that runs them.               *)
(*   the timers' thread pushes a work and wakes the thread (the callback   *)
(*     AddWork registers), holding CTimerLockerManager's mutex;            *)
(*   the thread waits, takes m_queue_repeat_mutex and runs what is queued; *)
(*   a caller adds works (Camera::LoadCamerasPbFile);                      *)
(*   main activates and deactivates.                                       *)
(* The queue and the maps are not always used under their mutex; each use  *)
(* is a step.                                                              *)
(***************************************************************************)
EXTENDS Naturals, Sequences

CONSTANTS
  Works,
  MaxQueue,     (* bound: works waiting in the queue                       *)
  MaxTicks,     (* bound: expiries of timers in one behaviour              *)
  MaxStarts     (* bound: calls of Activate in one behaviour               *)

ASSUME RepeatAssumption == {MaxQueue, MaxTicks, MaxStarts} \subseteq Nat

None == "none"   (* the timers' thread, or the caller, is elsewhere        *)

VARIABLES
  running,   (* m_thread_running                                           *)
  event,     (* m_lock_count of m_queue_repeat_event, whose maximum is 1   *)
  queue,     (* m_queue_repeat_work                                        *)
  works,     (* the keys of m_map_work                                     *)
  timed,     (* the keys of m_map_timer: the works with a timer            *)
  thread,    (* where the thread is; it holds the mutex in "drain", "call" *)
  current,   (* the work it calls                                          *)
  tick,      (* the callback under way: [at, work]                         *)
  adding,    (* AddWork under way: [at, work]                              *)
  main,      (* where main is                                              *)
  late,      (* works that AddWork registered since the last Deactivate    *)
             (* began                                                      *)
  ticks, starts

maps == <<works, timed>>
vars == <<running, event, queue, maps, thread, current, tick, adding, main, late,
          ticks, starts>>

Elsewhere == [at |-> None, work |-> None]
Locked == thread \in {"drain", "call"}

Init ==
  /\ running = FALSE /\ event = 0 /\ queue = << >>
  /\ works = {} /\ timed = {} /\ late = {}
  /\ thread = "none" /\ current = None
  /\ tick = Elsewhere /\ adding = Elsewhere
  /\ main = "off"
  /\ ticks = 0 /\ starts = 0
----------------------------------------------------------------------------
(* The callback of a timer: first the push, then WakeUp.                   *)
Expire(w) ==
  /\ tick = Elsewhere /\ w \in timed
  /\ ticks < MaxTicks /\ Len(queue) < MaxQueue
  /\ tick' = [at |-> "push", work |-> w]
  /\ ticks' = ticks + 1
  /\ UNCHANGED <<running, event, queue, maps, thread, current, adding, main, late, starts>>

CallbackStep(from, to, pushes, wakes) ==
  /\ tick.at = from
  /\ queue' = IF pushes THEN Append(queue, tick.work) ELSE queue
  /\ event' = IF wakes THEN 1 ELSE event
  /\ tick' = IF to = None THEN Elsewhere ELSE [tick EXCEPT !.at = to]
  /\ UNCHANGED <<running, maps, thread, current, adding, main, late, ticks, starts>>

(* Mutant: the thread is woken before the work is in the queue. *)
CallbackSwapped ==
  CallbackStep("push", "wake", FALSE, TRUE) \/ CallbackStep("wake", None, TRUE, FALSE)

Callback ==
  CallbackStep("push", "wake", TRUE, FALSE) \/ CallbackStep("wake", None, FALSE, TRUE)
----------------------------------------------------------------------------
(* ThreadLoop.                                                             *)
ThreadStep(from, to) == thread = from /\ thread' = to

StartLoop ==
  /\ ThreadStep("starting", "wait")
  /\ running' = TRUE
  /\ UNCHANGED <<event, queue, maps, current, tick, adding, main, late, ticks, starts>>

WaitEvent ==
  /\ ThreadStep("wait", "test") /\ event > 0
  /\ event' = event - 1
  /\ UNCHANGED <<running, queue, maps, current, tick, adding, main, late, ticks, starts>>

TestRunning ==
  /\ ThreadStep("test", IF running THEN "drain" ELSE "ended")
  /\ UNCHANGED <<running, event, queue, maps, current, tick, adding, main, late, ticks,
                 starts>>

(* A work that is no longer registered is passed over.                     *)
TakeThen(rest) ==
  /\ queue # << >>
  /\ ThreadStep("drain", IF Head(queue) \in works THEN "call" ELSE "drain")
  /\ current' = IF Head(queue) \in works THEN Head(queue) ELSE None
  /\ queue' = rest
  /\ UNCHANGED <<running, event, maps, tick, adding, main, late, ticks, starts>>

(* Mutant: a work is taken from the queue after it was looked up. *)
TakeRegistered == TakeThen(IF Head(queue) \in works THEN Tail(queue) ELSE queue)

TakeWork == TakeThen(Tail(queue))

WorkReturns ==
  /\ ThreadStep("call", "drain")
  /\ current' = None
  /\ UNCHANGED <<running, event, queue, maps, tick, adding, main, late, ticks, starts>>

(* The work deletes itself and returns (TestRepeatWorkProc).               *)
DeleteWork ==
  /\ ThreadStep("call", "drain") /\ tick = Elsewhere
  /\ current \in works /\ current \in timed
  /\ timed' = timed \ {current} /\ works' = works \ {current}
  /\ current' = None
  /\ UNCHANGED <<running, event, queue, tick, adding, main, late, ticks, starts>>

QueueEmpty ==
  /\ ThreadStep("drain", "wait") /\ queue = << >>
  /\ UNCHANGED <<running, event, queue, maps, current, tick, adding, main, late, ticks,
                 starts>>

Thread ==
  \/ StartLoop \/ WaitEvent \/ TestRunning \/ TakeWork \/ WorkReturns \/ DeleteWork
  \/ QueueEmpty
----------------------------------------------------------------------------
(* AddWork: the look-up without the mutex, the entry with it, the timer.   *)
AddWork(w) ==
  /\ adding = Elsewhere /\ w \notin works
  /\ adding' = [at |-> "entry", work |-> w]
  /\ UNCHANGED <<running, event, queue, maps, thread, current, tick, main, late, ticks,
                 starts>>

AddEntry ==
  /\ adding.at = "entry" /\ ~Locked
  /\ works' = works \cup {adding.work}
  /\ late' = late \cup {adding.work}
  /\ adding' = [adding EXCEPT !.at = "timer"]
  /\ UNCHANGED <<running, event, queue, timed, thread, current, tick, main, ticks, starts>>

AddTimer ==
  /\ adding.at = "timer" /\ tick = Elsewhere
  /\ timed' = timed \cup {adding.work}
  /\ late' = late \cup {adding.work}
  /\ adding' = Elsewhere
  /\ UNCHANGED <<running, event, queue, works, thread, current, tick, main, ticks, starts>>

Caller == AddEntry \/ AddTimer
----------------------------------------------------------------------------
(* Activate, and Deactivate one statement at a time.                       *)
Activate ==
  /\ main = "off" /\ ~running /\ starts < MaxStarts
  /\ main' = "on"
  /\ thread' = "starting"
  /\ starts' = starts + 1
  /\ UNCHANGED <<running, event, queue, maps, current, tick, adding, late, ticks>>

MainStep(from, to) == main = from /\ main' = to

(* Not before the thread has come to its loop.  Deleting a timer waits for *)
(* its callback.                                                           *)
DeleteTimersWhen(quiet) ==
  /\ MainStep("on", "works") /\ thread # "starting" /\ quiet
  /\ timed' = {} /\ late' = {}
  /\ UNCHANGED <<running, event, queue, works, thread, current, tick, adding, ticks, starts>>

(* Mutant: a timer is deleted without waiting for its callback. *)
DeleteTimersAtOnce == DeleteTimersWhen(TRUE)

DeleteTimers == DeleteTimersWhen(tick = Elsewhere)

ClearWorks ==
  /\ MainStep("works", "flag")
  /\ works' = {}
  /\ UNCHANGED <<running, event, queue, timed, thread, current, tick, adding, late, ticks,
                 starts>>

ClearRunning ==
  /\ MainStep("flag", "wake")
  /\ running' = FALSE
  /\ UNCHANGED <<event, queue, maps, thread, current, tick, adding, late, ticks, starts>>

WakeTo(count) ==
  /\ MainStep("wake", "join")
  /\ event' = count
  /\ UNCHANGED <<running, queue, maps, thread, current, tick, adding, late, ticks, starts>>

(* Mutant: the waiting thread is not woken to see that it should end. *)
WakeThreadMissing == WakeTo(event)

WakeThread == WakeTo(1)

JoinThread ==
  /\ MainStep("join", "queue") /\ thread = "ended"
  /\ thread' = "none"
  /\ UNCHANGED <<running, event, queue, maps, current, tick, adding, late, ticks, starts>>

ClearQueue ==
  /\ MainStep("queue", "off")
  /\ queue' = << >>
  /\ UNCHANGED <<running, event, maps, thread, current, tick, adding, late, ticks, starts>>

Deactivate ==
  \/ DeleteTimers \/ ClearWorks \/ ClearRunning \/ WakeThread \/ JoinThread \/ ClearQueue

Next ==
  \/ Callback \/ Thread \/ Caller \/ Activate \/ Deactivate
  \/ \E w \in Works : Expire(w) \/ AddWork(w)

Spec == Init /\ [][Next]_vars

(* Threads run and a work that was called returns; nobody has to activate, *)
(* to begin to deactivate or to add a work.                                *)
Fairness ==
  /\ WF_vars(Callback) /\ WF_vars(Thread) /\ WF_vars(Deactivate /\ main # "on")
  /\ SF_vars(AddEntry) /\ SF_vars(AddTimer)

FairSpec == Spec /\ Fairness
----------------------------------------------------------------------------
(* Every variable keeps its range. *)
TypeOK ==
  /\ running \in BOOLEAN /\ event \in {0, 1}
  /\ queue \in Seq(Works) /\ Len(queue) <= MaxQueue
  /\ works \subseteq Works /\ timed \subseteq Works /\ late \subseteq Works
  /\ thread \in {"none", "starting", "wait", "test", "drain", "call", "ended"}
  /\ current \in Works \cup {None}
  /\ tick.at \in {None, "push", "wake"} /\ tick.work \in Works \cup {None}
  /\ adding.at \in {None, "entry", "timer"} /\ adding.work \in Works \cup {None}
  /\ main \in {"off", "on", "works", "flag", "wake", "join", "queue"}
  /\ ticks \in 0..MaxTicks /\ starts \in 0..MaxStarts

(* The thread never goes to sleep on work: while something is queued, its  *)
(* wake-up is there or on its way, although one wake-up may stand for      *)
(* several works and a work may be pushed at any point of the loop.        *)
WakeUpPending ==
  thread = "wait" /\ queue # << >> => event = 1 \/ tick.at = "wake"

(* What is queued is taken, however the works and their timers overlap.    *)
QueueDrains == queue # << >> ~> (queue = << >> \/ ~running)

(* Deactivate returns: its wake-up reaches a thread that waits, runs or is *)
(* about to wait.                                                          *)
DeactivateReturns == main = "join" ~> main = "off"

(* Deactivate leaves no work, no timer and nothing queued, but for works   *)
(* that AddWork registered since it began (Camera.cpp:191 runs until the   *)
(* receive worker is stopped, Camera.cpp:125, which is after this one).    *)
StopLeavesOnlyLate ==
  main = "off" =>
    /\ works \subseteq late /\ timed \subseteq late
    /\ \A i \in DOMAIN queue : queue[i] \in late
=============================================================================
