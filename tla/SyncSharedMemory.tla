-------------------------- MODULE SyncSharedMemory --------------------------
(***************************************************************************)
(* Producers and consumers of one shared-memory packet queue.              *)
(*                                                                         *)
(* An endpoint is one SyncSharedMemory object: a sender's, inside a        *)
(* SendWorkerSyncQueue, or a receiver's, inside a RecvWorkerSyncQueue.     *)
(* Endpoints live in different processes and meet in four named kernel     *)
(* objects: the producer semaphore (free slots), the consumer semaphore    *)
(* (packets to take), the queue mutex and the queue memory.  Each endpoint *)
(* has two events of its own, exit and unlock, that interrupt its waits.   *)
(*                                                                         *)
(* SyncProducer and SyncConsumer are mirror images, so one set of actions  *)
(* serves both, with Role(e) naming the semaphore the endpoint takes from. *)
(* The kernel removes a named object when its last handle is closed.  A    *)
(* Deactivate closes its handles one after another while the receive       *)
(* thread may still be in a call, and unmaps the memory only after the     *)
(* join; whoever activates in between makes new objects over the old       *)
(* memory.                                                                 *)
(*                                                                         *)
(* A thread is at                                                          *)
(*   "sem"       in (or about to enter) the wait on its semaphore,         *)
(*   "mutex"     holding a token, in the wait on the mutex,                *)
(*   "entered"   holding the mutex, about to read the shared indices,      *)
(*   "callback"  holding the mutex, pushing or popping,                    *)
(*   "post"      about to release the other semaphore,                     *)
(*   "restore"   about to give its own token back,                         *)
(*   "release"   about to release the mutex,                               *)
(*   "clearwait", "fill", "drain"  in SyncClear,                           *)
(*   "starting", "idle", "stopped" before, between and after its calls,    *)
(*   "dead"      after a crash of its process.                             *)
(***************************************************************************)
EXTENDS Integers, Sequences, FiniteSets

CONSTANTS Producers, Consumers,
          NoOwner,
          SyncCount,     (* sync_count: the maximum of both semaphores     *)
          Timed,         (* endpoints that call with a finite ms           *)
          MutexTimed,    (* SetMutexTimeOut was given a finite time        *)
          MaxSends, MaxUnlocks, MaxClears, MaxStops, MaxCrashes, MaxStarts
                         (* bounds on how often the environment acts       *)

Endpoints == Producers \cup Consumers

ASSUME SyncAssumption ==
  /\ IsFiniteSet(Producers) /\ IsFiniteSet(Consumers)
  /\ Producers \cap Consumers = {}
  /\ NoOwner \notin Endpoints
  /\ SyncCount \in Nat \ {0}
  /\ Timed \subseteq Endpoints
  /\ MutexTimed \in BOOLEAN
  /\ MaxSends \in Nat

VARIABLES
  sem,        (* the counts of the two semaphores                   *)
  mutex,      (* owner, recursion depth, abandoned by a dead owner         *)
  queue,      (* the packets in the shared memory, oldest first            *)
  exit,       (* endpoints whose m_event_exit is signalled                 *)
  unlock,     (* endpoints whose m_event_unlock is signalled               *)
  stage,      (* how far Deactivate of the endpoint has come               *)
  running,    (* m_thread_running of the receive worker                    *)
  pc,
  packet,     (* the packet a sender offers                                *)
  seen,       (* the queue as the callback in progress read it             *)
  ret,        (* what the endpoint's last call returned                    *)
  iter,       (* loop counter of ResetSemaphore                            *)
  used,       (* environment actions spent, against their bounds           *)
  delivered,  (* history: the packets taken, in order                      *)
  lost,       (* history: tokens that left each semaphore for good         *)
  dirty,      (* history: the semaphores do not count the packets: a       *)
              (* SyncClear overlapped a call of another thread, or objects *)
              (* were made anew over the old memory                        *)
  overtaken   (* history: the mutex was made anew under a running callback *)

shared == <<sem, mutex, queue>>
events == <<exit, unlock, stage, running>>
local  == <<pc, packet, seen, ret, iter>>
ghost  == <<delivered, lost, dirty, overtaken>>
vars   == <<shared, events, local, used, ghost>>

NoPacket == 0
Packet == 1 .. MaxSends

(* Stages of Deactivate, in its order: the receive worker clears its       *)
(* running flag, then the exit event is set, then the handles are closed,  *)
(* and after the join the memory is.                                       *)
Active == 0  Stopping == 1  Signalled == 2  EventsClosed == 3
MutexClosed == 4  Closed == 5  Finalized == 6
(* 0 and the FailedCode values that the calls return. *)
Code == {"OK", "RecvDeactivated", "RecvUnlock", "SemaphoreTimeout", "MutexTimeout",
         "WaitForObjectFailed", "UserFuncFailed", "ReleaseSemaphoreFailed"}
Semaphores == {"producer", "consumer"}
Role(e)  == IF e \in Producers THEN "producer" ELSE "consumer"
Other(r) == IF r = "producer" THEN "consumer" ELSE "producer"

Token    == {"mutex", "entered", "callback", "post", "restore"}  (* a token is held *)
Clearing == {"fill", "drain", "endclear"}
Section  == {"entered", "callback", "post", "restore", "release"} \cup Clearing

Label == {"starting", "idle", "stopped", "dead", "sem", "clearwait"} \cup Token \cup Section

(* What is bounded in what the environment does. *)
Bounded == {"sends", "unlocks", "clears", "stops", "crashes", "starts"}

Holders == {e \in Endpoints : pc[e] \in Token}

(* Whose handles keep the named objects alive. *)
HasMutex(e)      == pc[e] # "dead" /\ stage[e] < MutexClosed
HasSemaphores(e) == pc[e] # "dead" /\ stage[e] < Closed
HasMemory(e)     == pc[e] # "dead" /\ stage[e] < Finalized

FreshSem == [r \in Semaphores |-> IF r = "producer" THEN SyncCount ELSE 0]
Owned(e, n) == [owner |-> e, depth |-> n, abandoned |-> FALSE]
FreeMutex == Owned(NoOwner, 0)
AbandonedMutex == [owner |-> NoOwner, depth |-> 0, abandoned |-> TRUE]
NoneLost == [r \in Semaphores |-> 0]

Goto(e, label) == pc' = [pc EXCEPT ![e] = label]
Return(e, code) == Goto(e, "idle") /\ ret' = [ret EXCEPT ![e] = code]
Lose(r) == lost' = [lost EXCEPT ![r] = @ + 1]
Spend(kind, max) ==
  used[kind] < max /\ used' = [used EXCEPT ![kind] = @ + 1]

(* WaitForMultipleObjects on a handle, exit and unlock when the handle is  *)
(* not signalled; with the event handles closed a new wait fails at once.  *)
Interrupted(e, timed, timeoutCode) ==
  \/ /\ e \in exit
     /\ Return(e, "RecvDeactivated")
     /\ UNCHANGED unlock
  \/ /\ e \notin exit /\ e \in unlock
     /\ Return(e, "RecvUnlock")
     /\ unlock' = unlock \ {e}            (* an auto-reset event            *)
  \/ /\ e \notin exit \cup unlock /\ timed
     /\ Return(e, timeoutCode)
     /\ UNCHANGED unlock

WaitFails(e) ==
  /\ stage[e] >= EventsClosed
  /\ Return(e, "WaitForObjectFailed")
  /\ UNCHANGED unlock

MutexFree(e) == ~mutex.abandoned /\ mutex.owner \in {NoOwner, e}
----------------------------------------------------------------------------
Init ==
  /\ sem = FreshSem /\ mutex = FreeMutex /\ queue = << >>
  /\ exit = {} /\ unlock = {}
  /\ stage = [e \in Endpoints |-> Active]
  /\ running = [c \in Consumers |-> FALSE]
  /\ \E absent \in SUBSET Producers :     (* clients that come later       *)
       pc = [e \in Endpoints |-> IF e \in absent THEN "dead"
                                ELSE IF e \in Producers THEN "idle" ELSE "starting"]
  /\ packet = [p \in Producers |-> NoPacket]
  /\ seen = [e \in Endpoints |-> << >>]
  /\ ret = [e \in Endpoints |-> "OK"]
  /\ iter = [c \in Consumers |-> 0]
  /\ used = [k \in Bounded |-> 0]
  /\ delivered = << >> /\ lost = NoneLost /\ dirty = FALSE /\ overtaken = FALSE

(* A sender writes its packet and calls SyncProducer. *)
SendPacket(p) ==
  /\ pc[p] = "idle" /\ stage[p] = Active
  /\ Spend("sends", MaxSends)
  /\ packet' = [packet EXCEPT ![p] = used["sends"] + 1]
  /\ Goto(p, "sem") /\ ret' = [ret EXCEPT ![p] = "OK"]
  /\ UNCHANGED <<shared, events, seen, iter, ghost>>

(* The receive thread sets its running flag itself, ...                    *)
ThreadStart(c) ==
  /\ pc[c] = "starting"
  /\ running' = [running EXCEPT ![c] = TRUE]
  /\ Goto(c, "idle")
  /\ UNCHANGED <<shared, exit, unlock, stage, packet, seen, ret, iter, used, ghost>>

(* Mutant: the loop trusts the return code alone. *)
LoopingOnCode(c) == ret[c] # "RecvDeactivated"

Looping(c) == running[c] /\ ret[c] # "RecvDeactivated"

(* ... calls SyncConsumer as long as the flag stands, ...                  *)
CallConsumer(c) ==
  /\ pc[c] = "idle" /\ Looping(c)
  /\ IF stage[c] >= EventsClosed
     THEN Return(c, "WaitForObjectFailed")
     ELSE Goto(c, "sem") /\ ret' = [ret EXCEPT ![c] = "OK"]
  /\ UNCHANGED <<shared, events, packet, seen, iter, used, ghost>>

(* ... and ends; Windows marks a mutex abandoned if its owner ends.        *)
ThreadEnd(c) ==
  /\ pc[c] = "idle" /\ ~Looping(c)
  /\ Goto(c, "stopped")
  /\ mutex' = IF mutex.owner = c THEN AbandonedMutex
              ELSE mutex
  /\ UNCHANGED <<sem, queue, events, packet, seen, ret, iter, used, ghost>>
----------------------------------------------------------------------------
(* The first wait: the semaphore wins over the events when it is           *)
(* signalled.  A thread that was already waiting when its endpoint was     *)
(* being closed gets the token and then fails on the closed mutex handle.  *)
TakeToken(e) ==
  /\ pc[e] = "sem" /\ HasSemaphores(e) /\ sem[Role(e)] > 0
  /\ sem' = [sem EXCEPT ![Role(e)] = @ - 1]
  /\ IF stage[e] >= EventsClosed
     THEN Return(e, "WaitForObjectFailed") /\ Lose(Role(e))
     ELSE Goto(e, "mutex") /\ UNCHANGED <<ret, lost>>
  /\ dirty' = (dirty \/ \E c \in Consumers : pc[c] \in {"fill", "drain"})
  /\ UNCHANGED <<mutex, queue, events, packet, seen, iter, used, delivered, overtaken>>

LeaveSemWait(e) ==
  /\ pc[e] = "sem"
  /\ \/ sem[Role(e)] = 0 /\ Interrupted(e, e \in Timed, "SemaphoreTimeout")
     \/ WaitFails(e)
  /\ UNCHANGED <<shared, exit, stage, running, packet, seen, iter, used, ghost>>

AcquireWhen(e, signalled) ==
  /\ pc[e] = "mutex" /\ HasMutex(e) /\ signalled
  /\ mutex' = Owned(e, mutex.depth + 1)
  /\ Goto(e, IF e \in Consumers /\ ~running[e] THEN "restore" ELSE "entered")
  /\ UNCHANGED <<sem, queue, events, packet, seen, ret, iter, used, ghost>>

(* Mutant: whatever ends the second wait, the callback runs. *)
AcquireMutexUnowned(e) == AcquireWhen(e, ~mutex.abandoned)

(* The second wait.  A receive worker that is being stopped leaves its     *)
(* callback at once.                                                       *)
AcquireMutex(e) == AcquireWhen(e, MutexFree(e))

(* The callback reads the shared indices. *)
ReadQueue(e) ==
  /\ pc[e] = "entered"
  /\ seen' = [seen EXCEPT ![e] = queue]
  /\ Goto(e, "callback")
  /\ UNCHANGED <<shared, events, packet, ret, iter, used, ghost>>

(* WAIT_ABANDONED_0 falls to the switch's default: the caller is told that *)
(* the wait failed, and owns the mutex.                                    *)
AcquireAbandoned(e) ==
  /\ pc[e] = "mutex" /\ HasMutex(e) /\ mutex.abandoned
  /\ mutex' = Owned(e, 1)
  /\ Return(e, "WaitForObjectFailed")
  /\ Lose(Role(e))
  /\ UNCHANGED <<sem, queue, events, packet, seen, iter, used, delivered, dirty, overtaken>>

(* Every other way out of the second wait drops the token.  WAIT_TIMEOUT   *)
(* falls through to the default case, which overwrites its return code.    *)
LeaveMutexWait(e) ==
  /\ pc[e] = "mutex"
  /\ \/ /\ ~mutex.abandoned /\ mutex.owner \notin {NoOwner, e}
        /\ Interrupted(e, MutexTimed, "WaitForObjectFailed")
     \/ WaitFails(e)
  /\ Lose(Role(e))
  /\ UNCHANGED <<shared, exit, stage, running, packet, seen, iter, used, delivered, dirty, overtaken>>

PushOrElse(p, failed) ==
  /\ pc[p] = "callback" /\ p \in Producers
  /\ \/ queue' = Append(seen[p], packet[p]) /\ Goto(p, "post")
     \/ Goto(p, failed) /\ UNCHANGED queue
  /\ UNCHANGED <<sem, mutex, events, packet, seen, ret, iter, used, ghost>>

(* Mutant: the callback's result is not looked at. *)
CallbackPushUnchecked(p) == PushOrElse(p, "post")

(* Push fails when the packet is longer than the free space, which depends *)
(* on the frames' sizes.                                                   *)
CallbackPush(p) == PushOrElse(p, "restore")

(* The receive worker takes the first packet, if there is one. *)
CallbackPop(c) ==
  /\ pc[c] = "callback" /\ c \in Consumers
  /\ IF seen[c] # << >>
     THEN /\ queue' = Tail(seen[c])
          /\ delivered' = Append(delivered, Head(seen[c]))
          /\ Goto(c, "post")
     ELSE /\ Goto(c, "restore")
          /\ UNCHANGED <<queue, delivered>>
  /\ UNCHANGED <<sem, mutex, events, packet, seen, ret, iter, used, lost, dirty, overtaken>>

PostThen(e, next) ==
  LET o == Other(Role(e))
  IN /\ pc[e] = "post"
     /\ IF stage[e] < Closed /\ sem[o] < SyncCount
        THEN sem' = [sem EXCEPT ![o] = @ + 1] /\ UNCHANGED lost
        ELSE Lose(o) /\ UNCHANGED sem
     /\ ret' = [ret EXCEPT ![e] = IF stage[e] < Closed THEN "OK"
                                  ELSE "ReleaseSemaphoreFailed"]
     /\ Goto(e, next)
     /\ UNCHANGED <<mutex, queue, events, packet, seen, iter, used, delivered, dirty, overtaken>>

(* Mutant: a lost else, the token is given back as well. *)
PostWithoutElse(e) == PostThen(e, "restore")

(* ReleaseSemaphore on the other side.  ERROR_TOO_MANY_POSTS is ignored, a *)
(* closed handle is reported.                                              *)
Post(e) == PostThen(e, "release")

RestoreAnswering(e, code) ==
  LET r == Role(e)
  IN /\ pc[e] = "restore"
     /\ IF stage[e] < Closed /\ sem[r] < SyncCount
        THEN sem' = [sem EXCEPT ![r] = @ + 1] /\ UNCHANGED lost
        ELSE Lose(r) /\ UNCHANGED sem
     /\ ret' = [ret EXCEPT ![e] = code]
     /\ Goto(e, "release")
     /\ UNCHANGED <<mutex, queue, events, packet, seen, iter, used, delivered, dirty, overtaken>>

(* Mutant: the failure is not returned. *)
RestoreSilently(e) == RestoreAnswering(e, "OK")

(* The callback failed: its token goes back.  The result is not looked at. *)
Restore(e) == RestoreAnswering(e, "UserFuncFailed")

Released ==
  IF mutex.depth = 1 THEN FreeMutex ELSE Owned(mutex.owner, mutex.depth - 1)

ReleaseBefore(e, closed) ==
  /\ pc[e] = "release"
  /\ mutex' = IF stage[e] < closed THEN Released ELSE mutex
  /\ Goto(e, "idle")
  /\ seen' = [seen EXCEPT ![e] = << >>]
  /\ UNCHANGED <<sem, queue, events, packet, ret, iter, used, ghost>>

(* Mutant: the mutex is not released. *)
ReleaseMutexMissing(e) == ReleaseBefore(e, Active)

(* ReleaseMutex does nothing once Deactivate has closed the handle. *)
ReleaseMutex(e) == ReleaseBefore(e, MutexClosed)
----------------------------------------------------------------------------
(* SyncClear: the receive worker may clear the queue before it starts its  *)
(* thread (queue_clear).                                                   *)
CallClear(c) ==
  /\ pc[c] = "starting" /\ stage[c] = Active
  /\ Spend("clears", MaxClears)
  /\ Goto(c, "clearwait")
  /\ UNCHANGED <<shared, events, packet, seen, ret, iter, ghost>>

ClearQueue(c) ==
  /\ pc[c] = "clearwait" /\ MutexFree(c)
  /\ mutex' = Owned(c, mutex.depth + 1)
  /\ queue' = << >>
  /\ iter' = [iter EXCEPT ![c] = 0]
  /\ lost' = NoneLost
  /\ dirty' = (overtaken \/ Holders # {})
  /\ Goto(c, "fill")
  /\ UNCHANGED <<sem, events, packet, seen, ret, used, delivered, overtaken>>

ClearFails(c) ==
  /\ pc[c] = "clearwait"
  /\ \/ /\ mutex.abandoned
        /\ mutex' = Owned(c, 1)
        /\ UNCHANGED unlock
     \/ /\ ~mutex.abandoned /\ mutex.owner \notin {NoOwner, c}
        /\ \/ c \in unlock /\ unlock' = unlock \ {c}
           \/ c \notin unlock /\ MutexTimed /\ UNCHANGED unlock
        /\ UNCHANGED mutex
  /\ Goto(c, "starting")
  /\ UNCHANGED <<sem, queue, exit, stage, running, packet, seen, ret, iter, used, ghost>>

(* ResetSemaphore, one system call at a time: producer up to its maximum,  *)
(* consumer down to zero; each loop runs at most SyncCount times.          *)
FillProducer(c) ==
  /\ pc[c] = "fill"
  /\ IF iter[c] < SyncCount /\ sem["producer"] < SyncCount
     THEN /\ sem' = [sem EXCEPT !["producer"] = @ + 1]
          /\ iter' = [iter EXCEPT ![c] = @ + 1]
          /\ UNCHANGED pc
     ELSE /\ iter' = [iter EXCEPT ![c] = 0]
          /\ Goto(c, "drain")
          /\ UNCHANGED sem
  /\ UNCHANGED <<mutex, queue, events, packet, seen, ret, used, ghost>>

DrainConsumer(c) ==
  /\ pc[c] = "drain"
  /\ IF iter[c] < SyncCount /\ sem["consumer"] > 0
     THEN /\ sem' = [sem EXCEPT !["consumer"] = @ - 1]
          /\ iter' = [iter EXCEPT ![c] = @ + 1]
          /\ UNCHANGED pc
     ELSE /\ iter' = [iter EXCEPT ![c] = 0]
          /\ Goto(c, "endclear")
          /\ UNCHANGED sem
  /\ UNCHANGED <<mutex, queue, events, packet, seen, ret, used, ghost>>

EndClear(c) ==
  /\ pc[c] = "endclear"
  /\ mutex' = Released
  /\ Goto(c, "starting")
  /\ UNCHANGED <<sem, queue, events, packet, seen, ret, iter, used, ghost>>
----------------------------------------------------------------------------
(* SendSyncUnlock, by another thread of the endpoint's process.  A send    *)
(* worker is used, unlocked and deleted under m_send_workers_mutex.        *)
SendSyncUnlock(e) ==
  /\ stage[e] < EventsClosed /\ pc[e] # "dead"
  /\ e \in Producers => pc[e] = "idle"
  /\ Spend("unlocks", MaxUnlocks)
  /\ unlock' = unlock \cup {e}
  /\ UNCHANGED <<shared, exit, stage, running, local, ghost>>

(* Deactivate: the receive worker clears its running flag, ...             *)
StopWorker(e) ==
  /\ stage[e] = Active
  /\ pc[e] \notin {"dead", "clearwait"} \cup Clearing
  /\ e \in Producers => pc[e] = "idle"
  /\ Spend("stops", MaxStops)
  /\ stage' = [stage EXCEPT ![e] = Stopping]
  /\ running' = [c \in Consumers |-> c # e /\ running[c]]
  /\ UNCHANGED <<shared, exit, unlock, local, ghost>>

(* ... the exit event is set ...                                           *)
SignalExit(e) ==
  /\ stage[e] = Stopping /\ pc[e] # "dead"
  /\ stage' = [stage EXCEPT ![e] = Signalled]
  /\ exit' = exit \cup {e}
  /\ UNCHANGED <<shared, unlock, running, local, used, ghost>>

(* ... and the handles are closed without waiting for the thread: events,  *)
(* mutex, semaphores.  ReleaseMutex succeeds only in the owning thread,    *)
(* which may be a sender's that was left with an abandoned mutex.          *)
CloseHandles(e) ==
  /\ stage[e] \in Signalled .. MutexClosed /\ pc[e] # "dead"
  /\ stage' = [stage EXCEPT ![e] = @ + 1]
  /\ \/ UNCHANGED mutex
     \/ /\ stage[e] = EventsClosed
        /\ e \in Producers /\ mutex.owner = e /\ pc[e] = "idle"
        /\ mutex' = Released
  /\ UNCHANGED <<sem, queue, exit, unlock, running, local, used, ghost>>

(* The receive worker's thread is joined, then the memory is closed. *)
Finalize(e) ==
  /\ stage[e] = Closed
  /\ pc[e] = IF e \in Consumers THEN "stopped" ELSE "idle"
  /\ stage' = [stage EXCEPT ![e] = Finalized]
  /\ exit' = exit \ {e} /\ unlock' = unlock \ {e}
  /\ UNCHANGED <<shared, running, local, used, ghost>>

(* The endpoint's process dies at any point: no token is given back.       *)
Crash(e) ==
  /\ pc[e] # "dead"
  /\ Spend("crashes", MaxCrashes)
  /\ Goto(e, "dead")
  /\ mutex' = IF mutex.owner = e THEN AbandonedMutex
              ELSE mutex
  /\ IF pc[e] \in Token
     THEN Lose(IF pc[e] = "post" THEN Other(Role(e)) ELSE Role(e))
     ELSE UNCHANGED lost
  /\ dirty' = (dirty \/ pc[e] \in {"fill", "drain"})
  /\ exit' = exit \ {e} /\ unlock' = unlock \ {e}
  /\ stage' = [stage EXCEPT ![e] = Active]
  /\ running' = [c \in Consumers |-> c # e /\ running[c]]
  /\ seen' = [seen EXCEPT ![e] = << >>] /\ ret' = [ret EXCEPT ![e] = "OK"]
  /\ UNCHANGED <<sem, queue, packet, iter, delivered, overtaken>>

(* Activate in a restarted process, or again in the same one.  A named     *)
(* object still exists, as it was left, if any endpoint has it open.       *)
Activate(e) ==
  /\ pc[e] = "dead" \/ stage[e] = Finalized
  /\ Spend("starts", MaxStarts)
  /\ Goto(e, IF e \in Producers THEN "idle" ELSE "starting")
  /\ stage' = [stage EXCEPT ![e] = Active]
  /\ exit' = exit \ {e} /\ unlock' = unlock \ {e}
  /\ running' = [c \in Consumers |-> c # e /\ running[c]]
  /\ ret' = [ret EXCEPT ![e] = "OK"]
  /\ sem' = IF \E f \in Endpoints : HasSemaphores(f) THEN sem ELSE FreshSem
  /\ mutex' = IF \E f \in Endpoints : HasMutex(f) THEN mutex ELSE FreeMutex
  /\ IF \E f \in Endpoints : HasMemory(f)
     THEN /\ UNCHANGED <<queue, delivered, lost>>
          /\ overtaken' = \/ overtaken
                          \/ /\ \A f \in Endpoints : ~HasMutex(f)
                             /\ \E f \in Endpoints : pc[f] \in Section
          /\ dirty' = (dirty \/ overtaken' \/ \A f \in Endpoints : ~HasSemaphores(f))
     ELSE /\ queue' = << >> /\ delivered' = << >> /\ lost' = NoneLost
          /\ dirty' = FALSE /\ overtaken' = FALSE
  /\ UNCHANGED <<packet, seen, iter>>
----------------------------------------------------------------------------
Calls(e) ==
  \/ TakeToken(e) \/ LeaveSemWait(e)
  \/ AcquireMutex(e) \/ AcquireAbandoned(e) \/ LeaveMutexWait(e)
  \/ ReadQueue(e) \/ CallbackPush(e) \/ CallbackPop(e)
  \/ Post(e) \/ Restore(e) \/ ReleaseMutex(e)

Clears(c) ==
  ClearQueue(c) \/ ClearFails(c) \/ FillProducer(c) \/ DrainConsumer(c) \/ EndClear(c)

Worker(c) == ThreadStart(c) \/ CallConsumer(c) \/ ThreadEnd(c)

Stops(e) == SignalExit(e) \/ CloseHandles(e) \/ Finalize(e)

Environment(e) ==
  SendSyncUnlock(e) \/ StopWorker(e) \/ Crash(e) \/ Activate(e)

Next ==
  \/ \E e \in Endpoints : Calls(e) \/ Stops(e) \/ Environment(e)
  \/ \E p \in Producers : SendPacket(p)
  \/ \E c \in Consumers : Worker(c) \/ CallClear(c) \/ Clears(c)

Spec == Init /\ [][Next]_vars

(* Threads and a Deactivate under way keep running; that a sender sends,   *)
(* or that anything is stopped, cleared, unlocked or restarted, is not     *)
(* promised.  Windows queues waiters in order, which strong fairness on    *)
(* the two successful waits stands for.                                    *)
Fairness ==
  /\ \A e \in Endpoints : /\ WF_vars(Calls(e)) /\ WF_vars(Stops(e))
                          /\ SF_vars(TakeToken(e)) /\ SF_vars(AcquireMutex(e))
  /\ \A c \in Consumers : WF_vars(Worker(c)) /\ WF_vars(Clears(c))

FairSpec == Spec /\ Fairness
----------------------------------------------------------------------------
TypeOK ==
  /\ sem \in [Semaphores -> 0 .. SyncCount]
  /\ mutex \in [owner : Endpoints \cup {NoOwner}, depth : Nat, abandoned : BOOLEAN]
  /\ queue \in Seq(Packet)
  /\ exit \in SUBSET Endpoints
  /\ unlock \in SUBSET Endpoints
  /\ stage \in [Endpoints -> Active .. Finalized]
  /\ running \in [Consumers -> BOOLEAN]
  /\ pc \in [Endpoints -> Label]
  /\ packet \in [Producers -> Packet \cup {NoPacket}]
  /\ seen \in [Endpoints -> Seq(Packet)]
  /\ ret \in [Endpoints -> Code]
  /\ iter \in [Consumers -> 0 .. SyncCount]
  /\ used \in [Bounded -> Nat]
  /\ delivered \in Seq(Packet)
  /\ lost \in [Semaphores -> Nat]
  /\ dirty \in BOOLEAN /\ overtaken \in BOOLEAN

(* No two endpoints are between taking and releasing the mutex at once,    *)
(* and the callback works on the queue as it is: nobody changes it between *)
(* the callback's reads and its writes, whatever crash, closed handle or   *)
(* abandoned mutex came before.  The one exception is a receive worker     *)
(* whose Deactivate closed the last handle of the mutex while its callback *)
(* ran: who then makes a new mutex meets it in the queue.  Those that have *)
(* the mutex open exclude each other even then.                            *)
MutualExclusion ==
  /\ \A e, f \in Endpoints :
       /\ pc[e] \in Section /\ pc[f] \in Section
       /\ overtaken => HasMutex(e) /\ HasMutex(f)
       => e = f
  /\ ~overtaken => \A e \in Endpoints : pc[e] = "callback" => seen[e] = queue

(* The mutex is there to make the queue a critical section, so that nobody *)
(* is in it together with somebody else.                                   *)
QueueIsCriticalSection ==
  \A e, f \in Endpoints : pc[e] \in Section /\ pc[f] \in Section => e = f

(* ResetSemaphore is between its two ends. *)
Resetting == \E c \in Consumers : pc[c] \in {"fill", "drain"}

(* Each of the SyncCount tokens is in a semaphore, in the hands of one     *)
(* call, or was dropped by a call that failed between its two waits, by a  *)
(* closed handle or by a crash.  A token is never made up, unless a        *)
(* SyncClear refills the semaphores while other calls hold tokens, or they *)
(* are made anew over a queue in use; and a later undisturbed SyncClear    *)
(* brings back all of them.                                                *)
TokenBalance ==
  ~dirty /\ ~Resetting =>
    sem["producer"] + sem["consumer"] + Cardinality(Holders)
      + lost["producer"] + lost["consumer"] = SyncCount

(* The calls that hold a token for a packet which is in the queue: a       *)
(* receiver that has not popped yet, a sender that has not posted yet.     *)
PacketHolders ==
  {c \in Consumers : pc[c] \in {"mutex", "entered", "callback", "restore"}}
    \cup {p \in Producers : pc[p] = "post"}

(* Every packet in the queue has its token, except as many as consumer     *)
(* tokens were dropped: those packets wait for later ones to push them out.*)
PacketBalance ==
  ~dirty /\ ~Resetting =>
    Len(queue) = sem["consumer"] + Cardinality(PacketHolders) + lost["consumer"]

(* A receiver that got a token and the mutex finds a packet: the receive   *)
(* loop never spins on an empty queue.                                     *)
NoEmptyRead ==
  \A c \in Consumers : pc[c] = "callback" /\ ~dirty => seen[c] # << >>

(* What a sender is told is what happened: its packet is in the queue      *)
(* exactly when SyncProducer returns 0, unless another thread was in the   *)
(* queue with it.                                                          *)
AnswerIsTrue ==
  [][\A p \in Producers :
       ~overtaken /\ pc[p] \in {"sem", "mutex", "release"} /\ pc'[p] = "idle" =>
         (ret'[p] = "OK" <=> \E i \in DOMAIN queue : queue[i] = packet[p])]_vars

(* The transport is one FIFO of packets across all senders and receivers,  *)
(* until two threads are in the queue together; then it counts as gone,    *)
(* until the last process has closed the memory.                           *)
Channel == INSTANCE PacketChannel WITH
             channel <- IF overtaken THEN << >> ELSE queue,
             delivered <- IF overtaken THEN << >> ELSE delivered
ChannelSpec == Channel!Spec

(* Somebody crashed, cleared, unlocked, stopped or was started again. *)
Interfered == \E k \in Bounded \ {"sends"} : used[k] > 0

(* Every packet that got into the queue is received, as long as nobody     *)
(* crashes, clears, unlocks or is stopped.                                 *)
EveryPacketArrives ==
  \A k \in Packet : (\E i \in DOMAIN queue : queue[i] = k)
                      ~> Interfered \/ \E i \in DOMAIN delivered : delivered[i] = k

(* A receive worker that is told to stop, once its thread has started,     *)
(* ends, so Deactivate's join returns: whatever the other processes hold,  *)
(* drop or leave abandoned.                                                *)
WorkerStops ==
  \A c \in Consumers :
    (pc[c] \notin {"starting", "dead"} /\ stage[c] # Active /\ ~running[c])
      ~> (pc[c] \in {"stopped", "dead"})

(* A send returns, with success or failure, as long as nobody interferes:  *)
(* the wait on the mutex has no end of its own (SetMutexTimeOut has no     *)
(* caller).                                                                *)
SendReturns ==
  \A p \in Producers : pc[p] # "idle" ~> pc[p] \in {"idle", "dead"} \/ Interfered
=============================================================================
