---------------------------- MODULE SendManager ----------------------------
(***************************************************************************)
(* SendWorkerManager, the list of a camera's clients, and the threads that *)
(* use it: the receive worker, which runs the packet handlers of Camera,   *)
(* the repeat worker, which restarts a stream that is silent, a decoder's  *)
(* thread for each stream, and main, which shuts the camera down.          *)
(*                                                                         *)
(* m_send_workers_mutex is held for the whole of a send to all clients.    *)
(* SyncProducer waits for a place in a client's queue, for so long, and    *)
(* then for the mutex of the queue, without a limit; whoever gets it as an *)
(* abandoned one fails and keeps it until its thread ends.  A client's     *)
(* handles stay open or are opened again.  How a stream stops and starts is*)
(* StreamSession's subject: here a stop waits until the decoder's thread   *)
(* is outside SendFrame, and a start may fail.  What a frame is converted  *)
(* to (SetDecodeFrameInfo, frame_type) is left out.                        *)
(***************************************************************************)
EXTENDS Naturals, Sequences

CONSTANTS
  Clients,       (* the names of the clients' queues                       *)
  Streams,
  NoStream,      (* stream_index -1                                        *)
  SyncCount,     (* packets a client's queue holds                         *)
  MaxEvents      (* bound: packets the camera receives, restarts by the    *)
                 (* check timer and deaths of clients, in one behaviour    *)

ASSUME SendAssumption ==
  /\ NoStream \notin Streams
  /\ ({NoStream} \cup Streams)
       \cap {"none", "recv", "check", "main", "free", "abandoned", "client"} = {}
  /\ SyncCount \in Nat \ {0}
  /\ MaxEvents \in Nat

Threads == {"recv", "check", "main"} \cup Streams

VARIABLES
  workers,    (* m_send_workers                                            *)
  lock,       (* the thread that holds m_send_workers_mutex, or "none"     *)
  pc,         (* where each thread is                                      *)
  job,        (* what it works on: the client, the stream, the subscription*)
              (* asked for, the streams of the file still to be loaded     *)
  sending,    (* the packet it sends to the clients, or "none"             *)
  at,         (* its place in m_send_workers while it sends                *)
  active,     (* the streams whose decoder's thread runs                   *)
  held,       (* the packets in each client's queue                        *)
  places,     (* its producer semaphore                                    *)
  mutex,      (* who has its mutex: a thread here, or the client           *)
  events

loop == <<sending, at>>
queues == <<held, places, mutex>>
outside == <<active, queues, events>>
vars == <<workers, lock, pc, job, loop, outside>>

(* SendWorkInfo, and m_event_unlock of its sender. *)
NewWorker(c) == [name |-> c, stream |-> NoStream, streaming |-> FALSE, unlock |-> FALSE]

NoJob == [client |-> "none", stream |-> NoStream, on |-> FALSE, left |-> {}]
Fresh(t) == IF t \in Streams THEN [NoJob EXCEPT !.stream = t] ELSE NoJob

Init ==
  /\ workers = << >> /\ lock = "none"
  /\ pc = [t \in Threads |-> "idle"]
  /\ job = [t \in Threads |-> Fresh(t)]
  /\ sending = [t \in Threads |-> "none"] /\ at = [t \in Threads |-> 0]
  /\ active = {} /\ events = 0
  /\ held = [c \in Clients |-> 0] /\ places = [c \in Clients |-> SyncCount]
  /\ mutex = [c \in Clients |-> "free"]

Exists(c) == \E i \in DOMAIN workers : workers[i].name = c
CanTake(t) == lock \in {"none", t}          (* the mutex is recursive      *)
Step(t, from, to) == pc[t] = from /\ pc' = [pc EXCEPT ![t] = to]
Leave(t, to) == job' = [job EXCEPT ![t] = IF to = "idle" THEN Fresh(t) ELSE @]
----------------------------------------------------------------------------
(* SendStreamStatus, SendFrame and SendProcessInfo: the place from which a *)
(* thread calls them gives the packet, and the packet where it goes on.    *)
PacketAt == [info |-> "ProcessInfo", ready |-> "READY", no_signal |-> "NO_SIGNAL",
             reconnect |-> "RECONNECT", frame |-> "Frame"]
After == [ProcessInfo |-> "idle", READY |-> "add_work", NO_SIGNAL |-> "reconnect",
          RECONNECT |-> "idle", Frame |-> "idle"]

Wants(w, kind, j) ==
  CASE kind = "Frame"       -> w.streaming /\ w.stream = j.stream
    [] kind = "ProcessInfo" -> w.name = j.client
    [] OTHER                -> TRUE

BeginWhen(t, free) ==
  /\ pc[t] \in DOMAIN PacketAt /\ free
  /\ lock' = t
  /\ sending' = [sending EXCEPT ![t] = PacketAt[pc[t]]]
  /\ at' = [at EXCEPT ![t] = 1]
  /\ pc' = [pc EXCEPT ![t] = "choose"]
  /\ UNCHANGED <<workers, job, outside>>

(* Mutant: the list is walked without the mutex. *)
BeginSendUnlocked(t) == BeginWhen(t, TRUE)

BeginSend(t) == BeginWhen(t, CanTake(t))

Choose(t) ==
  /\ pc[t] = "choose" /\ at[t] \in DOMAIN workers
  /\ IF Wants(workers[at[t]], sending[t], job[t])
     THEN pc' = [pc EXCEPT ![t] = "send"] /\ UNCHANGED at
     ELSE at' = [at EXCEPT ![t] = @ + 1] /\ UNCHANGED pc
  /\ UNCHANGED <<workers, lock, job, sending, outside>>

Client(t) == workers[at[t]].name

(* SyncProducer: the wait for a place.                                     *)
GetPlace(t) ==
  /\ Step(t, "send", "push") /\ at[t] \in DOMAIN workers
  /\ places[Client(t)] > 0
  /\ places' = [places EXCEPT ![Client(t)] = @ - 1]
  /\ UNCHANGED <<workers, lock, job, loop, active, held, mutex, events>>

(* The next entry; SendProcessInfo leaves its loop. *)
GoOn(t, from) ==
  /\ Step(t, from, "choose") /\ at[t] \in DOMAIN workers
  /\ at' = [at EXCEPT ![t] = IF sending[t] = "ProcessInfo" THEN Len(workers) + 1 ELSE @ + 1]
  /\ UNCHANGED <<lock, job, sending, active, events>>

GiveUp(t, from) ==
  /\ GoOn(t, from)
  /\ workers' = [workers EXCEPT ![at[t]].unlock = FALSE]

FailWhen(t, ends) ==
  /\ GiveUp(t, "send") /\ places[Client(t)] = 0 /\ ends
  /\ UNCHANGED queues

(* Mutant: the send waits for room without a limit. *)
NotPushedInfinite(t) == FailWhen(t, workers[at[t]].unlock)

(* The unlock event ends the wait for room at once, and is reset; without  *)
(* it the wait ends after 10 or 100 ms.                                    *)
NotPushed(t) == FailWhen(t, TRUE)

Post(c) == places' = [places EXCEPT ![c] = IF @ < SyncCount THEN @ + 1 ELSE @]

(* The wait for the mutex of the queue, which a thread may have already.   *)
(* The queue may have no room; then the place is given back.               *)
Pushed(t) ==
  /\ GoOn(t, "push") /\ mutex[Client(t)] \in {"free", t}
  /\ \/ held' = [held EXCEPT ![Client(t)] = @ + 1] /\ UNCHANGED places
     \/ Post(Client(t)) /\ UNCHANGED held
  /\ UNCHANGED <<workers, mutex>>

(* WAIT_ABANDONED is a failure that leaves the mutex with the thread, and  *)
(* the place is lost, as it is when an unlock ends the wait.               *)
PushAbandoned(t) ==
  /\ GoOn(t, "push") /\ mutex[Client(t)] = "abandoned"
  /\ mutex' = [mutex EXCEPT ![Client(t)] = t]
  /\ UNCHANGED <<workers, held, places>>

Kept(t) == mutex[Client(t)] \notin {"free", "abandoned", t}

PushUnlocked(t) ==
  /\ GiveUp(t, "push") /\ Kept(t) /\ workers[at[t]].unlock
  /\ UNCHANGED queues

EndSend(t) ==
  /\ Step(t, "choose", After[sending[t]]) /\ at[t] \notin DOMAIN workers
  /\ lock' = "none"
  /\ sending' = [sending EXCEPT ![t] = "none"] /\ at' = [at EXCEPT ![t] = 0]
  /\ Leave(t, After[sending[t]])
  /\ UNCHANGED <<workers, outside>>

Send(t) ==
  \/ BeginSend(t) \/ Choose(t) \/ EndSend(t)
  \/ GetPlace(t) \/ NotPushed(t)
  \/ Pushed(t) \/ PushAbandoned(t) \/ PushUnlocked(t)
----------------------------------------------------------------------------
(* What uses the list for one step under the mutex.                        *)
Locked(t) == CanTake(t) /\ UNCHANGED <<lock, loop, outside>>

Unlock(i) == [workers[i] EXCEPT !.unlock = TRUE]

UnlockSendWork(s) ==
  workers' = [i \in DOMAIN workers |->
                IF s \in {NoStream, workers[i].stream} THEN Unlock(i) ELSE workers[i]]

(* A packet of the camera's queue, with what it asks for.                  *)
Receive(to, j) ==
  /\ Step("recv", "idle", to) /\ pc["main"] \notin {"stop_streams", "ended"}
  /\ events < MaxEvents
  /\ events' = events + 1
  /\ job' = [job EXCEPT !["recv"] = j]
  /\ UNCHANGED <<workers, lock, loop, active, queues>>

ProcessInfoReq(c) == Receive("exists", [NoJob EXCEPT !.client = c])
StreamRequest(c, s, on) ==
  Receive("set_frame", [NoJob EXCEPT !.client = c, !.stream = s, !.on = on])
StreamInfo(used) == Receive("load", [NoJob EXCEPT !.left = used])

(* InsertSendWork: the look-up and the insertion are apart. *)
LookUpThen(to) ==
  /\ Step("recv", "exists", to) /\ Locked("recv")
  /\ UNCHANGED <<workers, job>>

(* Mutant: a client that is known is inserted again. *)
IsExistSendWorkNever == LookUpThen("insert")

IsExistSendWork == LookUpThen(IF Exists(job["recv"].client) THEN "info" ELSE "insert")

(* The sender's activation may fail; the process info is sent all the same. *)
InsertSendWork ==
  /\ Step("recv", "insert", "info") /\ Locked("recv")
  /\ \/ workers' = Append(workers, NewWorker(job["recv"].client))
     \/ UNCHANGED workers
  /\ UNCHANGED job

(* The first entry of that name. *)
Subscribed(i) ==
  /\ workers[i].name = job["recv"].client
  /\ \A k \in 1..(i - 1) : workers[k].name # job["recv"].client

SetFrameInfoWhen(free) ==
  /\ Step("recv", "set_frame", "unlock") /\ free
  /\ workers' = [i \in DOMAIN workers |->
                   IF Subscribed(i)
                   THEN [workers[i] EXCEPT !.stream = job["recv"].stream,
                                           !.streaming = job["recv"].on]
                   ELSE workers[i]]
  /\ UNCHANGED <<lock, job, loop, outside>>

(* Mutant: a subscription changes without the mutex. *)
SetFrameInfoUnlocked == SetFrameInfoWhen(TRUE)

SetFrameInfo == SetFrameInfoWhen(CanTake("recv"))

RequestUnlocks ==
  /\ Step("recv", "unlock", "idle") /\ Locked("recv")
  /\ UnlockSendWork(job["recv"].stream)
  /\ Leave("recv", "idle")
----------------------------------------------------------------------------
(* LoadCamerasPbFile, for each stream of the file that is used.            *)
LoadStream(s) ==
  /\ Step("recv", "load", "stop") /\ s \in job["recv"].left
  /\ Locked("recv")
  /\ UnlockSendWork(s)
  /\ job' = [job EXCEPT !["recv"].stream = s, !["recv"].left = @ \ {s}]

(* A thread that ends abandons the mutex it kept. *)
Ends(t) == mutex' = [c \in Clients |-> IF mutex[c] = t THEN "abandoned" ELSE mutex[c]]

(* Streamer::Deactivate and Activate, by the receive or the repeat worker. *)
StopStream(t) ==
  /\ Step(t, "stop", "start") /\ pc[job[t].stream] = "idle"
  /\ active' = active \ {job[t].stream}
  /\ Ends(job[t].stream)
  /\ UNCHANGED <<workers, lock, job, loop, held, places, events>>

StartStream(t) ==
  /\ Step(t, "start", IF t = "recv" THEN "ready" ELSE "no_signal")
  /\ active' \in {active, active \cup {job[t].stream}}
  /\ UNCHANGED <<workers, lock, job, loop, queues, events>>

(* AddWork takes m_queue_repeat_mutex, which is held while a work runs.    *)
AddCheck ==
  /\ Step("recv", "add_work", "load") /\ pc["check"] = "idle"
  /\ UNCHANGED <<workers, lock, job, loop, outside>>

LoadEnds ==
  /\ Step("recv", "load", "idle") /\ job["recv"].left = {}
  /\ Leave("recv", "idle")
  /\ UNCHANGED <<workers, lock, loop, outside>>

(* OnTimerCheckStream, for an active stream that has been silent for 3 s.  *)
CheckStream(s) ==
  /\ Step("check", "idle", "stop") /\ s \in active
  /\ pc["main"] \notin {"join_recv", "stop_streams", "ended"}
  /\ events < MaxEvents
  /\ events' = events + 1
  /\ job' = [job EXCEPT !["check"].stream = s]
  /\ UNCHANGED <<workers, lock, loop, active, queues>>

(* The decoder's thread calls OnVideoDecompress. *)
Decoded(s) ==
  /\ Step(s, "idle", "frame") /\ s \in active
  /\ UNCHANGED <<workers, lock, job, loop, outside>>
----------------------------------------------------------------------------
(* Camera::Deactivate.                                                     *)
UnlockAll ==
  /\ Step("main", "idle", "clear") /\ Locked("main")
  /\ UnlockSendWork(NoStream)
  /\ UNCHANGED job

ClearTaking(holder) ==
  /\ Step("main", "clear", "join_check") /\ CanTake("main")
  /\ workers' = << >>
  /\ lock' = holder
  /\ UNCHANGED <<job, loop, outside>>

(* Mutant: main keeps the mutex while it stops the threads. *)
ClearSendWorkHolding == ClearTaking("main")

ClearSendWork == ClearTaking(lock)

Joins(t, from, to, quiet) ==
  /\ Step("main", from, to) /\ quiet
  /\ Ends(t)
  /\ UNCHANGED <<workers, lock, job, loop, active, held, places, events>>

(* Mutant: main does not wait for the receive worker. *)
JoinWorkersHasty ==
  \/ Joins("check", "join_check", "join_recv", pc["check"] = "idle")
  \/ Joins("recv", "join_recv", "stop_streams", TRUE)

JoinWorkers ==
  \/ Joins("check", "join_check", "join_recv", pc["check"] = "idle")
  \/ Joins("recv", "join_recv", "stop_streams", pc["recv"] = "idle")

StopStreams ==
  \/ \E s \in active :
       /\ pc["main"] = "stop_streams" /\ pc[s] = "idle"
       /\ active' = active \ {s}
       /\ Ends(s)
       /\ UNCHANGED <<workers, lock, pc, job, loop, held, places, events>>
  \/ Step("main", "stop_streams", "ended") /\ active = {} /\ UNCHANGED <<workers, lock, job, loop, outside>>

(* A client may stop to read at any time. *)
Read(c) ==
  /\ held[c] > 0 /\ mutex[c] \in {"free", "client"}
  /\ held' = [held EXCEPT ![c] = @ - 1]
  /\ Post(c)
  /\ UNCHANGED <<workers, lock, pc, job, loop, active, mutex, events>>

(* It may die while it reads, and abandon the mutex; the next one of that  *)
(* name gets it as the camera's threads do, and keeps it.                  *)
Dies(c) ==
  /\ mutex[c] \in {"free", "client"} /\ events < MaxEvents
  /\ mutex' = [mutex EXCEPT ![c] = "abandoned"]
  /\ events' = events + 1
  /\ UNCHANGED <<workers, lock, pc, job, loop, active, held, places>>

ReadAbandoned(c) ==
  /\ held[c] > 0 /\ mutex[c] = "abandoned"
  /\ mutex' = [mutex EXCEPT ![c] = "client"]
  /\ UNCHANGED <<workers, lock, pc, job, loop, active, held, places, events>>
----------------------------------------------------------------------------
Requests ==
  \/ \E c \in Clients :
       ProcessInfoReq(c) \/ \E s \in Streams, on \in BOOLEAN : StreamRequest(c, s, on)
  \/ \E used \in SUBSET Streams : StreamInfo(used)

Handlers ==
  \/ IsExistSendWork \/ InsertSendWork \/ SetFrameInfo \/ RequestUnlocks
  \/ AddCheck \/ LoadEnds \/ \E s \in Streams : LoadStream(s)

Restarts(t) == StopStream(t) \/ StartStream(t)

Stops == ClearSendWork \/ JoinWorkers \/ StopStreams

Next ==
  \/ Requests \/ Handlers \/ UnlockAll \/ Stops
  \/ \E t \in {"recv", "check"} : Restarts(t)
  \/ \E t \in Threads : Send(t)
  \/ \E s \in Streams : Decoded(s) \/ CheckStream(s)
  \/ \E c \in Clients : Read(c) \/ Dies(c) \/ ReadAbandoned(c)

Spec == Init /\ [][Next]_vars

(* A thread goes on, and gets the mutex it waits for: its other users let  *)
(* it go between two frames.  A decoder that is told to stop makes no      *)
(* further round.  No request, check, frame or read has to come, and no    *)
(* mutex of a queue has to be given back.                                  *)
Fairness ==
  /\ SF_vars(Handlers \/ Restarts("recv") \/ Send("recv"))
  /\ SF_vars(Restarts("check") \/ Send("check"))
  /\ SF_vars(Stops)
  /\ \A s \in Streams : SF_vars(Send(s))

FairSpec == Spec /\ Fairness
----------------------------------------------------------------------------
(* Every variable keeps its range. *)
TypeOK ==
  /\ workers \in Seq([name : Clients, stream : Streams \cup {NoStream},
                      streaming : BOOLEAN, unlock : BOOLEAN])
  /\ lock \in Threads \cup {"none"}
  /\ pc \in [Threads -> {"idle", "choose", "send", "push", "exists", "insert", "set_frame",
                         "unlock", "load", "stop", "start", "add_work", "clear",
                         "join_check", "join_recv", "stop_streams", "ended"}
                        \cup DOMAIN PacketAt]
  /\ job \in [Threads -> [client : Clients \cup {"none"},
                          stream : Streams \cup {NoStream},
                          on : BOOLEAN, left : SUBSET Streams]]
  /\ sending \in [Threads -> DOMAIN After \cup {"none"}]
  /\ at \in [Threads -> Nat]
  /\ active \subseteq Streams
  /\ held \in [Clients -> Nat] /\ places \in [Clients -> 0..SyncCount]
  /\ mutex \in [Clients -> {"free", "abandoned", "client"} \cup Threads]
  /\ events \in 0..MaxEvents

Sends(t) == pc[t] \in {"choose", "send", "push"}

(* A sender's packet buffer is written by one thread at a time, although   *)
(* decoders, the receive worker and the repeat worker all send.            *)
OneSender == \A t, u \in Threads : Sends(t) /\ Sends(u) => t = u

(* The client that a thread chose is there, and wants the packet, until it *)
(* is sent: a client that ended its subscription, or was taken off the     *)
(* list, gets no frame after that.                                         *)
SendsToSubscriber ==
  \A t \in Threads : pc[t] \in {"send", "push"} =>
    at[t] \in DOMAIN workers /\ Wants(workers[at[t]], sending[t], job[t])

(* A client has one sender, however often it asks for the process info:    *)
(* the look-up and the insertion are two critical sections.                *)
OneWorkerPerClient ==
  \A i, k \in DOMAIN workers : workers[i].name = workers[k].name => i = k

(* When Camera::Deactivate is over, no stream runs and no thread is in a   *)
(* handler, whatever file was being loaded when it began.                  *)
QuietAtEnd ==
  pc["main"] = "ended" =>
    active = {} /\ \A t \in Threads \ {"main"} : pc[t] = "idle"

(* A thread waits for the mutex of a queue that somebody else keeps; only  *)
(* the end of that one ends this wait.                                     *)
Stuck ==
  \E t \in Threads :
    pc[t] = "push" /\ at[t] \in DOMAIN workers /\ Kept(t) /\ ~workers[at[t]].unlock

(* A client that reads no more does not hold up the others: a send to all  *)
(* clients ends, unless a thread waits for ever for a mutex that is kept.  *)
SendEnds == []<>~Stuck => (lock # "none" ~> lock = "none")

(* Camera::Deactivate returns, whatever the other threads were about, with *)
(* the same exception.                                                     *)
ShutdownEnds == []<>~Stuck => (pc["main"] = "clear" ~> pc["main"] = "ended")
=============================================================================
