------------------------- MODULE SendManagerProofs -------------------------
(***************************************************************************)
(* Proofs about SendManager, for every number of clients, streams, slots   *)
(* and events: who sends, to whom, and what is left after the shutdown.    *)
(***************************************************************************)
EXTENDS SendManager, TLAPS

Entries == [name : Clients, stream : Streams \cup {NoStream},
            streaming : BOOLEAN, unlock : BOOLEAN]
Jobs == [client : Clients \cup {"none"}, stream : Streams \cup {NoStream},
         on : BOOLEAN, left : SUBSET Streams]
Places == {"idle", "choose", "send", "push", "exists", "insert", "set_frame",
           "unlock", "load", "stop", "start", "add_work", "clear",
           "join_check", "join_recv", "stop_streams", "ended"} \cup DOMAIN PacketAt

(* Who looks up or inserts has a client, who restarts has a stream, and    *)
(* who sends has a packet.                                                 *)
JobsKnown ==
  /\ pc["recv"] \in {"exists", "insert"} => job["recv"].client \in Clients
  /\ \A t \in {"recv", "check"} : pc[t] \in {"stop", "start"} => job[t].stream \in Streams
SendingKnown == \A t \in Threads : Sends(t) => sending[t] \in DOMAIN After

TypeInv == TypeOK /\ JobsKnown /\ SendingKnown

(* The mutex is held across steps by a sender, and by nobody else. *)
LockHeld == \A t \in Threads : Sends(t) <=> lock = t

(* Between the look-up and the insertion, the client stays unknown. *)
InsertsNew == pc["recv"] = "insert" => ~Exists(job["recv"].client)
OneClient == InsertsNew /\ OneWorkerPerClient

(* What each join of Camera::Deactivate has found stays so. *)
ActiveRuns == \A s \in Streams : pc[s] # "idle" => s \in active
Joined ==
  /\ pc["main"] \in {"join_recv", "stop_streams", "ended"} => pc["check"] = "idle"
  /\ pc["main"] \in {"stop_streams", "ended"} => pc["recv"] = "idle"
  /\ pc["main"] = "ended" => active = {}
Quiet == ActiveRuns /\ Joined
----------------------------------------------------------------------------
LEMMA Names ==
  /\ {"recv", "check", "main"} \subseteq Threads /\ Streams \subseteq Threads
  /\ "none" \notin Threads
  /\ \A s \in Streams : s \notin {"recv", "check", "main"}
<1>1. \A s \in Streams : s \notin {"none", "recv", "check", "main"}
  BY SendAssumption
<1> QED
  BY <1>1 DEF Threads

LEMMA AllPlaces ==
  /\ DOMAIN PacketAt = {"info", "ready", "no_signal", "reconnect", "frame"}
  /\ DOMAIN After = {"ProcessInfo", "READY", "NO_SIGNAL", "RECONNECT", "Frame"}
  /\ \A p \in DOMAIN PacketAt : PacketAt[p] \in DOMAIN After
  /\ \A k \in DOMAIN After : After[k] \in {"idle", "add_work", "reconnect"}
  BY DEF PacketAt, After

LEMMA TypesSay ==
  ASSUME TypeOK
  PROVE  /\ workers \in Seq(Entries) /\ pc \in [Threads -> Places] /\ job \in [Threads -> Jobs]
         /\ \A i \in DOMAIN workers : workers[i] \in Entries /\ workers[i].name \in Clients
<1>1. workers \in Seq(Entries) /\ pc \in [Threads -> Places] /\ job \in [Threads -> Jobs]
  BY DEF TypeOK, Entries, Jobs, Places
<1>2. \A i \in DOMAIN workers : workers[i] \in Entries
  BY <1>1
<1> QED
  BY <1>1, <1>2 DEF Entries

LEMMA JobTypes ==
  /\ NoJob \in Jobs /\ \A t \in Threads : Fresh(t) \in Jobs
  /\ \A j \in Jobs : \A s \in Streams : [j EXCEPT !.stream = s] \in Jobs
<1>1. NoJob \in Jobs
  BY DEF NoJob, Jobs
<1>2. \A j \in Jobs : \A s \in Streams : [j EXCEPT !.stream = s] \in Jobs
  BY DEF Jobs
<1> QED
  BY <1>1, <1>2 DEF Fresh

(* What an unlock, a subscription and a failed send leave of the list. *)
SameClients ==
  /\ workers' \in Seq(Entries) /\ DOMAIN (workers') = DOMAIN workers
  /\ \A i \in DOMAIN workers : (workers'[i]).name = workers[i].name

LEMMA UnlockKeepsClients ==
  ASSUME TypeOK, NEW s, UnlockSendWork(s)
  PROVE  SameClients
<1>1. \A i \in DOMAIN workers :
        workers[i] \in Entries /\ Unlock(i) \in Entries /\ Unlock(i).name = workers[i].name
  BY TypesSay DEF Unlock, Entries
<1>2. DOMAIN workers = 1..Len(workers) /\ Len(workers) \in Nat
  BY TypesSay
<1>3. DOMAIN (workers') = DOMAIN workers
  BY DEF UnlockSendWork
<1>4. \A i \in DOMAIN workers :
        workers'[i] \in Entries /\ (workers'[i]).name = workers[i].name
  BY <1>1 DEF UnlockSendWork
<1>5. workers' \in Seq(Entries)
  BY <1>1, <1>2 DEF UnlockSendWork
<1> QED
  BY <1>3, <1>4, <1>5 DEF SameClients

LEMMA SubscribeKeepsClients ==
  ASSUME TypeOK, SetFrameInfo
  PROVE  SameClients
<1> DEFINE w(i) == [workers[i] EXCEPT !.stream = job["recv"].stream,
                                      !.streaming = job["recv"].on]
<1>1. job["recv"] \in Jobs
  BY TypesSay, Names
<1>2. \A i \in DOMAIN workers :
        workers[i] \in Entries /\ w(i) \in Entries /\ w(i).name = workers[i].name
  BY <1>1, TypesSay DEF Entries, Jobs
<1>3. DOMAIN workers = 1..Len(workers) /\ Len(workers) \in Nat
  BY TypesSay
<1>4. workers' = [i \in DOMAIN workers |-> IF Subscribed(i) THEN w(i) ELSE workers[i]]
  BY DEF SetFrameInfo, SetFrameInfoWhen
<1> HIDE DEF w
<1>5. \A i \in DOMAIN workers :
        workers'[i] \in Entries /\ (workers'[i]).name = workers[i].name
  BY <1>2, <1>4
<1>6. workers' \in Seq(Entries)
  BY <1>2, <1>3, <1>4
<1> QED
  BY <1>4, <1>5, <1>6 DEF SameClients

LEMMA FailureKeepsClients ==
  ASSUME TypeOK, NEW t \in Threads, NEW from, GiveUp(t, from)
  PROVE  SameClients
<1> DEFINE w == [workers[at[t]] EXCEPT !.unlock = FALSE]
<1>1. at[t] \in DOMAIN workers /\ workers' = [workers EXCEPT ![at[t]] = w]
  BY DEF GiveUp, GoOn
<1>2. w \in Entries /\ w.name = workers[at[t]].name
  BY <1>1, TypesSay DEF Entries
<1> HIDE DEF w
<1>3. workers \in Seq(Entries)
  BY TypesSay
<1>4. workers' \in Seq(Entries) /\ DOMAIN (workers') = DOMAIN workers
  BY <1>1, <1>2, <1>3
<1>5. \A i \in DOMAIN workers : (workers'[i]).name = workers[i].name
  BY <1>1, <1>2, <1>3
<1> QED
  BY <1>4, <1>5 DEF SameClients

Rest ==
  /\ lock \in Threads \cup {"none"}
  /\ sending \in [Threads -> DOMAIN After \cup {"none"}] /\ at \in [Threads -> Nat]
  /\ active \subseteq Streams /\ events \in 0..MaxEvents
  /\ held \in [Clients -> Nat] /\ places \in [Clients -> 0..SyncCount]
  /\ mutex \in [Clients -> {"free", "abandoned", "client"} \cup Threads]
----------------------------------------------------------------------------
(* Types.                                                                  *)
LEMMA TypeStep ==
  ASSUME TypeInv, [Next]_vars
  PROVE  TypeInv'
<1> USE SendAssumption
<1>0. /\ TypeOK /\ workers \in Seq(Entries) /\ pc \in [Threads -> Places]
      /\ job \in [Threads -> Jobs]
  BY TypesSay DEF TypeInv
<1>1. ASSUME NEW c \in Clients, ProcessInfoReq(c) PROVE TypeInv'
  <2>1. pc' \in [Threads -> Places]
    BY <1>1, <1>0, Names, AllPlaces DEF Places, ProcessInfoReq, Receive, Step, NoJob
  <2>2. job' \in [Threads -> Jobs]
    <3>1. [NoJob EXCEPT !.client = c] \in Jobs
      BY DEF NoJob, Jobs
    <3> QED
      BY <1>1, <3>1, <1>0, Names DEF ProcessInfoReq, Receive, Step
  <2>3. workers' \in Seq(Entries)
    BY <1>1, <1>0 DEF ProcessInfoReq, Receive, Step, NoJob, loop, outside, queues
  <2>4. Rest'
    BY <1>1, Names, AllPlaces DEF TypeInv, TypeOK, Rest, ProcessInfoReq, Receive, Step,
       NoJob, loop, outside, queues
  <2>5. JobsKnown' /\ SendingKnown'
    BY <1>1, <1>0, Names, AllPlaces DEF TypeInv, JobsKnown, SendingKnown, Sends, Jobs,
       ProcessInfoReq, Receive, Step, NoJob, loop, outside, queues
  <2> QED
    BY <2>1, <2>2, <2>3, <2>4, <2>5 DEF TypeInv, TypeOK, Rest, Entries, Jobs, Places
<1>2. ASSUME NEW c \in Clients, NEW s \in Streams, NEW on \in BOOLEAN, StreamRequest(c, s, on) PROVE TypeInv'
  <2>1. pc' \in [Threads -> Places]
    BY <1>2, <1>0, Names, AllPlaces DEF Places, StreamRequest, Receive, Step, NoJob
  <2>2. job' \in [Threads -> Jobs]
    <3>1. [NoJob EXCEPT !.client = c, !.stream = s, !.on = on] \in Jobs
      BY DEF NoJob, Jobs
    <3> QED
      BY <1>2, <3>1, <1>0, Names DEF StreamRequest, Receive, Step
  <2>3. workers' \in Seq(Entries)
    BY <1>2, <1>0 DEF StreamRequest, Receive, Step, NoJob, loop, outside, queues
  <2>4. Rest'
    BY <1>2, Names, AllPlaces DEF TypeInv, TypeOK, Rest, StreamRequest, Receive, Step,
       NoJob, loop, outside, queues
  <2>5. JobsKnown' /\ SendingKnown'
    BY <1>2, <1>0, Names, AllPlaces DEF TypeInv, JobsKnown, SendingKnown, Sends, Jobs,
       StreamRequest, Receive, Step, NoJob, loop, outside, queues
  <2> QED
    BY <2>1, <2>2, <2>3, <2>4, <2>5 DEF TypeInv, TypeOK, Rest, Entries, Jobs, Places
<1>3. ASSUME NEW used \in SUBSET Streams, StreamInfo(used) PROVE TypeInv'
  <2>1. pc' \in [Threads -> Places]
    BY <1>3, <1>0, Names, AllPlaces DEF Places, StreamInfo, Receive, Step, NoJob
  <2>2. job' \in [Threads -> Jobs]
    <3>1. [NoJob EXCEPT !.left = used] \in Jobs
      BY DEF NoJob, Jobs
    <3> QED
      BY <1>3, <3>1, <1>0, Names DEF StreamInfo, Receive, Step
  <2>3. workers' \in Seq(Entries)
    BY <1>3, <1>0 DEF StreamInfo, Receive, Step, NoJob, loop, outside, queues
  <2>4. Rest'
    BY <1>3, Names, AllPlaces DEF TypeInv, TypeOK, Rest, StreamInfo, Receive, Step, NoJob,
       loop, outside, queues
  <2>5. JobsKnown' /\ SendingKnown'
    BY <1>3, <1>0, Names, AllPlaces DEF TypeInv, JobsKnown, SendingKnown, Sends, Jobs,
       StreamInfo, Receive, Step, NoJob, loop, outside, queues
  <2> QED
    BY <2>1, <2>2, <2>3, <2>4, <2>5 DEF TypeInv, TypeOK, Rest, Entries, Jobs, Places
<1>4. ASSUME IsExistSendWork PROVE TypeInv'
  <2>1. pc' \in [Threads -> Places]
    BY <1>4, <1>0, Names, AllPlaces DEF Places, IsExistSendWork, LookUpThen, Locked, Step
  <2>2. job' \in [Threads -> Jobs]
    BY <1>4, <1>0 DEF IsExistSendWork, LookUpThen, Locked, Step
  <2>3. workers' \in Seq(Entries)
    BY <1>4, <1>0 DEF IsExistSendWork, LookUpThen, Locked, Step, loop, outside, queues
  <2>4. Rest'
    BY <1>4, Names, AllPlaces DEF TypeInv, TypeOK, Rest, IsExistSendWork, LookUpThen,
       Locked, Step, loop, outside, queues
  <2>5. JobsKnown' /\ SendingKnown'
    BY <1>4, <1>0, Names, AllPlaces DEF TypeInv, JobsKnown, SendingKnown, Sends, Jobs,
       IsExistSendWork, LookUpThen, Locked, Step, loop, outside, queues
  <2> QED
    BY <2>1, <2>2, <2>3, <2>4, <2>5 DEF TypeInv, TypeOK, Rest, Entries, Jobs, Places
<1>5. ASSUME InsertSendWork PROVE TypeInv'
  <2>1. pc' \in [Threads -> Places]
    BY <1>5, <1>0, Names, AllPlaces DEF Places, InsertSendWork, Locked, Step
  <2>2. job' \in [Threads -> Jobs]
    BY <1>5, <1>0 DEF InsertSendWork, Locked, Step
  <2>3. workers' \in Seq(Entries)
    <3>1. NewWorker(job["recv"].client) \in Entries
      BY <1>5 DEF TypeInv, JobsKnown, NewWorker, Entries, InsertSendWork, Step
    <3> QED
      BY <1>5, <3>1, <1>0 DEF InsertSendWork
  <2>4. Rest'
    BY <1>5, Names, AllPlaces DEF TypeInv, TypeOK, Rest, InsertSendWork, Locked, Step,
       loop, outside, queues
  <2>5. JobsKnown' /\ SendingKnown'
    BY <1>5, <1>0, Names, AllPlaces DEF TypeInv, JobsKnown, SendingKnown, Sends, Jobs,
       InsertSendWork, Locked, Step, loop, outside, queues
  <2> QED
    BY <2>1, <2>2, <2>3, <2>4, <2>5 DEF TypeInv, TypeOK, Rest, Entries, Jobs, Places
<1>6. ASSUME SetFrameInfo PROVE TypeInv'
  <2>1. pc' \in [Threads -> Places]
    BY <1>6, <1>0, Names, AllPlaces DEF Places, SetFrameInfo, SetFrameInfoWhen, Step
  <2>2. job' \in [Threads -> Jobs]
    BY <1>6, <1>0 DEF SetFrameInfo, SetFrameInfoWhen, Step
  <2>3. workers' \in Seq(Entries)
    BY <1>6, <1>0, SubscribeKeepsClients DEF SameClients
  <2>4. Rest'
    BY <1>6, Names, AllPlaces DEF TypeInv, TypeOK, Rest, SetFrameInfo, SetFrameInfoWhen,
       Step, loop, outside, queues
  <2>5. JobsKnown' /\ SendingKnown'
    <3>1. pc' = [pc EXCEPT !["recv"] = "unlock"] /\ job' = job /\ sending' = sending
      BY <1>6 DEF SetFrameInfo, SetFrameInfoWhen, Step, loop, outside, queues
    <3> QED
      BY <3>1, <1>0, Names DEF TypeInv, JobsKnown, SendingKnown, Sends
  <2> QED
    BY <2>1, <2>2, <2>3, <2>4, <2>5 DEF TypeInv, TypeOK, Rest, Entries, Jobs, Places
<1>7. ASSUME RequestUnlocks PROVE TypeInv'
  <2>1. pc' \in [Threads -> Places]
    BY <1>7, <1>0, Names, AllPlaces DEF Places, RequestUnlocks, Locked, Step, Leave, Fresh
  <2>2. job' \in [Threads -> Jobs]
    BY <1>7, <1>0, Names, JobTypes DEF RequestUnlocks, Locked, Step, Leave
  <2>3. workers' \in Seq(Entries)
    BY <1>7, <1>0, UnlockKeepsClients DEF SameClients, RequestUnlocks
  <2>4. Rest'
    BY <1>7, Names, AllPlaces DEF TypeInv, TypeOK, Rest, RequestUnlocks, Locked, Step,
       Leave, Fresh, loop, outside, queues
  <2>5. JobsKnown' /\ SendingKnown'
    BY <1>7, <1>0, Names, AllPlaces DEF TypeInv, JobsKnown, SendingKnown, Sends, Jobs,
       RequestUnlocks, Locked, Step, Leave, Fresh, loop, outside, queues
  <2> QED
    BY <2>1, <2>2, <2>3, <2>4, <2>5 DEF TypeInv, TypeOK, Rest, Entries, Jobs, Places
<1>8. ASSUME AddCheck PROVE TypeInv'
  <2>1. pc' \in [Threads -> Places]
    BY <1>8, <1>0, Names, AllPlaces DEF Places, AddCheck, Step
  <2>2. job' \in [Threads -> Jobs]
    BY <1>8, <1>0 DEF AddCheck, Step
  <2>3. workers' \in Seq(Entries)
    BY <1>8, <1>0 DEF AddCheck, Step, loop, outside, queues
  <2>4. Rest'
    BY <1>8, Names, AllPlaces DEF TypeInv, TypeOK, Rest, AddCheck, Step, loop, outside,
       queues
  <2>5. JobsKnown' /\ SendingKnown'
    BY <1>8, <1>0, Names, AllPlaces DEF TypeInv, JobsKnown, SendingKnown, Sends, Jobs,
       AddCheck, Step, loop, outside, queues
  <2> QED
    BY <2>1, <2>2, <2>3, <2>4, <2>5 DEF TypeInv, TypeOK, Rest, Entries, Jobs, Places
<1>9. ASSUME LoadEnds PROVE TypeInv'
  <2>1. pc' \in [Threads -> Places]
    BY <1>9, <1>0, Names, AllPlaces DEF Places, LoadEnds, Step, Leave, Fresh
  <2>2. job' \in [Threads -> Jobs]
    BY <1>9, <1>0, Names, JobTypes DEF LoadEnds, Step, Leave
  <2>3. workers' \in Seq(Entries)
    BY <1>9, <1>0 DEF LoadEnds, Step, Leave, Fresh, loop, outside, queues
  <2>4. Rest'
    BY <1>9, Names, AllPlaces DEF TypeInv, TypeOK, Rest, LoadEnds, Step, Leave, Fresh,
       loop, outside, queues
  <2>5. JobsKnown' /\ SendingKnown'
    BY <1>9, <1>0, Names, AllPlaces DEF TypeInv, JobsKnown, SendingKnown, Sends, Jobs,
       LoadEnds, Step, Leave, Fresh, loop, outside, queues
  <2> QED
    BY <2>1, <2>2, <2>3, <2>4, <2>5 DEF TypeInv, TypeOK, Rest, Entries, Jobs, Places
<1>10. ASSUME NEW s \in Streams, LoadStream(s) PROVE TypeInv'
  <2>1. pc' \in [Threads -> Places]
    BY <1>10, <1>0, Names, AllPlaces DEF Places, LoadStream, Locked, Step
  <2>2. job' \in [Threads -> Jobs]
    <3>1. job["recv"] \in Jobs
      BY <1>0, Names
    <3> DEFINE j == [job["recv"] EXCEPT !.stream = s, !.left = @ \ {s}]
    <3>2. job' = [job EXCEPT !["recv"] = j]
      BY <1>10, <1>0, Names DEF LoadStream, Locked, Jobs
    <3>3. j \in Jobs
      BY <1>10, <3>1 DEF Jobs
    <3> HIDE DEF j
    <3> QED
      BY <3>2, <3>3, <1>0, Names
  <2>3. workers' \in Seq(Entries)
    BY <1>10, <1>0, UnlockKeepsClients DEF SameClients, LoadStream, Locked
  <2>4. Rest'
    BY <1>10, Names, AllPlaces DEF TypeInv, TypeOK, Rest, LoadStream, Locked, Step,
       loop, outside, queues
  <2>5. JobsKnown' /\ SendingKnown'
    BY <1>10, <1>0, Names, AllPlaces DEF TypeInv, JobsKnown, SendingKnown, Sends, Jobs,
       LoadStream, Locked, Step, loop, outside, queues
  <2> QED
    BY <2>1, <2>2, <2>3, <2>4, <2>5 DEF TypeInv, TypeOK, Rest, Entries, Jobs, Places
<1>11. ASSUME UnlockAll PROVE TypeInv'
  <2>1. pc' \in [Threads -> Places]
    BY <1>11, <1>0, Names, AllPlaces DEF Places, UnlockAll, Locked, Step
  <2>2. job' \in [Threads -> Jobs]
    BY <1>11, <1>0 DEF UnlockAll, Locked, Step
  <2>3. workers' \in Seq(Entries)
    BY <1>11, <1>0, UnlockKeepsClients DEF SameClients, UnlockAll
  <2>4. Rest'
    BY <1>11, Names, AllPlaces DEF TypeInv, TypeOK, Rest, UnlockAll, Locked, Step, loop,
       outside, queues
  <2>5. JobsKnown' /\ SendingKnown'
    BY <1>11, <1>0, Names, AllPlaces DEF TypeInv, JobsKnown, SendingKnown, Sends, Jobs,
       UnlockAll, Locked, Step, loop, outside, queues
  <2> QED
    BY <2>1, <2>2, <2>3, <2>4, <2>5 DEF TypeInv, TypeOK, Rest, Entries, Jobs, Places
<1>12. ASSUME ClearSendWork PROVE TypeInv'
  <2>1. pc' \in [Threads -> Places]
    BY <1>12, <1>0, Names, AllPlaces DEF Places, ClearSendWork, ClearTaking, Step
  <2>2. job' \in [Threads -> Jobs]
    BY <1>12, <1>0 DEF ClearSendWork, ClearTaking, Step
  <2>3. workers' \in Seq(Entries)
    BY <1>12, <1>0 DEF ClearSendWork, ClearTaking, Step, loop, outside, queues
  <2>4. Rest'
    BY <1>12, Names, AllPlaces DEF TypeInv, TypeOK, Rest, ClearSendWork, ClearTaking, Step,
       loop, outside, queues
  <2>5. JobsKnown' /\ SendingKnown'
    BY <1>12, <1>0, Names, AllPlaces DEF TypeInv, JobsKnown, SendingKnown, Sends, Jobs,
       ClearSendWork, ClearTaking, Step, loop, outside, queues
  <2> QED
    BY <2>1, <2>2, <2>3, <2>4, <2>5 DEF TypeInv, TypeOK, Rest, Entries, Jobs, Places
<1>13. ASSUME JoinWorkers PROVE TypeInv'
  <2>1. pc' \in [Threads -> Places]
    BY <1>13, <1>0, Names, AllPlaces DEF Places, JoinWorkers, Joins, Step, Ends
  <2>2. job' \in [Threads -> Jobs]
    BY <1>13, <1>0 DEF JoinWorkers, Joins, Step, Ends
  <2>3. workers' \in Seq(Entries)
    BY <1>13, <1>0 DEF JoinWorkers, Joins, Step, Ends, loop, outside, queues
  <2>4. Rest'
    BY <1>13, Names, AllPlaces DEF TypeInv, TypeOK, Rest, JoinWorkers, Joins, Step, Ends,
       loop,
       outside, queues
  <2>5. JobsKnown' /\ SendingKnown'
    BY <1>13, <1>0, Names, AllPlaces DEF TypeInv, JobsKnown, SendingKnown, Sends, Jobs,
       JoinWorkers, Joins, Step, Ends, loop, outside, queues
  <2> QED
    BY <2>1, <2>2, <2>3, <2>4, <2>5 DEF TypeInv, TypeOK, Rest, Entries, Jobs, Places
<1>14. ASSUME StopStreams PROVE TypeInv'
  <2>1. pc' \in [Threads -> Places]
    BY <1>14, <1>0, Names, AllPlaces DEF Places, StopStreams, Step, Ends
  <2>2. job' \in [Threads -> Jobs]
    BY <1>14, <1>0 DEF StopStreams, Step, Ends
  <2>3. workers' \in Seq(Entries)
    BY <1>14, <1>0 DEF StopStreams, Step, Ends, loop, outside, queues
  <2>4. Rest'
    BY <1>14, Names, AllPlaces DEF TypeInv, TypeOK, Rest, StopStreams, Step, Ends, loop,
       outside, queues
  <2>5. JobsKnown' /\ SendingKnown'
    BY <1>14, <1>0, Names, AllPlaces DEF TypeInv, JobsKnown, SendingKnown, Sends, Jobs,
       StopStreams, Step, Ends, loop, outside, queues
  <2> QED
    BY <2>1, <2>2, <2>3, <2>4, <2>5 DEF TypeInv, TypeOK, Rest, Entries, Jobs, Places
<1>15. ASSUME NEW t \in {"recv", "check"}, StopStream(t) PROVE TypeInv'
  <2>1. pc' \in [Threads -> Places]
    BY <1>15, <1>0, Names, AllPlaces DEF Places, StopStream, Step, Ends
  <2>2. job' \in [Threads -> Jobs]
    BY <1>15, <1>0 DEF StopStream, Step, Ends
  <2>3. workers' \in Seq(Entries)
    BY <1>15, <1>0 DEF StopStream, Step, Ends, loop, outside, queues
  <2>4. Rest'
    BY <1>15, Names, AllPlaces DEF TypeInv, TypeOK, Rest, StopStream, Step, Ends, loop,
       outside, queues
  <2>5. JobsKnown' /\ SendingKnown'
    BY <1>15, <1>0, Names, AllPlaces DEF TypeInv, JobsKnown, SendingKnown, Sends, Jobs,
       StopStream, Step, Ends, loop, outside, queues
  <2> QED
    BY <2>1, <2>2, <2>3, <2>4, <2>5 DEF TypeInv, TypeOK, Rest, Entries, Jobs, Places
<1>16. ASSUME NEW t \in {"recv", "check"}, StartStream(t) PROVE TypeInv'
  <2>1. pc' \in [Threads -> Places]
    BY <1>16, <1>0, Names, AllPlaces DEF Places, StartStream, Step
  <2>2. job' \in [Threads -> Jobs]
    BY <1>16, <1>0 DEF StartStream, Step
  <2>3. workers' \in Seq(Entries)
    BY <1>16, <1>0 DEF StartStream, Step, loop, outside, queues
  <2>4. Rest'
    BY <1>16, Names, AllPlaces DEF TypeInv, TypeOK, Rest, JobsKnown, Step, StartStream,
       Step, loop, outside, queues
  <2>5. JobsKnown' /\ SendingKnown'
    BY <1>16, <1>0, Names, AllPlaces DEF TypeInv, JobsKnown, SendingKnown, Sends, Jobs,
       StartStream, Step, loop, outside, queues
  <2> QED
    BY <2>1, <2>2, <2>3, <2>4, <2>5 DEF TypeInv, TypeOK, Rest, Entries, Jobs, Places
<1>17. ASSUME NEW t \in Threads, BeginSend(t) PROVE TypeInv'
  <2>1. pc' \in [Threads -> Places]
    BY <1>17, <1>0, Names, AllPlaces DEF Places, BeginSend, BeginWhen
  <2>2. job' \in [Threads -> Jobs]
    BY <1>17, <1>0 DEF BeginSend, BeginWhen
  <2>3. workers' \in Seq(Entries)
    BY <1>17, <1>0 DEF BeginSend, BeginWhen, loop, outside, queues
  <2>4. Rest'
    BY <1>17, Names, AllPlaces DEF TypeInv, TypeOK, Rest, BeginSend, BeginWhen, loop,
       outside, queues
  <2>5. JobsKnown'
    BY <1>17, <1>0, Names DEF TypeInv, JobsKnown, BeginSend, BeginWhen
  <2>6. SendingKnown'
    <3>1. PacketAt[pc[t]] \in DOMAIN After
      BY <1>17, AllPlaces DEF BeginSend, BeginWhen
    <3> QED
      BY <1>17, <3>1, <1>0 DEF TypeInv, TypeOK, SendingKnown, Sends, BeginSend, BeginWhen
  <2> QED
    BY <2>1, <2>2, <2>3, <2>4, <2>5, <2>6 DEF TypeInv, TypeOK, Rest, Entries, Jobs, Places
<1>18. ASSUME NEW t \in Threads, Choose(t) PROVE TypeInv'
  <2>1. pc' \in [Threads -> Places]
    BY <1>18, <1>0, Names, AllPlaces DEF Places, Choose
  <2>2. job' \in [Threads -> Jobs]
    BY <1>18, <1>0 DEF Choose
  <2>3. workers' \in Seq(Entries)
    BY <1>18, <1>0 DEF Choose, loop, outside, queues
  <2>4. Rest'
    <3>1. at' = at \/ at' = [at EXCEPT ![t] = @ + 1]
      BY <1>18 DEF Choose
    <3>2. at \in [Threads -> Nat] /\ at[t] \in Nat
      BY <1>18 DEF TypeInv, TypeOK
    <3>3. at' \in [Threads -> Nat]
      BY <3>1, <3>2
    <3> QED
      BY <1>18, <3>3 DEF TypeInv, TypeOK, Rest, Choose, loop, outside, queues
  <2>5. JobsKnown' /\ SendingKnown'
    BY <1>18, <1>0, Names, AllPlaces DEF TypeInv, JobsKnown, SendingKnown, Sends, Jobs,
       Choose, loop, outside, queues
  <2> QED
    BY <2>1, <2>2, <2>3, <2>4, <2>5 DEF TypeInv, TypeOK, Rest, Entries, Jobs, Places
<1>19. ASSUME NEW t \in Threads, GetPlace(t) PROVE TypeInv'
  <2>1. pc' \in [Threads -> Places]
    BY <1>19, <1>0, Names, AllPlaces DEF Places, GetPlace, Step, Client
  <2>2. job' \in [Threads -> Jobs]
    BY <1>19, <1>0 DEF GetPlace, Step, Client
  <2>3. workers' \in Seq(Entries)
    BY <1>19, <1>0 DEF GetPlace, Step, Client, loop, outside, queues
  <2>4. Rest'
    <3>1. workers[at[t]].name \in Clients /\ places \in [Clients -> 0..SyncCount]
      BY <1>19, TypesSay, <1>0 DEF TypeOK, GetPlace
    <3>2. places' \in [Clients -> 0..SyncCount]
      BY <1>19, <3>1, SendAssumption DEF GetPlace, Client
    <3> QED
      BY <1>19, <3>2 DEF TypeInv, TypeOK, Rest, GetPlace, loop
  <2>5. JobsKnown' /\ SendingKnown'
    BY <1>19, <1>0, Names, AllPlaces DEF TypeInv, JobsKnown, SendingKnown, Sends, Jobs,
       GetPlace, Step, Client, loop, outside, queues
  <2> QED
    BY <2>1, <2>2, <2>3, <2>4, <2>5 DEF TypeInv, TypeOK, Rest, Entries, Jobs, Places
<1>20. ASSUME NEW t \in Threads, NotPushed(t) PROVE TypeInv'
  <2>1. pc' \in [Threads -> Places]
    BY <1>20, <1>0, Names, AllPlaces DEF Places, NotPushed, FailWhen, GiveUp, GoOn, Step
  <2>2. job' \in [Threads -> Jobs]
    BY <1>20, <1>0 DEF NotPushed, FailWhen, GiveUp, GoOn, Step
  <2>3. workers' \in Seq(Entries)
    BY <1>20, <1>0, FailureKeepsClients DEF SameClients, NotPushed, FailWhen
  <2>4. Rest'
    <3>1. Len(workers) \in Nat /\ at' \in [Threads -> Nat]
      BY <1>20, <1>0 DEF TypeOK, NotPushed, FailWhen, GiveUp, GoOn, Step
    <3> QED
      BY <1>20, <3>1 DEF TypeInv, TypeOK, Rest, NotPushed, FailWhen, GiveUp, GoOn, Step,
         queues
  <2>5. JobsKnown' /\ SendingKnown'
    BY <1>20, <1>0, Names, AllPlaces DEF TypeInv, JobsKnown, SendingKnown, Sends, Jobs,
       NotPushed, FailWhen, GiveUp, GoOn, Step, loop, outside, queues
  <2> QED
    BY <2>1, <2>2, <2>3, <2>4, <2>5 DEF TypeInv, TypeOK, Rest, Entries, Jobs, Places
<1>21. ASSUME NEW t \in Threads, Pushed(t) PROVE TypeInv'
  <2>1. pc' \in [Threads -> Places]
    BY <1>21, <1>0, Names, AllPlaces DEF Places, Pushed, GoOn, Step, Post, Client
  <2>2. job' \in [Threads -> Jobs]
    BY <1>21, <1>0 DEF Pushed, GoOn, Step, Post, Client
  <2>3. workers' \in Seq(Entries)
    BY <1>21, <1>0 DEF Pushed, GoOn, Step, Post, Client, loop, outside, queues
  <2>4. Rest'
    <3>1. Len(workers) \in Nat /\ at' \in [Threads -> Nat]
      BY <1>21, <1>0 DEF TypeOK, Pushed, GoOn, Step, Post, Client
    <3>2. workers[at[t]].name \in Clients
      BY <1>21, TypesSay, <1>0 DEF Pushed, GoOn
    <3>3. held' \in [Clients -> Nat] /\ places' \in [Clients -> 0..SyncCount]
      <4> DEFINE c == workers[at[t]].name
      <4>1. /\ held \in [Clients -> Nat] /\ places \in [Clients -> 0..SyncCount]
            /\ c \in Clients /\ SyncCount \in Nat
        BY <3>2, SendAssumption DEF TypeInv, TypeOK
      <4>2. \/ held' = [held EXCEPT ![c] = @ + 1] /\ places' = places
            \/ /\ held' = held
               /\ places' = [places EXCEPT ![c] = IF @ < SyncCount THEN @ + 1 ELSE @]
        BY <1>21 DEF Pushed, Post, Client
      <4> HIDE DEF c
      <4> QED
        BY <4>1, <4>2
    <3> QED
      BY <1>21, <3>1, <3>3 DEF TypeInv, TypeOK, Rest, Pushed, GoOn
  <2>5. JobsKnown' /\ SendingKnown'
    BY <1>21, <1>0, Names, AllPlaces DEF TypeInv, JobsKnown, SendingKnown, Sends, Jobs,
       Pushed, GoOn, Step, Post, Client, loop, outside, queues
  <2> QED
    BY <2>1, <2>2, <2>3, <2>4, <2>5 DEF TypeInv, TypeOK, Rest, Entries, Jobs, Places
<1>22. ASSUME NEW t \in Threads, PushAbandoned(t) PROVE TypeInv'
  <2>1. pc' \in [Threads -> Places]
    BY <1>22, <1>0, Names, AllPlaces DEF Places, PushAbandoned, GoOn, Step, Client
  <2>2. job' \in [Threads -> Jobs]
    BY <1>22, <1>0 DEF PushAbandoned, GoOn, Step, Client
  <2>3. workers' \in Seq(Entries)
    BY <1>22, <1>0 DEF PushAbandoned, GoOn, Step, Client, loop, outside, queues
  <2>4. Rest'
    <3>1. Len(workers) \in Nat /\ at' \in [Threads -> Nat]
      BY <1>22, <1>0 DEF TypeOK, PushAbandoned, GoOn, Step, Client
    <3>2. mutex' \in [Clients -> {"free", "abandoned", "client"} \cup Threads]
      BY <1>22 DEF TypeInv, TypeOK, PushAbandoned
    <3> QED
      BY <1>22, <3>1, <3>2 DEF TypeInv, TypeOK, Rest, PushAbandoned, GoOn
  <2>5. JobsKnown' /\ SendingKnown'
    BY <1>22, <1>0, Names, AllPlaces DEF TypeInv, JobsKnown, SendingKnown, Sends, Jobs,
       PushAbandoned, GoOn, Step, Client, loop, outside, queues
  <2> QED
    BY <2>1, <2>2, <2>3, <2>4, <2>5 DEF TypeInv, TypeOK, Rest, Entries, Jobs, Places
<1>23. ASSUME NEW t \in Threads, PushUnlocked(t) PROVE TypeInv'
  <2>1. pc' \in [Threads -> Places]
    BY <1>23, <1>0, Names, AllPlaces DEF Places, PushUnlocked, GiveUp, GoOn, Step
  <2>2. job' \in [Threads -> Jobs]
    BY <1>23, <1>0 DEF PushUnlocked, GiveUp, GoOn, Step
  <2>3. workers' \in Seq(Entries)
    BY <1>23, <1>0, FailureKeepsClients DEF SameClients, PushUnlocked
  <2>4. Rest'
    <3>1. Len(workers) \in Nat /\ at' \in [Threads -> Nat]
      BY <1>23, <1>0 DEF TypeOK, PushUnlocked, GiveUp, GoOn, Step
    <3> QED
      BY <1>23, <3>1 DEF TypeInv, TypeOK, Rest, PushUnlocked, GiveUp, GoOn, Step, queues
  <2>5. JobsKnown' /\ SendingKnown'
    BY <1>23, <1>0, Names, AllPlaces DEF TypeInv, JobsKnown, SendingKnown, Sends, Jobs,
       PushUnlocked, GiveUp, GoOn, Step, loop, outside, queues
  <2> QED
    BY <2>1, <2>2, <2>3, <2>4, <2>5 DEF TypeInv, TypeOK, Rest, Entries, Jobs, Places
<1>24. ASSUME NEW t \in Threads, EndSend(t) PROVE TypeInv'
  <2>1. pc' \in [Threads -> Places]
    BY <1>24, <1>0, Names, AllPlaces DEF TypeInv, SendingKnown, Sends, Places, EndSend,
       Step, Leave, Fresh
  <2>2. job' \in [Threads -> Jobs]
    BY <1>24, <1>0, Names, JobTypes DEF EndSend, Step, Leave
  <2>3. workers' \in Seq(Entries)
    BY <1>24, <1>0 DEF EndSend, Step, Leave, Fresh, loop, outside, queues
  <2>4. Rest'
    BY <1>24, Names, AllPlaces DEF TypeInv, TypeOK, Rest, EndSend, Step, Leave, Fresh,
       loop, outside, queues
  <2>5. JobsKnown' /\ SendingKnown'
    BY <1>24, <1>0, Names, AllPlaces DEF TypeInv, JobsKnown, SendingKnown, Sends, Jobs,
       EndSend, Step, Leave, Fresh, loop, outside, queues
  <2> QED
    BY <2>1, <2>2, <2>3, <2>4, <2>5 DEF TypeInv, TypeOK, Rest, Entries, Jobs, Places
<1>25. ASSUME NEW s \in Streams, Decoded(s) PROVE TypeInv'
  <2>1. pc' \in [Threads -> Places]
    BY <1>25, <1>0, Names, AllPlaces DEF Places, Decoded, Step
  <2>2. job' \in [Threads -> Jobs]
    BY <1>25, <1>0 DEF Decoded, Step
  <2>3. workers' \in Seq(Entries)
    BY <1>25, <1>0 DEF Decoded, Step, loop, outside, queues
  <2>4. Rest'
    BY <1>25, Names, AllPlaces DEF TypeInv, TypeOK, Rest, Decoded, Step, loop, outside,
       queues
  <2>5. JobsKnown' /\ SendingKnown'
    BY <1>25, <1>0, Names, AllPlaces DEF TypeInv, JobsKnown, SendingKnown, Sends, Jobs,
       Decoded, Step, loop, outside, queues
  <2> QED
    BY <2>1, <2>2, <2>3, <2>4, <2>5 DEF TypeInv, TypeOK, Rest, Entries, Jobs, Places
<1>26. ASSUME NEW s \in Streams, CheckStream(s) PROVE TypeInv'
  <2>1. pc' \in [Threads -> Places]
    BY <1>26, <1>0, Names, AllPlaces DEF Places, CheckStream, Step
  <2>2. job' \in [Threads -> Jobs]
    <3>1. job["check"] \in Jobs
      BY <1>0, Names
    <3>2. [job["check"] EXCEPT !.stream = s] \in Jobs
      BY <1>26, <3>1, JobTypes
    <3> QED
      BY <1>26, <3>2, <1>0, Names DEF CheckStream
  <2>3. workers' \in Seq(Entries)
    BY <1>26, <1>0 DEF CheckStream, Step, loop, outside, queues
  <2>4. Rest'
    BY <1>26, Names, AllPlaces DEF TypeInv, TypeOK, Rest, CheckStream, Step, loop, outside,
       queues
  <2>5. JobsKnown' /\ SendingKnown'
    BY <1>26, <1>0, Names, AllPlaces DEF TypeInv, JobsKnown, SendingKnown, Sends, Jobs,
       CheckStream, Step, loop, outside, queues
  <2> QED
    BY <2>1, <2>2, <2>3, <2>4, <2>5 DEF TypeInv, TypeOK, Rest, Entries, Jobs, Places
<1>27. ASSUME NEW c \in Clients, Read(c) PROVE TypeInv'
  <2>1. pc' \in [Threads -> Places]
    BY <1>27, <1>0, Names, AllPlaces DEF Places, Read
  <2>2. job' \in [Threads -> Jobs]
    BY <1>27, <1>0 DEF Read
  <2>3. workers' \in Seq(Entries)
    BY <1>27, <1>0 DEF Read, loop, outside, queues
  <2>4. Rest'
    BY <1>27, Names, AllPlaces DEF TypeInv, TypeOK, Rest, Read, Post, loop, outside, queues
  <2>5. JobsKnown' /\ SendingKnown'
    BY <1>27, <1>0, Names, AllPlaces DEF TypeInv, JobsKnown, SendingKnown, Sends, Jobs,
       Read, loop, outside, queues
  <2> QED
    BY <2>1, <2>2, <2>3, <2>4, <2>5 DEF TypeInv, TypeOK, Rest, Entries, Jobs, Places
<1>28. ASSUME NEW c \in Clients, Dies(c) PROVE TypeInv'
  <2>1. pc' \in [Threads -> Places] /\ job' \in [Threads -> Jobs] /\ workers' \in Seq(Entries)
    BY <1>28, <1>0 DEF Dies
  <2>2. Rest'
    BY <1>28 DEF TypeInv, TypeOK, Rest, Dies, loop
  <2>3. JobsKnown' /\ SendingKnown'
    BY <1>28 DEF TypeInv, JobsKnown, SendingKnown, Sends, Dies, loop
  <2> QED
    BY <2>1, <2>2, <2>3 DEF TypeInv, TypeOK, Rest, Entries, Jobs, Places
<1>29. ASSUME NEW c \in Clients, ReadAbandoned(c) PROVE TypeInv'
  <2>1. pc' \in [Threads -> Places] /\ job' \in [Threads -> Jobs] /\ workers' \in Seq(Entries)
    BY <1>29, <1>0 DEF ReadAbandoned
  <2>2. Rest'
    BY <1>29 DEF TypeInv, TypeOK, Rest, ReadAbandoned, loop
  <2>3. JobsKnown' /\ SendingKnown'
    BY <1>29 DEF TypeInv, JobsKnown, SendingKnown, Sends, ReadAbandoned, loop
  <2> QED
    BY <2>1, <2>2, <2>3 DEF TypeInv, TypeOK, Rest, Entries, Jobs, Places
<1>30. CASE UNCHANGED vars
  BY <1>30 DEF TypeInv, TypeOK, JobsKnown, SendingKnown, Sends, vars, loop, outside, queues
<1> QED
  BY <1>1, <1>2, <1>3, <1>4, <1>5, <1>6, <1>7, <1>8, <1>9, <1>10, <1>11, <1>12, <1>13,
     <1>14, <1>15, <1>16, <1>17, <1>18, <1>19, <1>20, <1>21, <1>22, <1>23,
     <1>24, <1>25, <1>26, <1>27, <1>28, <1>29, <1>30
  DEF Next, Requests, Handlers, Restarts, Stops, Send
----------------------------------------------------------------------------
(* The mutex.                                                              *)
LEMMA LockStep ==
  ASSUME TypeInv, LockHeld, [Next]_vars
  PROVE  LockHeld'
<1>0. /\ TypeOK /\ workers \in Seq(Entries) /\ pc \in [Threads -> Places]
      /\ job \in [Threads -> Jobs]
  BY TypesSay DEF TypeInv
<1>1. ASSUME NEW c \in Clients, ProcessInfoReq(c) PROVE LockHeld'
  BY <1>1, <1>0, Names DEF LockHeld, TypeOK, Sends, CanTake, ProcessInfoReq, Receive, Step,
     NoJob, loop, outside, queues
<1>2. ASSUME NEW c \in Clients, NEW s \in Streams, NEW on \in BOOLEAN, StreamRequest(c, s, on) PROVE LockHeld'
  BY <1>2, <1>0, Names DEF LockHeld, TypeOK, Sends, CanTake, StreamRequest, Receive, Step,
     NoJob, loop, outside, queues
<1>3. ASSUME NEW used \in SUBSET Streams, StreamInfo(used) PROVE LockHeld'
  BY <1>3, <1>0, Names DEF LockHeld, TypeOK, Sends, CanTake, StreamInfo, Receive, Step,
     NoJob, loop, outside, queues
<1>4. ASSUME IsExistSendWork PROVE LockHeld'
  BY <1>4, <1>0, Names DEF LockHeld, TypeOK, Sends, CanTake, IsExistSendWork, LookUpThen,
     Locked, Step, loop, outside, queues
<1>5. ASSUME InsertSendWork PROVE LockHeld'
  BY <1>5, <1>0, Names DEF LockHeld, TypeOK, Sends, CanTake, InsertSendWork, Locked, Step,
     loop, outside, queues
<1>6. ASSUME SetFrameInfo PROVE LockHeld'
  BY <1>6, <1>0, Names DEF LockHeld, TypeOK, Sends, CanTake, SetFrameInfo,
     SetFrameInfoWhen, Step, loop, outside, queues
<1>7. ASSUME RequestUnlocks PROVE LockHeld'
  BY <1>7, <1>0, Names DEF LockHeld, TypeOK, Sends, CanTake, RequestUnlocks, Locked, Step,
     Leave, Fresh, loop, outside, queues
<1>8. ASSUME AddCheck PROVE LockHeld'
  BY <1>8, <1>0, Names DEF LockHeld, TypeOK, Sends, CanTake, AddCheck, Step, loop, outside,
     queues
<1>9. ASSUME LoadEnds PROVE LockHeld'
  BY <1>9, <1>0, Names DEF LockHeld, TypeOK, Sends, CanTake, LoadEnds, Step, Leave, Fresh,
     loop, outside, queues
<1>10. ASSUME NEW s \in Streams, LoadStream(s) PROVE LockHeld'
  BY <1>10, <1>0, Names DEF LockHeld, TypeOK, Sends, CanTake, LoadStream, Locked, Step,
     loop, outside, queues
<1>11. ASSUME UnlockAll PROVE LockHeld'
  BY <1>11, <1>0, Names DEF LockHeld, TypeOK, Sends, CanTake, UnlockAll, Locked, Step,
     loop, outside, queues
<1>12. ASSUME ClearSendWork PROVE LockHeld'
  BY <1>12, <1>0, Names DEF LockHeld, TypeOK, Sends, CanTake, ClearSendWork, ClearTaking,
     Step, loop, outside, queues
<1>13. ASSUME JoinWorkers PROVE LockHeld'
  BY <1>13, <1>0, Names DEF LockHeld, TypeOK, Sends, CanTake, JoinWorkers, Joins, Step,
     Ends,
     loop, outside, queues
<1>14. ASSUME StopStreams PROVE LockHeld'
  BY <1>14, <1>0, Names DEF LockHeld, TypeOK, Sends, CanTake, StopStreams, Step, Ends,
     loop, outside, queues
<1>15. ASSUME NEW t \in {"recv", "check"}, StopStream(t) PROVE LockHeld'
  BY <1>15, <1>0, Names DEF LockHeld, TypeOK, Sends, CanTake, StopStream, Step, Ends, loop,
     outside, queues
<1>16. ASSUME NEW t \in {"recv", "check"}, StartStream(t) PROVE LockHeld'
  BY <1>16, <1>0, Names DEF LockHeld, TypeOK, Sends, CanTake, StartStream, Step, loop,
     outside, queues
<1>17. ASSUME NEW t \in Threads, BeginSend(t) PROVE LockHeld'
  BY <1>17, <1>0, Names DEF LockHeld, TypeOK, Sends, CanTake, BeginSend, BeginWhen, loop,
     outside, queues
<1>18. ASSUME NEW t \in Threads, Choose(t) PROVE LockHeld'
  BY <1>18, <1>0, Names DEF LockHeld, TypeOK, Sends, CanTake, Choose, loop, outside, queues
<1>19. ASSUME NEW t \in Threads, GetPlace(t) PROVE LockHeld'
  BY <1>19, <1>0, Names DEF LockHeld, TypeOK, Sends, CanTake, GetPlace, Step, Client, loop,
     outside, queues
<1>20. ASSUME NEW t \in Threads, NotPushed(t) PROVE LockHeld'
  BY <1>20, <1>0, Names DEF LockHeld, TypeOK, Sends, CanTake, NotPushed, FailWhen, GiveUp,
     GoOn, Step, loop, outside, queues
<1>21. ASSUME NEW t \in Threads, Pushed(t) PROVE LockHeld'
  BY <1>21, <1>0, Names DEF LockHeld, TypeOK, Sends, CanTake, Pushed, GoOn, Step, Post,
     Client, loop, outside, queues
<1>22. ASSUME NEW t \in Threads, PushAbandoned(t) PROVE LockHeld'
  BY <1>22, <1>0, Names DEF LockHeld, TypeOK, Sends, CanTake, PushAbandoned, GoOn, Step,
     Client, loop, outside, queues
<1>23. ASSUME NEW t \in Threads, PushUnlocked(t) PROVE LockHeld'
  BY <1>23, <1>0, Names DEF LockHeld, TypeOK, Sends, CanTake, PushUnlocked, GiveUp, GoOn,
     Step, loop, outside, queues
<1>24. ASSUME NEW t \in Threads, EndSend(t) PROVE LockHeld'
  <2>1. After[sending[t]] \notin {"choose", "send", "push"}
    BY <1>24, AllPlaces DEF TypeInv, SendingKnown, Sends, EndSend, Step
  <2> QED
    BY <1>24, <2>1, <1>0, Names DEF LockHeld, TypeOK, Sends, EndSend, Step, Leave, Fresh,
       loop, outside, queues
<1>25. ASSUME NEW s \in Streams, Decoded(s) PROVE LockHeld'
  BY <1>25, <1>0, Names DEF LockHeld, TypeOK, Sends, CanTake, Decoded, Step, loop, outside,
     queues
<1>26. ASSUME NEW s \in Streams, CheckStream(s) PROVE LockHeld'
  BY <1>26, <1>0, Names DEF LockHeld, TypeOK, Sends, CanTake, CheckStream, Step, loop,
     outside, queues
<1>27. ASSUME NEW c \in Clients, Read(c) PROVE LockHeld'
  BY <1>27, <1>0, Names DEF LockHeld, TypeOK, Sends, CanTake, Read, Post, loop, outside,
     queues
<1>28. ASSUME NEW c \in Clients, Dies(c) PROVE LockHeld'
  BY <1>28, <1>0, Names DEF LockHeld, TypeOK, Sends, CanTake, Dies, loop, outside, queues
<1>29. ASSUME NEW c \in Clients, ReadAbandoned(c) PROVE LockHeld'
  BY <1>29, <1>0, Names DEF LockHeld, TypeOK, Sends, CanTake, ReadAbandoned, loop, outside,
     queues
<1>30. CASE UNCHANGED vars
  BY <1>30 DEF LockHeld, Sends, vars
<1> QED
  BY <1>1, <1>2, <1>3, <1>4, <1>5, <1>6, <1>7, <1>8, <1>9, <1>10, <1>11, <1>12, <1>13,
     <1>14, <1>15, <1>16, <1>17, <1>18, <1>19, <1>20, <1>21, <1>22, <1>23,
     <1>24, <1>25, <1>26, <1>27, <1>28, <1>29, <1>30
  DEF Next, Requests, Handlers, Restarts, Stops, Send

LEMMA SubscriberStep ==
  ASSUME TypeInv, LockHeld, SendsToSubscriber, [Next]_vars
  PROVE  SendsToSubscriber'
<1>0. /\ TypeOK /\ workers \in Seq(Entries) /\ pc \in [Threads -> Places]
      /\ job \in [Threads -> Jobs]
  BY TypesSay DEF TypeInv
<1>1. ASSUME NEW c \in Clients, ProcessInfoReq(c) PROVE SendsToSubscriber'
  BY <1>1, <1>0, Names, AllPlaces DEF SendsToSubscriber, LockHeld, TypeInv, SendingKnown,
     TypeOK, Sends, CanTake, Wants, ProcessInfoReq, Receive, Step, NoJob, UnlockSendWork,
     Unlock, loop, outside, queues
<1>2. ASSUME NEW c \in Clients, NEW s \in Streams, NEW on \in BOOLEAN, StreamRequest(c, s, on) PROVE SendsToSubscriber'
  BY <1>2, <1>0, Names, AllPlaces DEF SendsToSubscriber, LockHeld, TypeInv, SendingKnown,
     TypeOK, Sends, CanTake, Wants, StreamRequest, Receive, Step, NoJob, UnlockSendWork,
     Unlock, loop, outside, queues
<1>3. ASSUME NEW used \in SUBSET Streams, StreamInfo(used) PROVE SendsToSubscriber'
  BY <1>3, <1>0, Names, AllPlaces DEF SendsToSubscriber, LockHeld, TypeInv, SendingKnown,
     TypeOK, Sends, CanTake, Wants, StreamInfo, Receive, Step, NoJob, UnlockSendWork,
     Unlock, loop, outside, queues
<1>4. ASSUME IsExistSendWork PROVE SendsToSubscriber'
  BY <1>4, <1>0, Names, AllPlaces DEF SendsToSubscriber, LockHeld, TypeInv, SendingKnown,
     TypeOK, Sends, CanTake, Wants, IsExistSendWork, LookUpThen, Locked, Step,
     UnlockSendWork, Unlock, loop, outside, queues
<1>5. ASSUME InsertSendWork PROVE SendsToSubscriber'
  BY <1>5, <1>0, Names, AllPlaces DEF SendsToSubscriber, LockHeld, TypeInv, SendingKnown,
     TypeOK, Sends, CanTake, Wants, InsertSendWork, Locked, Step, UnlockSendWork, Unlock,
     loop, outside, queues
<1>6. ASSUME SetFrameInfo PROVE SendsToSubscriber'
  <2>1. /\ pc["recv"] = "set_frame" /\ CanTake("recv")
        /\ pc' = [pc EXCEPT !["recv"] = "unlock"]
    BY <1>6 DEF SetFrameInfo, SetFrameInfoWhen, Step
  <2>2. \A t \in Threads : pc'[t] \notin {"send", "push"}
    BY <2>1, <1>0, Names DEF LockHeld, Sends, CanTake
  <2> QED
    BY <2>2 DEF SendsToSubscriber
<1>7. ASSUME RequestUnlocks PROVE SendsToSubscriber'
  BY <1>7, <1>0, Names, AllPlaces DEF SendsToSubscriber, LockHeld, TypeInv, SendingKnown,
     TypeOK, Sends, CanTake, Wants, RequestUnlocks, Locked, Step, Leave, Fresh,
     UnlockSendWork, Unlock, loop, outside, queues
<1>8. ASSUME AddCheck PROVE SendsToSubscriber'
  BY <1>8, <1>0, Names, AllPlaces DEF SendsToSubscriber, LockHeld, TypeInv, SendingKnown,
     TypeOK, Sends, CanTake, Wants, AddCheck, Step, UnlockSendWork, Unlock, loop, outside,
     queues
<1>9. ASSUME LoadEnds PROVE SendsToSubscriber'
  BY <1>9, <1>0, Names, AllPlaces DEF SendsToSubscriber, LockHeld, TypeInv, SendingKnown,
     TypeOK, Sends, CanTake, Wants, LoadEnds, Step, Leave, Fresh, UnlockSendWork, Unlock,
     loop, outside, queues
<1>10. ASSUME NEW s \in Streams, LoadStream(s) PROVE SendsToSubscriber'
  BY <1>10, <1>0, Names, AllPlaces DEF SendsToSubscriber, LockHeld, TypeInv, SendingKnown,
     TypeOK, Sends, CanTake, Wants, LoadStream, Locked, Step, UnlockSendWork, Unlock,
     loop, outside, queues
<1>11. ASSUME UnlockAll PROVE SendsToSubscriber'
  BY <1>11, <1>0, Names, AllPlaces DEF SendsToSubscriber, LockHeld, TypeInv, SendingKnown,
     TypeOK, Sends, CanTake, Wants, UnlockAll, Locked, Step, UnlockSendWork, Unlock, loop,
     outside, queues
<1>12. ASSUME ClearSendWork PROVE SendsToSubscriber'
  BY <1>12, <1>0, Names, AllPlaces DEF SendsToSubscriber, LockHeld, TypeInv, SendingKnown,
     TypeOK, Sends, CanTake, Wants, ClearSendWork, ClearTaking, Step, UnlockSendWork,
     Unlock, loop, outside, queues
<1>13. ASSUME JoinWorkers PROVE SendsToSubscriber'
  BY <1>13, <1>0, Names, AllPlaces DEF SendsToSubscriber, LockHeld, TypeInv, SendingKnown,
     TypeOK, Sends, CanTake, Wants, JoinWorkers, Joins, Step, Ends, UnlockSendWork, Unlock,
     loop,
     outside, queues
<1>14. ASSUME StopStreams PROVE SendsToSubscriber'
  BY <1>14, <1>0, Names, AllPlaces DEF SendsToSubscriber, LockHeld, TypeInv, SendingKnown,
     TypeOK, Sends, CanTake, Wants, StopStreams, Step, Ends, UnlockSendWork, Unlock, loop,
     outside, queues
<1>15. ASSUME NEW t \in {"recv", "check"}, StopStream(t) PROVE SendsToSubscriber'
  BY <1>15, <1>0, Names, AllPlaces DEF SendsToSubscriber, LockHeld, TypeInv, SendingKnown,
     TypeOK, Sends, CanTake, Wants, StopStream, Step, Ends, UnlockSendWork, Unlock, loop,
     outside, queues
<1>16. ASSUME NEW t \in {"recv", "check"}, StartStream(t) PROVE SendsToSubscriber'
  BY <1>16, <1>0, Names, AllPlaces DEF SendsToSubscriber, LockHeld, TypeInv, SendingKnown,
     TypeOK, Sends, CanTake, Wants, StartStream, Step, UnlockSendWork, Unlock, loop,
     outside, queues
<1>17. ASSUME NEW t \in Threads, BeginSend(t) PROVE SendsToSubscriber'
  BY <1>17, <1>0, Names, AllPlaces DEF SendsToSubscriber, LockHeld, TypeInv, SendingKnown,
     TypeOK, Sends, CanTake, Wants, BeginSend, BeginWhen, UnlockSendWork, Unlock, loop,
     outside, queues
<1>18. ASSUME NEW t \in Threads, Choose(t) PROVE SendsToSubscriber'
  <2>1. \A u \in Threads : u # t => pc'[u] \notin {"send", "push"}
    BY <1>18, <1>0 DEF LockHeld, Sends, Choose
  <2>2. /\ at[t] \in DOMAIN workers
        /\ UNCHANGED <<workers, job, sending>>
        /\ \/ Wants(workers[at[t]], sending[t], job[t]) /\ at' = at
           \/ pc' = pc
    BY <1>18 DEF Choose
  <2>3. pc'[t] \in {"send", "push"} =>
          at'[t] \in DOMAIN (workers') /\ Wants(workers'[at'[t]], sending'[t], job'[t])
    <3>1. CASE pc' = pc
      BY <1>18, <3>1 DEF Choose
    <3>2. CASE Wants(workers[at[t]], sending[t], job[t]) /\ at' = at
      BY <2>2, <3>2
    <3> QED
      BY <2>2, <3>1, <3>2
  <2> QED
    BY <2>1, <2>3 DEF SendsToSubscriber, Wants
<1>19. ASSUME NEW t \in Threads, GetPlace(t) PROVE SendsToSubscriber'
  BY <1>19, <1>0, Names, AllPlaces DEF SendsToSubscriber, LockHeld, TypeInv, SendingKnown,
     TypeOK, Sends, CanTake, Wants, GetPlace, Step, Client, loop, outside, queues
<1>20. ASSUME NEW t \in Threads, NotPushed(t) PROVE SendsToSubscriber'
  BY <1>20, <1>0, Names, AllPlaces DEF SendsToSubscriber, LockHeld, TypeInv, SendingKnown,
     TypeOK, Sends, CanTake, Wants, NotPushed, FailWhen, GiveUp, GoOn, Step, loop, outside,
     queues
<1>21. ASSUME NEW t \in Threads, Pushed(t) PROVE SendsToSubscriber'
  BY <1>21, <1>0, Names, AllPlaces DEF SendsToSubscriber, LockHeld, TypeInv, SendingKnown,
     TypeOK, Sends, CanTake, Wants, Pushed, GoOn, Step, Post, Client, loop, outside, queues
<1>22. ASSUME NEW t \in Threads, PushAbandoned(t) PROVE SendsToSubscriber'
  BY <1>22, <1>0, Names, AllPlaces DEF SendsToSubscriber, LockHeld, TypeInv, SendingKnown,
     TypeOK, Sends, CanTake, Wants, PushAbandoned, GoOn, Step, Client, loop, outside, queues
<1>23. ASSUME NEW t \in Threads, PushUnlocked(t) PROVE SendsToSubscriber'
  BY <1>23, <1>0, Names, AllPlaces DEF SendsToSubscriber, LockHeld, TypeInv, SendingKnown,
     TypeOK, Sends, CanTake, Wants, PushUnlocked, GiveUp, GoOn, Step, loop, outside, queues
<1>24. ASSUME NEW t \in Threads, EndSend(t) PROVE SendsToSubscriber'
  BY <1>24, <1>0, Names, AllPlaces DEF SendsToSubscriber, LockHeld, TypeInv, SendingKnown,
     TypeOK, Sends, CanTake, Wants, EndSend, Step, Leave, Fresh, UnlockSendWork, Unlock,
     loop, outside, queues
<1>25. ASSUME NEW s \in Streams, Decoded(s) PROVE SendsToSubscriber'
  BY <1>25, <1>0, Names, AllPlaces DEF SendsToSubscriber, LockHeld, TypeInv, SendingKnown,
     TypeOK, Sends, CanTake, Wants, Decoded, Step, UnlockSendWork, Unlock, loop, outside,
     queues
<1>26. ASSUME NEW s \in Streams, CheckStream(s) PROVE SendsToSubscriber'
  BY <1>26, <1>0, Names, AllPlaces DEF SendsToSubscriber, LockHeld, TypeInv, SendingKnown,
     TypeOK, Sends, CanTake, Wants, CheckStream, Step, UnlockSendWork, Unlock, loop,
     outside, queues
<1>27. ASSUME NEW c \in Clients, Read(c) PROVE SendsToSubscriber'
  BY <1>27, <1>0, Names, AllPlaces DEF SendsToSubscriber, LockHeld, TypeInv, SendingKnown,
     TypeOK, Sends, CanTake, Wants, Read, Post, UnlockSendWork, Unlock, loop, outside,
     queues
<1>28. ASSUME NEW c \in Clients, Dies(c) PROVE SendsToSubscriber'
  BY <1>28, <1>0, Names, AllPlaces DEF SendsToSubscriber, LockHeld, TypeInv, SendingKnown,
     TypeOK, Sends, CanTake, Wants, Dies, loop, outside, queues
<1>29. ASSUME NEW c \in Clients, ReadAbandoned(c) PROVE SendsToSubscriber'
  BY <1>29, <1>0, Names, AllPlaces DEF SendsToSubscriber, LockHeld, TypeInv, SendingKnown,
     TypeOK, Sends, CanTake, Wants, ReadAbandoned, loop, outside, queues
<1>30. CASE UNCHANGED vars
  BY <1>30 DEF SendsToSubscriber, Wants, vars, loop
<1> QED
  BY <1>1, <1>2, <1>3, <1>4, <1>5, <1>6, <1>7, <1>8, <1>9, <1>10, <1>11, <1>12, <1>13,
     <1>14, <1>15, <1>16, <1>17, <1>18, <1>19, <1>20, <1>21, <1>22, <1>23,
     <1>24, <1>25, <1>26, <1>27, <1>28, <1>29, <1>30
  DEF Next, Requests, Handlers, Restarts, Stops, Send
----------------------------------------------------------------------------
(* The clients.                                                            *)
LEMMA ClientStep ==
  ASSUME TypeInv, LockHeld, OneClient, [Next]_vars
  PROVE  OneClient'
<1>0. /\ TypeOK /\ workers \in Seq(Entries) /\ pc \in [Threads -> Places]
      /\ job \in [Threads -> Jobs]
  BY TypesSay DEF TypeInv
<1>1. ASSUME NEW c \in Clients, ProcessInfoReq(c) PROVE OneClient'
  BY <1>1, <1>0, Names, AllPlaces DEF OneClient, InsertsNew, OneWorkerPerClient, Exists,
     TypeOK, ProcessInfoReq, Receive, Step, NoJob, loop, outside, queues
<1>2. ASSUME NEW c \in Clients, NEW s \in Streams, NEW on \in BOOLEAN, StreamRequest(c, s, on) PROVE OneClient'
  BY <1>2, <1>0, Names, AllPlaces DEF OneClient, InsertsNew, OneWorkerPerClient, Exists,
     TypeOK, StreamRequest, Receive, Step, NoJob, loop, outside, queues
<1>3. ASSUME NEW used \in SUBSET Streams, StreamInfo(used) PROVE OneClient'
  BY <1>3, <1>0, Names, AllPlaces DEF OneClient, InsertsNew, OneWorkerPerClient, Exists,
     TypeOK, StreamInfo, Receive, Step, NoJob, loop, outside, queues
<1>4. ASSUME IsExistSendWork PROVE OneClient'
  BY <1>4, <1>0, Names, AllPlaces DEF OneClient, InsertsNew, OneWorkerPerClient, Exists,
     TypeOK, IsExistSendWork, LookUpThen, Locked, Step, loop, outside, queues
<1>5. ASSUME InsertSendWork PROVE OneClient'
  <2> DEFINE e == NewWorker(job["recv"].client)
  <2>1. pc'["recv"] # "insert" /\ ~Exists(job["recv"].client)
    BY <1>5, <1>0, Names DEF OneClient, InsertsNew, InsertSendWork, Step
  <2>2. e.name = job["recv"].client
    BY DEF NewWorker
  <2> HIDE DEF e
  <2>3. CASE workers' = workers
    BY <2>1, <2>3 DEF OneClient, InsertsNew, OneWorkerPerClient
  <2>4. CASE workers' = Append(workers, e)
    <3>1. /\ DOMAIN (workers') = 1..(Len(workers) + 1) /\ DOMAIN workers = 1..Len(workers)
          /\ workers'[Len(workers) + 1] = e /\ Len(workers) \in Nat
          /\ \A i \in DOMAIN workers : workers'[i] = workers[i]
      BY <2>4, <1>0
    <3>2. \A i \in DOMAIN (workers') : i \in DOMAIN workers \/ i = Len(workers) + 1
      BY <3>1
    <3> QED
      BY <2>1, <2>2, <3>1, <3>2 DEF OneClient, InsertsNew, OneWorkerPerClient, Exists
  <2> QED
    BY <1>5, <2>3, <2>4 DEF InsertSendWork, e
<1>6. ASSUME SetFrameInfo PROVE OneClient'
  <2>1. SameClients
    BY <1>6, <1>0, SubscribeKeepsClients
  <2>2. (pc'["recv"] = "insert" => pc["recv"] = "insert") /\ job' = job
    BY <1>6, <1>0, Names DEF SetFrameInfo, SetFrameInfoWhen, Step
  <2> QED
    BY <2>1, <2>2 DEF OneClient, InsertsNew, OneWorkerPerClient, Exists, SameClients
<1>7. ASSUME RequestUnlocks PROVE OneClient'
  <2>1. SameClients
    BY <1>7, <1>0, UnlockKeepsClients DEF RequestUnlocks
  <2>2. pc'["recv"] # "insert"
    BY <1>7, <1>0, Names DEF RequestUnlocks, Step
  <2> QED
    BY <2>1, <2>2 DEF OneClient, InsertsNew, OneWorkerPerClient, Exists, SameClients
<1>8. ASSUME AddCheck PROVE OneClient'
  BY <1>8, <1>0, Names, AllPlaces DEF OneClient, InsertsNew, OneWorkerPerClient, Exists,
     TypeOK, AddCheck, Step, loop, outside, queues
<1>9. ASSUME LoadEnds PROVE OneClient'
  BY <1>9, <1>0, Names, AllPlaces DEF OneClient, InsertsNew, OneWorkerPerClient, Exists,
     TypeOK, LoadEnds, Step, Leave, Fresh, loop, outside, queues
<1>10. ASSUME NEW s \in Streams, LoadStream(s) PROVE OneClient'
  <2>1. SameClients
    BY <1>10, <1>0, UnlockKeepsClients DEF LoadStream, Locked
  <2>2. pc'["recv"] # "insert"
    BY <1>10, <1>0, Names DEF LoadStream, Locked, Step
  <2> QED
    BY <2>1, <2>2 DEF OneClient, InsertsNew, OneWorkerPerClient, Exists, SameClients
<1>11. ASSUME UnlockAll PROVE OneClient'
  <2>1. SameClients
    BY <1>11, <1>0, UnlockKeepsClients DEF UnlockAll
  <2>2. (pc'["recv"] = "insert" => pc["recv"] = "insert") /\ job' = job
    BY <1>11, <1>0, Names DEF UnlockAll, Step
  <2> QED
    BY <2>1, <2>2 DEF OneClient, InsertsNew, OneWorkerPerClient, Exists, SameClients
<1>12. ASSUME ClearSendWork PROVE OneClient'
  BY <1>12, <1>0, Names, AllPlaces DEF OneClient, InsertsNew, OneWorkerPerClient, Exists,
     TypeOK, ClearSendWork, ClearTaking, Step, loop, outside, queues
<1>13. ASSUME JoinWorkers PROVE OneClient'
  BY <1>13, <1>0, Names, AllPlaces DEF OneClient, InsertsNew, OneWorkerPerClient, Exists,
     TypeOK, JoinWorkers, Joins, Step, Ends, loop, outside, queues
<1>14. ASSUME StopStreams PROVE OneClient'
  BY <1>14, <1>0, Names, AllPlaces DEF OneClient, InsertsNew, OneWorkerPerClient, Exists,
     TypeOK, StopStreams, Step, Ends, loop, outside, queues
<1>15. ASSUME NEW t \in {"recv", "check"}, StopStream(t) PROVE OneClient'
  BY <1>15, <1>0, Names, AllPlaces DEF OneClient, InsertsNew, OneWorkerPerClient, Exists,
     TypeOK, StopStream, Step, Ends, loop, outside, queues
<1>16. ASSUME NEW t \in {"recv", "check"}, StartStream(t) PROVE OneClient'
  BY <1>16, <1>0, Names, AllPlaces DEF OneClient, InsertsNew, OneWorkerPerClient, Exists,
     TypeOK, StartStream, Step, loop, outside, queues
<1>17. ASSUME NEW t \in Threads, BeginSend(t) PROVE OneClient'
  BY <1>17, <1>0, Names, AllPlaces DEF OneClient, InsertsNew, OneWorkerPerClient, Exists,
     TypeOK, BeginSend, BeginWhen, loop, outside, queues
<1>18. ASSUME NEW t \in Threads, Choose(t) PROVE OneClient'
  BY <1>18, <1>0, Names, AllPlaces DEF OneClient, InsertsNew, OneWorkerPerClient, Exists,
     TypeOK, Choose, loop, outside, queues
<1>19. ASSUME NEW t \in Threads, GetPlace(t) PROVE OneClient'
  BY <1>19, <1>0, Names, AllPlaces DEF OneClient, InsertsNew, OneWorkerPerClient, Exists,
     TypeOK, GetPlace, Step, Client, loop, outside, queues
<1>20. ASSUME NEW t \in Threads, NotPushed(t) PROVE OneClient'
  <2>1. SameClients
    BY <1>20, <1>0, FailureKeepsClients DEF NotPushed, FailWhen
  <2>2. (pc'["recv"] = "insert" => pc["recv"] = "insert") /\ job' = job
    BY <1>20, <1>0, Names DEF NotPushed, FailWhen, GiveUp, GoOn, Step
  <2> QED
    BY <2>1, <2>2 DEF OneClient, InsertsNew, OneWorkerPerClient, Exists, SameClients
<1>21. ASSUME NEW t \in Threads, Pushed(t) PROVE OneClient'
  BY <1>21, <1>0, Names, AllPlaces DEF OneClient, InsertsNew, OneWorkerPerClient, Exists,
     TypeOK, Pushed, GoOn, Step, Post, Client, loop, outside, queues
<1>22. ASSUME NEW t \in Threads, PushAbandoned(t) PROVE OneClient'
  BY <1>22, <1>0, Names, AllPlaces DEF OneClient, InsertsNew, OneWorkerPerClient, Exists,
     TypeOK, PushAbandoned, GoOn, Step, Client, loop, outside, queues
<1>23. ASSUME NEW t \in Threads, PushUnlocked(t) PROVE OneClient'
  <2>1. SameClients
    BY <1>23, <1>0, FailureKeepsClients DEF PushUnlocked
  <2>2. (pc'["recv"] = "insert" => pc["recv"] = "insert") /\ job' = job
    BY <1>23, <1>0, Names DEF PushUnlocked, GiveUp, GoOn, Step
  <2> QED
    BY <2>1, <2>2 DEF OneClient, InsertsNew, OneWorkerPerClient, Exists, SameClients
<1>24. ASSUME NEW t \in Threads, EndSend(t) PROVE OneClient'
  <2>1. After[sending[t]] # "insert"
    BY <1>24, AllPlaces DEF TypeInv, SendingKnown, Sends, EndSend, Step
  <2>2. workers' = workers /\ pc' = [pc EXCEPT ![t] = After[sending[t]]]
        /\ (t # "recv" => job'["recv"] = job["recv"])
    BY <1>24, <1>0, Names DEF EndSend, Step, Leave
  <2>3. pc'["recv"] = "insert" => pc["recv"] = "insert" /\ job'["recv"] = job["recv"]
    BY <2>1, <2>2, <1>0, Names
  <2> QED
    BY <2>2, <2>3 DEF OneClient, InsertsNew, OneWorkerPerClient, Exists
<1>25. ASSUME NEW s \in Streams, Decoded(s) PROVE OneClient'
  BY <1>25, <1>0, Names, AllPlaces DEF OneClient, InsertsNew, OneWorkerPerClient, Exists,
     TypeOK, Decoded, Step, loop, outside, queues
<1>26. ASSUME NEW s \in Streams, CheckStream(s) PROVE OneClient'
  BY <1>26, <1>0, Names, AllPlaces DEF OneClient, InsertsNew, OneWorkerPerClient, Exists,
     TypeOK, CheckStream, Step, loop, outside, queues
<1>27. ASSUME NEW c \in Clients, Read(c) PROVE OneClient'
  BY <1>27, <1>0, Names, AllPlaces DEF OneClient, InsertsNew, OneWorkerPerClient, Exists,
     TypeOK, Read, Post, loop, outside, queues
<1>28. ASSUME NEW c \in Clients, Dies(c) PROVE OneClient'
  BY <1>28, <1>0, Names, AllPlaces DEF OneClient, InsertsNew, OneWorkerPerClient, Exists,
     TypeOK, Dies, loop, outside, queues
<1>29. ASSUME NEW c \in Clients, ReadAbandoned(c) PROVE OneClient'
  BY <1>29, <1>0, Names, AllPlaces DEF OneClient, InsertsNew, OneWorkerPerClient, Exists,
     TypeOK, ReadAbandoned, loop, outside, queues
<1>30. CASE UNCHANGED vars
  BY <1>30 DEF OneClient, InsertsNew, OneWorkerPerClient, Exists, vars
<1> QED
  BY <1>1, <1>2, <1>3, <1>4, <1>5, <1>6, <1>7, <1>8, <1>9, <1>10, <1>11, <1>12, <1>13,
     <1>14, <1>15, <1>16, <1>17, <1>18, <1>19, <1>20, <1>21, <1>22, <1>23,
     <1>24, <1>25, <1>26, <1>27, <1>28, <1>29, <1>30
  DEF Next, Requests, Handlers, Restarts, Stops, Send
----------------------------------------------------------------------------
(* The shutdown.                                                           *)
LEMMA QuietStep ==
  ASSUME TypeInv, Quiet, [Next]_vars
  PROVE  Quiet'
<1>0. /\ TypeOK /\ workers \in Seq(Entries) /\ pc \in [Threads -> Places]
      /\ job \in [Threads -> Jobs]
  BY TypesSay DEF TypeInv
<1>1. ASSUME NEW c \in Clients, ProcessInfoReq(c) PROVE Quiet'
  BY <1>1, <1>0, Names, AllPlaces DEF Quiet, ActiveRuns, Joined, TypeInv, JobsKnown,
     SendingKnown, Sends, TypeOK, ProcessInfoReq, Receive, Step, NoJob, loop, outside,
     queues
<1>2. ASSUME NEW c \in Clients, NEW s \in Streams, NEW on \in BOOLEAN, StreamRequest(c, s, on) PROVE Quiet'
  BY <1>2, <1>0, Names, AllPlaces DEF Quiet, ActiveRuns, Joined, TypeInv, JobsKnown,
     SendingKnown, Sends, TypeOK, StreamRequest, Receive, Step, NoJob, loop, outside, queues
<1>3. ASSUME NEW used \in SUBSET Streams, StreamInfo(used) PROVE Quiet'
  BY <1>3, <1>0, Names, AllPlaces DEF Quiet, ActiveRuns, Joined, TypeInv, JobsKnown,
     SendingKnown, Sends, TypeOK, StreamInfo, Receive, Step, NoJob, loop, outside, queues
<1>4. ASSUME IsExistSendWork PROVE Quiet'
  BY <1>4, <1>0, Names, AllPlaces DEF Quiet, ActiveRuns, Joined, TypeInv, JobsKnown,
     SendingKnown, Sends, TypeOK, IsExistSendWork, LookUpThen, Locked, Step, loop, outside,
     queues
<1>5. ASSUME InsertSendWork PROVE Quiet'
  BY <1>5, <1>0, Names, AllPlaces DEF Quiet, ActiveRuns, Joined, TypeInv, JobsKnown,
     SendingKnown, Sends, TypeOK, InsertSendWork, Locked, Step, loop, outside, queues
<1>6. ASSUME SetFrameInfo PROVE Quiet'
  BY <1>6, <1>0, Names, AllPlaces DEF Quiet, ActiveRuns, Joined, TypeInv, JobsKnown,
     SendingKnown, Sends, TypeOK, SetFrameInfo, SetFrameInfoWhen, Step, loop, outside,
     queues
<1>7. ASSUME RequestUnlocks PROVE Quiet'
  BY <1>7, <1>0, Names, AllPlaces DEF Quiet, ActiveRuns, Joined, TypeInv, JobsKnown,
     SendingKnown, Sends, TypeOK, RequestUnlocks, Locked, Step, Leave, Fresh, loop,
     outside, queues
<1>8. ASSUME AddCheck PROVE Quiet'
  BY <1>8, <1>0, Names, AllPlaces DEF Quiet, ActiveRuns, Joined, TypeInv, JobsKnown,
     SendingKnown, Sends, TypeOK, AddCheck, Step, loop, outside, queues
<1>9. ASSUME LoadEnds PROVE Quiet'
  BY <1>9, <1>0, Names, AllPlaces DEF Quiet, ActiveRuns, Joined, TypeInv, JobsKnown,
     SendingKnown, Sends, TypeOK, LoadEnds, Step, Leave, Fresh, loop, outside, queues
<1>10. ASSUME NEW s \in Streams, LoadStream(s) PROVE Quiet'
  BY <1>10, <1>0, Names, AllPlaces DEF Quiet, ActiveRuns, Joined, TypeInv, JobsKnown,
     SendingKnown, Sends, TypeOK, LoadStream, Locked, Step, loop, outside, queues
<1>11. ASSUME UnlockAll PROVE Quiet'
  BY <1>11, <1>0, Names, AllPlaces DEF Quiet, ActiveRuns, Joined, TypeInv, JobsKnown,
     SendingKnown, Sends, TypeOK, UnlockAll, Locked, Step, loop, outside, queues
<1>12. ASSUME ClearSendWork PROVE Quiet'
  BY <1>12, <1>0, Names, AllPlaces DEF Quiet, ActiveRuns, Joined, TypeInv, JobsKnown,
     SendingKnown, Sends, TypeOK, ClearSendWork, ClearTaking, Step, loop, outside, queues
<1>13. ASSUME JoinWorkers PROVE Quiet'
  BY <1>13, <1>0, Names, AllPlaces DEF Quiet, ActiveRuns, Joined, TypeInv, JobsKnown,
     SendingKnown, Sends, TypeOK, JoinWorkers, Joins, Step, Ends, loop, outside, queues
<1>14. ASSUME StopStreams PROVE Quiet'
  BY <1>14, <1>0, Names, AllPlaces DEF Quiet, ActiveRuns, Joined, TypeInv, JobsKnown,
     SendingKnown, Sends, TypeOK, StopStreams, Step, Ends, loop, outside, queues
<1>15. ASSUME NEW t \in {"recv", "check"}, StopStream(t) PROVE Quiet'
  BY <1>15, <1>0, Names, AllPlaces DEF Quiet, ActiveRuns, Joined, TypeInv, JobsKnown,
     SendingKnown, Sends, TypeOK, StopStream, Step, Ends, loop, outside, queues
<1>16. ASSUME NEW t \in {"recv", "check"}, StartStream(t) PROVE Quiet'
  BY <1>16, <1>0, Names, AllPlaces DEF Quiet, ActiveRuns, Joined, TypeInv, JobsKnown,
     SendingKnown, Sends, TypeOK, StartStream, Step, loop, outside, queues
<1>17. ASSUME NEW t \in Threads, BeginSend(t) PROVE Quiet'
  BY <1>17, <1>0, Names, AllPlaces DEF Quiet, ActiveRuns, Joined, TypeInv, JobsKnown,
     SendingKnown, Sends, TypeOK, BeginSend, BeginWhen, loop, outside, queues
<1>18. ASSUME NEW t \in Threads, Choose(t) PROVE Quiet'
  BY <1>18, <1>0, Names, AllPlaces DEF Quiet, ActiveRuns, Joined, TypeInv, JobsKnown,
     SendingKnown, Sends, TypeOK, Choose, loop, outside, queues
<1>19. ASSUME NEW t \in Threads, GetPlace(t) PROVE Quiet'
  BY <1>19, <1>0, Names, AllPlaces DEF Quiet, ActiveRuns, Joined, TypeInv, JobsKnown,
     SendingKnown, Sends, TypeOK, GetPlace, Step, Client, loop, outside, queues
<1>20. ASSUME NEW t \in Threads, NotPushed(t) PROVE Quiet'
  BY <1>20, <1>0, Names, AllPlaces DEF Quiet, ActiveRuns, Joined, TypeInv, JobsKnown,
     SendingKnown, Sends, TypeOK, NotPushed, FailWhen, GiveUp, GoOn, Step, loop, outside,
     queues
<1>21. ASSUME NEW t \in Threads, Pushed(t) PROVE Quiet'
  BY <1>21, <1>0, Names, AllPlaces DEF Quiet, ActiveRuns, Joined, TypeInv, JobsKnown,
     SendingKnown, Sends, TypeOK, Pushed, GoOn, Step, Post, Client, loop, outside, queues
<1>22. ASSUME NEW t \in Threads, PushAbandoned(t) PROVE Quiet'
  BY <1>22, <1>0, Names, AllPlaces DEF Quiet, ActiveRuns, Joined, TypeInv, JobsKnown,
     SendingKnown, Sends, TypeOK, PushAbandoned, GoOn, Step, Client, loop, outside, queues
<1>23. ASSUME NEW t \in Threads, PushUnlocked(t) PROVE Quiet'
  BY <1>23, <1>0, Names, AllPlaces DEF Quiet, ActiveRuns, Joined, TypeInv, JobsKnown,
     SendingKnown, Sends, TypeOK, PushUnlocked, GiveUp, GoOn, Step, loop, outside, queues
<1>24. ASSUME NEW t \in Threads, EndSend(t) PROVE Quiet'
  BY <1>24, <1>0, Names, AllPlaces DEF Quiet, ActiveRuns, Joined, TypeInv, JobsKnown,
     SendingKnown, Sends, TypeOK, EndSend, Step, Leave, Fresh, loop, outside, queues
<1>25. ASSUME NEW s \in Streams, Decoded(s) PROVE Quiet'
  BY <1>25, <1>0, Names, AllPlaces DEF Quiet, ActiveRuns, Joined, TypeInv, JobsKnown,
     SendingKnown, Sends, TypeOK, Decoded, Step, loop, outside, queues
<1>26. ASSUME NEW s \in Streams, CheckStream(s) PROVE Quiet'
  BY <1>26, <1>0, Names, AllPlaces DEF Quiet, ActiveRuns, Joined, TypeInv, JobsKnown,
     SendingKnown, Sends, TypeOK, CheckStream, Step, loop, outside, queues
<1>27. ASSUME NEW c \in Clients, Read(c) PROVE Quiet'
  BY <1>27, <1>0, Names, AllPlaces DEF Quiet, ActiveRuns, Joined, TypeInv, JobsKnown,
     SendingKnown, Sends, TypeOK, Read, Post, loop, outside, queues
<1>28. ASSUME NEW c \in Clients, Dies(c) PROVE Quiet'
  BY <1>28, <1>0, Names, AllPlaces DEF Quiet, ActiveRuns, Joined, TypeInv, JobsKnown,
     SendingKnown, Sends, TypeOK, Dies, loop, outside, queues
<1>29. ASSUME NEW c \in Clients, ReadAbandoned(c) PROVE Quiet'
  BY <1>29, <1>0, Names, AllPlaces DEF Quiet, ActiveRuns, Joined, TypeInv, JobsKnown,
     SendingKnown, Sends, TypeOK, ReadAbandoned, loop, outside, queues
<1>30. CASE UNCHANGED vars
  BY <1>30 DEF Quiet, ActiveRuns, Joined, vars, outside, queues
<1> QED
  BY <1>1, <1>2, <1>3, <1>4, <1>5, <1>6, <1>7, <1>8, <1>9, <1>10, <1>11, <1>12, <1>13,
     <1>14, <1>15, <1>16, <1>17, <1>18, <1>19, <1>20, <1>21, <1>22, <1>23,
     <1>24, <1>25, <1>26, <1>27, <1>28, <1>29, <1>30
  DEF Next, Requests, Handlers, Restarts, Stops, Send
----------------------------------------------------------------------------
Inv == TypeInv /\ LockHeld /\ SendsToSubscriber /\ OneClient /\ Quiet

LEMMA InitInv == Init => Inv
<1> SUFFICES ASSUME Init PROVE Inv
  OBVIOUS
<1>1. /\ workers \in Seq(Entries) /\ DOMAIN workers = {}
      /\ pc \in [Threads -> Places] /\ job \in [Threads -> Jobs]
      /\ \A t \in Threads : pc[t] = "idle"
  BY JobTypes DEF Init, Places
<1>2. Rest
  BY SendAssumption DEF Init, Rest
<1>3. TypeInv
  BY <1>1, <1>2, Names
  DEF TypeInv, TypeOK, Rest, Entries, Jobs, Places, JobsKnown, SendingKnown, Sends
<1>4. LockHeld
  BY <1>1, Names DEF Init, LockHeld, Sends
<1>5. SendsToSubscriber /\ OneClient /\ Quiet
  BY <1>1, Names DEF SendsToSubscriber, OneClient, InsertsNew, OneWorkerPerClient, Quiet,
                     ActiveRuns, Joined
<1> QED
  BY <1>3, <1>4, <1>5 DEF Inv

LEMMA SendInv == Spec => []Inv
<1>1. Inv /\ [Next]_vars => Inv'
  BY TypeStep, LockStep, SubscriberStep, ClientStep, QuietStep DEF Inv
<1> QED
  BY <1>1, InitInv, PTL DEF Spec

(* Types of the client list, the threads and the queues: no producer       *)
(* semaphore is above the number of slots, for any number of clients,      *)
(* streams and deaths of clients.                                          *)
THEOREM SendTypeCorrect == Spec => []TypeOK
<1>1. Inv => TypeOK
  BY DEF Inv, TypeInv
<1> QED
  BY <1>1, SendInv, PTL

(* m_send_workers_mutex keeps all sends apart, so that a sender's packet   *)
(* buffer has one writer.                                                  *)
THEOREM SendOneSender == Spec => []OneSender
<1>1. Inv => OneSender
  BY DEF Inv, LockHeld, OneSender
<1> QED
  BY <1>1, SendInv, PTL

(* SendFrame sends to a client that subscribes to the stream at that       *)
(* moment: SetFrameInfo and ClearSendWork do not come between its test and *)
(* its send.                                                               *)
THEOREM SendOnlyToSubscriber == Spec => []SendsToSubscriber
<1>1. Inv => SendsToSubscriber
  BY DEF Inv
<1> QED
  BY <1>1, SendInv, PTL

(* InsertSendWork never makes a second sender for a client. *)
THEOREM SendOneWorkerPerClient == Spec => []OneWorkerPerClient
<1>1. Inv => OneWorkerPerClient
  BY DEF Inv, OneClient
<1> QED
  BY <1>1, SendInv, PTL

(* After Camera::Deactivate no stream runs and no thread is in a handler. *)
THEOREM SendQuietAtEnd == Spec => []QuietAtEnd
<1>1. Inv => QuietAtEnd
  <2> SUFFICES ASSUME Inv, pc["main"] = "ended"
               PROVE  active = {} /\ \A t \in Threads \ {"main"} : pc[t] = "idle"
    BY DEF QuietAtEnd
  <2>1. active = {} /\ pc["check"] = "idle" /\ pc["recv"] = "idle"
    BY DEF Inv, Quiet, Joined
  <2>2. \A s \in Streams : pc[s] = "idle"
    BY <2>1 DEF Inv, Quiet, ActiveRuns
  <2> QED
    BY <2>1, <2>2 DEF Threads
<1> QED
  BY <1>1, SendInv, PTL
=============================================================================
