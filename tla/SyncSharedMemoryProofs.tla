----------------------- MODULE SyncSharedMemoryProofs -----------------------
(***************************************************************************)
(* Proofs about SyncSharedMemory for any numbers of senders and receivers, *)
(* any SyncCount and any bounds on what the environment does.              *)
(***************************************************************************)
EXTENDS SyncSharedMemory, FiniteSetTheorems, TLAPS

(* An endpoint whose memory is closed is in no call, and one that clears   *)
(* the queue has all its handles: StopWorker comes before the clearing or  *)
(* after it.  A mutex made anew under a running callback leaves the counts *)
(* unreliable.                                                             *)
StageInv ==
  /\ \A e \in Endpoints :
       stage[e] = Finalized => pc[e] = IF e \in Consumers THEN "stopped" ELSE "idle"
  /\ \A c \in Consumers : pc[c] \in {"clearwait"} \cup Clearing => stage[c] = Active
  /\ overtaken => dirty

(* An endpoint inside the section owns the mutex, unless it closed its     *)
(* handle there and somebody made the mutex anew; an abandoned mutex has   *)
(* no owner until somebody takes it over.                                  *)
MutexInv ==
  /\ mutex.abandoned => mutex.owner = NoOwner
  /\ mutex.owner # NoOwner => mutex.depth >= 1
  /\ \A e \in Endpoints :
       pc[e] \in Section /\ (overtaken => HasMutex(e)) => mutex.owner = e
  /\ ~overtaken => \A e \in Endpoints : pc[e] = "callback" => seen[e] = queue

(* A sender in a call has a packet to offer. *)
Offered ==
  \A p \in Producers : pc[p] \in {"sem"} \cup Token => packet[p] \in Packet

LEMMA ResetType ==
  /\ FreshSem \in [Semaphores -> 0 .. SyncCount]
  /\ FreeMutex \in [owner : Endpoints \cup {NoOwner}, depth : Nat, abandoned : BOOLEAN]
  /\ NoneLost \in [Semaphores -> Nat]
  /\ << >> \in Seq(Packet)
<1>1. FreshSem \in [Semaphores -> 0 .. SyncCount]
  BY SyncAssumption DEF FreshSem
<1>2. FreeMutex \in [owner : Endpoints \cup {NoOwner}, depth : Nat, abandoned : BOOLEAN]
  BY DEF FreeMutex, Owned
<1>3. NoneLost \in [Semaphores -> Nat]
  BY DEF NoneLost
<1>4. << >> \in Seq(Packet)
  OBVIOUS
<1> QED
  BY <1>1, <1>2, <1>3, <1>4

LEMMA OwnedType ==
  ASSUME NEW e \in Endpoints, NEW n \in Nat
  PROVE  Owned(e, n) \in [owner : Endpoints \cup {NoOwner}, depth : Nat, abandoned : BOOLEAN]
  BY DEF Owned

LEMMA ReleasedType ==
  ASSUME TypeOK, MutexInv, mutex.owner # NoOwner
  PROVE  Released \in [owner : Endpoints \cup {NoOwner}, depth : Nat, abandoned : BOOLEAN]
  BY DEF TypeOK, MutexInv, Released, FreeMutex, Owned

(* An action of the environment counts itself against its bound. *)
LEMMA SpendType ==
  ASSUME TypeOK, NEW k \in Bounded, NEW max, Spend(k, max)
  PROVE  used' \in [Bounded -> Nat]
<1>1. used \in [Bounded -> Nat] /\ used[k] + 1 \in Nat
  BY DEF TypeOK
<1>2. used' = [used EXCEPT ![k] = used[k] + 1]
  BY DEF Spend
<1> QED
  BY <1>1, <1>2

LEMMA TypeStep ==
  ASSUME TypeOK, StageInv, MutexInv, Offered, [Next]_vars
  PROVE  TypeOK'
<1>1. ASSUME NEW p \in Producers, SendPacket(p) PROVE TypeOK'
  <2>1. UNCHANGED <<sem, mutex, queue, exit, unlock, stage, running, seen, iter, delivered, lost, dirty, overtaken>>
    BY <1>1 DEF SendPacket, shared, events, local, ghost
  <2>2. pc' \in [Endpoints -> Label]
    BY <1>1, SyncAssumption DEF TypeOK, SendPacket, Goto, Label, Endpoints
  <2>3. packet' \in [Producers -> Packet \cup {NoPacket}]
    BY <1>1, SyncAssumption, SMTT(20) DEF TypeOK, SendPacket, Packet, Spend, Bounded
  <2>4. used' \in [Bounded -> Nat]
    BY <1>1, SpendType DEF SendPacket, Bounded
  <2>5. ret' \in [Endpoints -> Code]
    BY <1>1 DEF TypeOK, SendPacket, Code
  <2> QED
    BY <2>1, <2>2, <2>3, <2>4, <2>5 DEF TypeOK
<1>2. ASSUME NEW c \in Consumers, ThreadStart(c) PROVE TypeOK'
  <2>1. UNCHANGED <<sem, mutex, queue, exit, unlock, stage, packet, seen, ret, iter, used, delivered, lost, dirty, overtaken>>
    BY <1>2 DEF ThreadStart, shared, events, local, ghost
  <2>2. pc' \in [Endpoints -> Label]
    BY <1>2, SyncAssumption DEF TypeOK, ThreadStart, Goto, Label, Endpoints
  <2>3. running' \in [Consumers -> BOOLEAN]
    BY <1>2, SyncAssumption DEF TypeOK, ThreadStart
  <2> QED
    BY <2>1, <2>2, <2>3 DEF TypeOK
<1>3. ASSUME NEW c \in Consumers, CallConsumer(c) PROVE TypeOK'
  <2>1. UNCHANGED <<sem, mutex, queue, exit, unlock, stage, running, packet, seen, iter, used, delivered, lost, dirty, overtaken>>
    BY <1>3 DEF CallConsumer, Return, shared, events, local, ghost
  <2>2. pc' \in [Endpoints -> Label]
    BY <1>3, SyncAssumption, ZenonT(60) DEF TypeOK, CallConsumer, Return, Goto, Label, Endpoints
  <2>3. ret' \in [Endpoints -> Code]
    <3>1. \E m \in {"OK", "WaitForObjectFailed"} : ret' = [ret EXCEPT ![c] = m]
      BY <1>3 DEF CallConsumer, Return
    <3> QED
      BY <3>1 DEF TypeOK, Code
  <2> QED
    BY <2>1, <2>2, <2>3 DEF TypeOK
<1>4. ASSUME NEW c \in Consumers, ThreadEnd(c) PROVE TypeOK'
  <2>1. UNCHANGED <<sem, queue, exit, unlock, stage, running, packet, seen, ret, iter, used, delivered, lost, dirty, overtaken>>
    BY <1>4 DEF ThreadEnd, shared, events, local, ghost
  <2>2. pc' \in [Endpoints -> Label]
    BY <1>4, SyncAssumption DEF TypeOK, ThreadEnd, Goto, Label, Endpoints
  <2>3. mutex' \in [owner : Endpoints \cup {NoOwner}, depth : Nat, abandoned : BOOLEAN]
    BY <1>4, SyncAssumption DEF TypeOK, ThreadEnd, AbandonedMutex
  <2> QED
    BY <2>1, <2>2, <2>3 DEF TypeOK
<1>5. ASSUME NEW e \in Endpoints, TakeToken(e) PROVE TypeOK'
  <2>1. UNCHANGED <<mutex, queue, exit, unlock, stage, running, packet, seen, iter, used, delivered, overtaken>>
    BY <1>5 DEF TakeToken, shared, events, local, ghost
  <2>2. sem' \in [Semaphores -> 0 .. SyncCount]
    BY <1>5, SyncAssumption, SMTT(20) DEF TypeOK, TakeToken, Role, Semaphores
  <2>3. pc' \in [Endpoints -> Label]
    BY <1>5, SyncAssumption DEF TypeOK, TakeToken, Return, Goto, Label, Token
  <2>4. ret' \in [Endpoints -> Code]
    BY <1>5, SyncAssumption DEF TypeOK, TakeToken, Return, Code
  <2>5. lost' \in [Semaphores -> Nat]
    BY <1>5, SyncAssumption, SMTT(20) DEF TypeOK, TakeToken, Lose, Role, Semaphores
  <2>6. dirty' \in BOOLEAN
    BY <1>5, SyncAssumption DEF TypeOK, TakeToken
  <2> QED
    BY <2>1, <2>2, <2>3, <2>4, <2>5, <2>6 DEF TypeOK
<1>6. ASSUME NEW e \in Endpoints, LeaveSemWait(e) PROVE TypeOK'
  <2>1. UNCHANGED <<sem, mutex, queue, exit, stage, running, packet, seen, iter, used, delivered, lost, dirty, overtaken>>
    BY <1>6 DEF LeaveSemWait, Interrupted, WaitFails, shared, events, local, ghost
  <2>2. unlock' \in SUBSET Endpoints
    BY <1>6, SyncAssumption DEF TypeOK, LeaveSemWait, Interrupted, WaitFails
  <2>3. pc' \in [Endpoints -> Label]
    BY <1>6, SyncAssumption DEF TypeOK, LeaveSemWait, Interrupted, WaitFails, Return, Goto, Label
  <2>4. ret' \in [Endpoints -> Code]
    BY <1>6, SyncAssumption DEF TypeOK, LeaveSemWait, Interrupted, WaitFails, Return, Code
  <2> QED
    BY <2>1, <2>2, <2>3, <2>4 DEF TypeOK
<1>7. ASSUME NEW e \in Endpoints, AcquireMutex(e) PROVE TypeOK'
  <2>1. UNCHANGED <<sem, queue, exit, unlock, stage, running, packet, seen, ret, iter, used, delivered, lost, dirty, overtaken>>
    BY <1>7 DEF AcquireMutex, AcquireWhen, shared, events, local, ghost
  <2>2. mutex' \in [owner : Endpoints \cup {NoOwner}, depth : Nat, abandoned : BOOLEAN]
    BY <1>7, SyncAssumption DEF TypeOK, AcquireMutex, AcquireWhen, Owned
  <2>3. pc' \in [Endpoints -> Label]
    BY <1>7, SyncAssumption DEF TypeOK, AcquireMutex, AcquireWhen, Goto, Label, Token
  <2> QED
    BY <2>1, <2>2, <2>3 DEF TypeOK
<1>8. ASSUME NEW e \in Endpoints, AcquireAbandoned(e) PROVE TypeOK'
  <2>1. UNCHANGED <<sem, queue, exit, unlock, stage, running, packet, seen, iter, used, delivered, dirty, overtaken>>
    BY <1>8 DEF AcquireAbandoned, shared, events, local, ghost
  <2>2. mutex' \in [owner : Endpoints \cup {NoOwner}, depth : Nat, abandoned : BOOLEAN]
    BY <1>8, SyncAssumption DEF TypeOK, AcquireAbandoned, Owned
  <2>3. pc' \in [Endpoints -> Label]
    BY <1>8, SyncAssumption DEF TypeOK, AcquireAbandoned, Return, Goto, Label
  <2>4. ret' \in [Endpoints -> Code]
    BY <1>8, SyncAssumption DEF TypeOK, AcquireAbandoned, Return, Code
  <2>5. lost' \in [Semaphores -> Nat]
    BY <1>8, SyncAssumption, SMTT(20) DEF TypeOK, AcquireAbandoned, Lose, Role, Semaphores
  <2> QED
    BY <2>1, <2>2, <2>3, <2>4, <2>5 DEF TypeOK
<1>9. ASSUME NEW e \in Endpoints, LeaveMutexWait(e) PROVE TypeOK'
  <2>1. UNCHANGED <<sem, mutex, queue, exit, stage, running, packet, seen, iter, used, delivered, dirty, overtaken>>
    BY <1>9 DEF LeaveMutexWait, Interrupted, WaitFails, shared, events, local, ghost
  <2>2. unlock' \in SUBSET Endpoints
    BY <1>9, SyncAssumption DEF TypeOK, LeaveMutexWait, Interrupted, WaitFails
  <2>3. pc' \in [Endpoints -> Label]
    BY <1>9, SyncAssumption DEF TypeOK, LeaveMutexWait, Interrupted, WaitFails, Return, Goto, Label
  <2>4. ret' \in [Endpoints -> Code]
    BY <1>9, SyncAssumption DEF TypeOK, LeaveMutexWait, Interrupted, WaitFails, Return, Code
  <2>5. lost' \in [Semaphores -> Nat]
    BY <1>9, SyncAssumption DEF TypeOK, LeaveMutexWait, Interrupted, WaitFails, Lose, Role, Semaphores
  <2> QED
    BY <2>1, <2>2, <2>3, <2>4, <2>5 DEF TypeOK
<1>10. ASSUME NEW e \in Endpoints, CallbackPush(e) PROVE TypeOK'
  <2>1. UNCHANGED <<sem, mutex, exit, unlock, stage, running, packet, seen, ret, iter, used, delivered, lost, dirty, overtaken>>
    BY <1>10 DEF CallbackPush, PushOrElse, shared, events, local, ghost
  <2>2. queue' = queue \/ (e \in Producers /\ queue' = Append(seen[e], packet[e]))
    BY <1>10 DEF CallbackPush, PushOrElse
  <2>3. seen[e] \in Seq(Packet) /\ queue \in Seq(Packet) /\ (e \in Producers => packet[e] \in Packet)
    BY <1>10 DEF TypeOK, Offered, Token, CallbackPush, PushOrElse
  <2>4. e \in Producers => Append(seen[e], packet[e]) \in Seq(Packet)
    BY <2>3
  <2>5. pc' \in [Endpoints -> Label]
    BY <1>10, SyncAssumption DEF TypeOK, CallbackPush, PushOrElse, Goto, Label, Token
  <2>6. queue' \in Seq(Packet)
    BY <2>2, <2>3, <2>4, Zenon
  <2> QED
    BY <2>1, <2>2, <2>3, <2>4, <2>5, <2>6 DEF TypeOK
<1>11. ASSUME NEW e \in Endpoints, CallbackPop(e) PROVE TypeOK'
  <2>1. UNCHANGED <<sem, mutex, exit, unlock, stage, running, packet, seen, ret, iter, used, lost, dirty, overtaken>>
    BY <1>11 DEF CallbackPop, shared, events, local, ghost
  <2>2. \/ queue' = queue /\ delivered' = delivered
        \/ /\ seen[e] # << >> /\ queue' = Tail(seen[e])
           /\ delivered' = Append(delivered, Head(seen[e]))
    BY <1>11 DEF CallbackPop
  <2>3. seen[e] \in Seq(Packet) /\ delivered \in Seq(Packet) /\ queue \in Seq(Packet)
    BY <1>11 DEF TypeOK
  <2>4. seen[e] # << >> => Tail(seen[e]) \in Seq(Packet) /\ Head(seen[e]) \in Packet
    BY <2>3
  <2>5. pc' \in [Endpoints -> Label]
    BY <1>11, SyncAssumption DEF TypeOK, CallbackPop, Goto, Label, Token
  <2>6. queue' \in Seq(Packet)
    BY <2>2, <2>4, Zenon DEF TypeOK
  <2>7. delivered' \in Seq(Packet)
    BY <2>2, <2>3, <2>4, SMTT(20)
  <2> QED
    BY <2>1, <2>2, <2>3, <2>4, <2>5, <2>6, <2>7 DEF TypeOK
<1>12. ASSUME NEW e \in Endpoints, Post(e) PROVE TypeOK'
  <2>1. UNCHANGED <<mutex, queue, exit, unlock, stage, running, packet, seen, iter, used, delivered, dirty, overtaken>>
    BY <1>12 DEF Post, PostThen, shared, events, local, ghost
  <2>2. sem' \in [Semaphores -> 0 .. SyncCount]
    BY <1>12, SyncAssumption, SMTT(20) DEF TypeOK, Post, PostThen, Role, Other, Semaphores
  <2>3. lost' \in [Semaphores -> Nat]
    BY <1>12, SyncAssumption DEF TypeOK, Post, PostThen, Lose, Role, Other, Semaphores
  <2>4. ret' \in [Endpoints -> Code]
    BY <1>12, SyncAssumption DEF TypeOK, Post, PostThen, Code
  <2>5. pc' \in [Endpoints -> Label]
    BY <1>12, SyncAssumption DEF TypeOK, Post, PostThen, Goto, Label, Section
  <2> QED
    BY <2>1, <2>2, <2>3, <2>4, <2>5 DEF TypeOK
<1>13. ASSUME NEW e \in Endpoints, Restore(e) PROVE TypeOK'
  <2>1. UNCHANGED <<mutex, queue, exit, unlock, stage, running, packet, seen, iter, used, delivered, dirty, overtaken>>
    BY <1>13 DEF Restore, RestoreAnswering, shared, events, local, ghost
  <2>2. sem' \in [Semaphores -> 0 .. SyncCount]
    BY <1>13, SyncAssumption, SMTT(20) DEF TypeOK, Restore, RestoreAnswering, Role, Semaphores
  <2>3. lost' \in [Semaphores -> Nat]
    BY <1>13, SyncAssumption DEF TypeOK, Restore, RestoreAnswering, Lose, Role, Semaphores
  <2>4. ret' \in [Endpoints -> Code]
    BY <1>13, SyncAssumption DEF TypeOK, Restore, RestoreAnswering, Code
  <2>5. pc' \in [Endpoints -> Label]
    BY <1>13, SyncAssumption DEF TypeOK, Restore, RestoreAnswering, Goto, Label, Section
  <2> QED
    BY <2>1, <2>2, <2>3, <2>4, <2>5 DEF TypeOK
<1>14. ASSUME NEW e \in Endpoints, ReleaseMutex(e) PROVE TypeOK'
  <2>1. UNCHANGED <<sem, queue, exit, unlock, stage, running, packet, ret, iter, used, delivered, lost, dirty, overtaken>>
    BY <1>14 DEF ReleaseMutex, ReleaseBefore, shared, events, local, ghost
  <2>2. mutex' = mutex \/ (mutex' = Released /\ HasMutex(e))
    BY <1>14 DEF ReleaseMutex, ReleaseBefore, HasMutex
  <2>3. HasMutex(e) => mutex.owner # NoOwner
    BY <1>14, SyncAssumption DEF MutexInv, Section, ReleaseMutex, ReleaseBefore
  <2>4. mutex' \in [owner : Endpoints \cup {NoOwner}, depth : Nat, abandoned : BOOLEAN]
    BY <2>2, <2>3, ReleasedType DEF TypeOK
  <2>5. pc' \in [Endpoints -> Label]
    BY <1>14, SyncAssumption DEF TypeOK, ReleaseMutex, ReleaseBefore, Goto, Label
  <2>6. seen' \in [Endpoints -> Seq(Packet)]
    BY <1>14, SyncAssumption DEF TypeOK, ReleaseMutex, ReleaseBefore
  <2> QED
    BY <2>1, <2>2, <2>3, <2>4, <2>5, <2>6 DEF TypeOK
<1>15. ASSUME NEW c \in Consumers, CallClear(c) PROVE TypeOK'
  <2>1. UNCHANGED <<sem, mutex, queue, exit, unlock, stage, running, packet, seen, ret, iter, delivered, lost, dirty, overtaken>>
    BY <1>15 DEF CallClear, shared, events, local, ghost
  <2>2. pc' \in [Endpoints -> Label]
    BY <1>15, SyncAssumption DEF TypeOK, CallClear, Goto, Label, Endpoints
  <2>3. used' \in [Bounded -> Nat]
    BY <1>15, SpendType DEF CallClear, Bounded
  <2> QED
    BY <2>1, <2>2, <2>3 DEF TypeOK
<1>16. ASSUME NEW c \in Consumers, ClearQueue(c) PROVE TypeOK'
  <2>1. UNCHANGED <<sem, exit, unlock, stage, running, packet, seen, ret, used, delivered, overtaken>>
    BY <1>16 DEF ClearQueue, shared, events, local, ghost
  <2>2. mutex' \in [owner : Endpoints \cup {NoOwner}, depth : Nat, abandoned : BOOLEAN]
    BY <1>16, SyncAssumption DEF TypeOK, ClearQueue, Owned, Endpoints
  <2>3. queue' \in Seq(Packet)
    BY <1>16, SyncAssumption DEF TypeOK, ClearQueue
  <2>4. iter' \in [Consumers -> 0 .. SyncCount]
    BY <1>16, SyncAssumption DEF TypeOK, ClearQueue
  <2>5. lost' \in [Semaphores -> Nat]
    BY <1>16, SyncAssumption DEF TypeOK, ClearQueue, NoneLost
  <2>6. dirty' \in BOOLEAN
    BY <1>16, SyncAssumption DEF TypeOK, ClearQueue
  <2>7. pc' \in [Endpoints -> Label]
    BY <1>16, SyncAssumption DEF TypeOK, ClearQueue, Goto, Label, Section, Clearing, Endpoints
  <2> QED
    BY <2>1, <2>2, <2>3, <2>4, <2>5, <2>6, <2>7 DEF TypeOK
<1>17. ASSUME NEW c \in Consumers, ClearFails(c) PROVE TypeOK'
  <2>1. UNCHANGED <<sem, queue, exit, stage, running, packet, seen, ret, iter, used, delivered, lost, dirty, overtaken>>
    BY <1>17 DEF ClearFails, shared, events, local, ghost
  <2>2. c \in Endpoints /\ (mutex' = Owned(c, 1) \/ mutex' = mutex)
    BY <1>17 DEF ClearFails, Endpoints
  <2>3. c \in Endpoints => Owned(c, 1) \in [owner : Endpoints \cup {NoOwner}, depth : Nat, abandoned : BOOLEAN]
    BY OwnedType
  <2>4. mutex' \in [owner : Endpoints \cup {NoOwner}, depth : Nat, abandoned : BOOLEAN]
    BY <2>2, <2>3, Zenon DEF TypeOK
  <2>5. unlock' \in SUBSET Endpoints
    BY <1>17, SyncAssumption DEF TypeOK, ClearFails
  <2>6. pc' \in [Endpoints -> Label]
    BY <1>17, SyncAssumption DEF TypeOK, ClearFails, Goto, Label, Endpoints
  <2> QED
    BY <2>1, <2>2, <2>3, <2>4, <2>5, <2>6 DEF TypeOK
<1>18. ASSUME NEW c \in Consumers, FillProducer(c) PROVE TypeOK'
  <2>1. UNCHANGED <<mutex, queue, exit, unlock, stage, running, packet, seen, ret, used, delivered, lost, dirty, overtaken>>
    BY <1>18 DEF FillProducer, shared, events, local, ghost
  <2>2. \/ iter[c] < SyncCount /\ iter' = [iter EXCEPT ![c] = @ + 1] /\ pc' = pc
        \/ iter' = [iter EXCEPT ![c] = 0] /\ Goto(c, "drain")
    BY <1>18 DEF FillProducer
  <2>3. iter \in [Consumers -> 0 .. SyncCount] /\ iter[c] \in 0 .. SyncCount /\ c \in Endpoints
    BY <1>18 DEF TypeOK, Endpoints
  <2>4. sem' \in [Semaphores -> 0 .. SyncCount]
    BY <1>18, SyncAssumption, SMTT(20) DEF TypeOK, FillProducer, Semaphores
  <2>5. iter' \in [Consumers -> 0 .. SyncCount]
    BY <2>2, <2>3, SyncAssumption
  <2>6. pc' \in [Endpoints -> Label]
    BY <2>2, <2>3 DEF TypeOK, Goto, Label, Section, Clearing
  <2> QED
    BY <2>1, <2>2, <2>3, <2>4, <2>5, <2>6 DEF TypeOK
<1>19. ASSUME NEW c \in Consumers, DrainConsumer(c) PROVE TypeOK'
  <2>1. UNCHANGED <<mutex, queue, exit, unlock, stage, running, packet, seen, ret, used, delivered, lost, dirty, overtaken>>
    BY <1>19 DEF DrainConsumer, shared, events, local, ghost
  <2>2. \/ iter[c] < SyncCount /\ iter' = [iter EXCEPT ![c] = @ + 1] /\ pc' = pc
        \/ iter' = [iter EXCEPT ![c] = 0] /\ Goto(c, "endclear")
    BY <1>19 DEF DrainConsumer
  <2>3. iter \in [Consumers -> 0 .. SyncCount] /\ iter[c] \in 0 .. SyncCount /\ c \in Endpoints
    BY <1>19 DEF TypeOK, Endpoints
  <2>4. sem' \in [Semaphores -> 0 .. SyncCount]
    BY <1>19, SyncAssumption, SMTT(20) DEF TypeOK, DrainConsumer, Semaphores
  <2>5. iter' \in [Consumers -> 0 .. SyncCount]
    BY <2>2, <2>3, SyncAssumption
  <2>6. pc' \in [Endpoints -> Label]
    BY <2>2, <2>3 DEF TypeOK, Goto, Label, Section, Clearing
  <2> QED
    BY <2>1, <2>2, <2>3, <2>4, <2>5, <2>6 DEF TypeOK
<1>20. ASSUME NEW c \in Consumers, EndClear(c) PROVE TypeOK'
  <2>1. UNCHANGED <<sem, queue, exit, unlock, stage, running, packet, seen, ret, iter, used, delivered, lost, dirty, overtaken>>
    BY <1>20 DEF EndClear, shared, events, local, ghost
  <2>2. c \in Endpoints /\ mutex' = Released
    BY <1>20 DEF EndClear, Endpoints
  <2>3. mutex.owner # NoOwner
    BY <1>20, <2>2, SyncAssumption
    DEF StageInv, MutexInv, HasMutex, Active, MutexClosed, Section, Clearing, EndClear
  <2>4. mutex' \in [owner : Endpoints \cup {NoOwner}, depth : Nat, abandoned : BOOLEAN]
    BY <2>2, <2>3, ReleasedType
  <2>5. pc' \in [Endpoints -> Label]
    BY <1>20, SyncAssumption DEF TypeOK, EndClear, Goto, Label, Endpoints
  <2> QED
    BY <2>1, <2>2, <2>3, <2>4, <2>5 DEF TypeOK
<1>21. ASSUME NEW e \in Endpoints, SendSyncUnlock(e) PROVE TypeOK'
  <2>1. UNCHANGED <<sem, mutex, queue, exit, stage, running, pc, packet, seen, ret, iter, delivered, lost, dirty, overtaken>>
    BY <1>21 DEF SendSyncUnlock, shared, events, local, ghost
  <2>2. unlock' \in SUBSET Endpoints
    BY <1>21, SyncAssumption DEF TypeOK, SendSyncUnlock
  <2>3. used' \in [Bounded -> Nat]
    BY <1>21, SpendType DEF SendSyncUnlock, Bounded
  <2> QED
    BY <2>1, <2>2, <2>3 DEF TypeOK
<1>22. ASSUME NEW e \in Endpoints, StopWorker(e) PROVE TypeOK'
  <2>1. UNCHANGED <<sem, mutex, queue, exit, unlock, pc, packet, seen, ret, iter, delivered, lost, dirty, overtaken>>
    BY <1>22 DEF StopWorker, shared, events, local, ghost
  <2>2. stage' \in [Endpoints -> Active .. Finalized]
    BY <1>22, SyncAssumption DEF TypeOK, StopWorker, Active, Stopping, Signalled, EventsClosed, MutexClosed, Closed, Finalized
  <2>3. running' \in [Consumers -> BOOLEAN]
    BY <1>22, SyncAssumption DEF TypeOK, StopWorker
  <2>4. used' \in [Bounded -> Nat]
    BY <1>22, SpendType DEF StopWorker, Bounded
  <2> QED
    BY <2>1, <2>2, <2>3, <2>4 DEF TypeOK
<1>23. ASSUME NEW e \in Endpoints, SignalExit(e) PROVE TypeOK'
  <2>1. UNCHANGED <<sem, mutex, queue, unlock, running, pc, packet, seen, ret, iter, used, delivered, lost, dirty, overtaken>>
    BY <1>23 DEF SignalExit, shared, events, local, ghost
  <2>2. stage' \in [Endpoints -> Active .. Finalized]
    BY <1>23, SyncAssumption DEF TypeOK, SignalExit, Active, Stopping, Signalled, EventsClosed, MutexClosed, Closed, Finalized
  <2>3. exit' \in SUBSET Endpoints
    BY <1>23, SyncAssumption DEF TypeOK, SignalExit
  <2> QED
    BY <2>1, <2>2, <2>3 DEF TypeOK
<1>24. ASSUME NEW e \in Endpoints, CloseHandles(e) PROVE TypeOK'
  <2>1. UNCHANGED <<sem, queue, exit, unlock, running, pc, packet, seen, ret, iter, used, delivered, lost, dirty, overtaken>>
    BY <1>24 DEF CloseHandles, shared, events, local, ghost
  <2>2. mutex' = mutex \/ (mutex.owner # NoOwner /\ mutex' = Released)
    BY <1>24, SyncAssumption DEF CloseHandles, shared
  <2>3. stage' \in [Endpoints -> Active .. Finalized]
    BY <1>24, SyncAssumption DEF TypeOK, CloseHandles, Active, Stopping, Signalled, EventsClosed, MutexClosed, Closed, Finalized, events
  <2>4. mutex' \in [owner : Endpoints \cup {NoOwner}, depth : Nat, abandoned : BOOLEAN]
    BY <2>2, ReleasedType DEF TypeOK
  <2> QED
    BY <2>1, <2>2, <2>3, <2>4 DEF TypeOK
<1>25. ASSUME NEW e \in Endpoints, Crash(e) PROVE TypeOK'
  <2>1. UNCHANGED <<sem, queue, packet, iter, delivered, overtaken>>
    BY <1>25 DEF Crash
  <2>2. pc' \in [Endpoints -> Label]
    BY <1>25, SyncAssumption DEF TypeOK, Crash, Goto, Label
  <2>3. mutex' \in [owner : Endpoints \cup {NoOwner}, depth : Nat, abandoned : BOOLEAN]
    BY <1>25, SyncAssumption DEF TypeOK, Crash, AbandonedMutex
  <2>4. used' \in [Bounded -> Nat]
    BY <1>25, SpendType DEF Crash, Bounded
  <2>5. lost' \in [Semaphores -> Nat]
    BY <1>25, SyncAssumption DEF TypeOK, Crash, Lose, Role, Other, Semaphores
  <2>6. dirty' \in BOOLEAN
    BY <1>25, SyncAssumption DEF TypeOK, Crash
  <2>7. exit' \in SUBSET Endpoints /\ unlock' \in SUBSET Endpoints
    BY <1>25 DEF TypeOK, Crash
  <2>8. stage' \in [Endpoints -> Active .. Finalized]
    BY <1>25 DEF TypeOK, Crash, Active, Finalized
  <2>9. running' \in [Consumers -> BOOLEAN]
    BY <1>25 DEF TypeOK, Crash
  <2>10. seen' \in [Endpoints -> Seq(Packet)]
    BY <1>25, ResetType DEF TypeOK, Crash
  <2>11. ret' \in [Endpoints -> Code]
    BY <1>25 DEF TypeOK, Crash, Code
  <2> QED
    BY <2>1, <2>2, <2>3, <2>4, <2>5, <2>6, <2>7, <2>8, <2>9, <2>10, <2>11 DEF TypeOK
<1>26. ASSUME NEW e \in Endpoints, Activate(e) PROVE TypeOK'
  <2>1. UNCHANGED <<packet, seen, iter>>
    BY <1>26 DEF Activate, local
  <2>2. /\ sem' = FreshSem \/ sem' = sem
        /\ mutex' = FreeMutex \/ mutex' = mutex
        /\ \/ queue' = << >> /\ delivered' = << >> /\ lost' = NoneLost
           \/ UNCHANGED <<queue, delivered, lost>>
        /\ dirty' \in BOOLEAN /\ overtaken' \in BOOLEAN
    <3>1. /\ sem' = FreshSem \/ sem' = sem
          /\ mutex' = FreeMutex \/ mutex' = mutex
          /\ \/ queue' = << >> /\ delivered' = << >> /\ lost' = NoneLost
             \/ UNCHANGED <<queue, delivered, lost>>
      BY <1>26 DEF Activate
    <3>2. dirty' \in BOOLEAN /\ overtaken' \in BOOLEAN
      BY <1>26, Zenon DEF Activate, TypeOK
    <3> QED
      BY <3>1, <3>2
  <2>3. pc' \in [Endpoints -> Label]
    BY <1>26, SyncAssumption DEF TypeOK, Activate, Goto, Label, local
  <2>4. stage' \in [Endpoints -> Active .. Finalized]
    BY <1>26, SyncAssumption DEF TypeOK, Activate, Active, Stopping, Signalled, EventsClosed, MutexClosed, Closed, Finalized, events
  <2>5. exit' \in SUBSET Endpoints
    BY <1>26, SyncAssumption DEF TypeOK, Activate, events
  <2>6. unlock' \in SUBSET Endpoints
    BY <1>26, SyncAssumption DEF TypeOK, Activate, events
  <2>7. running' \in [Consumers -> BOOLEAN]
    BY <1>26, SyncAssumption DEF TypeOK, Activate, events
  <2>8. used' \in [Bounded -> Nat]
    BY <1>26, SpendType DEF Activate, Bounded
  <2>9. ret' \in [Endpoints -> Code]
    BY <1>26, SyncAssumption DEF TypeOK, Activate, Code, local
  <2>10. sem' \in [Semaphores -> 0 .. SyncCount]
    BY <2>2, ResetType, Zenon DEF TypeOK
  <2>11. mutex' \in [owner : Endpoints \cup {NoOwner}, depth : Nat, abandoned : BOOLEAN]
    BY <2>2, ResetType, Zenon DEF TypeOK
  <2>12. queue' \in Seq(Packet)
    BY <2>2, ResetType, Zenon DEF TypeOK
  <2>13. delivered' \in Seq(Packet)
    BY <2>2, ResetType, Zenon DEF TypeOK
  <2>14. lost' \in [Semaphores -> Nat]
    BY <2>2, ResetType, Zenon DEF TypeOK
  <2>15. dirty' \in BOOLEAN
    BY <2>2 DEF TypeOK
  <2> QED
    BY <2>1, <2>2, <2>3, <2>4, <2>5, <2>6, <2>7, <2>8, <2>9, <2>10, <2>11, <2>12, <2>13, <2>14, <2>15 DEF TypeOK
<1>27. ASSUME NEW e \in Endpoints, ReadQueue(e) PROVE TypeOK'
  <2>1. UNCHANGED <<sem, mutex, queue, exit, unlock, stage, running, packet, ret, iter, used, delivered, lost, dirty, overtaken>>
    BY <1>27 DEF ReadQueue, shared, events, ghost
  <2>2. pc' \in [Endpoints -> Label]
    BY <1>27 DEF TypeOK, ReadQueue, Goto, Label, Token
  <2>3. seen' \in [Endpoints -> Seq(Packet)]
    BY <1>27 DEF TypeOK, ReadQueue
  <2> QED
    BY <2>1, <2>2, <2>3 DEF TypeOK
<1>28. ASSUME NEW e \in Endpoints, Finalize(e) PROVE TypeOK'
  <2>1. UNCHANGED <<sem, mutex, queue, running, pc, packet, seen, ret, iter, used, delivered, lost, dirty, overtaken>>
    BY <1>28 DEF Finalize, shared, local, ghost
  <2>2. stage' \in [Endpoints -> Active .. Finalized]
    BY <1>28 DEF TypeOK, Finalize, Active, Finalized
  <2>3. exit' \in SUBSET Endpoints /\ unlock' \in SUBSET Endpoints
    BY <1>28 DEF TypeOK, Finalize
  <2> QED
    BY <2>1, <2>2, <2>3 DEF TypeOK
<1>29. CASE UNCHANGED vars
  BY <1>29 DEF TypeOK, vars, shared, events, local, ghost
<1> QED
  BY <1>1, <1>2, <1>3, <1>4, <1>5, <1>6, <1>7, <1>8, <1>9, <1>10, <1>11, <1>12, <1>13, <1>14,
     <1>15, <1>16, <1>17, <1>18, <1>19, <1>20, <1>21, <1>22, <1>23, <1>24, <1>25, <1>26, <1>27,
     <1>28, <1>29
     DEF Next, Calls, Clears, Worker, Stops, Environment

LEMMA StageStep ==
  ASSUME TypeOK, StageInv, [Next]_vars
  PROVE  StageInv'
<1>0. /\ pc \in [Endpoints -> Label] /\ stage \in [Endpoints -> 0 .. 6]
      /\ Producers \subseteq Endpoints /\ Consumers \subseteq Endpoints
      /\ overtaken \in BOOLEAN /\ dirty \in BOOLEAN
  BY DEF TypeOK, Endpoints, Active, Finalized
<1>1. ASSUME NEW p \in Producers, SendPacket(p) PROVE StageInv'
  BY <1>0, <1>1, SyncAssumption
  DEF StageInv, SendPacket, Goto, Endpoints, Packet, Spend, shared, events, local, ghost, Clearing, Active, Stopping, Signalled, EventsClosed, MutexClosed, Closed, Finalized
<1>2. ASSUME NEW c \in Consumers, ThreadStart(c) PROVE StageInv'
  BY <1>0, <1>2, SyncAssumption
  DEF StageInv, ThreadStart, Goto, Endpoints, shared, events, local, ghost, Clearing, Active, Stopping, Signalled, EventsClosed, MutexClosed, Closed, Finalized
<1>3. ASSUME NEW c \in Consumers, CallConsumer(c) PROVE StageInv'
  BY <1>0, <1>3, SyncAssumption
  DEF StageInv, CallConsumer, Return, Goto, Endpoints, shared, events, local, ghost, Clearing, Active, Stopping, Signalled, EventsClosed, MutexClosed, Closed, Finalized
<1>4. ASSUME NEW c \in Consumers, ThreadEnd(c) PROVE StageInv'
  BY <1>0, <1>4, SyncAssumption
  DEF StageInv, ThreadEnd, Goto, Endpoints, shared, events, local, ghost, Clearing, Active, Stopping, Signalled, EventsClosed, MutexClosed, Closed, Finalized
<1>5. ASSUME NEW e \in Endpoints, TakeToken(e) PROVE StageInv'
  BY <1>0, <1>5, SyncAssumption
  DEF StageInv, TakeToken, Goto, Return, shared, events, local, ghost, Clearing, Active, Stopping, Signalled, EventsClosed, MutexClosed, Closed, Finalized
<1>6. ASSUME NEW e \in Endpoints, LeaveSemWait(e) PROVE StageInv'
  BY <1>0, <1>6, SyncAssumption
  DEF StageInv, LeaveSemWait, Interrupted, WaitFails, Goto, Return, shared, events, local, ghost, Clearing, Active, Stopping, Signalled, EventsClosed, MutexClosed, Closed, Finalized
<1>7. ASSUME NEW e \in Endpoints, AcquireMutex(e) PROVE StageInv'
  BY <1>0, <1>7, SyncAssumption
  DEF StageInv, AcquireMutex, AcquireWhen, Goto, shared, events, local, ghost, Clearing, Active, Stopping, Signalled, EventsClosed, MutexClosed, Closed, Finalized
<1>8. ASSUME NEW e \in Endpoints, AcquireAbandoned(e) PROVE StageInv'
  BY <1>0, <1>8, SyncAssumption
  DEF StageInv, AcquireAbandoned, Goto, Return, shared, events, local, ghost, Clearing, Active, Stopping, Signalled, EventsClosed, MutexClosed, Closed, Finalized
<1>9. ASSUME NEW e \in Endpoints, LeaveMutexWait(e) PROVE StageInv'
  BY <1>0, <1>9, SyncAssumption
  DEF StageInv, LeaveMutexWait, Interrupted, WaitFails, Goto, Return, shared, events, local, ghost, Clearing, Active, Stopping, Signalled, EventsClosed, MutexClosed, Closed, Finalized
<1>10. ASSUME NEW e \in Endpoints, CallbackPush(e) PROVE StageInv'
  BY <1>0, <1>10, SyncAssumption
  DEF StageInv, CallbackPush, PushOrElse, Goto, shared, events, local, ghost, Clearing, Active, Stopping, Signalled, EventsClosed, MutexClosed, Closed, Finalized
<1>11. ASSUME NEW e \in Endpoints, CallbackPop(e) PROVE StageInv'
  BY <1>0, <1>11, SyncAssumption
  DEF StageInv, CallbackPop, Goto, shared, events, local, ghost, Clearing, Active, Stopping, Signalled, EventsClosed, MutexClosed, Closed, Finalized
<1>12. ASSUME NEW e \in Endpoints, Post(e) PROVE StageInv'
  BY <1>0, <1>12, SyncAssumption
  DEF StageInv, Post, PostThen, Goto, Return, shared, events, local, ghost, Clearing, Active, Stopping, Signalled, EventsClosed, MutexClosed, Closed, Finalized
<1>13. ASSUME NEW e \in Endpoints, Restore(e) PROVE StageInv'
  BY <1>0, <1>13, SyncAssumption
  DEF StageInv, Restore, RestoreAnswering, Goto, Return, shared, events, local, ghost, Clearing, Active, Stopping, Signalled, EventsClosed, MutexClosed, Closed, Finalized
<1>14. ASSUME NEW e \in Endpoints, ReleaseMutex(e) PROVE StageInv'
  BY <1>0, <1>14, SyncAssumption
  DEF StageInv, ReleaseMutex, ReleaseBefore, Goto, shared, events, local, ghost, Clearing, Active, Stopping, Signalled, EventsClosed, MutexClosed, Closed, Finalized
<1>15. ASSUME NEW c \in Consumers, CallClear(c) PROVE StageInv'
  BY <1>0, <1>15, SyncAssumption
  DEF StageInv, CallClear, Goto, Endpoints, shared, events, local, ghost, Clearing, Active, Stopping, Signalled, EventsClosed, MutexClosed, Closed, Finalized
<1>16. ASSUME NEW c \in Consumers, ClearQueue(c) PROVE StageInv'
  BY <1>0, <1>16, SyncAssumption
  DEF StageInv, ClearQueue, Goto, Endpoints, shared, events, local, ghost, Clearing, Active, Stopping, Signalled, EventsClosed, MutexClosed, Closed, Finalized
<1>17. ASSUME NEW c \in Consumers, ClearFails(c) PROVE StageInv'
  BY <1>0, <1>17, SyncAssumption
  DEF StageInv, ClearFails, Goto, Endpoints, shared, events, local, ghost, Clearing, Active, Stopping, Signalled, EventsClosed, MutexClosed, Closed, Finalized
<1>18. ASSUME NEW c \in Consumers, FillProducer(c) PROVE StageInv'
  BY <1>0, <1>18, SyncAssumption
  DEF StageInv, FillProducer, Goto, Endpoints, shared, events, local, ghost, Clearing, Active, Stopping, Signalled, EventsClosed, MutexClosed, Closed, Finalized
<1>19. ASSUME NEW c \in Consumers, DrainConsumer(c) PROVE StageInv'
  BY <1>0, <1>19, SyncAssumption
  DEF StageInv, DrainConsumer, Goto, Endpoints, shared, events, local, ghost, Clearing, Active, Stopping, Signalled, EventsClosed, MutexClosed, Closed, Finalized
<1>20. ASSUME NEW c \in Consumers, EndClear(c) PROVE StageInv'
  BY <1>0, <1>20, SyncAssumption
  DEF StageInv, EndClear, Goto, Endpoints, shared, events, local, ghost, Clearing, Active, Stopping, Signalled, EventsClosed, MutexClosed, Closed, Finalized
<1>21. ASSUME NEW e \in Endpoints, SendSyncUnlock(e) PROVE StageInv'
  BY <1>0, <1>21, SyncAssumption
  DEF StageInv, SendSyncUnlock, shared, events, local, ghost, Clearing, Active, Stopping, Signalled, EventsClosed, MutexClosed, Closed, Finalized
<1>22. ASSUME NEW e \in Endpoints, StopWorker(e) PROVE StageInv'
  BY <1>0, <1>22, SyncAssumption
  DEF StageInv, StopWorker, shared, events, local, ghost, Clearing, Active, Stopping, Signalled, EventsClosed, MutexClosed, Closed, Finalized
<1>23. ASSUME NEW e \in Endpoints, SignalExit(e) PROVE StageInv'
  BY <1>0, <1>23, SyncAssumption
  DEF StageInv, SignalExit, shared, events, local, ghost, Clearing, Active, Stopping, Signalled, EventsClosed, MutexClosed, Closed, Finalized
<1>24. ASSUME NEW e \in Endpoints, CloseHandles(e) PROVE StageInv'
  BY <1>0, <1>24, SyncAssumption
  DEF StageInv, CloseHandles, shared, events, local, ghost, Clearing, Active, Stopping, Signalled, EventsClosed, MutexClosed, Closed, Finalized
<1>25. ASSUME NEW e \in Endpoints, Crash(e) PROVE StageInv'
  BY <1>0, <1>25, SyncAssumption
  DEF StageInv, Crash, Goto, shared, events, local, ghost, Clearing, Active, Stopping, Signalled, EventsClosed, MutexClosed, Closed, Finalized
<1>26. ASSUME NEW e \in Endpoints, Activate(e) PROVE StageInv'
  <2>1. /\ pc' = [pc EXCEPT ![e] = IF e \in Producers THEN "idle" ELSE "starting"]
        /\ stage' = [stage EXCEPT ![e] = Active]
    BY <1>26 DEF Activate, Goto
  <2>2. overtaken' => dirty'
    BY <1>26, <1>0, Zenon DEF Activate, StageInv
  <2> QED
    BY <1>0, <2>1, <2>2 DEF StageInv, Clearing, Active, Finalized
<1>27. ASSUME NEW e \in Endpoints, ReadQueue(e) PROVE StageInv'
  BY <1>0, <1>27, SyncAssumption DEF StageInv, ReadQueue, Goto, events, ghost, Clearing, Active, Finalized
<1>28. ASSUME NEW e \in Endpoints, Finalize(e) PROVE StageInv'
  BY <1>0, <1>28 DEF StageInv, Finalize, local, ghost, Clearing, Active, Closed, Finalized
<1>29. CASE UNCHANGED vars
  BY <1>29 DEF StageInv, vars, events, local, ghost
<1> QED
  BY <1>1, <1>2, <1>3, <1>4, <1>5, <1>6, <1>7, <1>8, <1>9, <1>10, <1>11, <1>12, <1>13, <1>14,
     <1>15, <1>16, <1>17, <1>18, <1>19, <1>20, <1>21, <1>22, <1>23, <1>24, <1>25, <1>26, <1>27,
     <1>28, <1>29
     DEF Next, Calls, Clears, Worker, Stops, Environment

LEMMA MutexStep ==
  ASSUME TypeOK, StageInv, MutexInv, Offered, [Next]_vars
  PROVE  MutexInv'
<1>0. /\ pc \in [Endpoints -> Label] /\ seen \in [Endpoints -> Seq(Packet)]
      /\ packet \in [Producers -> Packet \cup {NoPacket}]
      /\ used["sends"] \in Nat /\ Producers \subseteq Endpoints
      /\ mutex.depth \in Nat /\ mutex.owner \in Endpoints \cup {NoOwner}
      /\ stage \in [Endpoints -> 0 .. 6]
  BY DEF TypeOK, Bounded, Endpoints, Active, Finalized
<1>1. ASSUME NEW p \in Producers, SendPacket(p) PROVE MutexInv'
  BY <1>0, <1>1, SyncAssumption
  DEF MutexInv, SendPacket, Goto, Endpoints, shared, events, local, ghost, Section, Clearing, HasMutex, MutexClosed
<1>2. ASSUME NEW c \in Consumers, ThreadStart(c) PROVE MutexInv'
  BY <1>0, <1>2, SyncAssumption
  DEF MutexInv, ThreadStart, Goto, Endpoints, shared, events, local, ghost, Section, Clearing, HasMutex, MutexClosed
<1>3. ASSUME NEW c \in Consumers, CallConsumer(c) PROVE MutexInv'
  BY <1>0, <1>3, SyncAssumption
  DEF MutexInv, CallConsumer, Return, Goto, Endpoints, shared, events, local, ghost, Section, Clearing, HasMutex, MutexClosed
<1>4. ASSUME NEW c \in Consumers, ThreadEnd(c) PROVE MutexInv'
  BY <1>0, <1>4, SyncAssumption
  DEF MutexInv, ThreadEnd, Goto, Owned, FreeMutex, AbandonedMutex, MutexFree, Released, Endpoints, shared, events, local, ghost, Section, Clearing, HasMutex, MutexClosed
<1>5. ASSUME NEW e \in Endpoints, TakeToken(e) PROVE MutexInv'
  BY <1>0, <1>5, SyncAssumption
  DEF MutexInv, TakeToken, Goto, Return, shared, events, local, ghost, Section, Clearing, HasMutex, MutexClosed
<1>6. ASSUME NEW e \in Endpoints, LeaveSemWait(e) PROVE MutexInv'
  BY <1>0, <1>6, SyncAssumption
  DEF MutexInv, LeaveSemWait, Interrupted, WaitFails, Goto, Return, shared, events, local, ghost, Section, Clearing, HasMutex, MutexClosed
<1>7. ASSUME NEW e \in Endpoints, AcquireMutex(e) PROVE MutexInv'
  BY <1>0, <1>7, SyncAssumption
  DEF MutexInv, AcquireMutex, AcquireWhen, Goto, Owned, FreeMutex, AbandonedMutex, MutexFree, Released, shared, events, local, ghost, Section, Clearing, HasMutex, MutexClosed
<1>8. ASSUME NEW e \in Endpoints, AcquireAbandoned(e) PROVE MutexInv'
  BY <1>0, <1>8, SyncAssumption
  DEF MutexInv, AcquireAbandoned, Goto, Return, Owned, FreeMutex, AbandonedMutex, MutexFree, Released, shared, events, local, ghost, Section, Clearing, HasMutex, MutexClosed
<1>9. ASSUME NEW e \in Endpoints, LeaveMutexWait(e) PROVE MutexInv'
  BY <1>0, <1>9, SyncAssumption
  DEF MutexInv, LeaveMutexWait, Interrupted, WaitFails, Goto, Return, shared, events, local, ghost, Section, Clearing, HasMutex, MutexClosed
<1>10. ASSUME NEW e \in Endpoints, CallbackPush(e) PROVE MutexInv'
  BY <1>0, <1>10, SyncAssumption
  DEF MutexInv, CallbackPush, PushOrElse, Goto, shared, events, local, ghost, Section, Clearing, HasMutex, MutexClosed
<1>11. ASSUME NEW e \in Endpoints, CallbackPop(e) PROVE MutexInv'
  BY <1>0, <1>11, SyncAssumption
  DEF MutexInv, CallbackPop, Goto, shared, events, local, ghost, Section, Clearing, HasMutex, MutexClosed
<1>12. ASSUME NEW e \in Endpoints, Post(e) PROVE MutexInv'
  BY <1>0, <1>12, SyncAssumption
  DEF MutexInv, Post, PostThen, Goto, Return, shared, events, local, ghost, Section, Clearing, HasMutex, MutexClosed
<1>13. ASSUME NEW e \in Endpoints, Restore(e) PROVE MutexInv'
  BY <1>0, <1>13, SyncAssumption
  DEF MutexInv, Restore, RestoreAnswering, Goto, Return, shared, events, local, ghost, Section, Clearing, HasMutex, MutexClosed
<1>14. ASSUME NEW e \in Endpoints, ReleaseMutex(e) PROVE MutexInv'
  BY <1>0, <1>14, SyncAssumption
  DEF MutexInv, ReleaseMutex, ReleaseBefore, Goto, Owned, FreeMutex, AbandonedMutex, MutexFree, Released, shared, events, local, ghost, Section, Clearing, HasMutex, MutexClosed
<1>15. ASSUME NEW c \in Consumers, CallClear(c) PROVE MutexInv'
  BY <1>0, <1>15, SyncAssumption
  DEF MutexInv, CallClear, Goto, Endpoints, shared, events, local, ghost, Section, Clearing, HasMutex, MutexClosed
<1>16. ASSUME NEW c \in Consumers, ClearQueue(c) PROVE MutexInv'
  BY <1>0, <1>16, SyncAssumption
  DEF MutexInv, ClearQueue, Goto, Owned, FreeMutex, AbandonedMutex, MutexFree, Released, Endpoints, shared, events, local, ghost, Section, Clearing, HasMutex, MutexClosed
<1>17. ASSUME NEW c \in Consumers, ClearFails(c) PROVE MutexInv'
  BY <1>0, <1>17, SyncAssumption
  DEF MutexInv, ClearFails, Goto, Owned, FreeMutex, AbandonedMutex, MutexFree, Released, Endpoints, shared, events, local, ghost, Section, Clearing, HasMutex, MutexClosed
<1>18. ASSUME NEW c \in Consumers, FillProducer(c) PROVE MutexInv'
  BY <1>0, <1>18, SyncAssumption
  DEF MutexInv, FillProducer, Goto, Endpoints, shared, events, local, ghost, Section, Clearing, HasMutex, MutexClosed
<1>19. ASSUME NEW c \in Consumers, DrainConsumer(c) PROVE MutexInv'
  BY <1>0, <1>19, SyncAssumption
  DEF MutexInv, DrainConsumer, Goto, Endpoints, shared, events, local, ghost, Section, Clearing, HasMutex, MutexClosed
<1>20. ASSUME NEW c \in Consumers, EndClear(c) PROVE MutexInv'
  BY <1>0, <1>20, SyncAssumption
  DEF StageInv, Active, MutexInv, EndClear, Goto, Owned, FreeMutex, AbandonedMutex, MutexFree, Released, Endpoints, shared, events, local, ghost, Section, Clearing, HasMutex, MutexClosed
<1>21. ASSUME NEW e \in Endpoints, SendSyncUnlock(e) PROVE MutexInv'
  BY <1>0, <1>21, SyncAssumption
  DEF MutexInv, SendSyncUnlock, shared, events, local, ghost, Section, Clearing, HasMutex, MutexClosed
<1>22. ASSUME NEW e \in Endpoints, StopWorker(e) PROVE MutexInv'
  BY <1>0, <1>22, SyncAssumption
  DEF Active, Stopping, MutexInv, StopWorker, shared, events, local, ghost, Section, Clearing, HasMutex, MutexClosed
<1>23. ASSUME NEW e \in Endpoints, SignalExit(e) PROVE MutexInv'
  BY <1>0, <1>23, SyncAssumption
  DEF Stopping, Signalled, MutexInv, SignalExit, shared, events, local, ghost, Section, Clearing, HasMutex, MutexClosed
<1>24. ASSUME NEW e \in Endpoints, CloseHandles(e) PROVE MutexInv'
  BY <1>0, <1>24, SyncAssumption
  DEF MutexInv, CloseHandles, Owned, FreeMutex, AbandonedMutex, MutexFree, Released, shared, events, local, ghost, Section, Clearing, HasMutex, MutexClosed
<1>25. ASSUME NEW e \in Endpoints, Crash(e) PROVE MutexInv'
  BY <1>0, <1>25, SyncAssumption
  DEF MutexInv, Crash, Goto, Owned, FreeMutex, AbandonedMutex, MutexFree, Released, shared, events, local, ghost, Section, Clearing, HasMutex, MutexClosed
<1>26. ASSUME NEW e \in Endpoints, Activate(e) PROVE MutexInv'
  <2>1. /\ pc[e] \in {"dead", "idle", "stopped"} /\ seen' = seen
        /\ pc' = [pc EXCEPT ![e] = IF e \in Producers THEN "idle" ELSE "starting"]
        /\ stage' = [stage EXCEPT ![e] = Active]
    BY <1>26 DEF Activate, Goto, StageInv
  <2>2. \A f \in Endpoints : pc'[f] \in Section =>
          f # e /\ pc[f] = pc'[f] /\ pc[f] \in Section /\ (HasMutex(f)' <=> HasMutex(f))
    BY <1>0, <2>1 DEF HasMutex, Section, Clearing
  <2>3. \A f \in Endpoints : pc[f] \in Section => HasMemory(f)
    <3>1. \A f \in Endpoints : stage[f] \in 0 .. 6 /\ stage[f] # 6 => stage[f] < 6
      OBVIOUS
    <3>2. \A f \in Endpoints : pc[f] \in Section => pc[f] \notin {"dead", "stopped", "idle"}
      BY DEF Section, Clearing
    <3> QED
      BY <1>0, <3>1, <3>2, Zenon DEF StageInv, HasMemory, Finalized
  <2>4. CASE \A f \in Endpoints : ~HasMutex(f)
    <3>1. mutex' = FreeMutex
      BY <1>26, <2>4 DEF Activate
    <3>2. \A f \in Endpoints : pc'[f] \in Section => overtaken' /\ ~HasMutex(f)'
      BY <1>26, <2>2, <2>3, <2>4 DEF Activate
    <3>3. "callback" \in Section
      BY DEF Section
    <3> QED
      BY <3>1, <3>2, <3>3 DEF MutexInv, FreeMutex, Owned
  <2>5. CASE \E f \in Endpoints : HasMutex(f)
    <3>1. mutex' = mutex
      BY <1>26, <2>5 DEF Activate
    <3>2. \E f \in Endpoints : HasMemory(f)
      <4>1. PICK f \in Endpoints : HasMutex(f)
        BY <2>5
      <4>2. stage[f] \in 0 .. 6 /\ stage[f] < 4
        BY <1>0, <4>1 DEF HasMutex, MutexClosed
      <4>3. HasMemory(f)
        BY <4>1, <4>2 DEF HasMutex, HasMemory, Finalized
      <4> QED
        BY <4>3
    <3>3. queue' = queue /\ (overtaken' <=> overtaken)
      BY <1>26, <2>5, <3>2, Zenon DEF Activate
    <3>4. "callback" \in Section
      BY DEF Section
    <3> QED
      BY <2>1, <2>2, <3>1, <3>3, <3>4 DEF MutexInv
  <2> QED
    BY <2>4, <2>5
<1>27. ASSUME NEW e \in Endpoints, ReadQueue(e) PROVE MutexInv'
  BY <1>0, <1>27, SyncAssumption
  DEF MutexInv, ReadQueue, Goto, shared, events, local, ghost, Section, Clearing, HasMutex, MutexClosed
<1>28. ASSUME NEW e \in Endpoints, Finalize(e) PROVE MutexInv'
  BY <1>0, <1>28, SyncAssumption
  DEF MutexInv, Finalize, Closed, Finalized, shared, events, local, ghost, Section, Clearing, HasMutex, MutexClosed
<1>29. CASE UNCHANGED vars
  BY <1>29 DEF MutexInv, HasMutex, vars, shared, events, local, ghost
<1> QED
  BY <1>1, <1>2, <1>3, <1>4, <1>5, <1>6, <1>7, <1>8, <1>9, <1>10, <1>11, <1>12, <1>13, <1>14,
     <1>15, <1>16, <1>17, <1>18, <1>19, <1>20, <1>21, <1>22, <1>23, <1>24, <1>25, <1>26, <1>27,
     <1>28, <1>29
     DEF Next, Calls, Clears, Worker, Stops, Environment

LEMMA OfferedStep ==
  ASSUME TypeOK, StageInv, MutexInv, Offered, [Next]_vars
  PROVE  Offered'
<1>0. /\ pc \in [Endpoints -> Label] /\ seen \in [Endpoints -> Seq(Packet)]
      /\ packet \in [Producers -> Packet \cup {NoPacket}]
      /\ used["sends"] \in Nat /\ Producers \subseteq Endpoints
      /\ mutex.depth \in Nat /\ mutex.owner \in Endpoints \cup {NoOwner}
  BY DEF TypeOK, Bounded, Endpoints
<1>1. ASSUME NEW p \in Producers, SendPacket(p) PROVE Offered'
  BY <1>0, <1>1, SyncAssumption
  DEF Offered, SendPacket, Goto, Endpoints, Packet, Spend, shared, events, local, ghost, Token
<1>2. ASSUME NEW c \in Consumers, ThreadStart(c) PROVE Offered'
  BY <1>0, <1>2, SyncAssumption
  DEF Offered, ThreadStart, Goto, Endpoints, shared, events, local, ghost, Token
<1>3. ASSUME NEW c \in Consumers, CallConsumer(c) PROVE Offered'
  BY <1>0, <1>3, SyncAssumption
  DEF Offered, CallConsumer, Return, Goto, Endpoints, shared, events, local, ghost, Token
<1>4. ASSUME NEW c \in Consumers, ThreadEnd(c) PROVE Offered'
  BY <1>0, <1>4, SyncAssumption
  DEF Offered, ThreadEnd, Goto, Endpoints, shared, events, local, ghost, Token
<1>5. ASSUME NEW e \in Endpoints, TakeToken(e) PROVE Offered'
  BY <1>0, <1>5, SyncAssumption
  DEF Offered, TakeToken, Goto, Return, shared, events, local, ghost, Token
<1>6. ASSUME NEW e \in Endpoints, LeaveSemWait(e) PROVE Offered'
  BY <1>0, <1>6, SyncAssumption
  DEF Offered, LeaveSemWait, Interrupted, WaitFails, Goto, Return, shared, events, local, ghost, Token
<1>7. ASSUME NEW e \in Endpoints, AcquireMutex(e) PROVE Offered'
  BY <1>0, <1>7, SyncAssumption
  DEF Offered, AcquireMutex, AcquireWhen, Goto, shared, events, local, ghost, Token
<1>8. ASSUME NEW e \in Endpoints, AcquireAbandoned(e) PROVE Offered'
  BY <1>0, <1>8, SyncAssumption
  DEF Offered, AcquireAbandoned, Goto, Return, shared, events, local, ghost, Token
<1>9. ASSUME NEW e \in Endpoints, LeaveMutexWait(e) PROVE Offered'
  BY <1>0, <1>9, SyncAssumption
  DEF Offered, LeaveMutexWait, Interrupted, WaitFails, Goto, Return, shared, events, local, ghost, Token
<1>10. ASSUME NEW e \in Endpoints, CallbackPush(e) PROVE Offered'
  BY <1>0, <1>10, SyncAssumption
  DEF Offered, CallbackPush, PushOrElse, Goto, shared, events, local, ghost, Token
<1>11. ASSUME NEW e \in Endpoints, CallbackPop(e) PROVE Offered'
  BY <1>0, <1>11, SyncAssumption
  DEF Offered, CallbackPop, Goto, shared, events, local, ghost, Token
<1>12. ASSUME NEW e \in Endpoints, Post(e) PROVE Offered'
  BY <1>0, <1>12, SyncAssumption
  DEF Offered, Post, PostThen, Goto, Return, shared, events, local, ghost, Token
<1>13. ASSUME NEW e \in Endpoints, Restore(e) PROVE Offered'
  BY <1>0, <1>13, SyncAssumption
  DEF Offered, Restore, RestoreAnswering, Goto, Return, shared, events, local, ghost, Token
<1>14. ASSUME NEW e \in Endpoints, ReleaseMutex(e) PROVE Offered'
  BY <1>0, <1>14, SyncAssumption
  DEF Offered, ReleaseMutex, ReleaseBefore, Goto, shared, events, local, ghost, Token
<1>15. ASSUME NEW c \in Consumers, CallClear(c) PROVE Offered'
  BY <1>0, <1>15, SyncAssumption
  DEF Offered, CallClear, Goto, Endpoints, shared, events, local, ghost, Token
<1>16. ASSUME NEW c \in Consumers, ClearQueue(c) PROVE Offered'
  BY <1>0, <1>16, SyncAssumption
  DEF Offered, ClearQueue, Goto, Endpoints, shared, events, local, ghost, Token
<1>17. ASSUME NEW c \in Consumers, ClearFails(c) PROVE Offered'
  BY <1>0, <1>17, SyncAssumption
  DEF Offered, ClearFails, Goto, Endpoints, shared, events, local, ghost, Token
<1>18. ASSUME NEW c \in Consumers, FillProducer(c) PROVE Offered'
  BY <1>0, <1>18, SyncAssumption
  DEF Offered, FillProducer, Goto, Endpoints, shared, events, local, ghost, Token
<1>19. ASSUME NEW c \in Consumers, DrainConsumer(c) PROVE Offered'
  BY <1>0, <1>19, SyncAssumption
  DEF Offered, DrainConsumer, Goto, Endpoints, shared, events, local, ghost, Token
<1>20. ASSUME NEW c \in Consumers, EndClear(c) PROVE Offered'
  BY <1>0, <1>20, SyncAssumption
  DEF Offered, EndClear, Goto, Endpoints, shared, events, local, ghost, Token
<1>21. ASSUME NEW e \in Endpoints, SendSyncUnlock(e) PROVE Offered'
  BY <1>0, <1>21, SyncAssumption
  DEF Offered, SendSyncUnlock, shared, events, local, ghost, Token
<1>22. ASSUME NEW e \in Endpoints, StopWorker(e) PROVE Offered'
  BY <1>0, <1>22, SyncAssumption
  DEF Offered, StopWorker, shared, events, local, ghost, Token
<1>23. ASSUME NEW e \in Endpoints, SignalExit(e) PROVE Offered'
  BY <1>0, <1>23, SyncAssumption
  DEF Offered, SignalExit, shared, events, local, ghost, Token
<1>24. ASSUME NEW e \in Endpoints, CloseHandles(e) PROVE Offered'
  BY <1>0, <1>24, SyncAssumption
  DEF Offered, CloseHandles, shared, events, local, ghost, Token
<1>25. ASSUME NEW e \in Endpoints, Crash(e) PROVE Offered'
  BY <1>0, <1>25, SyncAssumption
  DEF Offered, Crash, Goto, shared, events, local, ghost, Token
<1>26. ASSUME NEW e \in Endpoints, Activate(e) PROVE Offered'
  BY <1>0, <1>26, SyncAssumption DEF Offered, Activate, Goto, Token
<1>27. ASSUME NEW e \in Endpoints, ReadQueue(e) PROVE Offered'
  BY <1>0, <1>27, SyncAssumption DEF Offered, ReadQueue, Goto, Token
<1>28. ASSUME NEW e \in Endpoints, Finalize(e) PROVE Offered'
  BY <1>0, <1>28 DEF Offered, Finalize, local
<1>29. CASE UNCHANGED vars
  BY <1>29 DEF Offered, vars, shared, local
<1> QED
  BY <1>1, <1>2, <1>3, <1>4, <1>5, <1>6, <1>7, <1>8, <1>9, <1>10, <1>11, <1>12, <1>13, <1>14,
     <1>15, <1>16, <1>17, <1>18, <1>19, <1>20, <1>21, <1>22, <1>23, <1>24, <1>25, <1>26, <1>27,
     <1>28, <1>29
     DEF Next, Calls, Clears, Worker, Stops, Environment

(***************************************************************************)
(* Token and packet accounting.                                            *)
(***************************************************************************)

(* What one endpoint at label l counts for in the two balances. *)
TokenAt(l) == IF l \in Token THEN 1 ELSE 0

InPacketHolders(e, l) ==
  \/ e \in Consumers /\ l \in {"mutex", "entered", "callback", "restore"}
  \/ e \in Producers /\ l = "post"

PacketAt(e, l) == IF InPacketHolders(e, l) THEN 1 ELSE 0

(* While an undisturbed SyncClear is in its loops nobody holds a token,    *)
(* nothing is lost, the queue is empty, and the loop counters bound the    *)
(* counts from below and above, so that the loops end at full and empty.   *)
ResetInv ==
  \A c \in Consumers :
    /\ ~dirty /\ pc[c] \in {"fill", "drain"} =>
         /\ Holders = {} /\ queue = << >>
         /\ lost["producer"] = 0 /\ lost["consumer"] = 0
    /\ ~dirty /\ pc[c] = "fill" => iter[c] <= sem["producer"]
    /\ ~dirty /\ pc[c] = "drain" =>
         sem["producer"] = SyncCount /\ iter[c] + sem["consumer"] <= SyncCount

BalanceInv == TokenBalance /\ PacketBalance /\ ResetInv

(* The inductive invariant. *)
IInv == TypeOK /\ StageInv /\ MutexInv /\ Offered /\ BalanceInv

LEMMA FiniteHolders ==
  /\ IsFiniteSet(Holders) /\ Cardinality(Holders) \in Nat
  /\ IsFiniteSet(PacketHolders) /\ Cardinality(PacketHolders) \in Nat
  /\ PacketHolders \subseteq Holders
<1>1. IsFiniteSet(Endpoints)
  BY SyncAssumption, FS_Union DEF Endpoints
<1>2. Holders \subseteq Endpoints /\ PacketHolders \subseteq Holders
  BY DEF Holders, PacketHolders, Endpoints, Token
<1>3. IsFiniteSet(Holders) /\ IsFiniteSet(PacketHolders)
  BY <1>1, <1>2, FS_Subset
<1> QED
  BY <1>2, <1>3, FS_CardinalityType

(* A step of one endpoint changes the counts by what its labels count for. *)
LEMMA HoldersMove ==
  ASSUME TypeOK, NEW e \in Endpoints, NEW l, pc' = [pc EXCEPT ![e] = l]
  PROVE  /\ Cardinality(Holders') = Cardinality(Holders) + TokenAt(l) - TokenAt(pc[e])
         /\ Cardinality(Holders') \in Nat
<1>0. pc \in [Endpoints -> Label] /\ IsFiniteSet(Holders) /\ Cardinality(Holders) \in Nat
  BY FiniteHolders DEF TypeOK
<1>1. CASE l \in Token /\ pc[e] \notin Token
  <2>1. Holders' = Holders \cup {e} /\ e \notin Holders
    BY <1>0, <1>1 DEF Holders
  <2>2. Cardinality(Holders') = Cardinality(Holders) + 1
    BY <1>0, <2>1, FS_AddElement
  <2> QED
    BY <1>0, <1>1, <2>2 DEF TokenAt
<1>2. CASE l \notin Token /\ pc[e] \in Token
  <2>1. Holders' = Holders \ {e} /\ e \in Holders
    BY <1>0, <1>2 DEF Holders
  <2>2. Cardinality(Holders') = Cardinality(Holders) - 1 /\ IsFiniteSet(Holders')
    BY <1>0, <2>1, FS_RemoveElement
  <2> QED
    BY <1>0, <1>2, <2>2, FS_CardinalityType DEF TokenAt
<1>3. CASE l \in Token <=> pc[e] \in Token
  <2>1. Holders' = Holders
    BY <1>0, <1>3 DEF Holders
  <2> QED
    BY <1>0, <1>3, <2>1 DEF TokenAt
<1> QED
  BY <1>1, <1>2, <1>3

LEMMA PacketHoldersMove ==
  ASSUME TypeOK, NEW e \in Endpoints, NEW l, pc' = [pc EXCEPT ![e] = l]
  PROVE  /\ Cardinality(PacketHolders')
              = Cardinality(PacketHolders) + PacketAt(e, l) - PacketAt(e, pc[e])
         /\ Cardinality(PacketHolders') \in Nat
<1> DEFINE P == PacketHolders
<1>0. pc \in [Endpoints -> Label] /\ IsFiniteSet(P) /\ Cardinality(P) \in Nat
  BY FiniteHolders DEF TypeOK
<1>a. P = {f \in Endpoints : InPacketHolders(f, pc[f])}
  BY SyncAssumption DEF PacketHolders, InPacketHolders, Endpoints
<1>b. P' = {f \in Endpoints : InPacketHolders(f, pc'[f])}
  BY SyncAssumption DEF PacketHolders, InPacketHolders, Endpoints
<1>c. \A f \in Endpoints : pc'[f] = IF f = e THEN l ELSE pc[f]
  BY <1>0
<1> HIDE DEF P
<1>1. CASE InPacketHolders(e, l) /\ ~InPacketHolders(e, pc[e])
  <2>1. P' = P \cup {e} /\ e \notin P
    BY <1>a, <1>b, <1>c, <1>1
  <2>2. Cardinality(P') = Cardinality(P) + 1
    BY <1>0, <2>1, FS_AddElement
  <2> QED
    BY <1>0, <1>1, <2>2 DEF PacketAt, P
<1>2. CASE ~InPacketHolders(e, l) /\ InPacketHolders(e, pc[e])
  <2>1. P' = P \ {e} /\ e \in P
    BY <1>a, <1>b, <1>c, <1>2
  <2>2. Cardinality(P') = Cardinality(P) - 1 /\ IsFiniteSet(P')
    BY <1>0, <2>1, FS_RemoveElement
  <2> QED
    BY <1>0, <1>2, <2>2, FS_CardinalityType DEF PacketAt, P
<1>3. CASE InPacketHolders(e, l) <=> InPacketHolders(e, pc[e])
  <2>1. P' = P
    BY <1>a, <1>b, <1>c, <1>3
  <2> QED
    BY <1>0, <1>3, <2>1 DEF PacketAt, P
<1> QED
  BY <1>1, <1>2, <1>3

(* A step of one endpoint, outside SyncClear's loops, that keeps both sums *)
(* keeps the balances.  If it may change the counts it must not happen     *)
(* during the loops of an undisturbed SyncClear.                           *)
LEMMA AccountStep ==
  ASSUME TypeOK, TypeOK', BalanceInv, NEW e \in Endpoints, NEW l,
         pc' = [pc EXCEPT ![e] = l], l \notin {"fill", "drain"},
         ~dirty' => ~dirty /\ ~Resetting,
         sem'["producer"] + sem'["consumer"] + lost'["producer"] + lost'["consumer"]
           + TokenAt(l)
         = sem["producer"] + sem["consumer"] + lost["producer"] + lost["consumer"]
           + TokenAt(pc[e]),
         Len(queue') - sem'["consumer"] - lost'["consumer"] - PacketAt(e, l)
         = Len(queue) - sem["consumer"] - lost["consumer"] - PacketAt(e, pc[e])
  PROVE  BalanceInv'
<1>1. /\ sem["producer"] \in Nat /\ sem["consumer"] \in Nat
      /\ sem'["producer"] \in Nat /\ sem'["consumer"] \in Nat
  BY SyncAssumption DEF TypeOK, Semaphores
<1>2. /\ lost["producer"] \in Nat /\ lost["consumer"] \in Nat
      /\ lost'["producer"] \in Nat /\ lost'["consumer"] \in Nat
      /\ Len(queue) \in Nat /\ Len(queue') \in Nat
  <2>1. lost \in [Semaphores -> Nat] /\ lost' \in [Semaphores -> Nat]
    BY DEF TypeOK
  <2>2. queue \in Seq(Packet) /\ queue' \in Seq(Packet)
    BY DEF TypeOK
  <2> QED
    BY <2>1, <2>2 DEF Semaphores
<1>3. /\ Cardinality(Holders') = Cardinality(Holders) + TokenAt(l) - TokenAt(pc[e])
      /\ Cardinality(Holders') \in Nat /\ Cardinality(Holders) \in Nat
  BY HoldersMove, FiniteHolders
<1>4. /\ Cardinality(PacketHolders')
           = Cardinality(PacketHolders) + PacketAt(e, l) - PacketAt(e, pc[e])
      /\ Cardinality(PacketHolders') \in Nat /\ Cardinality(PacketHolders) \in Nat
  BY PacketHoldersMove, FiniteHolders
<1>5. TokenAt(l) \in Nat /\ TokenAt(pc[e]) \in Nat
      /\ PacketAt(e, l) \in Nat /\ PacketAt(e, pc[e]) \in Nat
  BY DEF TokenAt, PacketAt
<1>6. TokenBalance'
  <2> SUFFICES ASSUME ~dirty'
               PROVE  sem'["producer"] + sem'["consumer"] + Cardinality(Holders')
                        + lost'["producer"] + lost'["consumer"] = SyncCount
    BY DEF TokenBalance
  <2>1. sem["producer"] + sem["consumer"] + Cardinality(Holders)
          + lost["producer"] + lost["consumer"] = SyncCount
    BY DEF BalanceInv, TokenBalance
  <2> DEFINE a == sem["producer"]       b == sem["consumer"]
             x == lost["producer"]      y == lost["consumer"]
             h == Cardinality(Holders)  t == TokenAt(l)  u == TokenAt(pc[e])
             a1 == sem'["producer"]     b1 == sem'["consumer"]
             x1 == lost'["producer"]    y1 == lost'["consumer"]
             h1 == Cardinality(Holders')
  <2>2. /\ a \in Nat /\ b \in Nat /\ x \in Nat /\ y \in Nat /\ h \in Nat
        /\ a1 \in Nat /\ b1 \in Nat /\ x1 \in Nat /\ y1 \in Nat /\ h1 \in Nat
        /\ t \in Nat /\ u \in Nat
    BY <1>1, <1>2, <1>3, <1>5
  <2>3. h1 = h + t - u /\ a + b + h + x + y = SyncCount
    BY <1>3, <2>1
  <2>4. a1 + b1 + x1 + y1 + t = a + b + x + y + u
    OBVIOUS
  <2>5. a1 + b1 + h1 + x1 + y1 = SyncCount
    <3> HIDE DEF a, b, x, y, h, t, u, a1, b1, x1, y1, h1
    <3> QED
      BY <2>2, <2>3, <2>4
  <2> QED
    BY <2>5
<1>7. PacketBalance'
  <2> SUFFICES ASSUME ~dirty'
               PROVE  Len(queue') = sem'["consumer"] + Cardinality(PacketHolders')
                                      + lost'["consumer"]
    BY DEF PacketBalance
  <2>1. Len(queue) = sem["consumer"] + Cardinality(PacketHolders) + lost["consumer"]
    BY DEF BalanceInv, PacketBalance
  <2> DEFINE b == sem["consumer"]   y == lost["consumer"]   q == Len(queue)
             b1 == sem'["consumer"] y1 == lost'["consumer"] q1 == Len(queue')
             h == Cardinality(PacketHolders)  h1 == Cardinality(PacketHolders')
             t == PacketAt(e, l)  u == PacketAt(e, pc[e])
  <2>2. /\ b \in Nat /\ y \in Nat /\ q \in Nat /\ h \in Nat
        /\ b1 \in Nat /\ y1 \in Nat /\ q1 \in Nat /\ h1 \in Nat
        /\ t \in Nat /\ u \in Nat
    BY <1>1, <1>2, <1>4, <1>5
  <2>3. h1 = h + t - u /\ q = b + h + y
    BY <1>4, <2>1
  <2>4. q1 - b1 - y1 - t = q - b - y - u
    OBVIOUS
  <2>5. q1 = b1 + h1 + y1
    <3> HIDE DEF b, y, q, h, t, u, b1, y1, q1, h1
    <3> QED
      BY <2>2, <2>3, <2>4
  <2> QED
    BY <2>5
<1>8. ResetInv'
  <2>1. pc \in [Endpoints -> Label]
    BY DEF TypeOK
  <2>2. ASSUME NEW c \in Consumers, ~dirty', pc'[c] \in {"fill", "drain"} PROVE FALSE
    BY <2>1, <2>2 DEF Resetting, Endpoints
  <2> QED
    BY <2>2 DEF ResetInv
<1> QED
  BY <1>6, <1>7, <1>8 DEF BalanceInv

(* A step that touches none of the counts, nor enters or leaves the loops. *)
LEMMA QuietStep ==
  ASSUME TypeOK, BalanceInv, NEW e \in Endpoints, NEW l,
         pc' = [pc EXCEPT ![e] = l],
         l \notin {"fill", "drain"}, pc[e] \notin {"fill", "drain"},
         l \in Token <=> pc[e] \in Token,
         InPacketHolders(e, l) <=> InPacketHolders(e, pc[e]),
         UNCHANGED <<sem, lost, queue, dirty, iter>>
  PROVE  BalanceInv'
<1>1. pc \in [Endpoints -> Label]
  BY DEF TypeOK
<1>2. \A c \in Consumers : /\ pc'[c] = "fill" <=> pc[c] = "fill"
                           /\ pc'[c] = "drain" <=> pc[c] = "drain"
  BY <1>1 DEF Endpoints
<1>3. Resetting' <=> Resetting
  BY <1>2 DEF Resetting
<1>4. Holders' = Holders
  BY <1>1 DEF Holders
<1>5. PacketHolders' = PacketHolders
  BY <1>1, SyncAssumption DEF PacketHolders, InPacketHolders, Endpoints
<1>6. TokenBalance' /\ PacketBalance'
  BY <1>3, <1>4, <1>5 DEF BalanceInv, TokenBalance, PacketBalance
<1>7. ResetInv'
  BY <1>2, <1>4 DEF BalanceInv, ResetInv
<1> QED
  BY <1>6, <1>7 DEF BalanceInv

(* Nobody who holds a token meets the loops of an undisturbed SyncClear. *)
LEMMA HolderNotResetting ==
  ASSUME BalanceInv, NEW e \in Endpoints, pc[e] \in Token, ~dirty
  PROVE  ~Resetting
  BY DEF BalanceInv, ResetInv, Resetting, Holders

LEMMA StillStep ==
  ASSUME BalanceInv, UNCHANGED <<pc, sem, lost, queue, dirty, iter>>
  PROVE  BalanceInv'
  BY DEF BalanceInv, TokenBalance, PacketBalance, ResetInv, Holders, PacketHolders, Resetting

(* The semaphores, the tokens dropped from them and the queue, as numbers. *)
LEMMA CountTypes ==
  ASSUME TypeOK
  PROVE  /\ sem \in [Semaphores -> Nat] /\ lost \in [Semaphores -> Nat]
         /\ sem["producer"] \in Nat /\ sem["consumer"] \in Nat
         /\ lost["producer"] \in Nat /\ lost["consumer"] \in Nat
         /\ queue \in Seq(Packet) /\ Len(queue) \in Nat
  BY SyncAssumption DEF TypeOK, Semaphores

LEMMA CountTypesNext ==
  ASSUME TypeOK'
  PROVE  /\ sem'["producer"] \in Nat /\ sem'["consumer"] \in Nat
         /\ lost'["producer"] \in Nat /\ lost'["consumer"] \in Nat
         /\ queue' \in Seq(Packet) /\ Len(queue') \in Nat
<1>1. sem' \in [Semaphores -> 0 .. SyncCount] /\ lost' \in [Semaphores -> Nat]
      /\ queue' \in Seq(Packet)
  BY DEF TypeOK
<1> QED
  BY <1>1, SyncAssumption DEF Semaphores

LEMMA Numbers ==
  ASSUME TypeOK, TypeOK'
  PROVE  /\ sem["producer"] \in Nat /\ sem["consumer"] \in Nat
         /\ lost["producer"] \in Nat /\ lost["consumer"] \in Nat
         /\ sem'["producer"] \in Nat /\ sem'["consumer"] \in Nat
         /\ lost'["producer"] \in Nat /\ lost'["consumer"] \in Nat
  BY CountTypes, CountTypesNext

LEMMA SumUp ==
  ASSUME NEW f \in [Semaphores -> Nat], NEW r \in Semaphores,
         NEW g, g = [f EXCEPT ![r] = f[r] + 1]
  PROVE  g["producer"] + g["consumer"] = f["producer"] + f["consumer"] + 1
  BY DEF Semaphores

LEMMA SumDown ==
  ASSUME NEW f \in [Semaphores -> Nat], NEW r \in Semaphores,
         NEW g, g = [f EXCEPT ![r] = f[r] - 1]
  PROVE  g["producer"] + g["consumer"] = f["producer"] + f["consumer"] - 1
  BY DEF Semaphores

LEMMA Roles ==
  ASSUME NEW e \in Endpoints
  PROVE  \/ e \in Producers /\ e \notin Consumers /\ Role(e) = "producer"
         \/ e \in Consumers /\ e \notin Producers /\ Role(e) = "consumer"
  BY SyncAssumption DEF Role, Endpoints

LEMMA TakeTokenBalance ==
  ASSUME TypeOK, TypeOK', BalanceInv, NEW e \in Endpoints, TakeToken(e)
  PROVE  BalanceInv'
<1> DEFINE l == IF stage[e] >= EventsClosed THEN "idle" ELSE "mutex"
<1>1. /\ pc[e] = "sem" /\ pc' = [pc EXCEPT ![e] = l] /\ queue' = queue
      /\ sem' = [sem EXCEPT ![Role(e)] = sem[Role(e)] - 1]
      /\ lost' = IF l = "idle" THEN [lost EXCEPT ![Role(e)] = lost[Role(e)] + 1] ELSE lost
      /\ dirty' = (dirty \/ Resetting)
  BY DEF TakeToken, Return, Goto, Lose, Resetting
<1>2. l = "idle" \/ l = "mutex"
  OBVIOUS
<1> HIDE DEF l
<1>3. sem'["producer"] + sem'["consumer"] + lost'["producer"] + lost'["consumer"]
        + TokenAt(l)
      = sem["producer"] + sem["consumer"] + lost["producer"] + lost["consumer"]
        + TokenAt(pc[e])
  <2>1. Role(e) \in Semaphores /\ sem[Role(e)] \in Nat /\ lost[Role(e)] \in Nat
    BY CountTypes, Roles DEF Semaphores
  <2>2. sem'["producer"] + sem'["consumer"] = sem["producer"] + sem["consumer"] - 1
    BY <1>1, <2>1, CountTypes, SumDown, Zenon
  <2>3. CASE l = "idle"
    <3>1. lost'["producer"] + lost'["consumer"] = lost["producer"] + lost["consumer"] + 1
      BY <1>1, <2>1, <2>3, CountTypes, SumUp, Zenon
    <3>2. TokenAt(l) = 0 /\ TokenAt(pc[e]) = 0
      BY <1>1, <2>3 DEF TokenAt, Token
    <3> QED
      BY <2>2, <3>1, <3>2, Numbers
  <2>4. CASE l = "mutex"
    <3>1. TokenAt(l) = 1 /\ TokenAt(pc[e]) = 0 /\ lost' = lost
      BY <1>1, <2>4 DEF TokenAt, Token
    <3> QED
      BY <2>2, <3>1, Numbers
  <2> QED
    BY <1>2, <2>3, <2>4
<1>4. Len(queue') - sem'["consumer"] - lost'["consumer"] - PacketAt(e, l)
      = Len(queue) - sem["consumer"] - lost["consumer"] - PacketAt(e, pc[e])
  BY <1>1, <1>2, CountTypes, Roles DEF PacketAt, InPacketHolders, Semaphores
<1> QED
  BY <1>1, <1>2, <1>3, <1>4, AccountStep

(* A token leaves the hands of its call for a semaphore, or for good.      *)
LEMMA TokenLeaves ==
  ASSUME TypeOK, TypeOK', BalanceInv, NEW e \in Endpoints, NEW l, NEW r,
         pc[e] \in Token, pc' = [pc EXCEPT ![e] = l],
         l \notin Token, l \notin {"fill", "drain"},
         r = IF pc[e] = "post" THEN Other(Role(e)) ELSE Role(e),
         \/ sem' = [sem EXCEPT ![r] = sem[r] + 1] /\ lost' = lost
         \/ lost' = [lost EXCEPT ![r] = lost[r] + 1] /\ sem' = sem,
         queue' = queue, dirty' = dirty
  PROVE  BalanceInv'
<1>1. r \in Semaphores
  BY Roles DEF Other, Semaphores
<1>2. TokenAt(l) = 0 /\ TokenAt(pc[e]) = 1 /\ PacketAt(e, l) = 0
  BY DEF TokenAt, PacketAt, InPacketHolders, Token
<1>3. sem'["producer"] + sem'["consumer"] + lost'["producer"] + lost'["consumer"]
        + TokenAt(l)
      = sem["producer"] + sem["consumer"] + lost["producer"] + lost["consumer"]
        + TokenAt(pc[e])
  <2>1. CASE sem' = [sem EXCEPT ![r] = sem[r] + 1] /\ lost' = lost
    <3>1. sem'["producer"] + sem'["consumer"] = sem["producer"] + sem["consumer"] + 1
      BY <1>1, <2>1, CountTypes, SumUp, Zenon
    <3>2. lost'["producer"] = lost["producer"] /\ lost'["consumer"] = lost["consumer"]
      BY <2>1
    <3> QED
      BY <1>2, <3>1, <3>2, Numbers
  <2>2. CASE lost' = [lost EXCEPT ![r] = lost[r] + 1] /\ sem' = sem
    <3>1. lost'["producer"] + lost'["consumer"] = lost["producer"] + lost["consumer"] + 1
      BY <1>1, <2>2, CountTypes, SumUp, Zenon
    <3>2. sem'["producer"] = sem["producer"] /\ sem'["consumer"] = sem["consumer"]
      BY <2>2
    <3> QED
      BY <1>2, <3>1, <3>2, Numbers
  <2> QED
    BY <2>1, <2>2
<1>4. Len(queue') - sem'["consumer"] - lost'["consumer"] - PacketAt(e, l)
      = Len(queue) - sem["consumer"] - lost["consumer"] - PacketAt(e, pc[e])
  <2>1. r = "consumer" <=> PacketAt(e, pc[e]) = 1
    BY Roles DEF Other, PacketAt, InPacketHolders, Token
  <2>2. PacketAt(e, pc[e]) \in {0, 1}
    BY DEF PacketAt
  <2>3. sem'["consumer"] + lost'["consumer"]
          = sem["consumer"] + lost["consumer"] + (IF r = "consumer" THEN 1 ELSE 0)
    BY <1>1, CountTypes DEF Semaphores
  <2>4. sem'["consumer"] + lost'["consumer"] + 0
          = sem["consumer"] + lost["consumer"] + PacketAt(e, pc[e])
    BY <2>1, <2>2, <2>3, Numbers
  <2> DEFINE q == Len(queue)    t == PacketAt(e, pc[e])  u == PacketAt(e, l)
             b == sem["consumer"]    b1 == sem'["consumer"]
             y == lost["consumer"]   y1 == lost'["consumer"]
  <2>5. /\ q \in Nat /\ b \in Nat /\ b1 \in Nat /\ y \in Nat /\ y1 \in Nat
        /\ t \in Nat /\ u = 0 /\ b1 + y1 + 0 = b + y + t
    BY <1>2, <2>2, <2>4, CountTypes, Numbers
  <2>6. q - b1 - y1 - u = q - b - y - t
    <3> HIDE DEF q, t, u, b, b1, y, y1
    <3> QED
      BY <2>5
  <2>7. Len(queue') = q
    OBVIOUS
  <2> QED
    BY <2>6, <2>7
<1>5. ~dirty' => ~dirty /\ ~Resetting
  BY HolderNotResetting
<1> QED
  BY <1>3, <1>4, <1>5, AccountStep

LEMMA DirtyStep ==
  ASSUME dirty'
  PROVE  BalanceInv'
  BY DEF BalanceInv, TokenBalance, PacketBalance, ResetInv

LEMMA AcquireAbandonedBalance ==
  ASSUME TypeOK, TypeOK', BalanceInv, NEW e \in Endpoints, AcquireAbandoned(e)
  PROVE  BalanceInv'
<1>1. /\ pc[e] = "mutex" /\ pc' = [pc EXCEPT ![e] = "idle"]
      /\ lost' = [lost EXCEPT ![Role(e)] = lost[Role(e)] + 1]
      /\ sem' = sem /\ queue' = queue /\ dirty' = dirty
  BY DEF AcquireAbandoned, Return, Goto, Lose
<1>2. /\ pc[e] \in Token /\ "idle" \notin Token /\ "idle" \notin {"fill", "drain"}
      /\ Role(e) = IF pc[e] = "post" THEN Other(Role(e)) ELSE Role(e)
  BY <1>1 DEF Token
<1> QED
  BY <1>1, <1>2, TokenLeaves, Zenon

LEMMA LeaveMutexWaitBalance ==
  ASSUME TypeOK, TypeOK', BalanceInv, NEW e \in Endpoints, LeaveMutexWait(e)
  PROVE  BalanceInv'
<1>1. /\ pc[e] = "mutex" /\ pc' = [pc EXCEPT ![e] = "idle"]
      /\ lost' = [lost EXCEPT ![Role(e)] = lost[Role(e)] + 1]
      /\ sem' = sem /\ queue' = queue /\ dirty' = dirty
  BY DEF LeaveMutexWait, Interrupted, WaitFails, Return, Goto, Lose, shared
<1>2. /\ pc[e] \in Token /\ "idle" \notin Token /\ "idle" \notin {"fill", "drain"}
      /\ Role(e) = IF pc[e] = "post" THEN Other(Role(e)) ELSE Role(e)
  BY <1>1 DEF Token
<1> QED
  BY <1>1, <1>2, TokenLeaves, Zenon

LEMMA PostBalance ==
  ASSUME TypeOK, TypeOK', BalanceInv, NEW e \in Endpoints, Post(e)
  PROVE  BalanceInv'
<1>1. /\ pc[e] = "post" /\ pc' = [pc EXCEPT ![e] = "release"]
      /\ \/ sem' = [sem EXCEPT ![Other(Role(e))] = sem[Other(Role(e))] + 1] /\ lost' = lost
         \/ lost' = [lost EXCEPT ![Other(Role(e))] = lost[Other(Role(e))] + 1] /\ sem' = sem
      /\ queue' = queue /\ dirty' = dirty
  BY DEF Post, PostThen, Goto, Lose
<1>2. /\ pc[e] \in Token /\ "release" \notin Token /\ "release" \notin {"fill", "drain"}
      /\ Other(Role(e)) = IF pc[e] = "post" THEN Other(Role(e)) ELSE Role(e)
  BY <1>1 DEF Token
<1> QED
  BY <1>1, <1>2, TokenLeaves, Zenon

LEMMA RestoreBalance ==
  ASSUME TypeOK, TypeOK', BalanceInv, NEW e \in Endpoints, Restore(e)
  PROVE  BalanceInv'
<1>1. /\ pc[e] = "restore" /\ pc' = [pc EXCEPT ![e] = "release"]
      /\ \/ sem' = [sem EXCEPT ![Role(e)] = sem[Role(e)] + 1] /\ lost' = lost
         \/ lost' = [lost EXCEPT ![Role(e)] = lost[Role(e)] + 1] /\ sem' = sem
      /\ queue' = queue /\ dirty' = dirty
  BY DEF Restore, RestoreAnswering, Goto, Lose
<1>2. /\ pc[e] \in Token /\ "release" \notin Token /\ "release" \notin {"fill", "drain"}
      /\ Role(e) = IF pc[e] = "post" THEN Other(Role(e)) ELSE Role(e)
  BY <1>1 DEF Token
<1> QED
  BY <1>1, <1>2, TokenLeaves, Zenon

LEMMA CrashBalance ==
  ASSUME TypeOK, TypeOK', BalanceInv, NEW e \in Endpoints, Crash(e)
  PROVE  BalanceInv'
<1>1. /\ pc' = [pc EXCEPT ![e] = "dead"] /\ dirty' = (dirty \/ pc[e] \in {"fill", "drain"})
      /\ UNCHANGED <<sem, queue, iter>> /\ dirty \in BOOLEAN
  BY DEF Crash, Goto, TypeOK
<1>2. CASE pc[e] \in {"fill", "drain"}
  BY <1>1, <1>2, DirtyStep
<1>3. CASE pc[e] \in Token
  <2> DEFINE r == IF pc[e] = "post" THEN Other(Role(e)) ELSE Role(e)
  <2>1. lost' = [lost EXCEPT ![r] = lost[r] + 1]
    BY <1>3 DEF Crash, Lose
  <2>2. dirty' = dirty /\ sem' = sem /\ queue' = queue
    BY <1>1, <1>3 DEF Token
  <2> HIDE DEF r
  <2>3. "dead" \notin Token /\ "dead" \notin {"fill", "drain"}
    BY DEF Token
  <2> QED
    BY <1>1, <1>3, <2>1, <2>2, <2>3, TokenLeaves DEF r
<1>4. CASE pc[e] \notin Token \cup {"fill", "drain"}
  <2>1. UNCHANGED <<sem, lost, queue, dirty, iter>>
    <3>1. lost' = lost
      BY <1>4 DEF Crash
    <3>2. dirty' = dirty
      BY <1>1, <1>4
    <3> QED
      BY <1>1, <3>1, <3>2
  <2> QED
    BY <1>1, <1>4, <2>1, QuietStep DEF Token, InPacketHolders
<1> QED
  BY <1>2, <1>3, <1>4

LEMMA CallbackPushBalance ==
  ASSUME TypeOK, TypeOK', StageInv, MutexInv, BalanceInv, NEW e \in Endpoints, CallbackPush(e)
  PROVE  BalanceInv'
<1>0. CASE dirty
  <2>1. dirty'
    BY <1>0 DEF CallbackPush, PushOrElse, CallbackPop, ghost
  <2> QED
    BY <2>1, DirtyStep
<1> SUFFICES ASSUME ~dirty, ~overtaken PROVE BalanceInv'
  BY <1>0 DEF StageInv
<1>1. /\ pc[e] = "callback" /\ e \in Producers /\ UNCHANGED <<sem, lost, dirty, iter>>
      /\ \/ queue' = Append(seen[e], packet[e]) /\ pc' = [pc EXCEPT ![e] = "post"]
         \/ queue' = queue /\ pc' = [pc EXCEPT ![e] = "restore"]
  BY DEF CallbackPush, PushOrElse, Goto, ghost
<1>2. CASE queue' = Append(seen[e], packet[e]) /\ pc' = [pc EXCEPT ![e] = "post"]
  <2>1. queue' = Append(queue, packet[e])
    BY <1>1, <1>2 DEF MutexInv
  <2>2. Len(queue') = Len(queue) + 1
    BY <2>1, CountTypes
  <2>3. /\ TokenAt("post") = 1 /\ TokenAt(pc[e]) = 1
        /\ PacketAt(e, "post") = 1 /\ PacketAt(e, pc[e]) = 0
    BY <1>1, SyncAssumption DEF TokenAt, Token, PacketAt, InPacketHolders
  <2>4. Len(queue') - sem'["consumer"] - lost'["consumer"] - PacketAt(e, "post")
        = Len(queue) - sem["consumer"] - lost["consumer"] - PacketAt(e, pc[e])
    <3> DEFINE b == sem["consumer"]  y == lost["consumer"]  q == Len(queue)
    <3>1. /\ b \in Nat /\ y \in Nat /\ q \in Nat
          /\ sem'["consumer"] = b /\ lost'["consumer"] = y /\ Len(queue') = q + 1
      BY <1>1, <2>2, CountTypes
    <3>2. (q + 1) - b - y - 1 = q - b - y - 0
      <4> HIDE DEF b, y, q
      <4> QED
        BY <3>1
    <3> QED
      BY <2>3, <3>1, <3>2
  <2>5. sem'["producer"] + sem'["consumer"] + lost'["producer"] + lost'["consumer"]
          + TokenAt("post")
        = sem["producer"] + sem["consumer"] + lost["producer"] + lost["consumer"]
          + TokenAt(pc[e])
    BY <1>1, <2>3
  <2>6. ~dirty' => ~dirty /\ ~Resetting
    BY <1>1, HolderNotResetting DEF Token
  <2> QED
    BY <1>2, <2>4, <2>5, <2>6, AccountStep
<1>3. CASE queue' = queue /\ pc' = [pc EXCEPT ![e] = "restore"]
  BY <1>1, <1>3, SyncAssumption, QuietStep DEF Token, InPacketHolders
<1> QED
  BY <1>1, <1>2, <1>3

LEMMA CallbackPopBalance ==
  ASSUME TypeOK, TypeOK', StageInv, MutexInv, BalanceInv, NEW e \in Endpoints, CallbackPop(e)
  PROVE  BalanceInv'
<1>0. CASE dirty
  <2>1. dirty'
    BY <1>0 DEF CallbackPush, PushOrElse, CallbackPop, ghost
  <2> QED
    BY <2>1, DirtyStep
<1> SUFFICES ASSUME ~dirty, ~overtaken PROVE BalanceInv'
  BY <1>0 DEF StageInv
<1>1. /\ pc[e] = "callback" /\ e \in Consumers /\ UNCHANGED <<sem, lost, dirty, iter>>
      /\ \/ seen[e] # << >> /\ queue' = Tail(seen[e]) /\ pc' = [pc EXCEPT ![e] = "post"]
         \/ queue' = queue /\ pc' = [pc EXCEPT ![e] = "restore"]
  BY DEF CallbackPop, Goto
<1>2. CASE seen[e] # << >> /\ queue' = Tail(seen[e]) /\ pc' = [pc EXCEPT ![e] = "post"]
  <2>1. queue' = Tail(queue) /\ queue # << >>
    BY <1>1, <1>2 DEF MutexInv
  <2>2. Len(queue') = Len(queue) - 1
    BY <2>1, CountTypes
  <2>3. /\ TokenAt("post") = 1 /\ TokenAt(pc[e]) = 1
        /\ PacketAt(e, "post") = 0 /\ PacketAt(e, pc[e]) = 1
    BY <1>1, SyncAssumption DEF TokenAt, Token, PacketAt, InPacketHolders
  <2>4. Len(queue') - sem'["consumer"] - lost'["consumer"] - PacketAt(e, "post")
        = Len(queue) - sem["consumer"] - lost["consumer"] - PacketAt(e, pc[e])
    BY <1>1, <2>2, <2>3, CountTypes
  <2>5. sem'["producer"] + sem'["consumer"] + lost'["producer"] + lost'["consumer"]
          + TokenAt("post")
        = sem["producer"] + sem["consumer"] + lost["producer"] + lost["consumer"]
          + TokenAt(pc[e])
    BY <1>1, <2>3
  <2>6. ~dirty' => ~dirty /\ ~Resetting
    BY <1>1, HolderNotResetting DEF Token
  <2> QED
    BY <1>2, <2>4, <2>5, <2>6, AccountStep
<1>3. CASE queue' = queue /\ pc' = [pc EXCEPT ![e] = "restore"]
  BY <1>1, <1>3, SyncAssumption, QuietStep, ZenonT(60) DEF Token, InPacketHolders
<1> QED
  BY <1>1, <1>2, <1>3

LEMMA ActivateBalance ==
  ASSUME TypeOK, StageInv, BalanceInv, NEW e \in Endpoints, Activate(e)
  PROVE  BalanceInv'
<1> DEFINE l == IF e \in Producers THEN "idle" ELSE "starting"
<1>1. /\ pc' = [pc EXCEPT ![e] = l] /\ l \in {"idle", "starting"}
      /\ pc[e] \in {"dead", "idle", "stopped"} /\ iter' = iter
      /\ pc \in [Endpoints -> Label] /\ stage \in [Endpoints -> 0 .. 6]
  BY DEF Activate, StageInv, Goto, TypeOK, Active, Finalized
<1> HIDE DEF l
<1>2. CASE \A f \in Endpoints : ~HasMemory(f)
  <2>1. \A f \in Endpoints : ~HasSemaphores(f)
    BY <1>1, <1>2 DEF HasMemory, HasSemaphores, Closed, Finalized
  <2>2. /\ sem' = FreshSem /\ queue' = << >> /\ lost' = NoneLost
    BY <1>2, <2>1 DEF Activate
  <2>3. \A f \in Endpoints : pc'[f] \in {"dead", "idle", "stopped", "starting"}
    BY <1>1, <1>2 DEF HasMemory, StageInv, Finalized
  <2>4. Holders' = {} /\ PacketHolders' = {}
    BY <2>3 DEF Holders, PacketHolders, Token, Endpoints
  <2>5. Cardinality(Holders') = 0 /\ Cardinality(PacketHolders') = 0
    BY <2>4, FS_EmptySet
  <2>6. /\ sem'["producer"] = SyncCount /\ sem'["consumer"] = 0
        /\ lost'["producer"] = 0 /\ lost'["consumer"] = 0 /\ Len(queue') = 0
    BY <2>2 DEF FreshSem, NoneLost, Semaphores
  <2>7. TokenBalance' /\ PacketBalance'
    BY <2>5, <2>6, SyncAssumption DEF TokenBalance, PacketBalance
  <2>8. ResetInv'
    BY <2>3 DEF ResetInv, Endpoints
  <2> QED
    BY <2>7, <2>8 DEF BalanceInv
<1>3. CASE dirty'
  BY <1>3, DirtyStep
<1>4. CASE ~dirty' /\ \E f \in Endpoints : HasMemory(f)
  <2>1. /\ ~dirty /\ \E f \in Endpoints : HasSemaphores(f)
        /\ queue' = queue /\ lost' = lost
    BY <1>4, Zenon DEF Activate
  <2>2. sem' = sem
    BY <2>1 DEF Activate
  <2>3. dirty' = dirty
    BY <1>4, <2>1, Zenon DEF Activate, TypeOK
  <2> QED
    BY <1>1, <2>1, <2>2, <2>3, QuietStep DEF Token, InPacketHolders
<1> QED
  BY <1>2, <1>3, <1>4

(* Only the owner of the mutex is in the loops, so nobody else is.         *)
LEMMA ClearQueueBalance ==
  ASSUME TypeOK, StageInv, MutexInv, NEW c \in Consumers, ClearQueue(c)
  PROVE  BalanceInv'
<1>1. /\ pc[c] = "clearwait" /\ pc' = [pc EXCEPT ![c] = "fill"] /\ queue' = << >>
      /\ iter' = [iter EXCEPT ![c] = 0] /\ lost' = NoneLost /\ sem' = sem
      /\ dirty' = (overtaken \/ Holders # {}) /\ mutex.owner \in {NoOwner, c}
  BY DEF ClearQueue, Goto, MutexFree
<1>2. /\ pc \in [Endpoints -> Label] /\ c \in Endpoints /\ iter \in [Consumers -> 0 .. SyncCount]
      /\ sem["producer"] \in Nat
  BY CountTypes DEF TypeOK, Endpoints
<1>3. Resetting'
  BY <1>1, <1>2 DEF Resetting
<1>4. \A d \in Consumers : pc'[d] \in {"fill", "drain"} => d = c
  <2>1. \A d \in Consumers : pc[d] \in {"fill", "drain"} => d = c
    BY <1>1, SyncAssumption
    DEF StageInv, MutexInv, HasMutex, Active, MutexClosed, Section, Clearing, Endpoints
  <2> QED
    BY <1>1, <1>2, <2>1
<1>5. ~dirty' => Holders' = {}
  BY <1>1, <1>2 DEF Holders, Token
<1>6. iter'[c] = 0 /\ pc'[c] = "fill" /\ lost'["producer"] = 0 /\ lost'["consumer"] = 0
  BY <1>1, <1>2 DEF NoneLost, Semaphores
<1>7. ResetInv'
  BY <1>1, <1>2, <1>4, <1>5, <1>6 DEF ResetInv
<1> QED
  BY <1>3, <1>7 DEF BalanceInv, TokenBalance, PacketBalance

LEMMA FillProducerBalance ==
  ASSUME TypeOK, StageInv, MutexInv, BalanceInv, NEW c \in Consumers, FillProducer(c)
  PROVE  BalanceInv'
<1>1. /\ pc[c] = "fill" /\ UNCHANGED <<queue, lost, dirty>>
      /\ \/ /\ sem' = [sem EXCEPT !["producer"] = sem["producer"] + 1] /\ pc' = pc
            /\ iter' = [iter EXCEPT ![c] = iter[c] + 1]
         \/ /\ iter[c] >= SyncCount \/ sem["producer"] >= SyncCount
            /\ iter' = [iter EXCEPT ![c] = 0]
            /\ pc' = [pc EXCEPT ![c] = "drain"] /\ sem' = sem
  <2>1. iter[c] \in Nat /\ sem["producer"] \in Nat /\ SyncCount \in Nat
    BY CountTypes, SyncAssumption DEF TypeOK
  <2> QED
    BY <2>1 DEF FillProducer, Goto, ghost
<1>2. /\ pc \in [Endpoints -> Label] /\ c \in Endpoints /\ iter \in [Consumers -> 0 .. SyncCount]
      /\ sem \in [Semaphores -> 0 .. SyncCount] /\ SyncCount \in Nat
      /\ sem["producer"] \in 0 .. SyncCount /\ sem["consumer"] \in 0 .. SyncCount
  BY SyncAssumption DEF TypeOK, Endpoints, Semaphores
<1>3. \A d \in Consumers : pc[d] \in {"fill", "drain"} => d = c
  BY <1>1, SyncAssumption
  DEF StageInv, MutexInv, HasMutex, Active, MutexClosed, Section, Clearing, Endpoints
<1>4. pc'[c] \in {"fill", "drain"} /\ \A d \in Consumers : d # c => pc'[d] = pc[d]
  <2>1. pc' = pc \/ pc' = [pc EXCEPT ![c] = "drain"]
    BY <1>1
  <2> QED
    BY <1>1, <1>2, <2>1 DEF Endpoints
<1>5. Resetting' /\ Holders' = Holders
  <2>1. Resetting'
    BY <1>4 DEF Resetting
  <2>2. Holders' = Holders
    BY <1>1, <1>2 DEF Holders, Token
  <2> QED
    BY <2>1, <2>2
<1>6. ASSUME ~dirty
      PROVE  /\ Holders = {} /\ queue = << >> /\ lost["producer"] = 0
             /\ lost["consumer"] = 0 /\ iter[c] <= sem["producer"]
  BY <1>1, <1>6 DEF BalanceInv, ResetInv
<1>7. ASSUME ~dirty, pc'[c] = "fill" PROVE iter'[c] <= sem'["producer"]
  <2>1. iter'[c] = iter[c] + 1 /\ sem'["producer"] = sem["producer"] + 1
    BY <1>1, <1>2, <1>7 DEF Semaphores
  <2>2. iter[c] \in Nat /\ sem["producer"] \in Nat
    BY <1>2
  <2> QED
    BY <1>6, <1>7, <2>1, <2>2
<1>8. ASSUME ~dirty, pc'[c] = "drain"
      PROVE  sem'["producer"] = SyncCount /\ iter'[c] + sem'["consumer"] <= SyncCount
  <2>1. /\ iter[c] >= SyncCount \/ sem["producer"] >= SyncCount
        /\ iter'[c] = 0 /\ sem' = sem
    BY <1>1, <1>2, <1>8
  <2>2. iter[c] \in Nat
    BY <1>2
  <2> QED
    BY <1>2, <1>6, <1>8, <2>1, <2>2
<1>9. ResetInv'
  BY <1>1, <1>3, <1>4, <1>5, <1>6, <1>7, <1>8 DEF ResetInv
<1> QED
  BY <1>5, <1>9 DEF BalanceInv, TokenBalance, PacketBalance

LEMMA DrainConsumerBalance ==
  ASSUME TypeOK, StageInv, MutexInv, BalanceInv, NEW c \in Consumers, DrainConsumer(c)
  PROVE  BalanceInv'
<1>1. /\ pc[c] = "drain" /\ UNCHANGED <<queue, lost, dirty>>
      /\ \/ /\ sem' = [sem EXCEPT !["consumer"] = sem["consumer"] - 1] /\ pc' = pc
            /\ iter' = [iter EXCEPT ![c] = iter[c] + 1]
         \/ /\ iter[c] >= SyncCount \/ sem["consumer"] <= 0
            /\ pc' = [pc EXCEPT ![c] = "endclear"] /\ sem' = sem
  <2>1. iter[c] \in Nat /\ sem["consumer"] \in Nat /\ SyncCount \in Nat
    BY CountTypes, SyncAssumption DEF TypeOK
  <2> QED
    BY <2>1 DEF DrainConsumer, Goto, ghost
<1>2. /\ pc \in [Endpoints -> Label] /\ c \in Endpoints /\ iter \in [Consumers -> 0 .. SyncCount]
      /\ sem \in [Semaphores -> 0 .. SyncCount] /\ SyncCount \in Nat
      /\ sem["producer"] \in 0 .. SyncCount /\ sem["consumer"] \in 0 .. SyncCount
  BY SyncAssumption DEF TypeOK, Endpoints, Semaphores
<1>3. \A d \in Consumers : pc[d] \in {"fill", "drain"} => d = c
  BY <1>1, SyncAssumption
  DEF StageInv, MutexInv, HasMutex, Active, MutexClosed, Section, Clearing, Endpoints
<1>4. pc'[c] \in {"drain", "endclear"} /\ \A d \in Consumers : d # c => pc'[d] = pc[d]
  <2>1. pc' = pc \/ pc' = [pc EXCEPT ![c] = "endclear"]
    BY <1>1
  <2> QED
    BY <1>1, <1>2, <2>1 DEF Endpoints
<1>5. Holders' = Holders
  BY <1>1, <1>2 DEF Holders, Token
<1>6. ASSUME ~dirty
      PROVE  /\ Holders = {} /\ queue = << >> /\ lost["producer"] = 0
             /\ lost["consumer"] = 0 /\ sem["producer"] = SyncCount
             /\ iter[c] + sem["consumer"] <= SyncCount
  BY <1>1, <1>6 DEF BalanceInv, ResetInv
<1>7. ASSUME ~dirty, pc'[c] = "drain"
      PROVE  sem'["producer"] = SyncCount /\ iter'[c] + sem'["consumer"] <= SyncCount
  <2>1. /\ iter'[c] = iter[c] + 1 /\ sem'["consumer"] = sem["consumer"] - 1
        /\ sem'["producer"] = sem["producer"]
    BY <1>1, <1>2, <1>7 DEF Semaphores
  <2>2. iter[c] \in Nat /\ sem["consumer"] \in Nat
    BY <1>2
  <2> QED
    BY <1>2, <1>6, <1>7, <2>1, <2>2
<1>8. ASSUME ~dirty, pc'[c] = "endclear"
      PROVE  sem' = sem /\ sem["consumer"] = 0
  <2>1. /\ iter[c] >= SyncCount \/ sem["consumer"] <= 0
        /\ sem' = sem
    BY <1>1, <1>2, <1>8
  <2>2. iter[c] \in Nat
    BY <1>2
  <2> QED
    BY <1>2, <1>6, <1>8, <2>1, <2>2
<1>9. ResetInv'
  BY <1>1, <1>3, <1>4, <1>5, <1>6, <1>7 DEF ResetInv
<1>10. ASSUME ~dirty, ~Resetting'
       PROVE  /\ sem'["producer"] = SyncCount /\ sem'["consumer"] = 0
              /\ lost'["producer"] = 0 /\ lost'["consumer"] = 0 /\ Len(queue') = 0
              /\ Cardinality(Holders') = 0 /\ Cardinality(PacketHolders') = 0
  <2>1. pc'[c] = "endclear"
    BY <1>4, <1>10 DEF Resetting
  <2>2. Holders' = {} /\ PacketHolders' = {}
    <3>1. Holders' = {}
      BY <1>5, <1>6, <1>10
    <3>2. PacketHolders' \subseteq Holders'
      BY DEF Holders, PacketHolders, Token, Endpoints
    <3> QED
      BY <3>1, <3>2
  <2>3. Cardinality(Holders') = 0 /\ Cardinality(PacketHolders') = 0
    BY <2>2, FS_EmptySet
  <2>4. Len(queue') = 0 /\ lost'["producer"] = 0 /\ lost'["consumer"] = 0
    BY <1>1, <1>6, <1>10
  <2> QED
    BY <1>6, <1>8, <1>10, <2>1, <2>3, <2>4
<1>11. TokenBalance' /\ PacketBalance'
  <2>1. SyncCount \in Nat /\ dirty' = dirty
    BY <1>1, <1>2
  <2>2. ASSUME ~dirty, ~Resetting'
        PROVE  sem'["producer"] + sem'["consumer"] + Cardinality(Holders')
                 + lost'["producer"] + lost'["consumer"] = SyncCount
    BY <1>10, <2>1, <2>2
  <2>3. ASSUME ~dirty, ~Resetting'
        PROVE  Len(queue') = sem'["consumer"] + Cardinality(PacketHolders')
                               + lost'["consumer"]
    BY <1>10, <2>3
  <2>4. TokenBalance'
    BY <2>1, <2>2 DEF TokenBalance
  <2>5. PacketBalance'
    BY <2>1, <2>3 DEF PacketBalance
  <2> QED
    BY <2>4, <2>5
<1> QED
  BY <1>9, <1>11 DEF BalanceInv

LEMMA BalanceStep ==
  ASSUME TypeOK, TypeOK', StageInv, MutexInv, Offered, BalanceInv, [Next]_vars
  PROVE  BalanceInv'
<1>1. ASSUME NEW p \in Producers, SendPacket(p) PROVE BalanceInv'
  <2>1. /\ p \in Endpoints /\ pc[p] = "idle"
        /\ pc' = [pc EXCEPT ![p] = "sem"]
        /\ UNCHANGED <<sem, lost, queue, dirty, iter>>
    BY <1>1 DEF SendPacket, Endpoints, local, shared, ghost, Goto
  <2> QED
    BY <2>1, QuietStep DEF Token, InPacketHolders
<1>2. ASSUME NEW c \in Consumers, ThreadStart(c) PROVE BalanceInv'
  <2>1. /\ c \in Endpoints /\ pc[c] = "starting"
        /\ pc' = [pc EXCEPT ![c] = "idle"]
        /\ UNCHANGED <<sem, lost, queue, dirty, iter>>
    BY <1>2 DEF ThreadStart, Endpoints, local, shared, ghost, Goto
  <2> QED
    BY <2>1, QuietStep DEF Token, InPacketHolders
<1>3. ASSUME NEW c \in Consumers, CallConsumer(c) PROVE BalanceInv'
  <2>1. /\ c \in Endpoints /\ pc[c] = "idle"
        /\ (pc' = [pc EXCEPT ![c] = "idle"] \/ pc' = [pc EXCEPT ![c] = "sem"])
        /\ UNCHANGED <<sem, lost, queue, dirty, iter>>
    BY <1>3 DEF CallConsumer, Endpoints, local, shared, ghost, Goto, Return
  <2> QED
    BY <2>1, QuietStep DEF Token, InPacketHolders
<1>4. ASSUME NEW c \in Consumers, ThreadEnd(c) PROVE BalanceInv'
  <2>1. /\ c \in Endpoints /\ pc[c] = "idle"
        /\ pc' = [pc EXCEPT ![c] = "stopped"]
        /\ UNCHANGED <<sem, lost, queue, dirty, iter>>
    BY <1>4 DEF ThreadEnd, Endpoints, local, ghost, Goto
  <2> QED
    BY <2>1, QuietStep DEF Token, InPacketHolders
<1>5. ASSUME NEW e \in Endpoints, LeaveSemWait(e) PROVE BalanceInv'
  <2>1. /\ e \in Endpoints /\ pc[e] = "sem"
        /\ pc' = [pc EXCEPT ![e] = "idle"]
        /\ UNCHANGED <<sem, lost, queue, dirty, iter>>
    BY <1>5 DEF LeaveSemWait, Endpoints, local, shared, ghost, Goto, Return, Interrupted, WaitFails
  <2> QED
    BY <2>1, QuietStep DEF Token, InPacketHolders
<1>6. ASSUME NEW e \in Endpoints, AcquireMutex(e) PROVE BalanceInv'
  <2>1. /\ e \in Endpoints /\ pc[e] = "mutex"
        /\ \/ pc' = [pc EXCEPT ![e] = "entered"]
           \/ e \in Consumers /\ pc' = [pc EXCEPT ![e] = "restore"]
        /\ UNCHANGED <<sem, lost, queue, dirty, iter>>
    BY <1>6 DEF AcquireMutex, AcquireWhen, Endpoints, local, ghost, Goto
  <2> QED
    BY <2>1, QuietStep, SyncAssumption DEF Token, InPacketHolders
<1>7. ASSUME NEW e \in Endpoints, ReleaseMutex(e) PROVE BalanceInv'
  <2>1. /\ e \in Endpoints /\ pc[e] = "release"
        /\ pc' = [pc EXCEPT ![e] = "idle"]
        /\ UNCHANGED <<sem, lost, queue, dirty, iter>>
    BY <1>7 DEF ReleaseMutex, Endpoints, local, ReleaseBefore, ghost, Goto
  <2> QED
    BY <2>1, QuietStep DEF Token, InPacketHolders
<1>8. ASSUME NEW c \in Consumers, CallClear(c) PROVE BalanceInv'
  <2>1. /\ c \in Endpoints /\ pc[c] = "starting"
        /\ pc' = [pc EXCEPT ![c] = "clearwait"]
        /\ UNCHANGED <<sem, lost, queue, dirty, iter>>
    BY <1>8 DEF CallClear, Endpoints, local, shared, ghost, Goto
  <2> QED
    BY <2>1, QuietStep DEF Token, InPacketHolders
<1>9. ASSUME NEW c \in Consumers, ClearFails(c) PROVE BalanceInv'
  <2>1. /\ c \in Endpoints /\ pc[c] = "clearwait"
        /\ pc' = [pc EXCEPT ![c] = "starting"]
        /\ UNCHANGED <<sem, lost, queue, dirty, iter>>
    BY <1>9 DEF ClearFails, Endpoints, local, ghost, Goto
  <2> QED
    BY <2>1, QuietStep DEF Token, InPacketHolders
<1>10. ASSUME NEW c \in Consumers, EndClear(c) PROVE BalanceInv'
  <2>1. /\ c \in Endpoints /\ pc[c] = "endclear"
        /\ pc' = [pc EXCEPT ![c] = "starting"]
        /\ UNCHANGED <<sem, lost, queue, dirty, iter>>
    BY <1>10 DEF EndClear, Endpoints, local, ghost, Goto
  <2> QED
    BY <2>1, QuietStep DEF Token, InPacketHolders
<1>11. ASSUME NEW e \in Endpoints, SendSyncUnlock(e) PROVE BalanceInv'
  <2>1. UNCHANGED <<pc, sem, lost, queue, dirty, iter>>
    BY <1>11 DEF SendSyncUnlock, shared, local, ghost
  <2> QED
    BY <2>1, StillStep
<1>12. ASSUME NEW e \in Endpoints, StopWorker(e) PROVE BalanceInv'
  <2>1. UNCHANGED <<pc, sem, lost, queue, dirty, iter>>
    BY <1>12 DEF StopWorker, shared, local, ghost
  <2> QED
    BY <2>1, StillStep
<1>13. ASSUME NEW e \in Endpoints, SignalExit(e) PROVE BalanceInv'
  <2>1. UNCHANGED <<pc, sem, lost, queue, dirty, iter>>
    BY <1>13 DEF SignalExit, shared, local, ghost
  <2> QED
    BY <2>1, StillStep
<1>14. ASSUME NEW e \in Endpoints, CloseHandles(e) PROVE BalanceInv'
  <2>1. UNCHANGED <<pc, sem, lost, queue, dirty, iter>>
    BY <1>14 DEF CloseHandles, shared, local, ghost
  <2> QED
    BY <2>1, StillStep
<1>15. ASSUME NEW e \in Endpoints, TakeToken(e) PROVE BalanceInv'
  BY <1>15, TakeTokenBalance
<1>16. ASSUME NEW e \in Endpoints, AcquireAbandoned(e) PROVE BalanceInv'
  BY <1>16, AcquireAbandonedBalance
<1>17. ASSUME NEW e \in Endpoints, LeaveMutexWait(e) PROVE BalanceInv'
  BY <1>17, LeaveMutexWaitBalance
<1>18. ASSUME NEW e \in Endpoints, CallbackPush(e) PROVE BalanceInv'
  BY <1>18, CallbackPushBalance
<1>19. ASSUME NEW e \in Endpoints, CallbackPop(e) PROVE BalanceInv'
  BY <1>19, CallbackPopBalance
<1>20. ASSUME NEW e \in Endpoints, Post(e) PROVE BalanceInv'
  BY <1>20, PostBalance
<1>21. ASSUME NEW e \in Endpoints, Restore(e) PROVE BalanceInv'
  BY <1>21, RestoreBalance
<1>22. ASSUME NEW e \in Endpoints, Crash(e) PROVE BalanceInv'
  BY <1>22, CrashBalance
<1>23. ASSUME NEW e \in Endpoints, Activate(e) PROVE BalanceInv'
  BY <1>23, ActivateBalance
<1>24. ASSUME NEW c \in Consumers, ClearQueue(c) PROVE BalanceInv'
  BY <1>24, ClearQueueBalance
<1>25. ASSUME NEW c \in Consumers, FillProducer(c) PROVE BalanceInv'
  BY <1>25, FillProducerBalance
<1>26. ASSUME NEW c \in Consumers, DrainConsumer(c) PROVE BalanceInv'
  BY <1>26, DrainConsumerBalance
<1>27. ASSUME NEW e \in Endpoints, ReadQueue(e) PROVE BalanceInv'
  <2>1. /\ pc[e] = "entered" /\ pc' = [pc EXCEPT ![e] = "callback"]
        /\ UNCHANGED <<sem, lost, queue, dirty, iter>>
    BY <1>27 DEF ReadQueue, shared, ghost, Goto
  <2> QED
    BY <2>1, QuietStep DEF Token, InPacketHolders
<1>28. ASSUME NEW e \in Endpoints, Finalize(e) PROVE BalanceInv'
  <2>1. UNCHANGED <<pc, sem, lost, queue, dirty, iter>>
    BY <1>28 DEF Finalize, shared, local, ghost
  <2> QED
    BY <2>1, StillStep
<1>29. CASE UNCHANGED vars
  BY <1>29, StillStep DEF vars, shared, local, ghost
<1> QED
  BY <1>1, <1>2, <1>3, <1>4, <1>5, <1>6, <1>7, <1>8, <1>9, <1>10, <1>11, <1>12, <1>13, <1>14,
     <1>15, <1>16, <1>17, <1>18, <1>19, <1>20, <1>21, <1>22, <1>23, <1>24, <1>25, <1>26, <1>27,
     <1>28, <1>29
     DEF Next, Calls, Clears, Worker, Stops, Environment

LEMMA InvInit == Init => IInv
<1> SUFFICES ASSUME Init PROVE IInv
  OBVIOUS
<1>1. TypeOK
  <2>1. /\ sem = FreshSem /\ mutex = FreeMutex /\ queue = << >> /\ lost = NoneLost
        /\ delivered = << >>
    BY DEF Init
  <2>2. /\ sem \in [Semaphores -> 0 .. SyncCount] /\ queue \in Seq(Packet)
        /\ mutex \in [owner : Endpoints \cup {NoOwner}, depth : Nat, abandoned : BOOLEAN]
        /\ lost \in [Semaphores -> Nat] /\ delivered \in Seq(Packet)
    BY <2>1, ResetType
  <2>3. /\ exit \in SUBSET Endpoints /\ unlock \in SUBSET Endpoints
        /\ dirty \in BOOLEAN /\ overtaken \in BOOLEAN
        /\ running \in [Consumers -> BOOLEAN] /\ used \in [Bounded -> Nat]
        /\ packet \in [Producers -> Packet \cup {NoPacket}]
    BY DEF Init, NoPacket
  <2>4. stage \in [Endpoints -> Active .. Finalized]
    BY DEF Init, Active, Finalized
  <2>5. pc \in [Endpoints -> Label]
    BY DEF Init, Label
  <2>6. ret \in [Endpoints -> Code]
    BY DEF Init, Code
  <2>7. iter \in [Consumers -> 0 .. SyncCount]
    BY SyncAssumption DEF Init
  <2>8. seen \in [Endpoints -> Seq(Packet)]
    BY ResetType DEF Init
  <2> QED
    BY <2>2, <2>3, <2>4, <2>5, <2>6, <2>7, <2>8 DEF TypeOK
<1>2. \A e \in Endpoints : pc[e] \in {"idle", "starting", "dead"}
  BY DEF Init
<1>3. MutexInv
  BY <1>2 DEF Init, MutexInv, FreeMutex, Owned, Section, Clearing
<1>4. Offered
  BY <1>2 DEF Offered, Token, Endpoints
<1>5. Holders = {} /\ PacketHolders = {}
  BY <1>2 DEF Holders, PacketHolders, Token, Endpoints
<1>6. Cardinality(Holders) = 0 /\ Cardinality(PacketHolders) = 0
  BY <1>5, FS_EmptySet
<1>7. /\ sem["producer"] = SyncCount /\ sem["consumer"] = 0
      /\ lost["producer"] = 0 /\ lost["consumer"] = 0 /\ Len(queue) = 0
  BY DEF Init, FreshSem, NoneLost, Semaphores
<1>8. TokenBalance /\ PacketBalance
  BY <1>6, <1>7, SyncAssumption DEF TokenBalance, PacketBalance
<1>9. ResetInv
  BY <1>2 DEF ResetInv, Endpoints
<1>10. StageInv
  BY <1>2 DEF Init, StageInv, Clearing, Active, Finalized, Endpoints
<1> QED
  BY <1>1, <1>3, <1>4, <1>8, <1>9, <1>10 DEF IInv, BalanceInv

LEMMA InvNext == IInv /\ [Next]_vars => IInv'
<1> SUFFICES ASSUME IInv, [Next]_vars PROVE IInv'
  OBVIOUS
<1>1. TypeOK /\ StageInv /\ MutexInv /\ Offered /\ BalanceInv
  BY DEF IInv
<1>2. TypeOK'
  BY <1>1, TypeStep
<1>3. StageInv' /\ MutexInv' /\ Offered'
  BY <1>1, StageStep, MutexStep, OfferedStep
<1>4. BalanceInv'
  BY <1>1, <1>2, BalanceStep
<1> QED
  BY <1>2, <1>3, <1>4 DEF IInv

(* The strengthening is inductive: whatever senders, receivers, crashes,   *)
(* abandoned mutexes, closed handles, clears and restarts interleave.      *)
THEOREM SyncInductive == Spec => []IInv
  BY InvInit, InvNext, PTL DEF Spec

(* Every variable keeps its type; the semaphores stay within sync_count.   *)
THEOREM SyncTypeCorrect == Spec => []TypeOK
<1>1. IInv => TypeOK
  BY DEF IInv
<1> QED
  BY <1>1, SyncInductive, PTL

(* One endpoint at a time is between taking and releasing the queue mutex, *)
(* and nobody changes the queue between the callback's reads and writes,   *)
(* until a mutex is made anew under the callback of a worker that is being *)
(* closed; the endpoints that have that new mutex still exclude each other.*)
THEOREM SyncMutualExclusion == Spec => []MutualExclusion
<1>1. IInv => MutualExclusion
  BY SyncAssumption DEF IInv, MutexInv, MutualExclusion
<1> QED
  BY <1>1, SyncInductive, PTL

(* The SyncCount slots and packets are all in the semaphores, in the hands *)
(* of one call, or accounted for as dropped; none is made up.              *)
THEOREM SyncTokenBalance == Spec => []TokenBalance
<1>1. IInv => TokenBalance
  BY DEF IInv, BalanceInv
<1> QED
  BY <1>1, SyncInductive, PTL

(* The packets in the queue are those with a consumer token, plus those    *)
(* whose consumer token was dropped.                                       *)
THEOREM SyncPacketBalance == Spec => []PacketBalance
<1>1. IInv => PacketBalance
  BY DEF IInv, BalanceInv
<1> QED
  BY <1>1, SyncInductive, PTL

(* A receiver that holds a token and the mutex has a packet before it: by  *)
(* PacketBalance the queue is at least as long as the receivers holding    *)
(* tokens are many.                                                        *)
THEOREM SyncNoEmptyRead == Spec => []NoEmptyRead
<1>1. IInv => NoEmptyRead
  <2> SUFFICES ASSUME IInv, NEW c \in Consumers, pc[c] = "callback", ~dirty
               PROVE  seen[c] # << >>
    BY DEF NoEmptyRead
  <2>1. TypeOK /\ MutexInv /\ BalanceInv /\ PacketBalance /\ ~overtaken
    BY DEF IInv, BalanceInv, StageInv
  <2>2. c \in Endpoints /\ seen[c] = queue
    BY <2>1 DEF MutexInv, Endpoints
  <2>3. ~Resetting
    BY <2>1, <2>2, HolderNotResetting DEF Token
  <2>4. Len(queue) = sem["consumer"] + Cardinality(PacketHolders) + lost["consumer"]
    BY <2>1, <2>3 DEF PacketBalance
  <2>5. Cardinality(PacketHolders) # 0
    <3>1. c \in PacketHolders
      BY DEF PacketHolders
    <3> QED
      BY <3>1, FiniteHolders, FS_EmptySet
  <2>6. /\ Cardinality(PacketHolders) \in Nat /\ sem["consumer"] \in Nat
        /\ lost["consumer"] \in Nat
    BY <2>1, FiniteHolders, CountTypes
  <2>7. Len(queue) # 0
    BY <2>4, <2>5, <2>6
  <2> QED
    BY <2>2, <2>7
<1> QED
  BY <1>1, SyncInductive, PTL
----------------------------------------------------------------------------
(* The transport as one FIFO.  No two offers are the same packet: a packet *)
(* that is still on its way to the queue has never been in it, as long as  *)
(* the mutex is not made anew under a running callback.                    *)
In(k, s) == \E i \in DOMAIN s : s[i] = k

Unsent == {"sem", "mutex", "entered", "callback", "restore"}

Fresh ==
  /\ \A p \in Producers : packet[p] <= used["sends"]
  /\ \A p, q \in Producers : p # q => packet[p] # packet[q] \/ packet[p] = NoPacket
  /\ ~overtaken =>
       /\ \A k \in Packet : In(k, queue) \/ In(k, delivered) => k <= used["sends"]
       /\ \A p \in Producers :
            pc[p] \in Unsent => ~In(packet[p], queue) /\ ~In(packet[p], delivered)

(* A sender whose endpoint is stopped only between its calls ends a call   *)
(* with its handles open, and knows where its packet is.                   *)
InCall == {"sem", "release"} \cup Token

Answered ==
  \A p \in Producers :
    /\ pc[p] \in InCall => stage[p] = Active
    /\ ~overtaken /\ pc[p] = "post" => In(packet[p], queue)
    /\ ~overtaken /\ pc[p] = "release" => (ret[p] = "OK" <=> In(packet[p], queue))

LEMMA InAppend ==
  ASSUME NEW S, NEW s \in Seq(S), NEW x \in S, NEW k
  PROVE  In(k, Append(s, x)) <=> In(k, s) \/ k = x
<1>1. /\ DOMAIN s = 1 .. Len(s) /\ Len(s) \in Nat
      /\ DOMAIN Append(s, x) = 1 .. (Len(s) + 1)
      /\ \A i \in 1 .. Len(s) : Append(s, x)[i] = s[i]
      /\ Append(s, x)[Len(s) + 1] = x
  OBVIOUS
<1>2. \A i \in 1 .. (Len(s) + 1) : i \in 1 .. Len(s) \/ i = Len(s) + 1
  BY <1>1
<1>3. Len(s) + 1 \in 1 .. (Len(s) + 1) /\ 1 .. Len(s) \subseteq 1 .. (Len(s) + 1)
  BY <1>1
<1> QED
  BY <1>1, <1>2, <1>3 DEF In

LEMMA InHeadTail ==
  ASSUME NEW S, NEW s \in Seq(S), s # << >>, NEW k
  PROVE  In(k, s) <=> k = Head(s) \/ In(k, Tail(s))
<1>1. /\ DOMAIN s = 1 .. Len(s) /\ Len(s) \in Nat \ {0}
      /\ DOMAIN Tail(s) = 1 .. (Len(s) - 1)
      /\ \A i \in 1 .. (Len(s) - 1) : Tail(s)[i] = s[i + 1]
      /\ Head(s) = s[1]
  OBVIOUS
<1>2. \A i \in 1 .. Len(s) : i = 1 \/ i - 1 \in 1 .. (Len(s) - 1)
  BY <1>1
<1>3. \A i \in 1 .. (Len(s) - 1) : i + 1 \in 1 .. Len(s)
  BY <1>1
<1>4. ASSUME NEW i \in 1 .. Len(s), i # 1, s[i] = k
      PROVE  i - 1 \in DOMAIN Tail(s) /\ Tail(s)[i - 1] = k
  BY <1>1, <1>2, <1>4
<1>5. ASSUME NEW i \in DOMAIN Tail(s), Tail(s)[i] = k
      PROVE  i + 1 \in DOMAIN s /\ s[i + 1] = k
  BY <1>1, <1>3, <1>5
<1>6. 1 \in DOMAIN s
  BY <1>1
<1> QED
  BY <1>1, <1>4, <1>5, <1>6 DEF In

LEMMA InEmpty == \A k : ~In(k, << >>)
  BY DEF In

(* The steps that change the queue, and those that offer a packet. *)
Quiet ==
  /\ UNCHANGED <<queue, delivered, packet>> /\ used'["sends"] = used["sends"]
  /\ \A p \in Producers : pc'[p] \in Unsent => pc[p] \in Unsent

LEMMA QueueStep ==
  ASSUME TypeOK, [Next]_vars
  PROVE  \/ \E p \in Producers : SendPacket(p)
         \/ \E p \in Producers : CallbackPush(p) /\ queue' = Append(seen[p], packet[p])
         \/ \E c \in Consumers : CallbackPop(c) /\ seen[c] # << >>
                                   /\ queue' = Tail(seen[c])
                                   /\ delivered' = Append(delivered, Head(seen[c]))
         \/ \E c \in Consumers : ClearQueue(c)
         \/ \E e \in Endpoints : Activate(e) /\ \A f \in Endpoints : ~HasMemory(f)
         \/ Quiet
<1> DEFINE Goal ==
         \/ \E p \in Producers : SendPacket(p)
         \/ \E p \in Producers : CallbackPush(p) /\ queue' = Append(seen[p], packet[p])
         \/ \E c \in Consumers : CallbackPop(c) /\ seen[c] # << >>
                                   /\ queue' = Tail(seen[c])
                                   /\ delivered' = Append(delivered, Head(seen[c]))
         \/ \E c \in Consumers : ClearQueue(c)
         \/ \E e \in Endpoints : Activate(e) /\ \A f \in Endpoints : ~HasMemory(f)
         \/ Quiet
<1>0. /\ pc \in [Endpoints -> Label] /\ used \in [Bounded -> Nat]
      /\ Producers \subseteq Endpoints /\ Consumers \subseteq Endpoints
  BY DEF TypeOK, Endpoints
<1>1. ASSUME NEW e \in Endpoints, NEW l, pc' = [pc EXCEPT ![e] = l],
             l \in Unsent /\ e \in Producers => pc[e] \in Unsent,
             UNCHANGED <<queue, delivered, packet>>, used'["sends"] = used["sends"]
      PROVE  Quiet
  BY <1>0, <1>1 DEF Quiet
<1>2. ASSUME UNCHANGED <<queue, delivered, packet, pc>>, used'["sends"] = used["sends"]
      PROVE  Quiet
  BY <1>2 DEF Quiet
<1>3. ASSUME NEW k \in Bounded, k # "sends", NEW max, Spend(k, max)
      PROVE  used'["sends"] = used["sends"]
  BY <1>0, <1>3 DEF Spend, Bounded
<1> HIDE DEF Quiet
<1>4. ASSUME NEW e \in Endpoints, Calls(e) PROVE Goal
  <2>1. ASSUME TakeToken(e) PROVE Goal
    <3>1. pc[e] = "sem"
          /\ UNCHANGED <<queue, delivered, packet, used>>
          /\ \E l : pc' = [pc EXCEPT ![e] = l]
      BY <2>1 DEF TakeToken, Return, Goto, events
    <3> QED
      BY <3>1, <1>1 DEF Unsent
  <2>2. ASSUME LeaveSemWait(e) PROVE Goal
    <3>1. pc[e] = "sem"
          /\ UNCHANGED <<queue, delivered, packet, used>>
          /\ \E l : pc' = [pc EXCEPT ![e] = l]
      BY <2>2 DEF LeaveSemWait, Interrupted, WaitFails, Return, Goto, events, shared, ghost
    <3> QED
      BY <3>1, <1>1 DEF Unsent
  <2>3. ASSUME AcquireMutex(e) PROVE Goal
    <3>1. pc[e] = "mutex"
          /\ UNCHANGED <<queue, delivered, packet, used>>
          /\ \E l : pc' = [pc EXCEPT ![e] = l]
      BY <2>3 DEF AcquireMutex, AcquireWhen, Goto, events, ghost
    <3> QED
      BY <3>1, <1>1 DEF Unsent
  <2>4. ASSUME AcquireAbandoned(e) PROVE Goal
    <3>1. pc[e] = "mutex"
          /\ UNCHANGED <<queue, delivered, packet, used>>
          /\ \E l : pc' = [pc EXCEPT ![e] = l]
      BY <2>4 DEF AcquireAbandoned, Return, Goto, events
    <3> QED
      BY <3>1, <1>1 DEF Unsent
  <2>5. ASSUME LeaveMutexWait(e) PROVE Goal
    <3>1. pc[e] = "mutex"
          /\ UNCHANGED <<queue, delivered, packet, used>>
          /\ \E l : pc' = [pc EXCEPT ![e] = l]
      BY <2>5 DEF LeaveMutexWait, Interrupted, WaitFails, Return, Goto, shared
    <3> QED
      BY <3>1, <1>1 DEF Unsent
  <2>6. ASSUME CallbackPush(e) PROVE Goal
    <3>1. /\ pc[e] = "callback" /\ e \in Producers
          /\ UNCHANGED <<delivered, packet, used>>
          /\ \/ queue' = Append(seen[e], packet[e])
             \/ UNCHANGED queue /\ pc' = [pc EXCEPT ![e] = "restore"]
      BY <2>6 DEF CallbackPush, PushOrElse, Goto, ghost
    <3>2. CASE queue' = Append(seen[e], packet[e])
      BY <3>1, <3>2, <2>6, <1>0
    <3>3. CASE UNCHANGED queue /\ pc' = [pc EXCEPT ![e] = "restore"]
      BY <3>1, <3>3, <1>1 DEF Unsent
    <3> QED
      BY <3>1, <3>2, <3>3
  <2>7. ASSUME CallbackPop(e) PROVE Goal
    <3>1. /\ pc[e] = "callback" /\ e \in Consumers
          /\ UNCHANGED <<packet, used>>
          /\ \/ /\ seen[e] # << >> /\ queue' = Tail(seen[e])
                /\ delivered' = Append(delivered, Head(seen[e]))
             \/ UNCHANGED <<queue, delivered>> /\ pc' = [pc EXCEPT ![e] = "restore"]
      BY <2>7 DEF CallbackPop, Goto
    <3>2. CASE seen[e] # << >> /\ queue' = Tail(seen[e])
                 /\ delivered' = Append(delivered, Head(seen[e]))
      BY <3>1, <3>2, <2>7, <1>0
    <3>3. CASE UNCHANGED <<queue, delivered>> /\ pc' = [pc EXCEPT ![e] = "restore"]
      BY <3>1, <3>3, <1>1 DEF Unsent
    <3> QED
      BY <3>1, <3>2, <3>3
  <2>8. ASSUME Post(e) PROVE Goal
    <3>1. UNCHANGED <<queue, delivered, packet, used>>
          /\ pc' = [pc EXCEPT ![e] = "release"]
      BY <2>8 DEF Post, PostThen, Goto, events
    <3> QED
      BY <3>1, <1>1 DEF Unsent
  <2>9. ASSUME Restore(e) PROVE Goal
    <3>1. UNCHANGED <<queue, delivered, packet, used>>
          /\ pc' = [pc EXCEPT ![e] = "release"]
      BY <2>9 DEF Restore, RestoreAnswering, Goto, events
    <3> QED
      BY <3>1, <1>1 DEF Unsent
  <2>10. ASSUME ReleaseMutex(e) PROVE Goal
    <3>1. UNCHANGED <<queue, delivered, packet, used>>
          /\ pc' = [pc EXCEPT ![e] = "idle"]
      BY <2>10 DEF ReleaseMutex, ReleaseBefore, Goto, events, ghost
    <3> QED
      BY <3>1, <1>1 DEF Unsent
  <2>11. ASSUME ReadQueue(e) PROVE Goal
    <3>1. pc[e] = "entered"
          /\ UNCHANGED <<queue, delivered, packet, used>>
          /\ \E l : pc' = [pc EXCEPT ![e] = l]
      BY <2>11 DEF ReadQueue, Goto, shared, events, ghost
    <3> QED
      BY <3>1, <1>1 DEF Unsent
  <2> QED
    BY <1>4, <2>1, <2>2, <2>3, <2>4, <2>5, <2>6, <2>7, <2>8, <2>9, <2>10, <2>11 DEF Calls
<1>5. ASSUME NEW e \in Endpoints, Stops(e) PROVE Goal
  <2>1. UNCHANGED <<queue, delivered, packet, pc, used>>
    BY <1>5 DEF Stops, SignalExit, CloseHandles, Finalize, shared, local, ghost
  <2> QED
    BY <2>1, <1>2
<1>6. ASSUME NEW e \in Endpoints, Environment(e) PROVE Goal
  <2>1. ASSUME SendSyncUnlock(e) PROVE Goal
    <3>1. UNCHANGED <<queue, delivered, packet, pc>> /\ Spend("unlocks", MaxUnlocks)
      BY <2>1 DEF SendSyncUnlock, shared, local, ghost
    <3> QED
      BY <3>1, <1>2, <1>3 DEF Bounded
  <2>2. ASSUME StopWorker(e) PROVE Goal
    <3>1. UNCHANGED <<queue, delivered, packet, pc>> /\ Spend("stops", MaxStops)
      BY <2>2 DEF StopWorker, shared, local, ghost
    <3> QED
      BY <3>1, <1>2, <1>3 DEF Bounded
  <2>3. ASSUME Crash(e) PROVE Goal
    <3>1. /\ UNCHANGED <<queue, delivered, packet>> /\ Spend("crashes", MaxCrashes)
          /\ pc' = [pc EXCEPT ![e] = "dead"]
      BY <2>3 DEF Crash, Goto
    <3> QED
      BY <3>1, <1>1, <1>3 DEF Bounded, Unsent
  <2>4. ASSUME Activate(e) PROVE Goal
    <3>1. CASE \A f \in Endpoints : ~HasMemory(f)
      BY <2>4, <3>1
    <3>2. CASE \E f \in Endpoints : HasMemory(f)
      <4>1. /\ UNCHANGED <<queue, delivered, packet>> /\ Spend("starts", MaxStarts)
            /\ pc' = [pc EXCEPT ![e] = IF e \in Producers THEN "idle" ELSE "starting"]
        BY <2>4, <3>2 DEF Activate, Goto
      <4> QED
        BY <4>1, <1>1, <1>3 DEF Bounded, Unsent
    <3> QED
      BY <3>1, <3>2
  <2> QED
    BY <1>6, <2>1, <2>2, <2>3, <2>4 DEF Environment
<1>7. ASSUME NEW c \in Consumers,
             Worker(c) \/ CallClear(c) \/ ClearFails(c) \/ FillProducer(c)
               \/ DrainConsumer(c) \/ EndClear(c)
      PROVE  Goal
  <2>1. c \in Endpoints /\ c \notin Producers
    BY SyncAssumption DEF Endpoints
  <2>2. UNCHANGED <<queue, delivered, packet>> /\ used'["sends"] = used["sends"]
    <3>1. CASE Worker(c)
      BY <3>1 DEF Worker, ThreadStart, CallConsumer, ThreadEnd, shared, ghost
    <3>2. CASE CallClear(c)
      BY <3>2, <1>3 DEF CallClear, shared, ghost, Bounded
    <3>3. CASE ClearFails(c) \/ FillProducer(c) \/ DrainConsumer(c) \/ EndClear(c)
      BY <3>3 DEF ClearFails, FillProducer, DrainConsumer, EndClear, ghost
    <3> QED
      BY <1>7, <3>1, <3>2, <3>3
  <2>3. pc' = pc \/ \E l : pc' = [pc EXCEPT ![c] = l]
    BY <1>7 DEF Worker, ThreadStart, CallConsumer, ThreadEnd, CallClear, ClearFails,
                FillProducer, DrainConsumer, EndClear, Return, Goto
  <2> QED
    BY <2>1, <2>2, <2>3, <1>1, <1>2
<1>8. CASE UNCHANGED vars
  BY <1>8, <1>2 DEF vars, shared, local, ghost
<1> QED
  BY <1>4, <1>5, <1>6, <1>7, <1>8 DEF Next, Clears

(* A mutex made anew under a running callback is remembered until the last *)
(* process has closed the memory.                                          *)
LEMMA OvertakenStep ==
  ASSUME overtaken, [Next]_vars
  PROVE  \/ overtaken'
         \/ \E e \in Endpoints : Activate(e) /\ \A f \in Endpoints : ~HasMemory(f)
<1>1. ASSUME NEW e \in Endpoints, Activate(e), \E f \in Endpoints : HasMemory(f)
      PROVE  overtaken'
  BY <1>1 DEF Activate
<1>2. ASSUME NEW e \in Endpoints, Calls(e) PROVE overtaken'
  BY <1>2 DEF Calls, TakeToken, LeaveSemWait, AcquireMutex, AcquireWhen, ReadQueue,
              AcquireAbandoned, LeaveMutexWait, CallbackPush, PushOrElse, CallbackPop, Post,
              PostThen, Restore, RestoreAnswering, ReleaseMutex, ReleaseBefore, ghost
<1>3. ASSUME NEW e \in Endpoints, Stops(e) \/ SendSyncUnlock(e) \/ StopWorker(e) \/ Crash(e)
      PROVE  overtaken'
  BY <1>3 DEF Stops, SignalExit, CloseHandles, Finalize, SendSyncUnlock, StopWorker, Crash, ghost
<1>4. ASSUME NEW p \in Producers, SendPacket(p) PROVE overtaken'
  BY <1>4 DEF SendPacket, ghost
<1>5. ASSUME NEW c \in Consumers, Worker(c) \/ CallClear(c) \/ Clears(c) PROVE overtaken'
  BY <1>5 DEF Worker, ThreadStart, CallConsumer, ThreadEnd, CallClear, Clears, ClearQueue,
              ClearFails, FillProducer, DrainConsumer, EndClear, ghost
<1>6. CASE UNCHANGED vars
  BY <1>6 DEF vars, ghost
<1> QED
  BY <1>1, <1>2, <1>3, <1>4, <1>5, <1>6 DEF Next, Environment

LEMMA FreshInit == Init => Fresh /\ Answered
<1> SUFFICES ASSUME Init PROVE Fresh /\ Answered
  OBVIOUS
<1>1. /\ queue = << >> /\ delivered = << >> /\ used["sends"] = 0
      /\ \A p \in Producers : packet[p] = NoPacket /\ pc[p] \in {"idle", "dead"}
  BY DEF Init, Bounded, Endpoints
<1>2. Fresh
  BY <1>1, InEmpty DEF Fresh, NoPacket, Unsent
<1>3. Answered
  BY <1>1 DEF Answered, InCall, Token
<1> QED
  BY <1>2, <1>3

LEMMA FreshStep ==
  ASSUME TypeOK, MutexInv, Offered, Fresh, [Next]_vars
  PROVE  Fresh'
<1>0. /\ queue \in Seq(Packet) /\ delivered \in Seq(Packet)
      /\ packet \in [Producers -> Packet \cup {NoPacket}]
      /\ pc \in [Endpoints -> Label] /\ used \in [Bounded -> Nat] /\ "sends" \in Bounded
      /\ Producers \subseteq Endpoints /\ Consumers \subseteq Endpoints
      /\ used["sends"] \in Nat
  BY DEF TypeOK, Endpoints, Bounded
<1>1. ASSUME NEW p \in Producers, SendPacket(p) PROVE Fresh'
  <2> DEFINE n == used["sends"] + 1
  <2>1. /\ packet' = [packet EXCEPT ![p] = n] /\ pc' = [pc EXCEPT ![p] = "sem"]
        /\ used'["sends"] = n /\ UNCHANGED <<queue, delivered, overtaken>> /\ n <= MaxSends
    BY <1>1, <1>0, SyncAssumption DEF SendPacket, Spend, Goto, shared, ghost
  <2>2. n \in Packet /\ n # NoPacket /\ n > used["sends"]
    BY <2>1, <1>0, SyncAssumption DEF Packet, NoPacket
  <2>3. ~overtaken => ~In(n, queue) /\ ~In(n, delivered)
    BY <2>2, <1>0 DEF Fresh, Packet
  <2>4. \A q \in Producers : packet[q] < n /\ packet[q] \in Nat
    BY <1>0, SyncAssumption DEF Fresh, Packet, NoPacket
  <2>5. /\ packet'[p] = n /\ \A q \in Producers \ {p} : packet'[q] = packet[q]
        /\ \A q \in Producers \ {p} : pc'[q] = pc[q]
    BY <2>1, <1>0
  <2> HIDE DEF n
  <2>6. \A q \in Producers : packet'[q] <= used'["sends"]
    BY <2>1, <2>2, <2>4, <2>5 DEF Packet
  <2>7. ~overtaken => \A k \in Packet : In(k, queue') \/ In(k, delivered') => k <= used'["sends"]
    BY <2>1, <2>2, <1>0, SyncAssumption DEF Fresh, Packet
  <2>8. \A q, r \in Producers : q # r => packet'[q] # packet'[r] \/ packet'[q] = NoPacket
    BY <2>2, <2>4, <2>5 DEF Fresh, Packet
  <2>9. ~overtaken => \A q \in Producers :
          pc'[q] \in Unsent => ~In(packet'[q], queue') /\ ~In(packet'[q], delivered')
    BY <2>1, <2>3, <2>5 DEF Fresh
  <2> QED
    BY <2>1, <2>6, <2>7, <2>8, <2>9 DEF Fresh
<1>a. ASSUME UNCHANGED <<packet, used, overtaken>>, overtaken PROVE Fresh'
  BY <1>a DEF Fresh
<1>2. ASSUME NEW p \in Producers, CallbackPush(p), queue' = Append(seen[p], packet[p])
      PROVE  Fresh'
  <2>a. UNCHANGED <<packet, used, overtaken>> /\ (~overtaken => seen[p] = queue)
    BY <1>2, <1>0 DEF CallbackPush, PushOrElse, ghost, MutexInv
  <2>b. SUFFICES ASSUME ~overtaken, queue' = Append(queue, packet[p]) PROVE Fresh'
    BY <1>2, <1>a, <2>a
  <2>1. /\ pc[p] = "callback" /\ UNCHANGED <<packet, delivered, used>>
        /\ \E l : pc' = [pc EXCEPT ![p] = l]
    BY <1>2 DEF CallbackPush, PushOrElse, Goto, ghost
  <2>2. packet[p] \in Packet
    BY <2>1 DEF Offered, Token
  <2>3. pc'[p] \notin Unsent
    <3>1. Append(queue, packet[p]) # queue
      BY <1>0, <2>2
    <3>2. pc' = [pc EXCEPT ![p] = "post"]
      BY <1>2, <2>b, <3>1 DEF CallbackPush, PushOrElse, Goto
    <3> QED
      BY <3>2, <1>0 DEF Unsent
  <2>4. \A k : In(k, queue') <=> In(k, queue) \/ k = packet[p]
    BY <2>b, <1>0, <2>2, InAppend
  <2>5. \A q \in Producers : pc'[q] \in Unsent => pc[q] \in Unsent /\ q # p
    BY <2>1, <2>3, <1>0
  <2>6. \A q \in Producers \ {p} : packet[q] # packet[p]
    BY <2>2, SyncAssumption DEF Fresh, Packet, NoPacket
  <2> QED
    BY <2>1, <2>b, <2>4, <2>5, <2>6 DEF Fresh
<1>3. ASSUME NEW c \in Consumers, CallbackPop(c), seen[c] # << >>, queue' = Tail(seen[c]),
             delivered' = Append(delivered, Head(seen[c]))
      PROVE  Fresh'
  <2>a. UNCHANGED <<packet, used, overtaken>> /\ (~overtaken => seen[c] = queue)
    BY <1>3, <1>0 DEF CallbackPop, MutexInv
  <2>b. SUFFICES ASSUME ~overtaken, queue # << >>, queue' = Tail(queue),
                        delivered' = Append(delivered, Head(queue))
                 PROVE  Fresh'
    BY <1>3, <1>a, <2>a
  <2>1. UNCHANGED <<packet, used>> /\ \E l : pc' = [pc EXCEPT ![c] = l]
    BY <1>3 DEF CallbackPop, Goto
  <2>2. \A q \in Producers : pc'[q] = pc[q]
    BY <2>1, <1>0, SyncAssumption
  <2>3. Head(queue) \in Packet
    BY <2>b, <1>0
  <2>4. \A k : In(k, queue') \/ In(k, delivered') <=> In(k, queue) \/ In(k, delivered)
    BY <2>b, <1>0, <2>3, InHeadTail, InAppend
  <2> QED
    BY <2>1, <2>2, <2>b, <2>4 DEF Fresh
<1>4. ASSUME NEW c \in Consumers, ClearQueue(c) PROVE Fresh'
  <2>1. /\ queue' = << >> /\ UNCHANGED <<packet, used, delivered, overtaken>>
        /\ pc' = [pc EXCEPT ![c] = "fill"]
    BY <1>4 DEF ClearQueue, Goto
  <2>2. \A q \in Producers : pc'[q] = pc[q]
    BY <2>1, <1>0, SyncAssumption
  <2> QED
    BY <2>1, <2>2, InEmpty DEF Fresh
<1>5. ASSUME NEW e \in Endpoints, Activate(e), \A f \in Endpoints : ~HasMemory(f)
      PROVE  Fresh'
  <2>1. /\ queue' = << >> /\ delivered' = << >> /\ UNCHANGED packet
        /\ Spend("starts", MaxStarts)
        /\ pc' = [pc EXCEPT ![e] = IF e \in Producers THEN "idle" ELSE "starting"]
    BY <1>5 DEF Activate, Goto
  <2>2. used'["sends"] = used["sends"]
    BY <2>1, <1>0 DEF Spend, Bounded
  <2> QED
    BY <2>1, <2>2, <1>0, InEmpty DEF Fresh
<1>6. CASE Quiet /\ (overtaken => overtaken')
  BY <1>6 DEF Quiet, Fresh
<1> QED
  BY <1>1, <1>2, <1>3, <1>4, <1>5, <1>6, QueueStep, OvertakenStep

(* Every step of the transport is a step of the channel, or none. *)
MappedChannel   == IF overtaken THEN << >> ELSE queue
MappedDelivered == IF overtaken THEN << >> ELSE delivered

LEMMA ChannelStep ==
  ASSUME TypeOK, MutexInv, Offered, Fresh, [Next]_vars
  PROVE  [Channel!Next]_<<MappedChannel, MappedDelivered>>
<1>0. /\ queue \in Seq(Packet) /\ delivered \in Seq(Packet)
      /\ overtaken \in BOOLEAN
      /\ Producers \subseteq Endpoints /\ Consumers \subseteq Endpoints
  BY DEF TypeOK, Endpoints
<1> DEFINE Goal == [Channel!Next]_<<MappedChannel, MappedDelivered>>
<1>1. CASE overtaken
  <2>1. ASSUME NEW e \in Endpoints, Activate(e), \A f \in Endpoints : ~HasMemory(f)
        PROVE  Goal
    BY <1>1, <2>1 DEF Activate, MappedChannel, MappedDelivered
  <2>2. CASE overtaken'
    BY <1>1, <2>2 DEF MappedChannel, MappedDelivered
  <2> QED
    BY <1>1, <2>1, <2>2, OvertakenStep
<1>2. CASE ~overtaken /\ overtaken'
  BY <1>2 DEF Channel!Next, Channel!Reset, MappedChannel, MappedDelivered
<1>3. CASE ~overtaken /\ ~overtaken'
  <2>a. /\ MappedChannel = queue /\ MappedChannel' = queue'
        /\ MappedDelivered = delivered /\ MappedDelivered' = delivered'
    BY <1>3 DEF MappedChannel, MappedDelivered
  <2>1. ASSUME NEW p \in Producers, SendPacket(p) PROVE UNCHANGED <<queue, delivered>>
    BY <2>1 DEF SendPacket, shared, ghost
  <2>2. ASSUME NEW p \in Producers, CallbackPush(p), queue' = Append(seen[p], packet[p])
        PROVE  packet[p] \in Packet /\ Channel!Send(packet[p])
    <3>1. pc[p] = "callback" /\ UNCHANGED delivered
      BY <2>2 DEF CallbackPush, PushOrElse, ghost
    <3>2. packet[p] \in Packet /\ ~In(packet[p], queue) /\ ~In(packet[p], delivered)
      BY <1>3, <3>1 DEF Offered, Token, Fresh, Unsent
    <3>3. seen[p] = queue
      BY <1>0, <1>3, <3>1 DEF MutexInv
    <3> QED
      BY <1>3, <2>2, <3>1, <3>2, <3>3 DEF Channel!Send, In
  <2>3. ASSUME NEW c \in Consumers, CallbackPop(c), seen[c] # << >>, queue' = Tail(seen[c]),
               delivered' = Append(delivered, Head(seen[c]))
        PROVE  Channel!Receive
    <3>1. seen[c] = queue
      BY <1>0, <1>3, <2>3 DEF MutexInv, CallbackPop
    <3> QED
      BY <1>3, <2>3, <3>1 DEF Channel!Receive
  <2>4. ASSUME NEW c \in Consumers, ClearQueue(c) PROVE Channel!Clear
    BY <1>3, <2>4 DEF ClearQueue, Channel!Clear
  <2>5. ASSUME NEW e \in Endpoints, Activate(e), \A f \in Endpoints : ~HasMemory(f)
        PROVE  Channel!Reset
    BY <1>3, <2>5 DEF Activate, Channel!Reset
  <2>6. CASE Quiet
    BY <2>a, <2>6 DEF Quiet
  <2> QED
    BY <2>a, <2>1, <2>2, <2>3, <2>4, <2>5, <2>6, QueueStep DEF Channel!Next
<1> QED
  BY <1>1, <1>2, <1>3

LEMMA FreshInductive == Spec => []Fresh
<1>1. Init => Fresh
  BY FreshInit
<1>2. IInv /\ Fresh /\ [Next]_vars => Fresh'
  BY FreshStep DEF IInv
<1> QED
  BY <1>1, <1>2, SyncInductive, PTL DEF Spec

(* The transport implements one FIFO of packets: what a sender's callback  *)
(* appended is taken once and in order, whichever senders and receivers    *)
(* meet in the queue, crash, time out, stop, come back or leave the mutex  *)
(* abandoned, until a SyncClear empties it, a mutex is made anew under a   *)
(* callback that still runs, or the last endpoint has closed the memory.   *)
THEOREM SyncImplementsChannel == Spec => ChannelSpec
<1>1. Init => Channel!Init
  BY DEF Init, Channel!Init
<1>2. IInv /\ Fresh /\ [Next]_vars
        => [Channel!Next]_<<IF overtaken THEN << >> ELSE queue,
                            IF overtaken THEN << >> ELSE delivered>>
  BY ChannelStep DEF IInv, MappedChannel, MappedDelivered
<1> QED
  BY <1>1, <1>2, SyncInductive, FreshInductive, PTL DEF Spec, ChannelSpec, Channel!Spec

(* Nobody changes the queue between a sender's push and the release of its *)
(* mutex.                                                                  *)
LEMMA QueueStays ==
  ASSUME TypeOK, MutexInv, [Next]_vars, ~overtaken,
         NEW p \in Producers, pc[p] \in {"post", "release"}, stage[p] = Active
  PROVE  UNCHANGED queue
<1>1. p \in Endpoints /\ mutex.owner = p /\ ~mutex.abandoned /\ p # NoOwner
  BY SyncAssumption DEF MutexInv, Section, Endpoints
<1>2. ASSUME NEW q \in Producers, SendPacket(q) PROVE UNCHANGED queue
  BY <1>2 DEF SendPacket, shared
<1>3. ASSUME NEW q \in Endpoints, pc[q] = "callback" PROVE FALSE
  BY <1>1, <1>3 DEF MutexInv, Section
<1>4. ASSUME NEW c \in Consumers, ClearQueue(c) PROVE FALSE
  <2>1. pc[c] = "clearwait" /\ MutexFree(c)
    BY <1>4 DEF ClearQueue
  <2> QED
    BY <1>1, <2>1 DEF MutexFree
<1>5. HasMemory(p)
  BY DEF HasMemory, Active, Finalized
<1>6. CASE Quiet
  BY <1>6 DEF Quiet
<1> QED
  BY <1>1, <1>2, <1>3, <1>4, <1>5, <1>6, QueueStep
     DEF CallbackPush, PushOrElse, CallbackPop, Endpoints

(* What a step does to one sender: it is a step of the sender's call, its  *)
(* crash, or leaves it where it is, with its handles open if it is in a    *)
(* call.                                                                   *)
Apart(p) ==
  /\ pc'[p] = pc[p] /\ ret'[p] = ret[p] /\ packet'[p] = packet[p]
  /\ pc[p] \in InCall => stage'[p] = stage[p]

LEMMA SenderStep ==
  ASSUME TypeOK, Answered, [Next]_vars, NEW p \in Producers
  PROVE  SendPacket(p) \/ Calls(p) \/ Crash(p) \/ Activate(p) \/ Apart(p)
<1>0. /\ pc \in [Endpoints -> Label] /\ stage \in [Endpoints -> Active .. Finalized]
      /\ ret \in [Endpoints -> Code] /\ packet \in [Producers -> Packet \cup {NoPacket}]
      /\ p \in Endpoints
      /\ pc[p] \in InCall => stage[p] = Active
  BY DEF TypeOK, Endpoints, Answered
<1>1. ASSUME NEW e \in Endpoints, e # p, NEW l, NEW m, NEW n, NEW k,
             pc' = pc \/ pc' = [pc EXCEPT ![e] = l],
             ret' = ret \/ ret' = [ret EXCEPT ![e] = m],
             packet' = packet \/ packet' = [packet EXCEPT ![e] = k],
             stage' = stage \/ stage' = [stage EXCEPT ![e] = n]
      PROVE  Apart(p)
  BY <1>0, <1>1 DEF Apart
<1>2. ASSUME NEW q \in Producers, SendPacket(q), q # p PROVE Apart(p)
  <2>1. /\ \E l : pc' = [pc EXCEPT ![q] = l]
        /\ \E k : packet' = [packet EXCEPT ![q] = k]
        /\ \E m : ret' = [ret EXCEPT ![q] = m]
        /\ UNCHANGED stage /\ q \in Endpoints
    BY <1>2 DEF SendPacket, Goto, events, Endpoints
  <2> QED
    BY <2>1, <1>1, <1>2
<1>3. ASSUME NEW e \in Endpoints, Calls(e), e # p PROVE Apart(p)
  <2>1. UNCHANGED <<packet, stage>>
    BY <1>3 DEF Calls, TakeToken, LeaveSemWait, AcquireMutex, AcquireWhen, AcquireAbandoned,
                ReadQueue, LeaveMutexWait, CallbackPush, PushOrElse, CallbackPop, Post, PostThen, Restore,
                RestoreAnswering, ReleaseMutex, ReleaseBefore, events
  <2>2. \E l : pc' = [pc EXCEPT ![e] = l]
    BY <1>3 DEF Calls, TakeToken, LeaveSemWait, AcquireMutex, AcquireWhen, AcquireAbandoned,
                ReadQueue, LeaveMutexWait, CallbackPush, PushOrElse, CallbackPop, Post, PostThen, Restore,
                RestoreAnswering, ReleaseMutex, ReleaseBefore, Interrupted, WaitFails, Return, Goto
  <2>3. ret' = ret \/ \E m : ret' = [ret EXCEPT ![e] = m]
    BY <1>3 DEF Calls, TakeToken, LeaveSemWait, AcquireMutex, AcquireWhen, AcquireAbandoned,
                ReadQueue, LeaveMutexWait, CallbackPush, PushOrElse, CallbackPop, Post, PostThen, Restore,
                RestoreAnswering, ReleaseMutex, ReleaseBefore, Interrupted, WaitFails, Return
  <2> QED
    BY <2>1, <2>2, <2>3, <1>1, <1>3
<1>4. ASSUME NEW e \in Endpoints, Stops(e) PROVE Apart(p)
  <2>1. UNCHANGED <<pc, ret, packet>> /\ stage[e] # Active
        /\ \E n : stage' = [stage EXCEPT ![e] = n]
    BY <1>4 DEF Stops, SignalExit, CloseHandles, Finalize, local,
                Active, Stopping, Signalled, MutexClosed, Closed
  <2> QED
    BY <2>1, <1>0 DEF Apart
<1>5. ASSUME NEW e \in Endpoints, SendSyncUnlock(e) \/ StopWorker(e) PROVE Apart(p)
  <2>1. CASE SendSyncUnlock(e)
    BY <2>1 DEF SendSyncUnlock, Apart, local
  <2>2. CASE StopWorker(e)
    <3>1. UNCHANGED <<pc, ret, packet>> /\ stage' = [stage EXCEPT ![e] = Stopping]
          /\ (e \in Producers => pc[e] = "idle")
      BY <2>2 DEF StopWorker, local
    <3> QED
      BY <3>1, <1>0 DEF Apart, InCall, Token
  <2> QED
    BY <1>5, <2>1, <2>2
<1>6. ASSUME NEW e \in Endpoints, Crash(e) \/ Activate(e), e # p PROVE Apart(p)
  <2>1. UNCHANGED packet /\ \E l : pc' = [pc EXCEPT ![e] = l]
    BY <1>6 DEF Crash, Activate, Goto
  <2>2. ret' = ret \/ \E m : ret' = [ret EXCEPT ![e] = m]
    BY <1>6 DEF Crash, Activate
  <2>3. stage' = stage \/ \E n : stage' = [stage EXCEPT ![e] = n]
    BY <1>6 DEF Crash, Activate, events
  <2> QED
    BY <2>1, <2>2, <2>3, <1>1, <1>6
<1>7. ASSUME NEW c \in Consumers, Worker(c) \/ CallClear(c) \/ Clears(c) PROVE Apart(p)
  <2>1. c \in Endpoints /\ c # p
    BY SyncAssumption DEF Endpoints
  <2>2. UNCHANGED <<packet, stage>>
    BY <1>7 DEF Worker, ThreadStart, CallConsumer, ThreadEnd, CallClear, Clears, ClearQueue,
                ClearFails, FillProducer, DrainConsumer, EndClear, events, local
  <2>3. pc' = pc \/ \E l : pc' = [pc EXCEPT ![c] = l]
    BY <1>7 DEF Worker, ThreadStart, CallConsumer, ThreadEnd, CallClear, Clears, ClearQueue,
                ClearFails, FillProducer, DrainConsumer, EndClear, Return, Goto
  <2>4. ret' = ret \/ \E m : ret' = [ret EXCEPT ![c] = m]
    BY <1>7 DEF Worker, ThreadStart, CallConsumer, ThreadEnd, CallClear, Clears, ClearQueue,
                ClearFails, FillProducer, DrainConsumer, EndClear, Return, local
  <2> QED
    BY <2>1, <2>2, <2>3, <2>4, <1>1
<1>8. CASE UNCHANGED vars
  BY <1>8 DEF vars, events, local, Apart
<1> QED
  BY <1>2, <1>3, <1>4, <1>5, <1>6, <1>7, <1>8 DEF Next, Environment

(* A sender's own steps: what the end of its call says of its packet. *)
LEMMA CallStep ==
  ASSUME TypeOK, MutexInv, Offered, Fresh, Answered, [Next]_vars, ~overtaken,
         NEW p \in Producers, Calls(p)
  PROVE  /\ pc'[p] = "post" => In(packet'[p], queue')
         /\ pc'[p] = "release" => (ret'[p] = "OK" <=> In(packet'[p], queue'))
         /\ pc'[p] = "idle" => (ret'[p] = "OK" <=> In(packet[p], queue))
         /\ stage'[p] = stage[p] /\ pc[p] \in InCall
<1>0. /\ pc \in [Endpoints -> Label] /\ stage \in [Endpoints -> Active .. Finalized]
      /\ ret \in [Endpoints -> Code] /\ queue \in Seq(Packet)
      /\ p \in Endpoints /\ p \notin Consumers
      /\ pc[p] \in InCall => stage[p] = Active
      /\ pc[p] \in Unsent => ~In(packet[p], queue)
      /\ pc[p] = "post" => In(packet[p], queue)
      /\ pc[p] = "release" => (ret[p] = "OK" <=> In(packet[p], queue))
  BY SyncAssumption DEF TypeOK, Endpoints, Answered, Fresh
<1> DEFINE Goal ==
         /\ pc'[p] = "post" => In(packet'[p], queue')
         /\ pc'[p] = "release" => (ret'[p] = "OK" <=> In(packet'[p], queue'))
         /\ pc'[p] = "idle" => (ret'[p] = "OK" <=> In(packet[p], queue))
         /\ stage'[p] = stage[p] /\ pc[p] \in InCall
<1>1. CASE TakeToken(p)
  <2>1. /\ pc[p] = "sem" /\ stage[p] = Active /\ UNCHANGED stage
        /\ pc' = [pc EXCEPT ![p] = "mutex"]
    BY <1>1, <1>0 DEF TakeToken, Goto, InCall, Active, EventsClosed, events
  <2> QED
    BY <2>1, <1>0 DEF InCall
<1>2. CASE LeaveSemWait(p) \/ AcquireAbandoned(p) \/ LeaveMutexWait(p)
  <2>1. /\ pc[p] \in {"sem", "mutex"} /\ UNCHANGED stage
    BY <1>2 DEF LeaveSemWait, AcquireAbandoned, LeaveMutexWait, events
  <2>2. \E code \in Code \ {"OK"} : Return(p, code)
    BY <1>2 DEF LeaveSemWait, AcquireAbandoned, LeaveMutexWait, Interrupted, WaitFails, Code
  <2>3. pc'[p] = "idle" /\ ret'[p] # "OK"
    BY <2>2, <1>0 DEF Return, Goto
  <2> QED
    BY <2>1, <2>3, <1>0 DEF InCall, Token, Unsent
<1>3. CASE AcquireMutex(p)
  <2>1. /\ pc[p] = "mutex" /\ UNCHANGED stage /\ pc' = [pc EXCEPT ![p] = "entered"]
    BY <1>3, <1>0 DEF AcquireMutex, AcquireWhen, Goto, events
  <2> QED
    BY <2>1, <1>0 DEF InCall, Token
<1>4. CASE CallbackPush(p)
  <2>1. /\ pc[p] = "callback" /\ UNCHANGED <<stage, packet>>
        /\ \/ queue' = Append(seen[p], packet[p]) /\ pc' = [pc EXCEPT ![p] = "post"]
           \/ pc' = [pc EXCEPT ![p] = "restore"]
    BY <1>4 DEF CallbackPush, PushOrElse, Goto, events
  <2>2. seen[p] = queue /\ packet[p] \in Packet
    BY <2>1, <1>0 DEF MutexInv, Offered, Token
  <2>3. In(packet[p], Append(queue, packet[p]))
    BY <2>2, <1>0, InAppend
  <2> QED
    BY <2>1, <2>2, <2>3, <1>0 DEF InCall, Token
<1>5. CASE CallbackPop(p)
  BY <1>5, <1>0 DEF CallbackPop
<1>6. CASE Post(p)
  <2>1. /\ pc[p] = "post" /\ UNCHANGED <<stage, packet, queue>>
        /\ stage[p] = Active
        /\ pc' = [pc EXCEPT ![p] = "release"] /\ ret' = [ret EXCEPT ![p] = "OK"]
    BY <1>6, <1>0 DEF Post, PostThen, Goto, events, InCall, Token, Active, Closed
  <2> QED
    BY <2>1, <1>0 DEF InCall, Token
<1>7. CASE Restore(p)
  <2>1. /\ pc[p] = "restore" /\ UNCHANGED <<stage, packet, queue>>
        /\ pc' = [pc EXCEPT ![p] = "release"]
        /\ ret' = [ret EXCEPT ![p] = "UserFuncFailed"]
    BY <1>7 DEF Restore, RestoreAnswering, Goto, events
  <2> QED
    BY <2>1, <1>0 DEF InCall, Token, Unsent
<1>8. CASE ReleaseMutex(p)
  <2>1. /\ pc[p] = "release" /\ UNCHANGED <<stage, ret>> /\ pc' = [pc EXCEPT ![p] = "idle"]
    BY <1>8 DEF ReleaseMutex, ReleaseBefore, Goto, events
  <2> QED
    BY <2>1, <1>0 DEF InCall
<1>9. CASE ReadQueue(p)
  <2>1. /\ pc[p] = "entered" /\ UNCHANGED stage /\ pc' = [pc EXCEPT ![p] = "callback"]
    BY <1>9 DEF ReadQueue, Goto, events
  <2> QED
    BY <2>1, <1>0 DEF InCall, Token
<1> QED
  BY <1>1, <1>2, <1>3, <1>4, <1>5, <1>6, <1>7, <1>8, <1>9 DEF Calls

LEMMA AnswerStep ==
  ASSUME TypeOK, MutexInv, Offered, Fresh, Answered, [Next]_vars
  PROVE  Answered'
<1> SUFFICES ASSUME NEW p \in Producers
             PROVE  /\ pc'[p] \in InCall => stage'[p] = Active
                    /\ ~overtaken' /\ pc'[p] = "post" => In(packet'[p], queue')
                    /\ ~overtaken' /\ pc'[p] = "release" =>
                         (ret'[p] = "OK" <=> In(packet'[p], queue'))
  BY DEF Answered
<1>0. /\ pc \in [Endpoints -> Label] /\ stage \in [Endpoints -> Active .. Finalized]
      /\ p \in Endpoints
      /\ pc[p] \in InCall => stage[p] = Active
      /\ ~overtaken /\ pc[p] = "post" => In(packet[p], queue)
      /\ ~overtaken /\ pc[p] = "release" => (ret[p] = "OK" <=> In(packet[p], queue))
  BY DEF TypeOK, Endpoints, Answered
<1>a. pc[p] \in InCall /\ overtaken => overtaken'
  <2> SUFFICES ASSUME pc[p] \in InCall, overtaken PROVE overtaken'
    OBVIOUS
  <2>1. HasMemory(p)
    BY <1>0 DEF HasMemory, InCall, Token, Active, Finalized
  <2> QED
    BY <1>0, <2>1, OvertakenStep
<1>1. CASE SendPacket(p)
  <2>1. pc'[p] = "sem" /\ stage'[p] = Active
    BY <1>1, <1>0 DEF SendPacket, Goto, events
  <2> QED
    BY <2>1
<1>2. CASE Calls(p)
  <2>1. pc[p] \in InCall /\ UNCHANGED stage
    BY <1>2, <1>0 DEF Calls, TakeToken, LeaveSemWait, AcquireMutex, AcquireWhen, AcquireAbandoned,
                ReadQueue, LeaveMutexWait, CallbackPush, PushOrElse, CallbackPop, Post, PostThen,
                Restore, RestoreAnswering, ReleaseMutex, ReleaseBefore, InCall, Token, events
  <2> QED
    BY <1>0, <1>2, <1>a, <2>1, CallStep
<1>3. CASE Crash(p) \/ Activate(p)
  <2>1. pc'[p] \in {"dead", "idle"}
    BY <1>0, <1>3 DEF Crash, Activate, Goto
  <2> QED
    BY <2>1 DEF InCall, Token
<1>4. CASE Apart(p)
  <2>1. ~overtaken /\ pc[p] \in {"post", "release"} => UNCHANGED queue
    BY <1>0, QueueStays DEF InCall, Token
  <2> QED
    BY <1>0, <1>4, <1>a, <2>1 DEF Apart, InCall, Token
<1> QED
  BY <1>1, <1>2, <1>3, <1>4, SenderStep

(* What SyncProducer tells its caller is what happened, since              *)
(* m_send_workers_mutex keeps SendSyncUnlock and Deactivate out of its     *)
(* calls: the packet is in the queue exactly when the call returns 0,      *)
(* unless another thread was in the queue together with it.                *)
THEOREM SyncAnswerIsTrue == Spec => AnswerIsTrue
<1>1. Init => Answered
  BY FreshInit
<1>2. IInv /\ Fresh /\ Answered /\ [Next]_vars => Answered'
  BY AnswerStep DEF IInv
<1>3. IInv /\ Fresh /\ Answered /\ [Next]_vars
        => [\A p \in Producers :
              ~overtaken /\ pc[p] \in {"sem", "mutex", "release"} /\ pc'[p] = "idle" =>
                (ret'[p] = "OK" <=> \E i \in DOMAIN queue : queue[i] = packet[p])]_vars
  <2> SUFFICES ASSUME IInv, Fresh, Answered, [Next]_vars, ~overtaken,
                      NEW p \in Producers, pc[p] \in {"sem", "mutex", "release"}, pc'[p] = "idle"
               PROVE  ret'[p] = "OK" <=> In(packet[p], queue)
    BY DEF In
  <2>1. /\ TypeOK /\ StageInv /\ MutexInv /\ Offered /\ p \in Endpoints
        /\ pc \in [Endpoints -> Label] /\ p \notin Consumers
    BY SyncAssumption DEF IInv, TypeOK, Endpoints
  <2>2. CASE Calls(p)
    BY <2>1, <2>2, CallStep
  <2>3. ~SendPacket(p) /\ ~Apart(p)
    BY DEF SendPacket, Apart
  <2>4. ~Crash(p)
    BY <2>1 DEF Crash, Goto
  <2>5. ~Activate(p)
    BY <2>1 DEF Activate, StageInv
  <2> QED
    BY <2>1, <2>2, <2>3, <2>4, <2>5, SenderStep
<1> QED
  BY <1>1, <1>2, <1>3, SyncInductive, FreshInductive, PTL DEF Spec, AnswerIsTrue
=============================================================================
