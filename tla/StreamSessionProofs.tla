------------------------ MODULE StreamSessionProofs ------------------------
(***************************************************************************)
(* Proofs about StreamSession: in every interleaving of the controllers    *)
(* with the threads, whatever the server does and however often, variables *)
(* keep their ranges; and as long as no reload has overlapped with a check *)
(* a stop leaves nothing running, an active streamer has its two threads,  *)
(* and no thread is started over another, joined twice or destroyed.       *)
(***************************************************************************)
EXTENDS StreamSession, TLAPS

(* One controller at a time; the shutdown is last. *)
OneController ==
  /\ \A c, d \in Controllers : Busy(c) /\ Busy(d) => c = d
  /\ ctl["main"] # "idle" => ~Busy("check")
  /\ ctl["main"] \notin {"idle", "recv"} => ~Busy("recv")
  /\ \A c \in {"recv", "check"} : ctl[c] \notin {"recv", "done"}
  /\ ctl["main"] \notin Starting
  /\ ctl["check"] \notin {"finalize", "init", "replace"}
  /\ \A c \in Controllers : ctl[c] # "joined"

(* A thread that does not run has lowered its flag; one that runs has it   *)
(* raised until a controller is about to join it.                          *)
SessionFlag ==
  /\ thread \in {"none", "starting", "ended"} => ~run
  /\ thread \notin {"none", "starting"} /\ ~run =>
       \E c \in Controllers : ctl[c] \in {"wake", "join"}

DecoderFlag ==
  /\ decoder = "ended" => ~dec_run
  /\ decoder \in {"loop", "ended"} /\ ~dec_run =>
       \E c \in Controllers : ctl[c] = "joindec"

(* The client belongs to the part of the loop between opening and closing. *)
ClientOwned ==
  thread \notin {"opened", "loop", "close"} => client \in {"none", "unsent"}

(* What is over at each point of a stop and of the start after it. *)
StopProgress ==
  \A c \in Controllers :
    /\ ctl[c] \in {"dec", "joindec", "finalize", "init", "replace", "start"} =>
         thread = "none"
    /\ ctl[c] \in (Stopping \ {"watch"}) \cup {"start", "startdec"} => initialized
    /\ ctl["check"] = "watch" => initialized
    /\ ctl[c] \in Starting => decoder = "none" /\ ~active
    /\ ctl[c] = "startdec" => thread # "none"
    /\ ctl[c] = "done" => thread = "none" /\ decoder = "none"

(* A streamer that was never initialized, or is being made anew, has       *)
(* nothing.                                                                *)
NothingYet == ~initialized => thread = "none" /\ decoder = "none" /\ ~active

(* An active streamer has its threads until a stop has come that far. *)
ActiveStarted ==
  active => /\ decoder # "none"
            /\ thread = "none" =>
                 \E c \in Controllers : ctl[c] \in {"dec", "joindec"}

NoFault == fault \subseteq {"closed twice"}

Sound ==
  /\ OneController /\ SessionFlag /\ DecoderFlag /\ ClientOwned
  /\ StopProgress /\ NothingYet /\ ActiveStarted /\ NoFault

IInv == TypeOK /\ (overlapped \/ Sound)
----------------------------------------------------------------------------
(* A bounded event is counted, within its bound. *)
LEMMA SpendType ==
  ASSUME UsedOK, NEW k \in Kinds, Spend(k)
  PROVE  UsedOK'
<1>1. Bounds \in [Kinds -> Nat] /\ Bounds' = Bounds /\ Kinds' = Kinds
  BY StreamAssumption DEF Bounds, Kinds
<1>2. used' \in [Kinds -> Nat] /\ used[k] \in Nat /\ used[k] < Bounds[k]
  BY DEF UsedOK, Spend
<1> QED
  BY <1>1, <1>2 DEF UsedOK, Spend

LEMMA UsedKept == ASSUME UsedOK, UNCHANGED used PROVE UsedOK'
  BY DEF UsedOK, Bounds, Kinds

LEMMA LockTaken == ASSUME NEW n \in {0, 1}, n > 0 PROVE n - 1 \in {0, 1}
  OBVIOUS

(* Every step keeps every variable in its range, whoever takes it. *)
THEOREM StreamTypeStep == ASSUME TypeOK, [Next]_vars PROVE TypeOK'
<1>1. ASSUME StartLoop PROVE TypeOK'
  <2> USE <1>1 DEF TypeOK
  <2>1. UsedOK'
    BY UsedKept DEF StartLoop, rest
  <2>2. FlagsOK'
    BY DEF FlagsOK, StartLoop, ThreadAt, flags, session, decoding, streamer,
         rest
  <2>3. ThreadsOK'
    BY DEF ThreadsOK, Over, StartLoop, ThreadAt, flags, session, decoding,
         streamer, rest
  <2>4. ControlOK'
    <3>1. lock_count' \in {0, 1}
      BY DEF ControlOK, StartLoop, ThreadAt, flags, session, decoding,
           streamer, rest
    <3>2. ctl' \in [Controllers -> {"idle", "recv", "done"} \cup Stopping \cup Starting]
      BY DEF ControlOK, Controllers, Stopping, Starting, StartLoop, ThreadAt,
           flags, session, decoding, streamer, rest
    <3>3. fault' \subseteq {"closed twice", "started twice", "joined twice", "destroyed in use"}
      BY DEF ControlOK, StartLoop, ThreadAt, flags, session, decoding,
           streamer, rest
    <3> QED
      BY <3>1, <3>2, <3>3 DEF ControlOK, Controllers, Stopping, Starting
  <2> QED
    BY <2>1, <2>2, <2>3, <2>4
<1>2. ASSUME TestRunning PROVE TypeOK'
  <2> USE <1>2 DEF TypeOK
  <2>1. UsedOK'
    BY UsedKept DEF TestRunning, rest
  <2>2. FlagsOK'
    BY DEF FlagsOK, TestRunning, ThreadAt, flags, session, decoding, streamer,
         rest
  <2>3. ThreadsOK'
    BY DEF ThreadsOK, Over, TestRunning, ThreadAt, flags, session, decoding,
         streamer, rest
  <2>4. ControlOK'
    <3>1. lock_count' \in {0, 1}
      BY DEF ControlOK, TestRunning, ThreadAt, flags, session, decoding,
           streamer, rest
    <3>2. ctl' \in [Controllers -> {"idle", "recv", "done"} \cup Stopping \cup Starting]
      BY DEF ControlOK, Controllers, Stopping, Starting, TestRunning, ThreadAt,
           flags, session, decoding, streamer, rest
    <3>3. fault' \subseteq {"closed twice", "started twice", "joined twice", "destroyed in use"}
      BY DEF ControlOK, TestRunning, ThreadAt, flags, session, decoding,
           streamer, rest
    <3> QED
      BY <3>1, <3>2, <3>3 DEF ControlOK, Controllers, Stopping, Starting
  <2> QED
    BY <2>1, <2>2, <2>3, <2>4
<1>3. ASSUME OpenURL PROVE TypeOK'
  <2> USE <1>3 DEF TypeOK
  <2>1. UsedOK'
    BY UsedKept DEF OpenURL, Reconnect, rest
  <2>2. FlagsOK'
    BY DEF FlagsOK, OpenURL, ThreadAt, Reconnect, flags, session, decoding,
         streamer, rest
  <2>3. ThreadsOK'
    BY DEF ThreadsOK, Over, OpenURL, ThreadAt, Reconnect, flags, session,
         decoding, streamer, rest
  <2>4. ControlOK'
    <3>1. lock_count' \in {0, 1}
      BY DEF ControlOK, OpenURL, ThreadAt, Reconnect, flags, session, decoding,
           streamer, rest
    <3>2. ctl' \in [Controllers -> {"idle", "recv", "done"} \cup Stopping \cup Starting]
      BY DEF ControlOK, Controllers, Stopping, Starting, OpenURL, ThreadAt,
           Reconnect, flags, session, decoding, streamer, rest
    <3>3. fault' \subseteq {"closed twice", "started twice", "joined twice", "destroyed in use"}
      BY DEF ControlOK, OpenURL, ThreadAt, Reconnect, flags, session, decoding,
           streamer, rest
    <3> QED
      BY <3>1, <3>2, <3>3 DEF ControlOK, Controllers, Stopping, Starting
  <2> QED
    BY <2>1, <2>2, <2>3, <2>4
<1>4. ASSUME EnterEventLoop PROVE TypeOK'
  <2> USE <1>4 DEF TypeOK
  <2>1. UsedOK'
    BY UsedKept DEF EnterEventLoop, rest
  <2>2. FlagsOK'
    BY DEF FlagsOK, EnterEventLoop, ThreadAt, flags, session, decoding,
         streamer, rest
  <2>3. ThreadsOK'
    BY DEF ThreadsOK, Over, EnterEventLoop, ThreadAt, flags, session, decoding,
         streamer, rest
  <2>4. ControlOK'
    <3>1. lock_count' \in {0, 1}
      BY DEF ControlOK, EnterEventLoop, ThreadAt, flags, session, decoding,
           streamer, rest
    <3>2. ctl' \in [Controllers -> {"idle", "recv", "done"} \cup Stopping \cup Starting]
      BY DEF ControlOK, Controllers, Stopping, Starting, EnterEventLoop,
           ThreadAt, flags, session, decoding, streamer, rest
    <3>3. fault' \subseteq {"closed twice", "started twice", "joined twice", "destroyed in use"}
      BY DEF ControlOK, EnterEventLoop, ThreadAt, flags, session, decoding,
           streamer, rest
    <3> QED
      BY <3>1, <3>2, <3>3 DEF ControlOK, Controllers, Stopping, Starting
  <2> QED
    BY <2>1, <2>2, <2>3, <2>4
<1>5. ASSUME LeaveEventLoop PROVE TypeOK'
  <2> USE <1>5 DEF TypeOK
  <2>1. UsedOK'
    BY UsedKept DEF LeaveEventLoop, rest
  <2>2. FlagsOK'
    BY DEF FlagsOK, LeaveEventLoop, ThreadAt, flags, session, decoding,
         streamer, rest
  <2>3. ThreadsOK'
    BY DEF ThreadsOK, Over, LeaveEventLoop, ThreadAt, flags, session, decoding,
         streamer, rest
  <2>4. ControlOK'
    <3>1. lock_count' \in {0, 1}
      BY DEF ControlOK, LeaveEventLoop, ThreadAt, flags, session, decoding,
           streamer, rest
    <3>2. ctl' \in [Controllers -> {"idle", "recv", "done"} \cup Stopping \cup Starting]
      BY DEF ControlOK, Controllers, Stopping, Starting, LeaveEventLoop,
           ThreadAt, flags, session, decoding, streamer, rest
    <3>3. fault' \subseteq {"closed twice", "started twice", "joined twice", "destroyed in use"}
      BY DEF ControlOK, LeaveEventLoop, ThreadAt, flags, session, decoding,
           streamer, rest
    <3> QED
      BY <3>1, <3>2, <3>3 DEF ControlOK, Controllers, Stopping, Starting
  <2> QED
    BY <2>1, <2>2, <2>3, <2>4
<1>6. ASSUME CloseClient PROVE TypeOK'
  <2> USE <1>6 DEF TypeOK
  <2>1. UsedOK'
    BY UsedKept DEF CloseClient, rest
  <2>2. FlagsOK'
    BY DEF FlagsOK, CloseClient, ThreadAt, flags, session, decoding, streamer,
         rest
  <2>3. ThreadsOK'
    BY DEF ThreadsOK, Over, CloseClient, ThreadAt, flags, session, decoding,
         streamer, rest
  <2>4. ControlOK'
    <3>1. lock_count' \in {0, 1}
      BY DEF ControlOK, CloseClient, ThreadAt, flags, session, decoding,
           streamer, rest
    <3>2. ctl' \in [Controllers -> {"idle", "recv", "done"} \cup Stopping \cup Starting]
      BY DEF ControlOK, Controllers, Stopping, Starting, CloseClient, ThreadAt,
           flags, session, decoding, streamer, rest
    <3>3. fault' \subseteq {"closed twice", "started twice", "joined twice", "destroyed in use"}
      BY DEF ControlOK, CloseClient, ThreadAt, flags, session, decoding,
           streamer, rest
    <3> QED
      BY <3>1, <3>2, <3>3 DEF ControlOK, Controllers, Stopping, Starting
  <2> QED
    BY <2>1, <2>2, <2>3, <2>4
<1>7. ASSUME TestReconnect PROVE TypeOK'
  <2> USE <1>7 DEF TypeOK
  <2>1. UsedOK'
    BY UsedKept DEF TestReconnect, rest
  <2>2. FlagsOK'
    BY DEF FlagsOK, TestReconnect, ThreadAt, flags, session, decoding,
         streamer, rest
  <2>3. ThreadsOK'
    BY DEF ThreadsOK, Over, TestReconnect, ThreadAt, flags, session, decoding,
         streamer, rest
  <2>4. ControlOK'
    <3>1. lock_count' \in {0, 1}
      BY DEF ControlOK, TestReconnect, ThreadAt, flags, session, decoding,
           streamer, rest
    <3>2. ctl' \in [Controllers -> {"idle", "recv", "done"} \cup Stopping \cup Starting]
      BY DEF ControlOK, Controllers, Stopping, Starting, TestReconnect,
           ThreadAt, flags, session, decoding, streamer, rest
    <3>3. fault' \subseteq {"closed twice", "started twice", "joined twice", "destroyed in use"}
      BY DEF ControlOK, TestReconnect, ThreadAt, flags, session, decoding,
           streamer, rest
    <3> QED
      BY <3>1, <3>2, <3>3 DEF ControlOK, Controllers, Stopping, Starting
  <2> QED
    BY <2>1, <2>2, <2>3, <2>4
<1>8. ASSUME WaitLocker PROVE TypeOK'
  <2> USE <1>8 DEF TypeOK
  <2>1. UsedOK'
    BY UsedKept DEF WaitLocker, rest
  <2>2. FlagsOK'
    BY DEF FlagsOK, WaitLocker, ThreadAt, flags, session, decoding, streamer,
         rest
  <2>3. ThreadsOK'
    BY DEF ThreadsOK, Over, WaitLocker, ThreadAt, flags, session, decoding,
         streamer, rest
  <2>4. ControlOK'
    <3>1. lock_count' \in {0, 1}
      BY LockTaken DEF ControlOK, WaitLocker, ThreadAt, flags, session,
           decoding, streamer, rest
    <3>2. ctl' \in [Controllers -> {"idle", "recv", "done"} \cup Stopping \cup Starting]
      BY DEF ControlOK, Controllers, Stopping, Starting, WaitLocker, ThreadAt,
           flags, session, decoding, streamer, rest
    <3>3. fault' \subseteq {"closed twice", "started twice", "joined twice", "destroyed in use"}
      BY DEF ControlOK, WaitLocker, ThreadAt, flags, session, decoding,
           streamer, rest
    <3> QED
      BY <3>1, <3>2, <3>3 DEF ControlOK, Controllers, Stopping, Starting
  <2> QED
    BY <2>1, <2>2, <2>3, <2>4
<1>9. ASSUME ContinueAfterDESCRIBE PROVE TypeOK'
  <2> USE <1>9 DEF TypeOK
  <2>1. UsedOK'
    BY UsedKept DEF ContinueAfterDESCRIBE, SetupNextSubsession, Handler,
         Reconnect, rest
  <2>2. FlagsOK'
    BY DEF FlagsOK, ContinueAfterDESCRIBE, SetupNextSubsession, Handler,
         ThreadAt, Reconnect, flags, session, decoding, streamer, rest
  <2>3. ThreadsOK'
    BY DEF ThreadsOK, Over, ContinueAfterDESCRIBE, SetupNextSubsession,
         Handler, ThreadAt, Reconnect, flags, session, decoding, streamer, rest
  <2>4. ControlOK'
    <3>1. lock_count' \in {0, 1}
      BY DEF ControlOK, ContinueAfterDESCRIBE, SetupNextSubsession, Handler,
           ThreadAt, Reconnect, flags, session, decoding, streamer, rest
    <3>2. ctl' \in [Controllers -> {"idle", "recv", "done"} \cup Stopping \cup Starting]
      BY DEF ControlOK, Controllers, Stopping, Starting, ContinueAfterDESCRIBE,
           SetupNextSubsession, Handler, ThreadAt, Reconnect, flags, session,
           decoding, streamer, rest
    <3>3. fault' \subseteq {"closed twice", "started twice", "joined twice", "destroyed in use"}
      BY DEF ControlOK, ContinueAfterDESCRIBE, SetupNextSubsession, Handler,
           ThreadAt, Reconnect, flags, session, decoding, streamer, rest
    <3> QED
      BY <3>1, <3>2, <3>3 DEF ControlOK, Controllers, Stopping, Starting
  <2> QED
    BY <2>1, <2>2, <2>3, <2>4
<1>10. ASSUME ContinueAfterSETUP PROVE TypeOK'
  <2> USE <1>10 DEF TypeOK
  <2>1. UsedOK'
    BY UsedKept DEF ContinueAfterSETUP, SetupNextSubsession, Handler, rest
  <2>2. FlagsOK'
    BY DEF FlagsOK, ContinueAfterSETUP, SetupNextSubsession, Handler, ThreadAt,
         flags, session, decoding, streamer, rest
  <2>3. ThreadsOK'
    BY DEF ThreadsOK, Over, ContinueAfterSETUP, SetupNextSubsession, Handler,
         ThreadAt, flags, session, decoding, streamer, rest
  <2>4. ControlOK'
    <3>1. lock_count' \in {0, 1}
      BY DEF ControlOK, ContinueAfterSETUP, SetupNextSubsession, Handler,
           ThreadAt, flags, session, decoding, streamer, rest
    <3>2. ctl' \in [Controllers -> {"idle", "recv", "done"} \cup Stopping \cup Starting]
      BY DEF ControlOK, Controllers, Stopping, Starting, ContinueAfterSETUP,
           SetupNextSubsession, Handler, ThreadAt, flags, session, decoding,
           streamer, rest
    <3>3. fault' \subseteq {"closed twice", "started twice", "joined twice", "destroyed in use"}
      BY DEF ControlOK, ContinueAfterSETUP, SetupNextSubsession, Handler,
           ThreadAt, flags, session, decoding, streamer, rest
    <3> QED
      BY <3>1, <3>2, <3>3 DEF ControlOK, Controllers, Stopping, Starting
  <2> QED
    BY <2>1, <2>2, <2>3, <2>4
<1>11. ASSUME ContinueAfterPLAY PROVE TypeOK'
  <2> USE <1>11 DEF TypeOK
  <2>1. UsedOK'
    BY UsedKept DEF ContinueAfterPLAY, Handler, rest
  <2>2. FlagsOK'
    BY DEF FlagsOK, ContinueAfterPLAY, Handler, ThreadAt, flags, session,
         decoding, streamer, rest
  <2>3. ThreadsOK'
    BY DEF ThreadsOK, Over, ContinueAfterPLAY, Handler, ThreadAt, flags,
         session, decoding, streamer, rest
  <2>4. ControlOK'
    <3>1. lock_count' \in {0, 1}
      BY DEF ControlOK, ContinueAfterPLAY, Handler, ThreadAt, flags, session,
           decoding, streamer, rest
    <3>2. ctl' \in [Controllers -> {"idle", "recv", "done"} \cup Stopping \cup Starting]
      BY DEF ControlOK, Controllers, Stopping, Starting, ContinueAfterPLAY,
           Handler, ThreadAt, flags, session, decoding, streamer, rest
    <3>3. fault' \subseteq {"closed twice", "started twice", "joined twice", "destroyed in use"}
      BY DEF ControlOK, ContinueAfterPLAY, Handler, ThreadAt, flags, session,
           decoding, streamer, rest
    <3> QED
      BY <3>1, <3>2, <3>3 DEF ControlOK, Controllers, Stopping, Starting
  <2> QED
    BY <2>1, <2>2, <2>3, <2>4
<1>12. ASSUME NEW s \in {"play", "playing"}, SubsessionAfterPlaying(s) PROVE TypeOK'
  <2> USE <1>12 DEF TypeOK
  <2>1. UsedOK'
    BY SpendType DEF Kinds, SubsessionAfterPlaying, Handler, rest
  <2>2. FlagsOK'
    BY DEF FlagsOK, SubsessionAfterPlaying, Handler, ThreadAt, flags, session,
         decoding, streamer, rest
  <2>3. ThreadsOK'
    BY DEF ThreadsOK, Over, SubsessionAfterPlaying, Handler, ThreadAt, flags,
         session, decoding, streamer, rest
  <2>4. ControlOK'
    <3>1. lock_count' \in {0, 1}
      BY DEF ControlOK, SubsessionAfterPlaying, Handler, ThreadAt, flags,
           session, decoding, streamer, rest
    <3>2. ctl' \in [Controllers -> {"idle", "recv", "done"} \cup Stopping \cup Starting]
      BY DEF ControlOK, Controllers, Stopping, Starting,
           SubsessionAfterPlaying, Handler, ThreadAt, flags, session, decoding,
           streamer, rest
    <3>3. fault' \subseteq {"closed twice", "started twice", "joined twice", "destroyed in use"}
      BY DEF ControlOK, SubsessionAfterPlaying, Handler, ThreadAt, flags,
           session, decoding, streamer, rest
    <3> QED
      BY <3>1, <3>2, <3>3 DEF ControlOK, Controllers, Stopping, Starting
  <2> QED
    BY <2>1, <2>2, <2>3, <2>4
<1>13. ASSUME StreamTimerHandler PROVE TypeOK'
  <2> USE <1>13 DEF TypeOK
  <2>1. UsedOK'
    BY SpendType DEF Kinds, StreamTimerHandler, Handler, Reconnect, rest
  <2>2. FlagsOK'
    BY DEF FlagsOK, StreamTimerHandler, Handler, ThreadAt, Reconnect, flags,
         session, decoding, streamer, rest
  <2>3. ThreadsOK'
    BY DEF ThreadsOK, Over, StreamTimerHandler, Handler, ThreadAt, Reconnect,
         flags, session, decoding, streamer, rest
  <2>4. ControlOK'
    <3>1. lock_count' \in {0, 1}
      BY DEF ControlOK, StreamTimerHandler, Handler, ThreadAt, Reconnect,
           flags, session, decoding, streamer, rest
    <3>2. ctl' \in [Controllers -> {"idle", "recv", "done"} \cup Stopping \cup Starting]
      BY DEF ControlOK, Controllers, Stopping, Starting, StreamTimerHandler,
           Handler, ThreadAt, Reconnect, flags, session, decoding, streamer,
           rest
    <3>3. fault' \subseteq {"closed twice", "started twice", "joined twice", "destroyed in use"}
      BY DEF ControlOK, StreamTimerHandler, Handler, ThreadAt, Reconnect,
           flags, session, decoding, streamer, rest
    <3> QED
      BY <3>1, <3>2, <3>3 DEF ControlOK, Controllers, Stopping, Starting
  <2> QED
    BY <2>1, <2>2, <2>3, <2>4
<1>14. ASSUME OnVideoFrameReceived PROVE TypeOK'
  <2> USE <1>14 DEF TypeOK
  <2>1. UsedOK'
    BY UsedKept DEF OnVideoFrameReceived, Handler, rest
  <2>2. FlagsOK'
    BY DEF FlagsOK, OnVideoFrameReceived, Handler, ThreadAt, flags, session,
         decoding, streamer, rest
  <2>3. ThreadsOK'
    BY DEF ThreadsOK, Over, OnVideoFrameReceived, Handler, ThreadAt, flags,
         session, decoding, streamer, rest
  <2>4. ControlOK'
    <3>1. lock_count' \in {0, 1}
      BY DEF ControlOK, OnVideoFrameReceived, Handler, ThreadAt, flags,
           session, decoding, streamer, rest
    <3>2. ctl' \in [Controllers -> {"idle", "recv", "done"} \cup Stopping \cup Starting]
      BY DEF ControlOK, Controllers, Stopping, Starting, OnVideoFrameReceived,
           Handler, ThreadAt, flags, session, decoding, streamer, rest
    <3>3. fault' \subseteq {"closed twice", "started twice", "joined twice", "destroyed in use"}
      BY DEF ControlOK, OnVideoFrameReceived, Handler, ThreadAt, flags,
           session, decoding, streamer, rest
    <3> QED
      BY <3>1, <3>2, <3>3 DEF ControlOK, Controllers, Stopping, Starting
  <2> QED
    BY <2>1, <2>2, <2>3, <2>4
<1>15. ASSUME DecoderStart PROVE TypeOK'
  <2> USE <1>15 DEF TypeOK
  <2>1. UsedOK'
    BY UsedKept DEF DecoderStart, rest
  <2>2. FlagsOK'
    BY DEF FlagsOK, DecoderStart, flags, session, decoding, streamer, rest
  <2>3. ThreadsOK'
    BY DEF ThreadsOK, Over, DecoderStart, flags, session, decoding, streamer,
         rest
  <2>4. ControlOK'
    <3>1. lock_count' \in {0, 1}
      BY DEF ControlOK, DecoderStart, flags, session, decoding, streamer, rest
    <3>2. ctl' \in [Controllers -> {"idle", "recv", "done"} \cup Stopping \cup Starting]
      BY DEF ControlOK, Controllers, Stopping, Starting, DecoderStart, flags,
           session, decoding, streamer, rest
    <3>3. fault' \subseteq {"closed twice", "started twice", "joined twice", "destroyed in use"}
      BY DEF ControlOK, DecoderStart, flags, session, decoding, streamer, rest
    <3> QED
      BY <3>1, <3>2, <3>3 DEF ControlOK, Controllers, Stopping, Starting
  <2> QED
    BY <2>1, <2>2, <2>3, <2>4
<1>16. ASSUME DecoderEnd PROVE TypeOK'
  <2> USE <1>16 DEF TypeOK
  <2>1. UsedOK'
    BY UsedKept DEF DecoderEnd, rest
  <2>2. FlagsOK'
    BY DEF FlagsOK, DecoderEnd, flags, session, decoding, streamer, rest
  <2>3. ThreadsOK'
    BY DEF ThreadsOK, Over, DecoderEnd, flags, session, decoding, streamer,
         rest
  <2>4. ControlOK'
    <3>1. lock_count' \in {0, 1}
      BY DEF ControlOK, DecoderEnd, flags, session, decoding, streamer, rest
    <3>2. ctl' \in [Controllers -> {"idle", "recv", "done"} \cup Stopping \cup Starting]
      BY DEF ControlOK, Controllers, Stopping, Starting, DecoderEnd, flags,
           session, decoding, streamer, rest
    <3>3. fault' \subseteq {"closed twice", "started twice", "joined twice", "destroyed in use"}
      BY DEF ControlOK, DecoderEnd, flags, session, decoding, streamer, rest
    <3> QED
      BY <3>1, <3>2, <3>3 DEF ControlOK, Controllers, Stopping, Starting
  <2> QED
    BY <2>1, <2>2, <2>3, <2>4
<1>17. ASSUME LoadCamerasPbFile PROVE TypeOK'
  <2> USE <1>17 DEF TypeOK
  <2>1. UsedOK'
    BY SpendType DEF Kinds, LoadCamerasPbFile, Begins, Goto, rest
  <2>2. FlagsOK'
    BY DEF FlagsOK, LoadCamerasPbFile, Begins, Goto, flags, session, decoding,
         streamer, rest
  <2>3. ThreadsOK'
    BY DEF ThreadsOK, Over, LoadCamerasPbFile, Begins, Goto, flags, session,
         decoding, streamer, rest
  <2>4. ControlOK'
    <3>1. lock_count' \in {0, 1}
      BY DEF ControlOK, LoadCamerasPbFile, Begins, Goto, flags, session,
           decoding, streamer, rest
    <3>2. ctl' \in [Controllers -> {"idle", "recv", "done"} \cup Stopping \cup Starting]
      BY DEF ControlOK, Controllers, Stopping, Starting, LoadCamerasPbFile,
           Begins, Goto, flags, session, decoding, streamer, rest
    <3>3. fault' \subseteq {"closed twice", "started twice", "joined twice", "destroyed in use"}
      BY DEF ControlOK, LoadCamerasPbFile, Begins, Goto, flags, session,
           decoding, streamer, rest
    <3> QED
      BY <3>1, <3>2, <3>3 DEF ControlOK, Controllers, Stopping, Starting
  <2> QED
    BY <2>1, <2>2, <2>3, <2>4
<1>18. ASSUME OnTimerCheckStream PROVE TypeOK'
  <2> USE <1>18 DEF TypeOK
  <2>1. UsedOK'
    BY UsedKept DEF OnTimerCheckStream, CheckStream, Begins, Goto, rest
  <2>2. FlagsOK'
    BY DEF FlagsOK, OnTimerCheckStream, CheckStream, Begins, Goto, flags,
         session, decoding, streamer, rest
  <2>3. ThreadsOK'
    BY DEF ThreadsOK, Over, OnTimerCheckStream, CheckStream, Begins, Goto,
         flags, session, decoding, streamer, rest
  <2>4. ControlOK'
    <3>1. lock_count' \in {0, 1}
      BY DEF ControlOK, OnTimerCheckStream, CheckStream, Begins, Goto, flags,
           session, decoding, streamer, rest
    <3>2. ctl' \in [Controllers -> {"idle", "recv", "done"} \cup Stopping \cup Starting]
      BY DEF ControlOK, Controllers, Stopping, Starting, OnTimerCheckStream,
           CheckStream, Begins, Goto, flags, session, decoding, streamer, rest
    <3>3. fault' \subseteq {"closed twice", "started twice", "joined twice", "destroyed in use"}
      BY DEF ControlOK, OnTimerCheckStream, CheckStream, Begins, Goto, flags,
           session, decoding, streamer, rest
    <3> QED
      BY <3>1, <3>2, <3>3 DEF ControlOK, Controllers, Stopping, Starting
  <2> QED
    BY <2>1, <2>2, <2>3, <2>4
<1>19. ASSUME StopChecks PROVE TypeOK'
  <2> USE <1>19 DEF TypeOK
  <2>1. UsedOK'
    BY UsedKept DEF StopChecks, Goto, rest
  <2>2. FlagsOK'
    BY DEF FlagsOK, StopChecks, At, Goto, flags, session, decoding, streamer,
         rest
  <2>3. ThreadsOK'
    BY DEF ThreadsOK, Over, StopChecks, At, Goto, flags, session, decoding,
         streamer, rest
  <2>4. ControlOK'
    <3>1. lock_count' \in {0, 1}
      BY DEF ControlOK, StopChecks, At, Goto, flags, session, decoding,
           streamer, rest
    <3>2. ctl' \in [Controllers -> {"idle", "recv", "done"} \cup Stopping \cup Starting]
      BY DEF ControlOK, Controllers, Stopping, Starting, StopChecks, At, Goto,
           flags, session, decoding, streamer, rest
    <3>3. fault' \subseteq {"closed twice", "started twice", "joined twice", "destroyed in use"}
      BY DEF ControlOK, StopChecks, At, Goto, flags, session, decoding,
           streamer, rest
    <3> QED
      BY <3>1, <3>2, <3>3 DEF ControlOK, Controllers, Stopping, Starting
  <2> QED
    BY <2>1, <2>2, <2>3, <2>4
<1>20. ASSUME StopReceiving PROVE TypeOK'
  <2> USE <1>20 DEF TypeOK
  <2>1. UsedOK'
    BY UsedKept DEF StopReceiving, Goto, rest
  <2>2. FlagsOK'
    BY DEF FlagsOK, StopReceiving, At, Goto, flags, session, decoding,
         streamer, rest
  <2>3. ThreadsOK'
    BY DEF ThreadsOK, Over, StopReceiving, At, Goto, flags, session, decoding,
         streamer, rest
  <2>4. ControlOK'
    <3>1. lock_count' \in {0, 1}
      BY DEF ControlOK, StopReceiving, At, Goto, flags, session, decoding,
           streamer, rest
    <3>2. ctl' \in [Controllers -> {"idle", "recv", "done"} \cup Stopping \cup Starting]
      BY DEF ControlOK, Controllers, Stopping, Starting, StopReceiving, At,
           Goto, flags, session, decoding, streamer, rest
    <3>3. fault' \subseteq {"closed twice", "started twice", "joined twice", "destroyed in use"}
      BY DEF ControlOK, StopReceiving, At, Goto, flags, session, decoding,
           streamer, rest
    <3> QED
      BY <3>1, <3>2, <3>3 DEF ControlOK, Controllers, Stopping, Starting
  <2> QED
    BY <2>1, <2>2, <2>3, <2>4
<1>21. ASSUME Finalize PROVE TypeOK'
  <2> USE <1>21 DEF TypeOK
  <2>1. UsedOK'
    BY UsedKept DEF Finalize, Goto, rest
  <2>2. FlagsOK'
    BY DEF FlagsOK, Finalize, At, Goto, flags, session, decoding, streamer,
         rest
  <2>3. ThreadsOK'
    BY DEF ThreadsOK, Over, Finalize, At, Goto, flags, session, decoding,
         streamer, rest
  <2>4. ControlOK'
    <3>1. lock_count' \in {0, 1}
      BY DEF ControlOK, Finalize, At, Goto, flags, session, decoding, streamer,
           rest
    <3>2. ctl' \in [Controllers -> {"idle", "recv", "done"} \cup Stopping \cup Starting]
      BY DEF ControlOK, Controllers, Stopping, Starting, Finalize, At, Goto,
           flags, session, decoding, streamer, rest
    <3>3. fault' \subseteq {"closed twice", "started twice", "joined twice", "destroyed in use"}
      BY DEF ControlOK, Finalize, At, Goto, flags, session, decoding, streamer,
           rest
    <3> QED
      BY <3>1, <3>2, <3>3 DEF ControlOK, Controllers, Stopping, Starting
  <2> QED
    BY <2>1, <2>2, <2>3, <2>4
<1>22. ASSUME Initialize PROVE TypeOK'
  <2> USE <1>22 DEF TypeOK
  <2>1. UsedOK'
    BY UsedKept DEF Initialize, Goto, rest
  <2>2. FlagsOK'
    BY DEF FlagsOK, Initialize, At, Goto, flags, session, decoding, streamer,
         rest
  <2>3. ThreadsOK'
    BY DEF ThreadsOK, Over, Initialize, At, Goto, flags, session, decoding,
         streamer, rest
  <2>4. ControlOK'
    <3>1. lock_count' \in {0, 1}
      BY DEF ControlOK, Initialize, At, Goto, flags, session, decoding,
           streamer, rest
    <3>2. ctl' \in [Controllers -> {"idle", "recv", "done"} \cup Stopping \cup Starting]
      BY DEF ControlOK, Controllers, Stopping, Starting, Initialize, At, Goto,
           flags, session, decoding, streamer, rest
    <3>3. fault' \subseteq {"closed twice", "started twice", "joined twice", "destroyed in use"}
      BY DEF ControlOK, Initialize, At, Goto, flags, session, decoding,
           streamer, rest
    <3> QED
      BY <3>1, <3>2, <3>3 DEF ControlOK, Controllers, Stopping, Starting
  <2> QED
    BY <2>1, <2>2, <2>3, <2>4
<1>23. ASSUME Replace PROVE TypeOK'
  <2> USE <1>23 DEF TypeOK
  <2>1. UsedOK'
    BY UsedKept DEF Replace, Goto, Unless, Faults, InUse, rest
  <2>2. FlagsOK'
    BY DEF FlagsOK, Replace, At, Goto, Unless, Faults, InUse, flags, session,
         decoding, streamer, rest
  <2>3. ThreadsOK'
    BY DEF ThreadsOK, Over, Replace, At, Goto, Unless, Faults, InUse, flags,
         session, decoding, streamer, rest
  <2>4. ControlOK'
    <3>1. lock_count' \in {0, 1}
      BY DEF ControlOK, Replace, At, Goto, Unless, Faults, flags, session,
           decoding, streamer, rest
    <3>2. ctl' \in [Controllers -> {"idle", "recv", "done"} \cup Stopping \cup Starting]
      BY DEF ControlOK, Controllers, Stopping, Starting, Replace, At, Goto,
           Unless, Faults, flags, session, decoding, streamer, rest
    <3>3. fault' \subseteq {"closed twice", "started twice", "joined twice", "destroyed in use"}
      BY DEF ControlOK, Replace, At, Goto, Unless, Faults, flags, session,
           decoding, streamer, rest
    <3> QED
      BY <3>1, <3>2, <3>3 DEF ControlOK, Controllers, Stopping, Starting
  <2> QED
    BY <2>1, <2>2, <2>3, <2>4
<1>24. ASSUME NEW c \in Controllers, SetWatch(c) PROVE TypeOK'
  <2> USE <1>24 DEF TypeOK
  <2>1. UsedOK'
    BY UsedKept DEF SetWatch, AfterStop, Goto, rest
  <2>2. FlagsOK'
    BY DEF FlagsOK, SetWatch, AfterStop, At, Goto, flags, session, decoding,
         streamer, rest
  <2>3. ThreadsOK'
    BY DEF ThreadsOK, Over, SetWatch, AfterStop, At, Goto, flags, session,
         decoding, streamer, rest
  <2>4. ControlOK'
    <3>1. lock_count' \in {0, 1}
      BY DEF ControlOK, SetWatch, AfterStop, At, Goto, flags, session,
           decoding, streamer, rest
    <3>2. ctl' \in [Controllers -> {"idle", "recv", "done"} \cup Stopping \cup Starting]
      BY DEF ControlOK, Controllers, Stopping, Starting, SetWatch, AfterStop,
           At, Goto, flags, session, decoding, streamer, rest
    <3>3. fault' \subseteq {"closed twice", "started twice", "joined twice", "destroyed in use"}
      BY DEF ControlOK, SetWatch, AfterStop, At, Goto, flags, session,
           decoding, streamer, rest
    <3> QED
      BY <3>1, <3>2, <3>3 DEF ControlOK, Controllers, Stopping, Starting
  <2> QED
    BY <2>1, <2>2, <2>3, <2>4
<1>25. ASSUME NEW c \in Controllers, ClearRunning(c) PROVE TypeOK'
  <2> USE <1>25 DEF TypeOK
  <2>1. UsedOK'
    BY UsedKept DEF ClearRunning, Goto, rest
  <2>2. FlagsOK'
    BY DEF FlagsOK, ClearRunning, At, Goto, flags, session, decoding, streamer,
         rest
  <2>3. ThreadsOK'
    BY DEF ThreadsOK, Over, ClearRunning, At, Goto, flags, session, decoding,
         streamer, rest
  <2>4. ControlOK'
    <3>1. lock_count' \in {0, 1}
      BY DEF ControlOK, ClearRunning, At, Goto, flags, session, decoding,
           streamer, rest
    <3>2. ctl' \in [Controllers -> {"idle", "recv", "done"} \cup Stopping \cup Starting]
      BY DEF ControlOK, Controllers, Stopping, Starting, ClearRunning, At,
           Goto, flags, session, decoding, streamer, rest
    <3>3. fault' \subseteq {"closed twice", "started twice", "joined twice", "destroyed in use"}
      BY DEF ControlOK, ClearRunning, At, Goto, flags, session, decoding,
           streamer, rest
    <3> QED
      BY <3>1, <3>2, <3>3 DEF ControlOK, Controllers, Stopping, Starting
  <2> QED
    BY <2>1, <2>2, <2>3, <2>4
<1>26. ASSUME NEW c \in Controllers, WakeThread(c) PROVE TypeOK'
  <2> USE <1>26 DEF TypeOK
  <2>1. UsedOK'
    BY UsedKept DEF WakeThread, WakeTo, Goto, rest
  <2>2. FlagsOK'
    BY DEF FlagsOK, WakeThread, WakeTo, At, Goto, flags, session, decoding,
         streamer, rest
  <2>3. ThreadsOK'
    BY DEF ThreadsOK, Over, WakeThread, WakeTo, At, Goto, flags, session,
         decoding, streamer, rest
  <2>4. ControlOK'
    <3>1. lock_count' \in {0, 1}
      BY DEF ControlOK, WakeThread, WakeTo, At, Goto, flags, session, decoding,
           streamer, rest
    <3>2. ctl' \in [Controllers -> {"idle", "recv", "done"} \cup Stopping \cup Starting]
      BY DEF ControlOK, Controllers, Stopping, Starting, WakeThread, WakeTo,
           At, Goto, flags, session, decoding, streamer, rest
    <3>3. fault' \subseteq {"closed twice", "started twice", "joined twice", "destroyed in use"}
      BY DEF ControlOK, WakeThread, WakeTo, At, Goto, flags, session, decoding,
           streamer, rest
    <3> QED
      BY <3>1, <3>2, <3>3 DEF ControlOK, Controllers, Stopping, Starting
  <2> QED
    BY <2>1, <2>2, <2>3, <2>4
<1>27. ASSUME NEW c \in Controllers, JoinSession(c) PROVE TypeOK'
  <2> USE <1>27 DEF TypeOK
  <2>1. UsedOK'
    BY UsedKept DEF JoinSession, JoinWhen, Joins, rest
  <2>2. FlagsOK'
    BY DEF FlagsOK, JoinSession, JoinWhen, Joins, At, flags, session, decoding,
         streamer, rest
  <2>3. ThreadsOK'
    BY DEF ThreadsOK, Over, JoinSession, JoinWhen, Joins, At, flags, session,
         decoding, streamer, rest
  <2>4. ControlOK'
    <3>1. lock_count' \in {0, 1}
      BY DEF ControlOK, JoinSession, JoinWhen, At, flags, session, decoding,
           streamer, rest
    <3>2. ctl' \in [Controllers -> {"idle", "recv", "done"} \cup Stopping \cup Starting]
      BY DEF ControlOK, Controllers, Stopping, Starting, JoinSession, JoinWhen,
           Joins, At, flags, session, decoding, streamer, rest
    <3>3. fault' \subseteq {"closed twice", "started twice", "joined twice", "destroyed in use"}
      BY DEF ControlOK, JoinSession, JoinWhen, At, flags, session, decoding,
           streamer, rest
    <3> QED
      BY <3>1, <3>2, <3>3 DEF ControlOK, Controllers, Stopping, Starting
  <2> QED
    BY <2>1, <2>2, <2>3, <2>4
<1>28. ASSUME NEW c \in Controllers, StopDecoder(c) PROVE TypeOK'
  <2> USE <1>28 DEF TypeOK
  <2>1. UsedOK'
    BY UsedKept DEF StopDecoder, Goto, rest
  <2>2. FlagsOK'
    BY DEF FlagsOK, StopDecoder, At, Goto, flags, session, decoding, streamer,
         rest
  <2>3. ThreadsOK'
    BY DEF ThreadsOK, Over, StopDecoder, At, Goto, flags, session, decoding,
         streamer, rest
  <2>4. ControlOK'
    <3>1. lock_count' \in {0, 1}
      BY DEF ControlOK, StopDecoder, At, Goto, flags, session, decoding,
           streamer, rest
    <3>2. ctl' \in [Controllers -> {"idle", "recv", "done"} \cup Stopping \cup Starting]
      BY DEF ControlOK, Controllers, Stopping, Starting, StopDecoder, At, Goto,
           flags, session, decoding, streamer, rest
    <3>3. fault' \subseteq {"closed twice", "started twice", "joined twice", "destroyed in use"}
      BY DEF ControlOK, StopDecoder, At, Goto, flags, session, decoding,
           streamer, rest
    <3> QED
      BY <3>1, <3>2, <3>3 DEF ControlOK, Controllers, Stopping, Starting
  <2> QED
    BY <2>1, <2>2, <2>3, <2>4
<1>29. ASSUME NEW c \in Controllers, JoinDecoder(c) PROVE TypeOK'
  <2> USE <1>29 DEF TypeOK
  <2>1. UsedOK'
    BY UsedKept DEF JoinDecoder, DeactivateThen, Joins, AfterStop, rest
  <2>2. FlagsOK'
    BY DEF FlagsOK, JoinDecoder, DeactivateThen, Joins, AfterStop, At, flags,
         session, decoding, streamer, rest
  <2>3. ThreadsOK'
    BY DEF ThreadsOK, Over, JoinDecoder, DeactivateThen, Joins, AfterStop, At,
         flags, session, decoding, streamer, rest
  <2>4. ControlOK'
    <3>1. lock_count' \in {0, 1}
      BY DEF ControlOK, JoinDecoder, DeactivateThen, AfterStop, At, flags,
           session, decoding, streamer, rest
    <3>2. ctl' \in [Controllers -> {"idle", "recv", "done"} \cup Stopping \cup Starting]
      BY DEF ControlOK, Controllers, Stopping, Starting, JoinDecoder,
           DeactivateThen, Joins, AfterStop, At, flags, session, decoding,
           streamer, rest
    <3>3. fault' \subseteq {"closed twice", "started twice", "joined twice", "destroyed in use"}
      BY DEF ControlOK, JoinDecoder, DeactivateThen, AfterStop, At, flags,
           session, decoding, streamer, rest
    <3> QED
      BY <3>1, <3>2, <3>3 DEF ControlOK, Controllers, Stopping, Starting
  <2> QED
    BY <2>1, <2>2, <2>3, <2>4
<1>30. ASSUME NEW c \in Controllers, JoinedTwice(c) PROVE TypeOK'
  <2> USE <1>30 DEF TypeOK
  <2>1. UsedOK'
    BY UsedKept DEF JoinedTwice, Faults, rest
  <2>2. FlagsOK'
    BY DEF FlagsOK, JoinedTwice, Faults, At, flags, session, decoding,
         streamer, rest
  <2>3. ThreadsOK'
    BY DEF ThreadsOK, Over, JoinedTwice, Faults, At, flags, session, decoding,
         streamer, rest
  <2>4. ControlOK'
    <3>1. lock_count' \in {0, 1}
      BY DEF ControlOK, JoinedTwice, Faults, At, flags, session, decoding,
           streamer, rest
    <3>2. ctl' \in [Controllers -> {"idle", "recv", "done"} \cup Stopping \cup Starting]
      BY DEF ControlOK, Controllers, Stopping, Starting, JoinedTwice, Faults,
           At, flags, session, decoding, streamer, rest
    <3>3. fault' \subseteq {"closed twice", "started twice", "joined twice", "destroyed in use"}
      BY DEF ControlOK, JoinedTwice, Faults, At, flags, session, decoding,
           streamer, rest
    <3> QED
      BY <3>1, <3>2, <3>3 DEF ControlOK, Controllers, Stopping, Starting
  <2> QED
    BY <2>1, <2>2, <2>3, <2>4
<1>31. ASSUME NEW c \in Controllers, StartSession(c) PROVE TypeOK'
  <2> USE <1>31 DEF TypeOK
  <2>1. UsedOK'
    BY UsedKept DEF StartSession, Ends, Unless, Faults, Goto, rest
  <2>2. FlagsOK'
    BY DEF FlagsOK, StartSession, Ends, Unless, Faults, At, Goto, flags,
         session, decoding, streamer, rest
  <2>3. ThreadsOK'
    BY DEF ThreadsOK, Over, StartSession, Ends, Unless, Faults, At, Goto,
         flags, session, decoding, streamer, rest
  <2>4. ControlOK'
    <3>1. lock_count' \in {0, 1}
      BY DEF ControlOK, StartSession, Ends, Unless, Faults, At, Goto, flags,
           session, decoding, streamer, rest
    <3>2. ctl' \in [Controllers -> {"idle", "recv", "done"} \cup Stopping \cup Starting]
      BY DEF ControlOK, Controllers, Stopping, Starting, StartSession, Ends,
           Unless, Faults, At, Goto, flags, session, decoding, streamer, rest
    <3>3. fault' \subseteq {"closed twice", "started twice", "joined twice", "destroyed in use"}
      BY DEF ControlOK, StartSession, Ends, Unless, Faults, At, Goto, flags,
           session, decoding, streamer, rest
    <3> QED
      BY <3>1, <3>2, <3>3 DEF ControlOK, Controllers, Stopping, Starting
  <2> QED
    BY <2>1, <2>2, <2>3, <2>4
<1>32. ASSUME NEW c \in Controllers, StartDecoder(c) PROVE TypeOK'
  <2> USE <1>32 DEF TypeOK
  <2>1. UsedOK'
    BY SpendType, UsedKept DEF Kinds, StartDecoder, DecoderFails, Ends, Unless,
         Faults, Goto, rest
  <2>2. FlagsOK'
    BY DEF FlagsOK, StartDecoder, DecoderFails, Ends, Unless, Faults, At, Goto,
         flags, session, decoding, streamer, rest
  <2>3. ThreadsOK'
    BY DEF ThreadsOK, Over, StartDecoder, DecoderFails, Ends, Unless, Faults,
         At, Goto, flags, session, decoding, streamer, rest
  <2>4. ControlOK'
    <3>1. lock_count' \in {0, 1}
      BY DEF ControlOK, StartDecoder, DecoderFails, Ends, Unless, Faults, At,
           Goto, flags, session, decoding, streamer, rest
    <3>2. ctl' \in [Controllers -> {"idle", "recv", "done"} \cup Stopping \cup Starting]
      BY DEF ControlOK, Controllers, Stopping, Starting, StartDecoder,
           DecoderFails, Ends, Unless, Faults, At, Goto, flags, session,
           decoding, streamer, rest
    <3>3. fault' \subseteq {"closed twice", "started twice", "joined twice", "destroyed in use"}
      BY DEF ControlOK, StartDecoder, DecoderFails, Ends, Unless, Faults, At,
           Goto, flags, session, decoding, streamer, rest
    <3> QED
      BY <3>1, <3>2, <3>3 DEF ControlOK, Controllers, Stopping, Starting
  <2> QED
    BY <2>1, <2>2, <2>3, <2>4
<1>33. ASSUME ServerChanges PROVE TypeOK'
  <2> USE <1>33 DEF TypeOK
  <2>1. UsedOK'
    BY SpendType DEF Kinds, ServerChanges, rest
  <2>2. FlagsOK'
    BY DEF FlagsOK, ServerChanges, flags, session, decoding, streamer, rest
  <2>3. ThreadsOK'
    BY DEF ThreadsOK, Over, ServerChanges, flags, session, decoding, streamer,
         rest
  <2>4. ControlOK'
    <3>1. lock_count' \in {0, 1}
      BY DEF ControlOK, ServerChanges, flags, session, decoding, streamer, rest
    <3>2. ctl' \in [Controllers -> {"idle", "recv", "done"} \cup Stopping \cup Starting]
      BY DEF ControlOK, Controllers, Stopping, Starting, ServerChanges, flags,
           session, decoding, streamer, rest
    <3>3. fault' \subseteq {"closed twice", "started twice", "joined twice", "destroyed in use"}
      BY DEF ControlOK, ServerChanges, flags, session, decoding, streamer, rest
    <3> QED
      BY <3>1, <3>2, <3>3 DEF ControlOK, Controllers, Stopping, Starting
  <2> QED
    BY <2>1, <2>2, <2>3, <2>4
<1>34. ASSUME Elapse PROVE TypeOK'
  <2> USE <1>34 DEF TypeOK
  <2>1. UsedOK'
    BY UsedKept DEF Elapse, rest
  <2>2. FlagsOK'
    BY DEF FlagsOK, Elapse, flags, session, decoding, streamer, rest
  <2>3. ThreadsOK'
    BY DEF ThreadsOK, Over, Elapse, flags, session, decoding, streamer, rest
  <2>4. ControlOK'
    <3>1. lock_count' \in {0, 1}
      BY DEF ControlOK, Elapse, flags, session, decoding, streamer, rest
    <3>2. ctl' \in [Controllers -> {"idle", "recv", "done"} \cup Stopping \cup Starting]
      BY DEF ControlOK, Controllers, Stopping, Starting, Elapse, flags,
           session, decoding, streamer, rest
    <3>3. fault' \subseteq {"closed twice", "started twice", "joined twice", "destroyed in use"}
      BY DEF ControlOK, Elapse, flags, session, decoding, streamer, rest
    <3> QED
      BY <3>1, <3>2, <3>3 DEF ControlOK, Controllers, Stopping, Starting
  <2> QED
    BY <2>1, <2>2, <2>3, <2>4
<1>35. CASE UNCHANGED vars
  <2> USE <1>35 DEF TypeOK
  <2>1. UsedOK'
    BY UsedKept DEF vars, rest
  <2>2. FlagsOK'
    BY DEF FlagsOK, vars, flags, session, decoding, streamer, rest
  <2>3. ThreadsOK'
    BY DEF ThreadsOK, Over, vars, flags, session, decoding, streamer, rest
  <2>4. ControlOK'
    <3>1. lock_count' \in {0, 1}
      BY DEF ControlOK, vars, flags, session, decoding, streamer, rest
    <3>2. ctl' \in [Controllers -> {"idle", "recv", "done"} \cup Stopping \cup Starting]
      BY DEF ControlOK, Controllers, Stopping, Starting, vars, flags, session,
           decoding, streamer, rest
    <3>3. fault' \subseteq {"closed twice", "started twice", "joined twice", "destroyed in use"}
      BY DEF ControlOK, vars, flags, session, decoding, streamer, rest
    <3> QED
      BY <3>1, <3>2, <3>3 DEF ControlOK, Controllers, Stopping, Starting
  <2> QED
    BY <2>1, <2>2, <2>3, <2>4
<1> QED
  BY <1>1, <1>2, <1>3, <1>4, <1>5, <1>6, <1>7, <1>8, <1>9, <1>10, <1>11, <1>12,
       <1>13, <1>14, <1>15, <1>16, <1>17, <1>18, <1>19, <1>20, <1>21, <1>22,
       <1>23, <1>24, <1>25, <1>26, <1>27, <1>28, <1>29, <1>30, <1>31, <1>32,
       <1>33, <1>34, <1>35
  DEF Next, SessionThread, EventLoop, Reload, Controller

(* As long as nothing has overlapped, every step keeps the rest too.       *)
THEOREM StreamSoundStep ==
  ASSUME TypeOK, Sound, ~overlapped', [Next]_vars
  PROVE  Sound'
<1>1. ASSUME StartLoop PROVE Sound'
  <2> USE <1>1 DEF TypeOK, FlagsOK, ThreadsOK, ControlOK
  <2> QED
    BY ZenonT(60) DEF Sound, OneController, SessionFlag, DecoderFlag,
         ClientOwned, StopProgress, NothingYet, ActiveStarted, NoFault,
         StartLoop, ThreadAt, Busy, Stopping, Starting, Over, Controllers,
         flags, session, decoding, streamer, rest
<1>2. ASSUME TestRunning PROVE Sound'
  <2> USE <1>2 DEF TypeOK, FlagsOK, ThreadsOK, ControlOK
  <2> QED
    BY ZenonT(60) DEF Sound, OneController, SessionFlag, DecoderFlag,
         ClientOwned, StopProgress, NothingYet, ActiveStarted, NoFault,
         TestRunning, ThreadAt, Busy, Stopping, Starting, Over, Controllers,
         flags, session, decoding, streamer, rest
<1>3. ASSUME OpenURL PROVE Sound'
  <2> USE <1>3 DEF TypeOK, FlagsOK, ThreadsOK, ControlOK
  <2>1. OneController'
    BY DEF Sound, OneController, OpenURL, ThreadAt, Reconnect, Busy, Stopping,
         Starting, Over, Controllers, flags, session, decoding, streamer, rest
  <2>2. SessionFlag'
    BY DEF Sound, SessionFlag, OpenURL, ThreadAt, Reconnect, Busy, Stopping,
         Starting, Over, Controllers, flags, session, decoding, streamer, rest
  <2>3. DecoderFlag'
    BY DEF Sound, DecoderFlag, OpenURL, ThreadAt, Reconnect, Busy, Stopping,
         Starting, Over, Controllers, flags, session, decoding, streamer, rest
  <2>4. ClientOwned'
    BY DEF Sound, ClientOwned, OpenURL, ThreadAt, Reconnect, Busy, Stopping,
         Starting, Over, Controllers, flags, session, decoding, streamer, rest
  <2>5. StopProgress'
    BY DEF Sound, StopProgress, OneController, OpenURL, ThreadAt, Reconnect,
         Busy, Stopping, Starting, Over, Controllers, flags, session, decoding,
         streamer, rest
  <2>6. NothingYet'
    BY DEF Sound, NothingYet, OpenURL, ThreadAt, Reconnect, Busy, Stopping,
         Starting, Over, Controllers, flags, session, decoding, streamer, rest
  <2>7. ActiveStarted'
    BY DEF Sound, ActiveStarted, OpenURL, ThreadAt, Reconnect, Busy, Stopping,
         Starting, Over, Controllers, flags, session, decoding, streamer, rest
  <2>8. NoFault'
    BY DEF Sound, NoFault, OpenURL, ThreadAt, Reconnect, Busy, Stopping,
         Starting, Over, Controllers, flags, session, decoding, streamer, rest
  <2> QED
    BY <2>1, <2>2, <2>3, <2>4, <2>5, <2>6, <2>7, <2>8 DEF Sound
<1>4. ASSUME EnterEventLoop PROVE Sound'
  <2> USE <1>4 DEF TypeOK, FlagsOK, ThreadsOK, ControlOK
  <2> QED
    BY ZenonT(60) DEF Sound, OneController, SessionFlag, DecoderFlag,
         ClientOwned, StopProgress, NothingYet, ActiveStarted, NoFault,
         EnterEventLoop, ThreadAt, Busy, Stopping, Starting, Over, Controllers,
         flags, session, decoding, streamer, rest
<1>5. ASSUME LeaveEventLoop PROVE Sound'
  <2> USE <1>5 DEF TypeOK, FlagsOK, ThreadsOK, ControlOK
  <2> QED
    BY ZenonT(60) DEF Sound, OneController, SessionFlag, DecoderFlag,
         ClientOwned, StopProgress, NothingYet, ActiveStarted, NoFault,
         LeaveEventLoop, ThreadAt, Busy, Stopping, Starting, Over, Controllers,
         flags, session, decoding, streamer, rest
<1>6. ASSUME CloseClient PROVE Sound'
  <2> USE <1>6 DEF TypeOK, FlagsOK, ThreadsOK, ControlOK
  <2>1. OneController'
    BY DEF Sound, OneController, CloseClient, ThreadAt, Busy, Stopping,
         Starting, Over, Controllers, flags, session, decoding, streamer, rest
  <2>2. SessionFlag'
    BY DEF Sound, SessionFlag, CloseClient, ThreadAt, Busy, Stopping, Starting,
         Over, Controllers, flags, session, decoding, streamer, rest
  <2>3. DecoderFlag'
    BY DEF Sound, DecoderFlag, CloseClient, ThreadAt, Busy, Stopping, Starting,
         Over, Controllers, flags, session, decoding, streamer, rest
  <2>4. ClientOwned'
    BY DEF Sound, ClientOwned, CloseClient, ThreadAt, Busy, Stopping, Starting,
         Over, Controllers, flags, session, decoding, streamer, rest
  <2>5. StopProgress'
    BY DEF Sound, StopProgress, OneController, CloseClient, ThreadAt, Busy,
         Stopping, Starting, Over, Controllers, flags, session, decoding,
         streamer, rest
  <2>6. NothingYet'
    BY DEF Sound, NothingYet, CloseClient, ThreadAt, Busy, Stopping, Starting,
         Over, Controllers, flags, session, decoding, streamer, rest
  <2>7. ActiveStarted'
    BY DEF Sound, ActiveStarted, CloseClient, ThreadAt, Busy, Stopping,
         Starting, Over, Controllers, flags, session, decoding, streamer, rest
  <2>8. NoFault'
    BY DEF Sound, NoFault, CloseClient, ThreadAt, Busy, Stopping, Starting,
         Over, Controllers, flags, session, decoding, streamer, rest
  <2> QED
    BY <2>1, <2>2, <2>3, <2>4, <2>5, <2>6, <2>7, <2>8 DEF Sound
<1>7. ASSUME TestReconnect PROVE Sound'
  <2> USE <1>7 DEF TypeOK, FlagsOK, ThreadsOK, ControlOK
  <2> QED
    BY ZenonT(60) DEF Sound, OneController, SessionFlag, DecoderFlag,
         ClientOwned, StopProgress, NothingYet, ActiveStarted, NoFault,
         TestReconnect, ThreadAt, Busy, Stopping, Starting, Over, Controllers,
         flags, session, decoding, streamer, rest
<1>8. ASSUME WaitLocker PROVE Sound'
  <2> USE <1>8 DEF TypeOK, FlagsOK, ThreadsOK, ControlOK
  <2> QED
    BY ZenonT(60) DEF Sound, OneController, SessionFlag, DecoderFlag,
         ClientOwned, StopProgress, NothingYet, ActiveStarted, NoFault,
         WaitLocker, ThreadAt, Busy, Stopping, Starting, Over, Controllers,
         flags, session, decoding, streamer, rest
<1>9. ASSUME ContinueAfterDESCRIBE PROVE Sound'
  <2> USE <1>9 DEF TypeOK, FlagsOK, ThreadsOK, ControlOK
  <2> QED
    BY ZenonT(60) DEF Sound, OneController, SessionFlag, DecoderFlag,
         ClientOwned, StopProgress, NothingYet, ActiveStarted, NoFault,
         ContinueAfterDESCRIBE, SetupNextSubsession, Handler, ThreadAt,
         Reconnect, Busy, Stopping, Starting, Over, Controllers, flags,
         session, decoding, streamer, rest
<1>10. ASSUME ContinueAfterSETUP PROVE Sound'
  <2> USE <1>10 DEF TypeOK, FlagsOK, ThreadsOK, ControlOK
  <2> QED
    BY ZenonT(60) DEF Sound, OneController, SessionFlag, DecoderFlag,
         ClientOwned, StopProgress, NothingYet, ActiveStarted, NoFault,
         ContinueAfterSETUP, SetupNextSubsession, Handler, ThreadAt, Busy,
         Stopping, Starting, Over, Controllers, flags, session, decoding,
         streamer, rest
<1>11. ASSUME ContinueAfterPLAY PROVE Sound'
  <2> USE <1>11 DEF TypeOK, FlagsOK, ThreadsOK, ControlOK
  <2> QED
    BY ZenonT(60) DEF Sound, OneController, SessionFlag, DecoderFlag,
         ClientOwned, StopProgress, NothingYet, ActiveStarted, NoFault,
         ContinueAfterPLAY, Handler, ThreadAt, Busy, Stopping, Starting, Over,
         Controllers, flags, session, decoding, streamer, rest
<1>12. ASSUME NEW s \in {"play", "playing"}, SubsessionAfterPlaying(s) PROVE Sound'
  <2> USE <1>12 DEF TypeOK, FlagsOK, ThreadsOK, ControlOK
  <2> QED
    BY ZenonT(60) DEF Sound, OneController, SessionFlag, DecoderFlag,
         ClientOwned, StopProgress, NothingYet, ActiveStarted, NoFault,
         SubsessionAfterPlaying, Handler, ThreadAt, Busy, Stopping, Starting,
         Over, Controllers, flags, session, decoding, streamer, rest
<1>13. ASSUME StreamTimerHandler PROVE Sound'
  <2> USE <1>13 DEF TypeOK, FlagsOK, ThreadsOK, ControlOK
  <2> QED
    BY ZenonT(60) DEF Sound, OneController, SessionFlag, DecoderFlag,
         ClientOwned, StopProgress, NothingYet, ActiveStarted, NoFault,
         StreamTimerHandler, Handler, ThreadAt, Reconnect, Busy, Stopping,
         Starting, Over, Controllers, flags, session, decoding, streamer, rest
<1>14. ASSUME OnVideoFrameReceived PROVE Sound'
  <2> USE <1>14 DEF TypeOK, FlagsOK, ThreadsOK, ControlOK
  <2> QED
    BY ZenonT(60) DEF Sound, OneController, SessionFlag, DecoderFlag,
         ClientOwned, StopProgress, NothingYet, ActiveStarted, NoFault,
         OnVideoFrameReceived, Handler, ThreadAt, Busy, Stopping, Starting,
         Over, Controllers, flags, session, decoding, streamer, rest
<1>15. ASSUME DecoderStart PROVE Sound'
  <2> USE <1>15 DEF TypeOK, FlagsOK, ThreadsOK, ControlOK
  <2>1. OneController'
    BY DEF Sound, OneController, DecoderStart, Busy, Stopping, Starting, Over,
         Controllers, flags, session, decoding, streamer, rest
  <2>2. SessionFlag'
    BY DEF Sound, SessionFlag, DecoderStart, Busy, Stopping, Starting, Over,
         Controllers, flags, session, decoding, streamer, rest
  <2>3. DecoderFlag'
    BY DEF Sound, DecoderFlag, DecoderStart, Busy, Stopping, Starting, Over,
         Controllers, flags, session, decoding, streamer, rest
  <2>4. ClientOwned'
    BY DEF Sound, ClientOwned, DecoderStart, Busy, Stopping, Starting, Over,
         Controllers, flags, session, decoding, streamer, rest
  <2>5. StopProgress'
    BY DEF Sound, StopProgress, OneController, DecoderStart, Busy, Stopping,
         Starting, Over, Controllers, flags, session, decoding, streamer, rest
  <2>6. NothingYet'
    BY DEF Sound, NothingYet, DecoderStart, Busy, Stopping, Starting, Over,
         Controllers, flags, session, decoding, streamer, rest
  <2>7. ActiveStarted'
    BY DEF Sound, ActiveStarted, DecoderStart, Busy, Stopping, Starting, Over,
         Controllers, flags, session, decoding, streamer, rest
  <2>8. NoFault'
    BY DEF Sound, NoFault, DecoderStart, Busy, Stopping, Starting, Over,
         Controllers, flags, session, decoding, streamer, rest
  <2> QED
    BY <2>1, <2>2, <2>3, <2>4, <2>5, <2>6, <2>7, <2>8 DEF Sound
<1>16. ASSUME DecoderEnd PROVE Sound'
  <2> USE <1>16 DEF TypeOK, FlagsOK, ThreadsOK, ControlOK
  <2>1. OneController'
    BY DEF Sound, OneController, DecoderEnd, Busy, Stopping, Starting, Over,
         Controllers, flags, session, decoding, streamer, rest
  <2>2. SessionFlag'
    BY DEF Sound, SessionFlag, DecoderEnd, Busy, Stopping, Starting, Over,
         Controllers, flags, session, decoding, streamer, rest
  <2>3. DecoderFlag'
    BY DEF Sound, DecoderFlag, DecoderEnd, Busy, Stopping, Starting, Over,
         Controllers, flags, session, decoding, streamer, rest
  <2>4. ClientOwned'
    BY DEF Sound, ClientOwned, DecoderEnd, Busy, Stopping, Starting, Over,
         Controllers, flags, session, decoding, streamer, rest
  <2>5. StopProgress'
    BY DEF Sound, StopProgress, OneController, DecoderEnd, Busy, Stopping,
         Starting, Over, Controllers, flags, session, decoding, streamer, rest
  <2>6. NothingYet'
    BY DEF Sound, NothingYet, DecoderEnd, Busy, Stopping, Starting, Over,
         Controllers, flags, session, decoding, streamer, rest
  <2>7. ActiveStarted'
    BY DEF Sound, ActiveStarted, DecoderEnd, Busy, Stopping, Starting, Over,
         Controllers, flags, session, decoding, streamer, rest
  <2>8. NoFault'
    BY DEF Sound, NoFault, DecoderEnd, Busy, Stopping, Starting, Over,
         Controllers, flags, session, decoding, streamer, rest
  <2> QED
    BY <2>1, <2>2, <2>3, <2>4, <2>5, <2>6, <2>7, <2>8 DEF Sound
<1>17. ASSUME LoadCamerasPbFile PROVE Sound'
  <2> USE <1>17 DEF TypeOK, FlagsOK, ThreadsOK, ControlOK
  <2>1. OneController'
    BY DEF Sound, OneController, LoadCamerasPbFile, Begins, Goto, Busy,
         Stopping, Starting, Over, Controllers, flags, session, decoding,
         streamer, rest
  <2>2. SessionFlag'
    BY DEF Sound, SessionFlag, LoadCamerasPbFile, Begins, Goto, Busy, Stopping,
         Starting, Over, Controllers, flags, session, decoding, streamer, rest
  <2>3. DecoderFlag'
    BY DEF Sound, DecoderFlag, LoadCamerasPbFile, Begins, Goto, Busy, Stopping,
         Starting, Over, Controllers, flags, session, decoding, streamer, rest
  <2>4. ClientOwned'
    BY DEF Sound, ClientOwned, LoadCamerasPbFile, Begins, Goto, Busy, Stopping,
         Starting, Over, Controllers, flags, session, decoding, streamer, rest
  <2>5. StopProgress'
    BY DEF Sound, StopProgress, OneController, NothingYet, LoadCamerasPbFile,
         Begins, Goto, Busy, Stopping, Starting, Over, Controllers, flags,
         session, decoding, streamer, rest
  <2>6. NothingYet'
    BY DEF Sound, NothingYet, LoadCamerasPbFile, Begins, Goto, Busy, Stopping,
         Starting, Over, Controllers, flags, session, decoding, streamer, rest
  <2>7. ActiveStarted'
    BY DEF Sound, ActiveStarted, LoadCamerasPbFile, Begins, Goto, Busy,
         Stopping, Starting, Over, Controllers, flags, session, decoding,
         streamer, rest
  <2>8. NoFault'
    BY DEF Sound, NoFault, LoadCamerasPbFile, Begins, Goto, Busy, Stopping,
         Starting, Over, Controllers, flags, session, decoding, streamer, rest
  <2> QED
    BY <2>1, <2>2, <2>3, <2>4, <2>5, <2>6, <2>7, <2>8 DEF Sound
<1>18. ASSUME OnTimerCheckStream PROVE Sound'
  <2> USE <1>18 DEF TypeOK, FlagsOK, ThreadsOK, ControlOK
  <2>1. OneController'
    BY DEF Sound, OneController, OnTimerCheckStream, CheckStream, Begins, Goto,
         Busy, Stopping, Starting, Over, Controllers, flags, session, decoding,
         streamer, rest
  <2>2. SessionFlag'
    BY DEF Sound, SessionFlag, OnTimerCheckStream, CheckStream, Begins, Goto,
         Busy, Stopping, Starting, Over, Controllers, flags, session, decoding,
         streamer, rest
  <2>3. DecoderFlag'
    BY DEF Sound, DecoderFlag, OnTimerCheckStream, CheckStream, Begins, Goto,
         Busy, Stopping, Starting, Over, Controllers, flags, session, decoding,
         streamer, rest
  <2>4. ClientOwned'
    BY DEF Sound, ClientOwned, OnTimerCheckStream, CheckStream, Begins, Goto,
         Busy, Stopping, Starting, Over, Controllers, flags, session, decoding,
         streamer, rest
  <2>5. StopProgress'
    BY DEF Sound, StopProgress, OneController, NothingYet, OnTimerCheckStream,
         CheckStream, Begins, Goto, Busy, Stopping, Starting, Over,
         Controllers, flags, session, decoding, streamer, rest
  <2>6. NothingYet'
    BY DEF Sound, NothingYet, OnTimerCheckStream, CheckStream, Begins, Goto,
         Busy, Stopping, Starting, Over, Controllers, flags, session, decoding,
         streamer, rest
  <2>7. ActiveStarted'
    BY DEF Sound, ActiveStarted, OnTimerCheckStream, CheckStream, Begins, Goto,
         Busy, Stopping, Starting, Over, Controllers, flags, session, decoding,
         streamer, rest
  <2>8. NoFault'
    BY DEF Sound, NoFault, OnTimerCheckStream, CheckStream, Begins, Goto, Busy,
         Stopping, Starting, Over, Controllers, flags, session, decoding,
         streamer, rest
  <2> QED
    BY <2>1, <2>2, <2>3, <2>4, <2>5, <2>6, <2>7, <2>8 DEF Sound
<1>19. ASSUME StopChecks PROVE Sound'
  <2> USE <1>19 DEF TypeOK, FlagsOK, ThreadsOK, ControlOK
  <2>1. OneController'
    BY DEF Sound, OneController, StopChecks, At, Goto, Busy, Stopping,
         Starting, Over, Controllers, flags, session, decoding, streamer, rest
  <2>2. SessionFlag'
    BY DEF Sound, SessionFlag, StopChecks, At, Goto, Busy, Stopping, Starting,
         Over, Controllers, flags, session, decoding, streamer, rest
  <2>3. DecoderFlag'
    BY DEF Sound, DecoderFlag, StopChecks, At, Goto, Busy, Stopping, Starting,
         Over, Controllers, flags, session, decoding, streamer, rest
  <2>4. ClientOwned'
    BY DEF Sound, ClientOwned, StopChecks, At, Goto, Busy, Stopping, Starting,
         Over, Controllers, flags, session, decoding, streamer, rest
  <2>5. StopProgress'
    BY DEF Sound, StopProgress, OneController, StopChecks, At, Goto, Busy,
         Stopping, Starting, Over, Controllers, flags, session, decoding,
         streamer, rest
  <2>6. NothingYet'
    BY DEF Sound, NothingYet, StopChecks, At, Goto, Busy, Stopping, Starting,
         Over, Controllers, flags, session, decoding, streamer, rest
  <2>7. ActiveStarted'
    BY DEF Sound, ActiveStarted, StopChecks, At, Goto, Busy, Stopping,
         Starting, Over, Controllers, flags, session, decoding, streamer, rest
  <2>8. NoFault'
    BY DEF Sound, NoFault, StopChecks, At, Goto, Busy, Stopping, Starting,
         Over, Controllers, flags, session, decoding, streamer, rest
  <2> QED
    BY <2>1, <2>2, <2>3, <2>4, <2>5, <2>6, <2>7, <2>8 DEF Sound
<1>20. ASSUME StopReceiving PROVE Sound'
  <2> USE <1>20 DEF TypeOK, FlagsOK, ThreadsOK, ControlOK
  <2>1. OneController'
    BY DEF Sound, OneController, StopReceiving, At, Goto, Busy, Stopping,
         Starting, Over, Controllers, flags, session, decoding, streamer, rest
  <2>2. SessionFlag'
    BY DEF Sound, SessionFlag, StopReceiving, At, Goto, Busy, Stopping,
         Starting, Over, Controllers, flags, session, decoding, streamer, rest
  <2>3. DecoderFlag'
    BY DEF Sound, DecoderFlag, StopReceiving, At, Goto, Busy, Stopping,
         Starting, Over, Controllers, flags, session, decoding, streamer, rest
  <2>4. ClientOwned'
    BY DEF Sound, ClientOwned, StopReceiving, At, Goto, Busy, Stopping,
         Starting, Over, Controllers, flags, session, decoding, streamer, rest
  <2>5. StopProgress'
    BY DEF Sound, StopProgress, OneController, NothingYet, StopReceiving, At,
         Goto, Busy, Stopping, Starting, Over, Controllers, flags, session,
         decoding, streamer, rest
  <2>6. NothingYet'
    BY DEF Sound, NothingYet, StopReceiving, At, Goto, Busy, Stopping,
         Starting, Over, Controllers, flags, session, decoding, streamer, rest
  <2>7. ActiveStarted'
    BY DEF Sound, ActiveStarted, StopReceiving, At, Goto, Busy, Stopping,
         Starting, Over, Controllers, flags, session, decoding, streamer, rest
  <2>8. NoFault'
    BY DEF Sound, NoFault, StopReceiving, At, Goto, Busy, Stopping, Starting,
         Over, Controllers, flags, session, decoding, streamer, rest
  <2> QED
    BY <2>1, <2>2, <2>3, <2>4, <2>5, <2>6, <2>7, <2>8 DEF Sound
<1>21. ASSUME Finalize PROVE Sound'
  <2> USE <1>21 DEF TypeOK, FlagsOK, ThreadsOK, ControlOK
  <2>1. OneController'
    BY DEF Sound, OneController, Finalize, At, Goto, Busy, Stopping, Starting,
         Over, Controllers, flags, session, decoding, streamer, rest
  <2>2. SessionFlag'
    BY DEF Sound, SessionFlag, Finalize, At, Goto, Busy, Stopping, Starting,
         Over, Controllers, flags, session, decoding, streamer, rest
  <2>3. DecoderFlag'
    BY DEF Sound, DecoderFlag, Finalize, At, Goto, Busy, Stopping, Starting,
         Over, Controllers, flags, session, decoding, streamer, rest
  <2>4. ClientOwned'
    BY DEF Sound, ClientOwned, Finalize, At, Goto, Busy, Stopping, Starting,
         Over, Controllers, flags, session, decoding, streamer, rest
  <2>5. StopProgress'
    BY DEF Sound, StopProgress, OneController, Finalize, At, Goto, Busy,
         Stopping, Starting, Over, Controllers, flags, session, decoding,
         streamer, rest
  <2>6. NothingYet'
    BY DEF Sound, NothingYet, StopProgress, Finalize, At, Goto, Busy, Stopping,
         Starting, Over, Controllers, flags, session, decoding, streamer, rest
  <2>7. ActiveStarted'
    BY DEF Sound, ActiveStarted, Finalize, At, Goto, Busy, Stopping, Starting,
         Over, Controllers, flags, session, decoding, streamer, rest
  <2>8. NoFault'
    BY DEF Sound, NoFault, Finalize, At, Goto, Busy, Stopping, Starting, Over,
         Controllers, flags, session, decoding, streamer, rest
  <2> QED
    BY <2>1, <2>2, <2>3, <2>4, <2>5, <2>6, <2>7, <2>8 DEF Sound
<1>22. ASSUME Initialize PROVE Sound'
  <2> USE <1>22 DEF TypeOK, FlagsOK, ThreadsOK, ControlOK
  <2>1. OneController'
    BY DEF Sound, OneController, StopProgress, Initialize, At, Goto, Busy,
         Stopping, Starting, Over, Controllers, flags, session, decoding,
         streamer, rest
  <2>2. SessionFlag'
    BY DEF Sound, SessionFlag, Initialize, At, Goto, Busy, Stopping, Starting,
         Over, Controllers, flags, session, decoding, streamer, rest
  <2>3. DecoderFlag'
    BY DEF Sound, DecoderFlag, Initialize, At, Goto, Busy, Stopping, Starting,
         Over, Controllers, flags, session, decoding, streamer, rest
  <2>4. ClientOwned'
    BY DEF Sound, ClientOwned, Initialize, At, Goto, Busy, Stopping, Starting,
         Over, Controllers, flags, session, decoding, streamer, rest
  <2>5. StopProgress'
    BY DEF Sound, StopProgress, OneController, Initialize, At, Goto, Busy,
         Stopping, Starting, Over, Controllers, flags, session, decoding,
         streamer, rest
  <2>6. NothingYet'
    BY DEF Sound, NothingYet, StopProgress, Initialize, At, Goto, Busy,
         Stopping, Starting, Over, Controllers, flags, session, decoding,
         streamer, rest
  <2>7. ActiveStarted'
    BY DEF Sound, ActiveStarted, Initialize, At, Goto, Busy, Stopping,
         Starting, Over, Controllers, flags, session, decoding, streamer, rest
  <2>8. NoFault'
    BY DEF Sound, NoFault, Initialize, At, Goto, Busy, Stopping, Starting,
         Over, Controllers, flags, session, decoding, streamer, rest
  <2> QED
    BY <2>1, <2>2, <2>3, <2>4, <2>5, <2>6, <2>7, <2>8 DEF Sound
<1>23. ASSUME Replace PROVE Sound'
  <2> USE <1>23 DEF TypeOK, FlagsOK, ThreadsOK, ControlOK
  <2>1. OneController'
    BY DEF Sound, OneController, Replace, At, Goto, Unless, Faults, InUse,
         Busy, Stopping, Starting, Over, Controllers, flags, session, decoding,
         streamer, rest
  <2>2. SessionFlag'
    BY DEF Sound, SessionFlag, Replace, At, Goto, Unless, Faults, InUse, Busy,
         Stopping, Starting, Over, Controllers, flags, session, decoding,
         streamer, rest
  <2>3. DecoderFlag'
    BY DEF Sound, DecoderFlag, Replace, At, Goto, Unless, Faults, InUse, Busy,
         Stopping, Starting, Over, Controllers, flags, session, decoding,
         streamer, rest
  <2>4. ClientOwned'
    BY DEF Sound, ClientOwned, Replace, At, Goto, Unless, Faults, InUse, Busy,
         Stopping, Starting, Over, Controllers, flags, session, decoding,
         streamer, rest
  <2>5. StopProgress'
    BY DEF Sound, StopProgress, OneController, Replace, At, Goto, Unless,
         Faults, InUse, Busy, Stopping, Starting, Over, Controllers, flags,
         session, decoding, streamer, rest
  <2>6. NothingYet'
    BY DEF Sound, NothingYet, Replace, At, Goto, Unless, Faults, InUse, Busy,
         Stopping, Starting, Over, Controllers, flags, session, decoding,
         streamer, rest
  <2>7. ActiveStarted'
    BY DEF Sound, ActiveStarted, StopProgress, Replace, At, Goto, Unless,
         Faults, InUse, Busy, Stopping, Starting, Over, Controllers, flags,
         session, decoding, streamer, rest
  <2>8. NoFault'
    BY DEF Sound, NoFault, OneController, StopProgress, Replace, At, Goto,
         Unless, Faults, InUse, Busy, Stopping, Starting, Over, Controllers,
         flags, session, decoding, streamer, rest
  <2> QED
    BY <2>1, <2>2, <2>3, <2>4, <2>5, <2>6, <2>7, <2>8 DEF Sound
<1>24. ASSUME NEW c \in Controllers, SetWatch(c) PROVE Sound'
  <2> USE <1>24 DEF TypeOK, FlagsOK, ThreadsOK, ControlOK
  <2>1. OneController'
    <3>1. CASE initialized
      BY <3>1 DEF Sound, OneController, SetWatch, At, Goto, Busy, Stopping, Starting, Over,
             Controllers, flags, session, decoding, streamer, rest
    <3>2. CASE ~initialized
      <4>1. ctl' = [ctl EXCEPT ![c] = AfterStop(c)] /\ ctl[c] = "watch"
        BY <3>2 DEF SetWatch, At, Goto
      <4>2. c # "check"
        BY <3>2, <4>1 DEF Sound, StopProgress
      <4>3. CASE c = "recv"
        BY <4>1, <4>3 DEF Sound, OneController, AfterStop, Busy, Stopping, Starting,
             Controllers
      <4>4. CASE c = "main"
        BY <4>1, <4>4 DEF Sound, OneController, AfterStop, Busy, Stopping, Starting,
             Controllers
      <4> QED
        BY <4>2, <4>3, <4>4 DEF Controllers
    <3> QED
      BY <3>1, <3>2
  <2>2. SessionFlag'
    BY DEF Sound, SessionFlag, SetWatch, AfterStop, At, Goto, Busy, Stopping,
         Starting, Over, Controllers, flags, session, decoding, streamer, rest
  <2>3. DecoderFlag'
    BY DEF Sound, DecoderFlag, SetWatch, AfterStop, At, Goto, Busy, Stopping,
         Starting, Over, Controllers, flags, session, decoding, streamer, rest
  <2>4. ClientOwned'
    BY DEF Sound, ClientOwned, SetWatch, AfterStop, At, Goto, Busy, Stopping,
         Starting, Over, Controllers, flags, session, decoding, streamer, rest
  <2>5. StopProgress'
    <3>1. CASE initialized
      BY <3>1 DEF Sound, StopProgress, OneController, SetWatch, At, Goto, Busy, Stopping, Starting, Over,
             Controllers, flags, session, decoding, streamer, rest
    <3>2. CASE ~initialized
      <4>1. /\ ctl' = [ctl EXCEPT ![c] = AfterStop(c)] /\ ctl[c] = "watch"
            /\ UNCHANGED <<thread, decoder, active, initialized>>
        BY <3>2 DEF SetWatch, At, Goto, session, decoding, streamer
      <4>2. c # "check"
        BY <3>2, <4>1 DEF Sound, StopProgress
      <4>3. thread = "none" /\ decoder = "none" /\ ~active
        BY <3>2 DEF Sound, NothingYet
      <4>4. CASE c = "recv"
        BY <3>2, <4>1, <4>3, <4>4 DEF Sound, StopProgress, AfterStop, Stopping,
             Starting, Controllers
      <4>5. CASE c = "main"
        BY <3>2, <4>1, <4>3, <4>5 DEF Sound, StopProgress, AfterStop, Stopping,
             Starting, Controllers
      <4> QED
        BY <4>2, <4>4, <4>5 DEF Controllers
    <3> QED
      BY <3>1, <3>2
  <2>6. NothingYet'
    BY DEF Sound, NothingYet, SetWatch, AfterStop, At, Goto, Busy, Stopping,
         Starting, Over, Controllers, flags, session, decoding, streamer, rest
  <2>7. ActiveStarted'
    BY DEF Sound, ActiveStarted, SetWatch, AfterStop, At, Goto, Busy, Stopping,
         Starting, Over, Controllers, flags, session, decoding, streamer, rest
  <2>8. NoFault'
    BY DEF Sound, NoFault, SetWatch, AfterStop, At, Goto, Busy, Stopping,
         Starting, Over, Controllers, flags, session, decoding, streamer, rest
  <2> QED
    BY <2>1, <2>2, <2>3, <2>4, <2>5, <2>6, <2>7, <2>8 DEF Sound
<1>25. ASSUME NEW c \in Controllers, ClearRunning(c) PROVE Sound'
  <2> USE <1>25 DEF TypeOK, FlagsOK, ThreadsOK, ControlOK
  <2>1. OneController'
    BY DEF Sound, OneController, ClearRunning, At, Goto, Busy, Stopping,
         Starting, Over, Controllers, flags, session, decoding, streamer, rest
  <2>2. SessionFlag'
    BY DEF Sound, SessionFlag, ClearRunning, At, Goto, Busy, Stopping,
         Starting, Over, Controllers, flags, session, decoding, streamer, rest
  <2>3. DecoderFlag'
    BY DEF Sound, DecoderFlag, ClearRunning, At, Goto, Busy, Stopping,
         Starting, Over, Controllers, flags, session, decoding, streamer, rest
  <2>4. ClientOwned'
    BY DEF Sound, ClientOwned, ClearRunning, At, Goto, Busy, Stopping,
         Starting, Over, Controllers, flags, session, decoding, streamer, rest
  <2>5. StopProgress'
    BY DEF Sound, StopProgress, OneController, ClearRunning, At, Goto, Busy,
         Stopping, Starting, Over, Controllers, flags, session, decoding,
         streamer, rest
  <2>6. NothingYet'
    BY DEF Sound, NothingYet, ClearRunning, At, Goto, Busy, Stopping, Starting,
         Over, Controllers, flags, session, decoding, streamer, rest
  <2>7. ActiveStarted'
    BY DEF Sound, ActiveStarted, ClearRunning, At, Goto, Busy, Stopping,
         Starting, Over, Controllers, flags, session, decoding, streamer, rest
  <2>8. NoFault'
    BY DEF Sound, NoFault, ClearRunning, At, Goto, Busy, Stopping, Starting,
         Over, Controllers, flags, session, decoding, streamer, rest
  <2> QED
    BY <2>1, <2>2, <2>3, <2>4, <2>5, <2>6, <2>7, <2>8 DEF Sound
<1>26. ASSUME NEW c \in Controllers, WakeThread(c) PROVE Sound'
  <2> USE <1>26 DEF TypeOK, FlagsOK, ThreadsOK, ControlOK
  <2>1. OneController'
    BY DEF Sound, OneController, WakeThread, WakeTo, At, Goto, Busy, Stopping,
         Starting, Over, Controllers, flags, session, decoding, streamer, rest
  <2>2. SessionFlag'
    BY DEF Sound, SessionFlag, WakeThread, WakeTo, At, Goto, Busy, Stopping,
         Starting, Over, Controllers, flags, session, decoding, streamer, rest
  <2>3. DecoderFlag'
    BY DEF Sound, DecoderFlag, WakeThread, WakeTo, At, Goto, Busy, Stopping,
         Starting, Over, Controllers, flags, session, decoding, streamer, rest
  <2>4. ClientOwned'
    BY DEF Sound, ClientOwned, WakeThread, WakeTo, At, Goto, Busy, Stopping,
         Starting, Over, Controllers, flags, session, decoding, streamer, rest
  <2>5. StopProgress'
    BY DEF Sound, StopProgress, OneController, WakeThread, WakeTo, At, Goto,
         Busy, Stopping, Starting, Over, Controllers, flags, session, decoding,
         streamer, rest
  <2>6. NothingYet'
    BY DEF Sound, NothingYet, WakeThread, WakeTo, At, Goto, Busy, Stopping,
         Starting, Over, Controllers, flags, session, decoding, streamer, rest
  <2>7. ActiveStarted'
    BY DEF Sound, ActiveStarted, WakeThread, WakeTo, At, Goto, Busy, Stopping,
         Starting, Over, Controllers, flags, session, decoding, streamer, rest
  <2>8. NoFault'
    BY DEF Sound, NoFault, WakeThread, WakeTo, At, Goto, Busy, Stopping,
         Starting, Over, Controllers, flags, session, decoding, streamer, rest
  <2> QED
    BY <2>1, <2>2, <2>3, <2>4, <2>5, <2>6, <2>7, <2>8 DEF Sound
<1>27. ASSUME NEW c \in Controllers, JoinSession(c) PROVE Sound'
  <2> USE <1>27 DEF TypeOK, FlagsOK, ThreadsOK, ControlOK
  <2>1. OneController'
    <3>1. ctl[c] = "join" /\ Busy(c)
      BY DEF JoinSession, JoinWhen, At, Busy, Stopping
    <3>2. \A d \in Controllers \ {c} : ctl[d] # "join"
      BY <3>1 DEF Sound, OneController, Busy, Stopping
    <3>3. ctl' = [ctl EXCEPT ![c] = "dec"]
      BY <3>2 DEF JoinSession, JoinWhen, Joins
    <3> QED
      BY <3>1, <3>3 DEF Sound, OneController, Busy, Stopping, Starting, Controllers
  <2>2. SessionFlag'
    BY DEF Sound, SessionFlag, JoinSession, JoinWhen, Joins, At, Busy,
         Stopping, Starting, Over, Controllers, flags, session, decoding,
         streamer, rest
  <2>3. DecoderFlag'
    BY DEF Sound, DecoderFlag, JoinSession, JoinWhen, Joins, At, Busy,
         Stopping, Starting, Over, Controllers, flags, session, decoding,
         streamer, rest
  <2>4. ClientOwned'
    BY DEF Sound, ClientOwned, JoinSession, JoinWhen, Joins, At, Busy,
         Stopping, Starting, Over, Controllers, flags, session, decoding,
         streamer, rest
  <2>5. StopProgress'
    BY DEF Sound, StopProgress, OneController, JoinSession, JoinWhen, Joins,
         At, Busy, Stopping, Starting, Over, Controllers, flags, session,
         decoding, streamer, rest
  <2>6. NothingYet'
    BY DEF Sound, NothingYet, JoinSession, JoinWhen, Joins, At, Busy, Stopping,
         Starting, Over, Controllers, flags, session, decoding, streamer, rest
  <2>7. ActiveStarted'
    BY DEF Sound, ActiveStarted, JoinSession, JoinWhen, Joins, At, Busy,
         Stopping, Starting, Over, Controllers, flags, session, decoding,
         streamer, rest
  <2>8. NoFault'
    BY DEF Sound, NoFault, JoinSession, JoinWhen, Joins, At, Busy, Stopping,
         Starting, Over, Controllers, flags, session, decoding, streamer, rest
  <2> QED
    BY <2>1, <2>2, <2>3, <2>4, <2>5, <2>6, <2>7, <2>8 DEF Sound
<1>28. ASSUME NEW c \in Controllers, StopDecoder(c) PROVE Sound'
  <2> USE <1>28 DEF TypeOK, FlagsOK, ThreadsOK, ControlOK
  <2>1. OneController'
    BY DEF Sound, OneController, StopDecoder, At, Goto, Busy, Stopping,
         Starting, Over, Controllers, flags, session, decoding, streamer, rest
  <2>2. SessionFlag'
    BY DEF Sound, SessionFlag, StopDecoder, At, Goto, Busy, Stopping, Starting,
         Over, Controllers, flags, session, decoding, streamer, rest
  <2>3. DecoderFlag'
    BY DEF Sound, DecoderFlag, StopDecoder, At, Goto, Busy, Stopping, Starting,
         Over, Controllers, flags, session, decoding, streamer, rest
  <2>4. ClientOwned'
    BY DEF Sound, ClientOwned, StopDecoder, At, Goto, Busy, Stopping, Starting,
         Over, Controllers, flags, session, decoding, streamer, rest
  <2>5. StopProgress'
    BY DEF Sound, StopProgress, OneController, StopDecoder, At, Goto, Busy,
         Stopping, Starting, Over, Controllers, flags, session, decoding,
         streamer, rest
  <2>6. NothingYet'
    BY DEF Sound, NothingYet, StopDecoder, At, Goto, Busy, Stopping, Starting,
         Over, Controllers, flags, session, decoding, streamer, rest
  <2>7. ActiveStarted'
    BY DEF Sound, ActiveStarted, StopDecoder, At, Goto, Busy, Stopping,
         Starting, Over, Controllers, flags, session, decoding, streamer, rest
  <2>8. NoFault'
    BY DEF Sound, NoFault, StopDecoder, At, Goto, Busy, Stopping, Starting,
         Over, Controllers, flags, session, decoding, streamer, rest
  <2> QED
    BY <2>1, <2>2, <2>3, <2>4, <2>5, <2>6, <2>7, <2>8 DEF Sound
<1>29. ASSUME NEW c \in Controllers, JoinDecoder(c) PROVE Sound'
  <2> USE <1>29 DEF TypeOK, FlagsOK, ThreadsOK, ControlOK
  <2>1. OneController'
    <3>1. ctl[c] = "joindec" /\ Busy(c)
      BY DEF JoinDecoder, DeactivateThen, At, Busy, Stopping
    <3>2. \A d \in Controllers \ {c} : ctl[d] # "joindec"
      BY <3>1 DEF Sound, OneController, Busy, Stopping
    <3>3. ctl' = [ctl EXCEPT ![c] = AfterStop(c)]
      BY <3>2 DEF JoinDecoder, DeactivateThen, Joins
    <3>4. CASE c = "recv"
      BY <3>1, <3>3, <3>4 DEF Sound, OneController, AfterStop, Busy, Stopping,
           Starting, Controllers
    <3>5. CASE c = "check"
      BY <3>1, <3>3, <3>5 DEF Sound, OneController, AfterStop, Busy, Stopping,
           Starting, Controllers
    <3>6. CASE c = "main"
      BY <3>1, <3>3, <3>6 DEF Sound, OneController, AfterStop, Busy, Stopping,
           Starting, Controllers
    <3> QED
      BY <3>4, <3>5, <3>6 DEF Controllers
  <2>2. SessionFlag'
    BY DEF Sound, SessionFlag, JoinDecoder, DeactivateThen, Joins, AfterStop,
         At, Busy, Stopping, Starting, Over, Controllers, flags, session,
         decoding, streamer, rest
  <2>3. DecoderFlag'
    BY DEF Sound, DecoderFlag, OneController, JoinDecoder, DeactivateThen,
         Joins, AfterStop, At, Busy, Stopping, Starting, Over, Controllers,
         flags, session, decoding, streamer, rest
  <2>4. ClientOwned'
    BY DEF Sound, ClientOwned, JoinDecoder, DeactivateThen, Joins, AfterStop,
         At, Busy, Stopping, Starting, Over, Controllers, flags, session,
         decoding, streamer, rest
  <2>5. StopProgress'
    BY DEF Sound, StopProgress, OneController, ActiveStarted, JoinDecoder,
         DeactivateThen, Joins, AfterStop, At, Busy, Stopping, Starting, Over,
         Controllers, flags, session, decoding, streamer, rest
  <2>6. NothingYet'
    BY DEF Sound, NothingYet, JoinDecoder, DeactivateThen, Joins, AfterStop,
         At, Busy, Stopping, Starting, Over, Controllers, flags, session,
         decoding, streamer, rest
  <2>7. ActiveStarted'
    BY DEF Sound, ActiveStarted, JoinDecoder, DeactivateThen, Joins, AfterStop,
         At, Busy, Stopping, Starting, Over, Controllers, flags, session,
         decoding, streamer, rest
  <2>8. NoFault'
    BY DEF Sound, NoFault, JoinDecoder, DeactivateThen, Joins, AfterStop, At,
         Busy, Stopping, Starting, Over, Controllers, flags, session, decoding,
         streamer, rest
  <2> QED
    BY <2>1, <2>2, <2>3, <2>4, <2>5, <2>6, <2>7, <2>8 DEF Sound
<1>30. ASSUME NEW c \in Controllers, JoinedTwice(c) PROVE Sound'
  <2> USE <1>30 DEF TypeOK, FlagsOK, ThreadsOK, ControlOK
  <2>1. OneController'
    BY DEF Sound, OneController, JoinedTwice, Faults, At, Busy, Stopping,
         Starting, Over, Controllers, flags, session, decoding, streamer, rest
  <2>2. SessionFlag'
    BY DEF Sound, SessionFlag, JoinedTwice, Faults, At, Busy, Stopping,
         Starting, Over, Controllers, flags, session, decoding, streamer, rest
  <2>3. DecoderFlag'
    BY DEF Sound, DecoderFlag, JoinedTwice, Faults, At, Busy, Stopping,
         Starting, Over, Controllers, flags, session, decoding, streamer, rest
  <2>4. ClientOwned'
    BY DEF Sound, ClientOwned, JoinedTwice, Faults, At, Busy, Stopping,
         Starting, Over, Controllers, flags, session, decoding, streamer, rest
  <2>5. StopProgress'
    BY DEF Sound, StopProgress, OneController, JoinedTwice, Faults, At, Busy,
         Stopping, Starting, Over, Controllers, flags, session, decoding,
         streamer, rest
  <2>6. NothingYet'
    BY DEF Sound, NothingYet, JoinedTwice, Faults, At, Busy, Stopping,
         Starting, Over, Controllers, flags, session, decoding, streamer, rest
  <2>7. ActiveStarted'
    BY DEF Sound, ActiveStarted, JoinedTwice, Faults, At, Busy, Stopping,
         Starting, Over, Controllers, flags, session, decoding, streamer, rest
  <2>8. NoFault'
    BY DEF Sound, NoFault, OneController, JoinedTwice, Faults, At, Busy,
         Stopping, Starting, Over, Controllers, flags, session, decoding,
         streamer, rest
  <2> QED
    BY <2>1, <2>2, <2>3, <2>4, <2>5, <2>6, <2>7, <2>8 DEF Sound
<1>31. ASSUME NEW c \in Controllers, StartSession(c) PROVE Sound'
  <2> USE <1>31 DEF TypeOK, FlagsOK, ThreadsOK, ControlOK
  <2>1. OneController'
    BY DEF Sound, OneController, StartSession, Ends, Unless, Faults, At, Goto,
         Busy, Stopping, Starting, Over, Controllers, flags, session, decoding,
         streamer, rest
  <2>2. SessionFlag'
    BY DEF Sound, SessionFlag, StopProgress, OneController, StartSession, Ends,
         Unless, Faults, At, Goto, Busy, Stopping, Starting, Over, Controllers,
         flags, session, decoding, streamer, rest
  <2>3. DecoderFlag'
    BY DEF Sound, DecoderFlag, StartSession, Ends, Unless, Faults, At, Goto,
         Busy, Stopping, Starting, Over, Controllers, flags, session, decoding,
         streamer, rest
  <2>4. ClientOwned'
    BY DEF Sound, ClientOwned, StopProgress, StartSession, Ends, Unless,
         Faults, At, Goto, Busy, Stopping, Starting, Over, Controllers, flags,
         session, decoding, streamer, rest
  <2>5. StopProgress'
    BY DEF Sound, StopProgress, OneController, SessionFlag, StartSession, Ends,
         Unless, Faults, At, Goto, Busy, Stopping, Starting, Over, Controllers,
         flags, session, decoding, streamer, rest
  <2>6. NothingYet'
    BY DEF Sound, NothingYet, StopProgress, StartSession, Ends, Unless, Faults,
         At, Goto, Busy, Stopping, Starting, Over, Controllers, flags, session,
         decoding, streamer, rest
  <2>7. ActiveStarted'
    BY DEF Sound, ActiveStarted, StopProgress, StartSession, Ends, Unless,
         Faults, At, Goto, Busy, Stopping, Starting, Over, Controllers, flags,
         session, decoding, streamer, rest
  <2>8. NoFault'
    BY DEF Sound, NoFault, StopProgress, StartSession, Ends, Unless, Faults,
         At, Goto, Busy, Stopping, Starting, Over, Controllers, flags, session,
         decoding, streamer, rest
  <2> QED
    BY <2>1, <2>2, <2>3, <2>4, <2>5, <2>6, <2>7, <2>8 DEF Sound
<1>32. ASSUME NEW c \in Controllers, StartDecoder(c) PROVE Sound'
  <2> USE <1>32 DEF TypeOK, FlagsOK, ThreadsOK, ControlOK
  <2>1. OneController'
    BY DEF Sound, OneController, StartDecoder, DecoderFails, Ends, Unless,
         Faults, At, Goto, Busy, Stopping, Starting, Over, Controllers, flags,
         session, decoding, streamer, rest
  <2>2. SessionFlag'
    BY DEF Sound, SessionFlag, StartDecoder, DecoderFails, Ends, Unless,
         Faults, At, Goto, Busy, Stopping, Starting, Over, Controllers, flags,
         session, decoding, streamer, rest
  <2>3. DecoderFlag'
    BY DEF Sound, DecoderFlag, StopProgress, StartDecoder, DecoderFails, Ends,
         Unless, Faults, At, Goto, Busy, Stopping, Starting, Over, Controllers,
         flags, session, decoding, streamer, rest
  <2>4. ClientOwned'
    BY DEF Sound, ClientOwned, StartDecoder, DecoderFails, Ends, Unless,
         Faults, At, Goto, Busy, Stopping, Starting, Over, Controllers, flags,
         session, decoding, streamer, rest
  <2>5. StopProgress'
    BY DEF Sound, StopProgress, OneController, StartDecoder, DecoderFails,
         Ends, Unless, Faults, At, Goto, Busy, Stopping, Starting, Over,
         Controllers, flags, session, decoding, streamer, rest
  <2>6. NothingYet'
    BY DEF Sound, NothingYet, StopProgress, StartDecoder, DecoderFails, Ends,
         Unless, Faults, At, Goto, Busy, Stopping, Starting, Over, Controllers,
         flags, session, decoding, streamer, rest
  <2>7. ActiveStarted'
    BY DEF Sound, ActiveStarted, StopProgress, StartDecoder, DecoderFails,
         Ends, Unless, Faults, At, Goto, Busy, Stopping, Starting, Over,
         Controllers, flags, session, decoding, streamer, rest
  <2>8. NoFault'
    BY DEF Sound, NoFault, StopProgress, StartDecoder, DecoderFails, Ends,
         Unless, Faults, At, Goto, Busy, Stopping, Starting, Over, Controllers,
         flags, session, decoding, streamer, rest
  <2> QED
    BY <2>1, <2>2, <2>3, <2>4, <2>5, <2>6, <2>7, <2>8 DEF Sound
<1>33. ASSUME ServerChanges PROVE Sound'
  <2> USE <1>33 DEF TypeOK, FlagsOK, ThreadsOK, ControlOK
  <2>1. OneController'
    BY DEF Sound, OneController, ServerChanges, Busy, Stopping, Starting, Over,
         Controllers, flags, session, decoding, streamer, rest
  <2>2. SessionFlag'
    BY DEF Sound, SessionFlag, ServerChanges, Busy, Stopping, Starting, Over,
         Controllers, flags, session, decoding, streamer, rest
  <2>3. DecoderFlag'
    BY DEF Sound, DecoderFlag, ServerChanges, Busy, Stopping, Starting, Over,
         Controllers, flags, session, decoding, streamer, rest
  <2>4. ClientOwned'
    BY DEF Sound, ClientOwned, ServerChanges, Busy, Stopping, Starting, Over,
         Controllers, flags, session, decoding, streamer, rest
  <2>5. StopProgress'
    BY DEF Sound, StopProgress, OneController, ServerChanges, Busy, Stopping,
         Starting, Over, Controllers, flags, session, decoding, streamer, rest
  <2>6. NothingYet'
    BY DEF Sound, NothingYet, ServerChanges, Busy, Stopping, Starting, Over,
         Controllers, flags, session, decoding, streamer, rest
  <2>7. ActiveStarted'
    BY DEF Sound, ActiveStarted, ServerChanges, Busy, Stopping, Starting, Over,
         Controllers, flags, session, decoding, streamer, rest
  <2>8. NoFault'
    BY DEF Sound, NoFault, ServerChanges, Busy, Stopping, Starting, Over,
         Controllers, flags, session, decoding, streamer, rest
  <2> QED
    BY <2>1, <2>2, <2>3, <2>4, <2>5, <2>6, <2>7, <2>8 DEF Sound
<1>34. ASSUME Elapse PROVE Sound'
  <2> USE <1>34 DEF TypeOK, FlagsOK, ThreadsOK, ControlOK
  <2>1. OneController'
    BY DEF Sound, OneController, Elapse, Busy, Stopping, Starting, Over,
         Controllers, flags, session, decoding, streamer, rest
  <2>2. SessionFlag'
    BY DEF Sound, SessionFlag, Elapse, Busy, Stopping, Starting, Over,
         Controllers, flags, session, decoding, streamer, rest
  <2>3. DecoderFlag'
    BY DEF Sound, DecoderFlag, Elapse, Busy, Stopping, Starting, Over,
         Controllers, flags, session, decoding, streamer, rest
  <2>4. ClientOwned'
    BY DEF Sound, ClientOwned, Elapse, Busy, Stopping, Starting, Over,
         Controllers, flags, session, decoding, streamer, rest
  <2>5. StopProgress'
    BY DEF Sound, StopProgress, OneController, Elapse, Busy, Stopping,
         Starting, Over, Controllers, flags, session, decoding, streamer, rest
  <2>6. NothingYet'
    BY DEF Sound, NothingYet, Elapse, Busy, Stopping, Starting, Over,
         Controllers, flags, session, decoding, streamer, rest
  <2>7. ActiveStarted'
    BY DEF Sound, ActiveStarted, Elapse, Busy, Stopping, Starting, Over,
         Controllers, flags, session, decoding, streamer, rest
  <2>8. NoFault'
    BY DEF Sound, NoFault, Elapse, Busy, Stopping, Starting, Over, Controllers,
         flags, session, decoding, streamer, rest
  <2> QED
    BY <2>1, <2>2, <2>3, <2>4, <2>5, <2>6, <2>7, <2>8 DEF Sound
<1>35. CASE UNCHANGED vars
  <2> USE <1>35 DEF TypeOK, FlagsOK, ThreadsOK, ControlOK
  <2>1. OneController'
    BY DEF Sound, OneController, vars, Busy, Stopping, Starting, Over,
         Controllers, flags, session, decoding, streamer, rest
  <2>2. SessionFlag'
    BY DEF Sound, SessionFlag, vars, Busy, Stopping, Starting, Over,
         Controllers, flags, session, decoding, streamer, rest
  <2>3. DecoderFlag'
    BY DEF Sound, DecoderFlag, vars, Busy, Stopping, Starting, Over,
         Controllers, flags, session, decoding, streamer, rest
  <2>4. ClientOwned'
    BY DEF Sound, ClientOwned, vars, Busy, Stopping, Starting, Over,
         Controllers, flags, session, decoding, streamer, rest
  <2>5. StopProgress'
    BY DEF Sound, StopProgress, OneController, vars, Busy, Stopping, Starting,
         Over, Controllers, flags, session, decoding, streamer, rest
  <2>6. NothingYet'
    BY DEF Sound, NothingYet, vars, Busy, Stopping, Starting, Over,
         Controllers, flags, session, decoding, streamer, rest
  <2>7. ActiveStarted'
    BY DEF Sound, ActiveStarted, vars, Busy, Stopping, Starting, Over,
         Controllers, flags, session, decoding, streamer, rest
  <2>8. NoFault'
    BY DEF Sound, NoFault, vars, Busy, Stopping, Starting, Over, Controllers,
         flags, session, decoding, streamer, rest
  <2> QED
    BY <2>1, <2>2, <2>3, <2>4, <2>5, <2>6, <2>7, <2>8 DEF Sound
<1> QED
  BY <1>1, <1>2, <1>3, <1>4, <1>5, <1>6, <1>7, <1>8, <1>9, <1>10, <1>11, <1>12,
       <1>13, <1>14, <1>15, <1>16, <1>17, <1>18, <1>19, <1>20, <1>21, <1>22,
       <1>23, <1>24, <1>25, <1>26, <1>27, <1>28, <1>29, <1>30, <1>31, <1>32,
       <1>33, <1>34, <1>35
  DEF Next, SessionThread, EventLoop, Reload, Controller

(* An overlap is never forgotten. *)
LEMMA OverlapKept == ASSUME TypeOK, [Next]_vars, overlapped PROVE overlapped'
  BY Zenon DEF Next, SessionThread, EventLoop, Reload, Controller, StartLoop,
       TestRunning, OpenURL, EnterEventLoop, LeaveEventLoop, CloseClient,
       TestReconnect, WaitLocker, ContinueAfterDESCRIBE, ContinueAfterSETUP,
       ContinueAfterPLAY, SubsessionAfterPlaying, StreamTimerHandler,
       OnVideoFrameReceived, Handler, DecoderStart, DecoderEnd, LoadCamerasPbFile,
       OnTimerCheckStream, CheckStream, Begins, StopChecks, StopReceiving,
       Finalize, Initialize, Replace, SetWatch, ClearRunning, WakeThread, WakeTo,
       JoinSession, JoinWhen, StopDecoder, JoinDecoder, DeactivateThen,
       JoinedTwice, StartSession, StartDecoder, ServerChanges, Elapse, vars, rest

LEMMA StreamInit == ASSUME Init PROVE IInv
<1>1. UsedOK
  BY StreamAssumption DEF Init, UsedOK, Kinds, Bounds
<1>2. FlagsOK /\ ThreadsOK /\ ControlOK
  BY DEF Init, FlagsOK, ThreadsOK, ControlOK, Over, Controllers, Stopping, Starting
<1>3. OneController
  BY DEF Init, OneController, Busy, Stopping, Starting, Controllers
<1>4. SessionFlag /\ DecoderFlag /\ ClientOwned
  BY DEF Init, SessionFlag, DecoderFlag, ClientOwned
<1>5. StopProgress /\ NothingYet /\ ActiveStarted /\ NoFault
  BY DEF Init, StopProgress, Stopping, Starting, Controllers, NothingYet,
         ActiveStarted, NoFault
<1> QED
  BY <1>1, <1>2, <1>3, <1>4, <1>5 DEF IInv, TypeOK, Sound
----------------------------------------------------------------------------
(* The invariant holds throughout, with any number of reloads, outages,    *)
(* BYEs, expiries and failures, and whether or not a stop races with a     *)
(* thread that starts (Prompt is not assumed).                             *)
THEOREM StreamInductive == Spec => []IInv
<1>1. Init => IInv
  BY StreamInit
<1>2. IInv /\ [Next]_vars => IInv'
  BY StreamTypeStep, StreamSoundStep, OverlapKept DEF IInv
<1> QED
  BY <1>1, <1>2, PTL DEF Spec

(* Every variable of the stream keeps its range, overlaps included: the    *)
(* wait count of the session's Locker stays 0 or 1 however many stops wake *)
(* it.                                                                     *)
THEOREM StreamTypeCorrect == Spec => []TypeOK
<1>1. IInv => TypeOK
  BY DEF IInv
<1> QED
  BY <1>1, StreamInductive, PTL

(* Until a reload overlaps with a check, Streamer::Deactivate returns only *)
(* with both threads joined and the client closed, so Finalize destroys    *)
(* nothing that is in use.                                                 *)
THEOREM StreamStoppedAtRest == Spec => []StoppedAtRest
<1>1. IInv => StoppedAtRest
  <2> SUFFICES ASSUME IInv, ~overlapped,
                      \/ ctl["recv"] \in {"finalize", "init", "replace"}
                      \/ ctl["main"] = "done"
               PROVE  thread = "none" /\ decoder = "none" /\ client \in {"none",
                    "unsent"}
    BY DEF StoppedAtRest
  <2>1. thread = "none" /\ decoder = "none"
    BY DEF IInv, Sound, StopProgress, Controllers, Starting
  <2> QED
    BY <2>1 DEF IInv, Sound, ClientOwned
<1> QED
  BY <1>1, StreamInductive, PTL

(* Until a reload overlaps with a check, m_activate tells the truth        *)
(* whenever nobody is starting or stopping the stream: both threads are    *)
(* there and have not ended.                                               *)
THEOREM StreamActiveHasThreads == Spec => []ActiveHasThreads
<1>1. IInv => ActiveHasThreads
  <2> SUFFICES ASSUME IInv, ~overlapped, active, NobodyBusy
               PROVE  thread \notin Over /\ decoder \notin Over
    BY DEF ActiveHasThreads
  <2>1. \A c \in Controllers : ctl[c] \notin Stopping
    BY DEF NobodyBusy, Busy
  <2>2. thread # "none" /\ decoder # "none"
    BY <2>1 DEF IInv, Sound, ActiveStarted, Stopping
  <2>3. thread # "ended"
    BY <2>1 DEF IInv, Sound, SessionFlag, Stopping
  <2>4. decoder # "ended"
    BY <2>1 DEF IInv, Sound, DecoderFlag, Stopping
  <2> QED
    BY <2>2, <2>3, <2>4 DEF Over
<1> QED
  BY <1>1, StreamInductive, PTL

(* A thread started over another, joined twice or destroyed in use takes a *)
(* reload that overlaps with a check: one controller at a time never meets *)
(* a thread that it did not join, though it tells "already running" from a *)
(* flag the thread raises later.                                           *)
THEOREM StreamFaultsTakeOverlap == Spec => []FaultsTakeOverlap
<1>1. IInv => FaultsTakeOverlap
  BY DEF IInv, Sound, NoFault, FaultsTakeOverlap
<1> QED
  BY <1>1, StreamInductive, PTL
=============================================================================
