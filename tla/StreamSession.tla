--------------------------- MODULE StreamSession ---------------------------
(***************************************************************************)
(* One stream of the camera: a Streamer with its Session_RTSP thread, the  *)
(* live555 client that thread drives, the decoder's thread, and the three  *)
(* threads that start and stop them:                                       *)
(*   recv   the receive worker, when a StreamInfo packet (re)loads the     *)
(*          camera file (Camera::LoadCamerasPbFile);                       *)
(*   check  RepeatWorkProc's thread, when no frame came for three seconds  *)
(*          (Camera::OnTimerCheckStream);                                  *)
(*   main   Camera::Deactivate.                                            *)
(* m_thread_running and m_eventLoopWatchVariable are plain variables       *)
(* written by the controllers and by the threads themselves; every read or *)
(* write of them is a step.  Nothing keeps a reload and a check apart: one *)
(* may begin while the other is at work on the same Streamer, and          *)
(* `overlapped' remembers that one did.  The server and the passing of     *)
(* three seconds are the environment.                                      *)
(***************************************************************************)
EXTENDS Naturals, FiniteSets

CONSTANTS
  Prompt,       (* a stop does not race with a thread that is starting or  *)
                (* opening, and opening takes less than three seconds      *)
  MaxReloads, MaxOutages, MaxByes, MaxExpiries,
  MaxFailures   (* bounds: events of each kind in one behaviour            *)

ASSUME StreamAssumption ==
  /\ Prompt \in BOOLEAN
  /\ {MaxReloads, MaxOutages, MaxByes, MaxExpiries, MaxFailures} \subseteq Nat

Controllers == {"recv", "check", "main"}

VARIABLES
  run,          (* the session's m_thread_running                          *)
  watch,        (* m_eventLoopWatchVariable                                *)
  lock_count,   (* m_lock_count of m_locker, whose maximum is 1            *)
  thread,       (* the session's std::thread: where it is                  *)
  client,       (* what m_rtspClient points to                             *)
  sink,         (* the video subsession has a sink                         *)
  dec_run,      (* the decoder's m_thread_running                          *)
  decoder,      (* the decoder's std::thread                               *)
  initialized,  (* the Streamer's m_initialize                             *)
  active,       (* the Streamer's m_activate                               *)
  fresh,        (* GetIntervalPushFrameTime() < 3000                       *)
  checking,     (* RepeatWorkProc holds the CHECK_STREAM work              *)
  ctl,          (* where each controller is                                *)
  overlapped,   (* a reload began during a check, or a check in a reload   *)
  server,       (* the server answers requests and sends frames            *)
  fault,        (* undefined behaviour that was executed                   *)
  alive,        (* the process has not ended by a fault                    *)
  used          (* the bounded events so far                               *)

flags == <<run, watch, lock_count>>
session == <<flags, thread, client, sink>>
decoding == <<dec_run, decoder>>
streamer == <<initialized, active, fresh, checking>>
rest == <<overlapped, server, fault, alive, used>>
vars == <<session, decoding, streamer, ctl, rest>>

Kinds == {"reloads", "outages", "byes", "expiries", "failures"}
Bounds == [reloads |-> MaxReloads, outages |-> MaxOutages, byes |-> MaxByes,
           expiries |-> MaxExpiries, failures |-> MaxFailures]
Spend(kind) ==
  used[kind] < Bounds[kind] /\ used' = [used EXCEPT ![kind] = @ + 1]

(* Without a std::thread ("none") or with one that ended and waits to be   *)
(* joined.                                                                 *)
Over == {"none", "ended"}
Stopping == {"watch", "run", "wake", "join", "joined", "dec", "joindec"}
Starting == {"finalize", "init", "replace", "start", "startdec"}
Busy(c) == ctl[c] \in Stopping \cup Starting
Goto(c, label) == ctl' = [ctl EXCEPT ![c] = label]

Init ==
  /\ run = FALSE /\ watch = FALSE /\ lock_count = 0
  /\ thread = "none" /\ client = "none" /\ sink = FALSE
  /\ dec_run = FALSE /\ decoder = "none"
  /\ initialized = FALSE /\ active = FALSE /\ fresh = FALSE /\ checking = FALSE
  /\ ctl = [c \in Controllers |-> "idle"] /\ overlapped = FALSE
  /\ server \in BOOLEAN
  /\ fault = {} /\ alive = TRUE
  /\ used = [k \in Kinds |-> 0]
----------------------------------------------------------------------------
(* The session's thread.                                                   *)

(* With Prompt it does not run between the writes of a stop.               *)
ThreadAt(label) ==
  /\ alive /\ thread = label
  /\ Prompt => \A c \in Controllers : ctl[c] \notin {"run", "wake"}

StartLoop ==
  /\ ThreadAt("starting")
  /\ run' = TRUE
  /\ thread' = "test"
  /\ UNCHANGED <<watch, lock_count, client, sink, decoding, streamer, ctl, rest>>

TestRunning ==
  /\ ThreadAt("test")
  /\ thread' = IF run THEN "open" ELSE "ended"
  /\ UNCHANGED <<flags, client, sink, decoding, streamer, ctl, rest>>

Reconnect == watch' = TRUE

(* A DESCRIBE that cannot even be sent is answered at once, by its handler.*)
(* That client is not closed: the next one overwrites the pointer.         *)
OpenURL ==
  /\ ThreadAt("open")
  /\ \/ client' = "describe" /\ thread' = "opened" /\ UNCHANGED watch
     \/ ~server /\ client' = "unsent" /\ thread' = "after" /\ Reconnect
  /\ sink' = FALSE
  /\ UNCHANGED <<run, lock_count, decoding, streamer, ctl, rest>>

EnterEventLoop ==
  /\ ThreadAt("opened")
  /\ watch' = FALSE
  /\ thread' = "loop"
  /\ UNCHANGED <<run, lock_count, client, sink, decoding, streamer, ctl, rest>>

LeaveEventLoop ==
  /\ ThreadAt("loop") /\ watch
  /\ thread' = "close"
  /\ UNCHANGED <<flags, client, sink, decoding, streamer, ctl, rest>>

(* shutdownStream(m_rtspClient).  Of a client that a handler has closed    *)
(* before, this reads and deletes freed memory.                            *)
CloseClient ==
  /\ ThreadAt("close")
  /\ IF client = "closed"
     THEN fault' = fault \cup {"closed twice"} /\ alive' \in BOOLEAN
     ELSE UNCHANGED <<fault, alive>>
  /\ client' = "none" /\ sink' = FALSE
  /\ thread' = "after"
  /\ UNCHANGED <<flags, decoding, streamer, ctl, overlapped, server, used>>

TestReconnect ==
  /\ ThreadAt("after")
  /\ thread' = IF run THEN "wait" ELSE "test"
  /\ UNCHANGED <<flags, client, sink, decoding, streamer, ctl, rest>>

WaitLocker ==
  /\ ThreadAt("wait") /\ lock_count > 0
  /\ lock_count' = lock_count - 1
  /\ thread' = "test"
  /\ UNCHANGED <<run, watch, client, sink, decoding, streamer, ctl, rest>>

SessionThread ==
  \/ StartLoop \/ TestRunning \/ OpenURL \/ EnterEventLoop \/ LeaveEventLoop
  \/ CloseClient \/ TestReconnect \/ WaitLocker
----------------------------------------------------------------------------
(* What the event loop runs.  One pass of the loop may run a handler after *)
(* another has set the watch variable.                                     *)
Handler(state) ==
  /\ ThreadAt("loop") /\ client = state
  /\ UNCHANGED <<run, lock_count, thread, decoding, initialized, active,
                 checking, ctl, overlapped, server, fault, alive>>

(* The session of the server has one subsession that is asked for, the     *)
(* H.264 video; after the last one comes PLAY.                             *)
SetupNextSubsession(video) == client' = IF video THEN "setup" ELSE "play"

(* A failed DESCRIBE leaves the loop, and its client to CloseClient.       *)
ContinueAfterDESCRIBE ==
  /\ Handler("describe")
  /\ IF server THEN SetupNextSubsession(TRUE) /\ UNCHANGED watch
     ELSE client' = "failed" /\ Reconnect
  /\ UNCHANGED <<sink, fresh, used>>

(* A failed SETUP goes on to PLAY, without a sink.                         *)
ContinueAfterSETUP ==
  /\ Handler("setup")
  /\ sink' = server
  /\ SetupNextSubsession(FALSE)
  /\ UNCHANGED <<watch, fresh, used>>

(* A failed PLAY closes the client and stays in the loop.                  *)
ContinueAfterPLAY ==
  /\ Handler("play")
  /\ IF server THEN client' = "playing" /\ UNCHANGED sink
     ELSE client' = "closed" /\ sink' = FALSE
  /\ UNCHANGED <<watch, fresh, used>>

(* BYE, or the end of the source: the handler closes the client.           *)
SubsessionAfterPlaying(state) ==
  /\ Handler(state) /\ sink
  /\ Spend("byes")
  /\ client' = "closed" /\ sink' = FALSE
  /\ UNCHANGED <<watch, fresh>>

(* The announced duration of the stream is over.                           *)
StreamTimerHandler ==
  /\ Handler("playing")
  /\ Spend("expiries")
  /\ Reconnect
  /\ UNCHANGED <<client, sink, fresh>>

Streaming == thread = "loop" /\ client = "playing" /\ sink /\ server

OnVideoFrameReceived ==
  /\ Handler("playing") /\ Streaming
  /\ fresh' = TRUE
  /\ UNCHANGED <<watch, client, sink, used>>

EventLoop ==
  \/ ContinueAfterDESCRIBE \/ ContinueAfterSETUP \/ ContinueAfterPLAY
  \/ SubsessionAfterPlaying("play") \/ SubsessionAfterPlaying("playing")
  \/ StreamTimerHandler \/ OnVideoFrameReceived
----------------------------------------------------------------------------
(* The decoder's thread raises its own flag and then runs while it stands. *)
DecoderStart ==
  /\ alive /\ decoder = "starting"
  /\ dec_run' = TRUE /\ decoder' = "loop"
  /\ UNCHANGED <<session, streamer, ctl, rest>>

DecoderEnd ==
  /\ alive /\ decoder = "loop" /\ ~dec_run
  /\ decoder' = "ended"
  /\ UNCHANGED <<session, dec_run, streamer, ctl, rest>>
----------------------------------------------------------------------------
(* The controllers.  Camera::Deactivate joins the repeat worker and then   *)
(* the receive worker before it stops the streams; a reload and a check    *)
(* share no lock.                                                          *)
Begins(c) ==
  /\ alive /\ ctl[c] = "idle"
  /\ overlapped' = (overlapped \/ \E d \in Controllers : Busy(d))
  /\ Goto(c, "watch")
  /\ UNCHANGED <<session, decoding, streamer, server, fault, alive>>

LoadCamerasPbFile ==
  /\ Begins("recv") /\ ctl["main"] \in {"idle", "recv"}
  /\ Spend("reloads")

CheckStream(restart) ==
  /\ Begins("check") /\ ctl["main"] = "idle" /\ checking
  /\ active /\ restart
  /\ UNCHANGED used

(* Mutant: the test of the three seconds is inverted. *)
OnTimerCheckStreamInverted == CheckStream(fresh)

OnTimerCheckStream == CheckStream(~fresh)

At(c, label) == alive /\ ctl[c] = label

StopChecks ==
  /\ At("main", "idle") /\ ~Busy("check")
  /\ checking' = FALSE
  /\ Goto("main", "recv")
  /\ UNCHANGED <<session, decoding, initialized, active, fresh, rest>>

StopReceiving ==
  /\ At("main", "recv") /\ ~Busy("recv")
  /\ Goto("main", "watch")
  /\ UNCHANGED <<session, decoding, streamer, rest>>

AfterStop(c) ==
  CASE c = "recv" -> "finalize" [] c = "check" -> "start" [] c = "main" -> "done"

(* Streamer::Deactivate: of one that is not initialized it returns at      *)
(* once; else it stops first the session, one write at a time.             *)
SetWatch(c) ==
  /\ At(c, "watch")
  /\ IF initialized
     THEN /\ Prompt => thread \notin {"starting", "open", "opened"} /\ decoder # "starting"
          /\ watch' = TRUE
          /\ Goto(c, "run")
     ELSE UNCHANGED watch /\ Goto(c, AfterStop(c))
  /\ UNCHANGED <<run, lock_count, thread, client, sink, decoding, streamer, rest>>

ClearRunning(c) ==
  /\ At(c, "run")
  /\ run' = FALSE
  /\ Goto(c, "wake")
  /\ UNCHANGED <<watch, lock_count, thread, client, sink, decoding, streamer, rest>>

WakeTo(c, count) ==
  /\ At(c, "wake")
  /\ lock_count' = count
  /\ Goto(c, "join")
  /\ UNCHANGED <<run, watch, thread, client, sink, decoding, streamer, rest>>

(* Mutant: Deactivate does not wake the thread. *)
WakeThreadMissing(c) == WakeTo(c, lock_count)

WakeThread(c) == WakeTo(c, 1)

(* JoinThread, at `label', of the thread in state t: c goes on, and of the *)
(* controllers there those that had begun to wait find the thread joined.  *)
Joins(c, label, t, next) ==
  \E waiting \in SUBSET {d \in Controllers \ {c} : ctl[d] = label /\ t = "ended"} :
    ctl' = [d \in Controllers |->
              IF d = c THEN next ELSE IF d \in waiting THEN "joined" ELSE ctl[d]]

JoinWhen(c, over) ==
  /\ At(c, "join") /\ over
  /\ thread' = IF thread \in Over THEN "none" ELSE thread
  /\ Joins(c, "join", thread, "dec")
  /\ UNCHANGED <<flags, client, sink, decoding, streamer, rest>>

(* Mutant: the thread is told to end and not waited for. *)
JoinSessionMissing(c) == JoinWhen(c, TRUE)

JoinSession(c) == JoinWhen(c, thread \in Over)

StopDecoder(c) ==
  /\ At(c, "dec")
  /\ dec_run' = FALSE
  /\ Goto(c, "joindec")
  /\ UNCHANGED <<session, decoder, streamer, rest>>

DeactivateThen(c, activeAfter) ==
  /\ At(c, "joindec") /\ decoder \in Over
  /\ decoder' = "none"
  /\ active' = activeAfter
  /\ Joins(c, "joindec", decoder, AfterStop(c))
  /\ UNCHANGED <<session, dec_run, initialized, fresh, checking, rest>>

(* Mutant: Deactivate leaves m_activate. *)
JoinDecoderStaysActive(c) == DeactivateThen(c, active)

JoinDecoder(c) == DeactivateThen(c, FALSE)

(* What ends the program: the join of a thread that another has joined     *)
(* meanwhile throws, and nothing catches it; a std::thread that is still   *)
(* joinable must not be assigned to; and what a use of destroyed objects   *)
(* does is not followed further.                                           *)
Faults(what) == fault' = fault \cup {what} /\ alive' = FALSE
Unless(bad, what) == IF bad THEN Faults(what) ELSE UNCHANGED <<fault, alive>>

JoinedTwice(c) ==
  /\ At(c, "joined") /\ Faults("joined twice")
  /\ UNCHANGED <<session, decoding, streamer, ctl, overlapped, server, used>>

(* Streamer::Finalize and Initialize: a Session and a Decoder are made     *)
(* anew, unless the streamer is active (again).                            *)
Finalize ==
  /\ At("recv", "finalize")
  /\ initialized' = FALSE
  /\ Goto("recv", "init")
  /\ UNCHANGED <<session, decoding, active, fresh, checking, rest>>

Initialize ==
  /\ At("recv", "init")
  /\ IF active THEN checking' = TRUE /\ Goto("recv", "idle")
     ELSE UNCHANGED checking /\ Goto("recv", "replace")
  /\ UNCHANGED <<session, decoding, initialized, active, fresh, rest>>

(* Destructors join a thread that ended.                                   *)
InUse ==
  \/ thread \notin Over \/ decoder \notin Over
  \/ \E c \in Controllers : ctl[c] \in Stopping \ {"watch", "dec"}

Replace ==
  /\ At("recv", "replace")
  /\ run' = FALSE /\ watch' = FALSE /\ lock_count' = 0
  /\ thread' = "none" /\ client' = "none" /\ sink' = FALSE
  /\ dec_run' = FALSE /\ decoder' = "none"
  /\ initialized' = TRUE
  /\ Goto("recv", "start")
  /\ Unless(InUse, "destroyed in use")
  /\ UNCHANGED <<active, fresh, checking, overlapped, server, used>>

Reload == Finalize \/ Initialize \/ Replace

(* A reload ends with adding the check of this stream.                     *)
Ends(c) ==
  /\ checking' = (checking \/ c = "recv")
  /\ Goto(c, "idle")

(* Streamer::Activate, which does nothing unless initialized, and          *)
(* Session_RTSP::Activate.                                                 *)
StartSession(c) ==
  /\ At(c, "start")
  /\ IF initialized
     THEN /\ Unless(~run /\ thread # "none", "started twice")
          /\ thread' = IF run \/ thread # "none" THEN thread ELSE "starting"
          /\ Goto(c, "startdec") /\ UNCHANGED checking
     ELSE Ends(c) /\ UNCHANGED <<thread, fault, alive>>
  /\ UNCHANGED <<flags, client, sink, decoding, initialized, active, fresh,
                 overlapped, server, used>>

(* DecoderImpl_FFmpeg::Activate: no memory for a frame, no codec of this   *)
(* number, or none that opens.  Streamer::Activate returns there.          *)
DecoderFails ==
  /\ Spend("failures")
  /\ UNCHANGED <<decoder, active, fresh, fault, alive>>

(* Decoder::Activate and the end of Streamer::Activate.                    *)
StartDecoder(c) ==
  /\ At(c, "startdec")
  /\ \/ DecoderFails
     \/ /\ decoder' = "starting" /\ active' = TRUE /\ fresh' = TRUE
        /\ Unless(decoder # "none", "started twice")
        /\ UNCHANGED used
  /\ Ends(c)
  /\ UNCHANGED <<session, dec_run, initialized, overlapped, server>>

Controller(c) ==
  \/ SetWatch(c) \/ ClearRunning(c) \/ WakeThread(c) \/ JoinSession(c)
  \/ StopDecoder(c) \/ JoinDecoder(c) \/ JoinedTwice(c)
  \/ StartSession(c) \/ StartDecoder(c)
----------------------------------------------------------------------------
(* The environment.                                                        *)
ServerChanges ==
  /\ alive /\ Spend("outages")
  /\ server' = ~server
  /\ UNCHANGED <<session, decoding, streamer, ctl, overlapped, fault, alive>>

(* No frame will come before something restarts the session.               *)
Stuck ==
  \/ thread = "wait" /\ lock_count = 0
  \/ /\ thread = "loop" /\ ~watch
     /\ client = "closed" \/ (client = "playing" /\ ~sink)

(* Three seconds without a frame. *)
Elapse ==
  /\ alive /\ fresh /\ ~Streaming
  /\ Prompt => Stuck \/ ~server
  /\ fresh' = FALSE
  /\ UNCHANGED <<session, decoding, initialized, active, checking, ctl, rest>>

Next ==
  \/ SessionThread \/ EventLoop \/ DecoderStart \/ DecoderEnd
  \/ LoadCamerasPbFile \/ OnTimerCheckStream \/ StopChecks \/ StopReceiving
  \/ Reload \/ \E c \in Controllers : Controller(c)
  \/ ServerChanges \/ Elapse

Spec == Init /\ [][Next]_vars

(* Threads run, an answering server answers, time passes and the check's   *)
(* timer fires; reloads, the shutdown and what the server does are free.   *)
Fairness ==
  /\ WF_vars(SessionThread) /\ WF_vars(DecoderStart \/ DecoderEnd)
  /\ \A c \in Controllers : WF_vars(Controller(c))
  /\ WF_vars(Reload) /\ WF_vars(StopReceiving)
  /\ WF_vars(server /\ (ContinueAfterDESCRIBE \/ ContinueAfterSETUP \/ ContinueAfterPLAY))
  /\ WF_vars(Elapse) /\ WF_vars(OnTimerCheckStream)

FairSpec == Spec /\ Fairness
----------------------------------------------------------------------------
UsedOK ==
  /\ used \in [Kinds -> Nat]
  /\ \A k \in Kinds : used[k] <= Bounds[k]

FlagsOK ==
  /\ run \in BOOLEAN /\ watch \in BOOLEAN /\ sink \in BOOLEAN
  /\ dec_run \in BOOLEAN /\ initialized \in BOOLEAN /\ active \in BOOLEAN
  /\ fresh \in BOOLEAN /\ checking \in BOOLEAN
  /\ overlapped \in BOOLEAN /\ server \in BOOLEAN /\ alive \in BOOLEAN

ThreadsOK ==
  /\ thread \in Over \cup {"starting", "test", "open", "opened", "loop", "close",
                           "after", "wait"}
  /\ client \in {"none", "unsent", "describe", "setup", "play", "playing",
                 "failed", "closed"}
  /\ decoder \in Over \cup {"starting", "loop"}

ControlOK ==
  /\ lock_count \in {0, 1}
  /\ ctl \in [Controllers -> {"idle", "recv", "done"} \cup Stopping \cup Starting]
  /\ fault \subseteq {"closed twice", "started twice", "joined twice", "destroyed in use"}

(* Every variable keeps its range. *)
TypeOK == FlagsOK /\ ThreadsOK /\ ControlOK /\ UsedOK

NobodyBusy == \A c \in Controllers : ~Busy(c)

(* As long as no reload overlaps with a check: when Streamer::Deactivate   *)
(* is over, in a reload before the Session and the Decoder are destroyed   *)
(* and at shutdown, both threads are joined and the session's client is    *)
(* closed; only a client whose DESCRIBE was never sent                     *)
(* (Session_RTSP.cpp:144) is left behind.                                  *)
StoppedAtRest ==
  ctl["recv"] \in {"finalize", "init", "replace"} \/ ctl["main"] = "done" =>
    overlapped \/
    (thread = "none" /\ decoder = "none" /\ client \in {"none", "unsent"})

(* As long as no reload overlaps with a check: outside a stop or a start   *)
(* an active streamer has both its threads.  The flag the check timer and  *)
(* the stream requests look at (IsActivate) tells the truth, whatever the  *)
(* threads did to their own running flags.                                 *)
ActiveHasThreads ==
  alive /\ active /\ NobodyBusy =>
    overlapped \/ (thread \notin Over /\ decoder \notin Over)

(* Only a reload that overlaps with a check can start a thread over one    *)
(* that was not joined, join one twice, or destroy a session or a decoder  *)
(* that is in use; one controller at a time does none of it, however the   *)
(* threads raise and lower their own flags meanwhile.                      *)
FaultsTakeOverlap == fault \subseteq {"closed twice"} \/ overlapped

(* Deactivate returns: the writes of a stop are not lost on the threads    *)
(* they are meant for, wherever those are.                                 *)
DeactivateReturns ==
  \A c \in Controllers :
    ctl[c] \in Stopping ~> ctl[c] \notin Stopping \/ overlapped \/ ~alive

(* A stream that was loaded comes back after outages, BYEs, expiries and   *)
(* failed openings, by way of the check timer, once its server answers;    *)
(* a failed activation leaves it to the next reload (Streamer.cpp:170).    *)
StreamRecovers ==
  <>[](server /\ used["reloads"] > 0 /\ used["failures"] = 0)
    => <>[](Streaming \/ ctl["main"] # "idle" \/ overlapped \/ ~alive)
=============================================================================
