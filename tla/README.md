# CameraEv: TLA+ models and proofs

CameraEv is a Windows program, one process for each camera, that receives
video over RTSP (live555), decodes it (FFmpeg) and passes the frames to UI
processes through queues in shared memory. This directory holds TLA+ models of
the parts of it that run concurrently, the TLC configurations that check small
instances of them, and TLAPS proofs for all values of the constants.

`PROJECT.json` lists the components, the runs, the definitions with the source
lines they model (`map`), the hazards and the findings. Paths below are
relative to the repository's `src/` and `include/` directories.

## 1. Inventory

| Component | Code | State | Operations | Module |
|---|---|---|---|---|
| Byte queues | `include/common/Queue{Shared,Local}Memory.cpp` | buffer, `head`, `tail`, `use_size`, `m_pop_data_len`; the named mapping | Initialize, Push, Front, Pop, Clear, Finalize | `RingQueue`, `ByteFifo`; the mapping in `Startup` |
| Shared-memory transport | `include/common/SyncSharedMemory.cpp`, `include/network/{Send,Recv}WorkerSyncQueue.cpp` | two semaphores, mutex, queue, exit and unlock event of each endpoint | SyncProducer, SyncConsumer, SyncClear, SendSyncUnlock, Activate, Deactivate | `SyncSharedMemory`, `PacketChannel` |
| Stream life cycle | `src/stream/Streamer.cpp`, `src/session/Session_RTSP.cpp`, `src/live555/rtsp_callback.cpp`, parts of `src/Camera.cpp` and `src/decoder/Decoder.cpp` | running flags, watch variable, locker, client, threads, `m_activate` | Activate, Deactivate, ThreadLoop, RTSP handlers, reload, check timer | `StreamSession` |
| Timer lockers | `include/common/TimerLockerManager.cpp`, `TimerEx.cpp`; `Decoder::ThreadLoop` | timer slots, lists by tick, lockers by name | GetTimerLockerByFps/ByTime, DeleteTimerLocker, timer callback, Wait | `TimerLockers` |
| Repeated works | `include/common/RepeatWorkProc.cpp` | works, timers, queue of works, event, running flag | Activate, Deactivate, AddWork, DeleteWork, callback, ThreadLoop | `RepeatWork` |
| Thread helpers | `include/common/{InnerThread,Locker}.cpp` | `std::thread`, `m_lock_count` | StartThread, JoinThread, Wait, WakeUp | inside the modules that use them |
| Camera control | `src/Camera.cpp` | streamers, workers | packet handlers, check timer, Deactivate | `SendManager`; restarts of a stream in `StreamSession` |
| Send workers | `include/network/SendWorkerManager.cpp` | list of clients | Insert, SetFrameInfo, Unlock, Clear, SendFrame, SendStreamStatus, SendProcessInfo | `SendManager` |
| Decoder | `src/decoder/Decoder.cpp`, `DecoderImpl_FFmpeg::Decode` | two queues, buffers, frame settings | QueuePush, SetFrameInfo, ThreadLoop, Activate, Deactivate, Finalize | `DecoderFrames`; pacing in `TimerLockers` |
| H.264 sink | `src/live555/rtsp_H264Sink.*` | header, collected picture | setSpropRecords, afterGettingFrame, the appends | `H264Sink`; with the decoder in `VideoPath` |
| Packet format | `include/network/Packet{Define,Struct}.cpp` | writer's buffer and position, reader's blocks | Start, Write, End, DoAnalyze, Read | `PacketCodec` |
| Camera file | `include/proto/SystemInfo.*`, `CameraInfoFile.pb.*` | structures, messages, the file | three saves and three loads; Clear, MergeFrom, CopyFrom, Swap, ByteSizeLong, both serializers and the parser of five classes | `CameraFile`, `MessageObjects` over `CameraInfoFile`, `WireFormat` |
| Process | `src/main.cpp`, `src/Application.cpp` | named event, exit code | Initialize, Activate, SetExitCode, WaitForExitEvent, Deactivate, Finalize | `Startup` |
| FFmpeg's own work, frame rates, command line, log, preview, PTZ, control | the rest of `src/` and `include/` | | | not modelled (section 8) |

How they meet. The UI sends packets into the camera's queue; the receive
worker's thread takes them and calls `Camera::OnRecvWorker`, which reloads the
streams or registers the UI's own queue as a client. Each stream has a session
thread, which runs live555's event loop and pushes access units into the
decoder's queues, and a decoder thread, paced by a timer locker, which decodes
them and sends the frame to every client under one mutex. A repeated work, on
a thread of its own and driven by another timer locker, restarts a stream that
has delivered nothing for three seconds. All timers expire on one callback
thread of winmm. Shutdown stops the workers and then the streams.

What is hard. Threads raise their own running flags, so a stop can come before
its start. Nothing keeps two threads from restarting the same stream. The
transport's two waits are separate, so every exit from the second one must
account for what the first one took. Processes die while they hold the mutex,
and the handles of a receive worker are closed while its thread is in a call.
Timers are deleted and their slots reused while an expiry is under way.
Pointers to lockers are shared by name. Kernel objects with names outlive the
process that made them, each by its own rule. A file is emptied before it is
written, and a lost packet joins two pictures.

What makes each component correct:

* the byte queue is a FIFO of bytes at every wrap, and Pop never removes more
  than is stored;
* the transport is one FIFO of packets across processes, excludes as far as the
  life of its mutex goes, accounts for every token and packet, answers
  truthfully, delivers, and can be stopped;
* a stopped stream is at rest, an active one has its threads, a loaded one
  comes back when its server does, and one thread at a time starts a stream;
* every list of lockers has its timer, slots suffice, and waits return;
* a queued work is run, and a stopped worker leaves nothing behind;
* a packet's reader reads what its writer wrote, and the writer stays inside
  the buffer that it uses again for every packet;
* a frame goes to the clients that subscribe at that moment, to each once, a
  client that reads no more holds nobody up, and a shut-down camera is quiet;
* the decoder takes whole pictures from its two queues, converts and sends
  inside its buffer whenever a client changes the size, and sends what the header
  says;
* a delivered picture holds the units that arrived for it and no others;
* a file is loaded as it was saved, or as a whole beginning of it, or refused;
* one process of a name works on the camera's queue, and a set event ends all
  that have it.

## 2. Modules

`RingQueue` has the cells, `head`, `tail` and `use_size`, which all processes
share, and `m_pop_data_len` for each handle. Push, Front (`ReadFront`), Pop and Clear are one
action each, between `Enter` and `Leave`, the callers' lock; both copies of the
class, for shared and for local memory, hold this algorithm. `ByteFifo` is what
it promises: a bounded sequence of bytes. `FifoSpec` is the refinement.

`Startup` has the processes themselves: camera processes of one name, in the
steps of `main` and `Application`, and client processes, which meet in three
named objects, the event, the memory (`mapping`) and the semaphores with the
mutex (`sem`). An object keeps its `holders` and is new when the last of them
goes. Opening the memory, creating it and writing `queue_size` are three steps,
a Push or Pop three or four, and any process may fail in an activation or die at
any of them. The receive worker has its thread (`thread`), which raises its flag
(`running`) itself. Camera::Deactivate lowers the flag, closes the handles
(`CloseObjects`), whatever the thread is about, and joins it (`JoinThread`), which
may be for ever; `JoinHangs` is any other of its joins that does not return. So
calls may overlap: who owns the mutex is a set, and `UseSizes` are the values
that `use_size` may get from two calls that change it at once. The history
variables say what the ring does not survive. `torn` is a death that left the
memory's words apart; `unsized` a memory that lost its creator before it had its
size, or that came to be used, while it still waited for it, by more than its
first senders; `overtaken` a mutex that was made anew under a running call.

`SyncSharedMemory` models SyncProducer and SyncConsumer, which mirror each
other, by one set of actions with `Role(e)`. A step is what happens between two
calls of the system: wait for the semaphore, wait for the mutex, callback, post
or restore, release. SyncClear is cut at each ReleaseSemaphore and wait of
ResetSemaphore. Deactivate is cut into its stages, because it closes handles
while the receive thread uses them: events, mutex, semaphores, and after the join
the memory. `HasMutex`, `HasSemaphores` and `HasMemory` say whose handles are
open. `Crash` ends an endpoint's process at any step, abandoning the mutex.
`Activate` starts it again; each object is made anew if nobody has a handle to it
at that moment, and only then, also while a thread whose handles are closed is
still in its callback. `overtaken` remembers that this happened to the mutex.
`PacketChannel` is the abstract channel of packets.

`StreamSession` is one stream: the session's thread (`thread`, with `run` =
`m_thread_running`, `watch` = `m_eventLoopWatchVariable`, `lock_count` of its
Locker, `client` and `sink`), the decoder's thread, `m_activate`, and three
controllers: the receive worker (reload), the repeat worker (check timer) and
the main thread (shutdown). A controller's Deactivate and Activate are cut at
every write of a flag and at the joins. A reload and a check share no lock and may
overlap at any step; the history variable `overlapped` remembers it. What then
ends the program (a thread started over a joinable one, joined twice, or its
session destroyed under it) is recorded in `fault`, and nothing is followed after
it (`alive`). The server is up or down.

`TimerLockers` is the manager, the table of timer slots and the callback
thread, with the decoders' threads and the repeated works as its users. One
manager operation is one step, as `m_mutex_items` makes it; an expiry is three
(the callback thread has no lock until CallbackTimer). `pointer` tells whether
the locker a thread holds still exists.

`RepeatWork` is RepeatWorkProc: the callback's push and wake-up are two steps,
the thread takes one work a step while it holds the mutex, AddWork is three
steps and Deactivate six.

`SendManager` is the list of clients and every thread that touches it: the
receive worker in the packet handlers of `Camera`, the repeat worker in the
check timer, each stream's decoder in SendFrame, and main in
`Camera::Deactivate`. `pc` says where a thread is and `job` what it works on;
the three kinds of send share one loop (`BeginSend`, `Choose`, the push,
`EndSend`), which holds `m_send_workers_mutex` from entry to entry, because it
waits inside for a client's queue. Of that queue there are the packets (`held`),
the producer semaphore (`places`) and the mutex. A push is SyncProducer's two
waits: `GetPlace` or, when the time is over or the unlock event set, `NotPushed`;
then the mutex, for which nobody sets a limit: `Pushed`, with or without room,
`PushAbandoned`, which fails and keeps the mutex until its thread ends,
`PushUnlocked`, or no step at all while another thread keeps it (`Kept`). A client
may stop to read, die with the mutex, and keep it when it comes back.

`PacketCodec` writes the fields of each packet struct block by block into the
sender's buffer, which keeps what earlier packets left in it, and reads the
bytes back with `DoAnalyze` one block at a time. `TextOf` and `ValueOf` are the
overloads of Write and Read: a number becomes its decimal digits, a flag 1 or
0, and is parsed from them again.

`DecoderFrames` is a decoder between the session's thread (`QueuePush`), its
own thread (one round of ThreadLoop in five steps) and the thread that changes
the frame info. `SetFrameInfo` and `FrameInfoSet` are the two ends of a locked
write; `Decode` reads without that lock, so it picks each member from the old
or the new value. `original` is the size in FT_ORIGINAL's frame info, which
`Decode` writes without the lock too, after the header of the round was taken from
it. Every pixel format has its two byte counts, `CalcBufferSize` (the decoder's) and
`ImageBufferSize` (FFmpeg's), which differ in the padding of RGB lines and, for
YUY2 and YV12, in pixels that have no pair.

`H264Sink` keeps a buffer as the sequence of the pieces appended to it, so that
a property can tell which NAL unit a piece is from; `append` drops what has no
room, as `array_ex::append` does. A unit or its marker may be lost, and a new
session makes a new sink. `VideoPath` composes it with `DecoderFrames`: a
delivery is a push of the same length within one step, because Streamer's
callback runs inside `afterGettingFrame`.

`WireFormat` is what the protobuf library does with bytes (varints, tags,
lengths, UTF-8, unknown fields); `CameraInfoFile` the generated functions of the
five classes over it, named as in the code; `MessageObjects` two objects of a
class under any calls of them; `CameraFile` a saving and a loading process with
the file between them: open with trunc, serialize, close, each of which may be
the last, and a load that may look at any moment.

Each `MC` module gives the constants of its runs; each `...Proofs` module
extends a module with its theorems. `FormatsProofs` is about the ring, the packets
and the wire format, `MessagesProofs`, which rests on it, about the messages and
the files, and `DecoderProofs` about `VideoPath` and `TimerLockers`.

## 3. Runs

| Run | Configuration | States | Shows |
|---|---|---|---|
| `formats` | `MCFormats` | FORMATSTATES | ring: indices, and refinement of `ByteFifo`; packets: blocks inside the buffer, fields read back; messages: the generated code's laws; files: loaded as saved, or never as a mixture; pictures: their own units, the two queues agree, conversion and send inside the buffer, frames as their header says |
| `sync_program` | `MCSyncProgram` | 3,795,202 | exclusion, token and packet accounting, answers, refinement of `PacketChannel` |
| `sync_live` | `MCSyncLive` | 65,830 | packets arrive, sends return, also of a sender without a time limit at a full queue; a stopped worker ends |
| `sync_reopened` | `MCSyncReopened` | violation | finding 4 |
| `stream` | `MCStream` | 547,228 | a stop returns and leaves nothing running, active means running, a loaded stream comes back, until a reload overlaps with a check; only such an overlap starts a thread twice, joins one twice or destroys what is in use |
| `stream_lost_stop` | `MCStreamLostStop` | violation | finding 1 |
| `timers` | `MCTimerManager` | 75,934 | lists and slots in step, waits return |
| `timer_shared` | `MCTimerShared` | violation | finding 2 |
| `repeat` | `MCRepeatWork` | 126,110 | no lost wake-up, queue drains, Deactivate returns and cleans up |
| `send` | `MCSendManager` | 183,080 | one sender at a time, sends to subscribers only, one entry for each client, a quiet end; sends and the shutdown end, unless a queue's mutex is kept for ever |
| `startup` | `MCStartup` | 517,242 | one camera on the queue, a sound ring; a set event ends all that have it, unless a stop is lost |
| `startup_stale` | `MCStartupStale` | violation | finding 3 |

Bounds. In `formats` a behaviour is about one of five parts and the others stand still. The ring has four cells and buffers of up to three bytes, enough
for every relative position of head, tail, pushed and popped length, for a push
that fills it and one that does not fit. Two packets are written into one
buffer, with an extraordinary value (empty, long and of delimiters, STX and ETX; -1,
0, 1920) in each field in turn. `BufferSize` is 0, as in `Test_Packet`
(`PacketDefine.cpp:632`), so that the resize in Start happens; the first packet
leaves a grown buffer with old contents to the second, which is the case of a
sender with its 3 MB. `LeastSize` of nine cells makes every block's growth and
the exact fit before ETX occur. Messages take four calls: enough to give both
objects values, combine them and use the result. Their values have every field
set and unset, a number of one, two, three and five bytes, a negative one, names
of one to four bytes a character, and fields of later versions before the next
object's. Files are saved twice, so that an old one may be replaced, and one
text is in the system's code page instead of UTF-8.

The transport has two senders and one receiver as on a camera's queue,
`SyncCount` of two (one in `sync_live`, so that the second sender, which has no
time limit there, finds the queue full), two packets, and one each of clear,
unlock, stop, crash and restart, in any order; `sync_live` has a stop and a
crash. With two senders and a receiver each of the three ways to meet (sender
and sender, sender and receiver, clear and call) occurs, and so does the mutex
that is made anew under a callback, since a sender may also come later than the
others; the theorems of section 6 remove these bounds for the safety
properties. `startup` has two camera processes and two clients, so that one
client writes while another waits, three starts, one death, one failure and one
key, and three packets of two bytes in a ring of five, which must wrap.
`startup_stale` has one client and four starts.

The stream has reloads, changes of the server, a BYE, an expiry and a failed
activation within the bounds of `MCStream`: a second reload is needed to
replace what a first one started, or to meet a check at any of its steps. The
timer run has two decoders with one name, as in the code, one repeated work,
the rates 25, 30 and 60 (periods 40, 33 and 16 ms, hence ticks of 10, 11 and 16
ms, the first shared with the work's 20 ms) and exactly as many slots as names.
The repeat run has two works and two activations. `send` has two clients, so
that one which does not read can hold up another, one stream, queues of one
packet, and four packets or restarts: enough for both clients to appear, one to
subscribe, and a reload or a restart to follow; what the decoder sends has no
bound. The death of a client counts as an event too.

The pictures of `formats` are of a camera that sends three NAL units, of one cell
and of four (more than `PacketRoom`), with or without marker, a header of two cells
and a picture buffer of seven, which two units fit but not every three, and a second
session. The decoder's queue of nine makes a push fail with room to spare; two
pictures are pushed and the frame info changes twice. `MCRequests` asks for RGB,
YUY2 and YV12 with even and odd edges, among them a size below `LeastData`, and for a
format that the decoder does not know; the edges of three make the two ways of
counting a picture's bytes differ. The theorems of section 6 remove all of these
bounds.

Deadlock checking is off where the bounded environment, a crash or the
shutdown may leave nothing to do.

A request that is never handled needs no property of its own: main joins the
receive worker, so `ShutdownEnds` fails with it. `TypeOK` of each module,
`PopWithinUse` and `NoEmptyRead`, parts of inductive invariants, are theorems
(section 6) and not in a run.

`OnlyETXOverruns` says what is written outside a packet's buffer, and
`TornNeverMixed` what a load may make of a file that is being written: neither
promises more than the code keeps.

Each property has a mutant: the changed definition stands beside the original
under the comment "Mutant".

## 4. Fairness

* Threads that can go on do (weak fairness of each thread's steps). Nothing
  makes a client send, a camera file be reloaded, or anything stop or crash.
* Windows serves waiters for a mutex or a semaphore in turn: strong fairness of
  the two successful waits in `SyncSharedMemory`.
* A server that is up answers; three seconds pass; the check timer fires
  (`StreamSession`). The server's going up and down is free, so
  `StreamRecovers` supposes that it finally stays up.
* A periodic timer that stays set expires again and again, though the one
  callback thread is shared: strong fairness of each slot's expiry in
  `TimerLockers`.
* A thread that waits for `m_send_workers_mutex` gets it: its users let it go
  between two frames, so strong fairness of each thread in `SendManager`. A
  decoder that is told to stop makes no further round, so nothing makes it
  decode. No client has to read, and nobody has to give a queue's mutex back: that
  wait has no limit, so `SendEnds` and `ShutdownEnds` suppose that no thread stays
  in it for ever (`Stuck`); section 5 says how one comes to.
* A process of `Startup` goes on in its start, its end and its calls, its main
  thread and the receive worker's each for itself; nothing makes it start, press a
  key, send or die. With that the event, which resets by hand, wakes everyone that
  waits for it. That they come to their end supposes, in `SetEndsAll`, that no stop
  is lost on the way (`StopLost`): a join that hangs, or a receive thread that
  raised its flag after the stop.

`stream` is checked with `Prompt`: a stop does not begin while a thread is starting
or opening, the session's thread does not run between two writes of a stop, and the three seconds run out only when the
stream is stuck or the server is down. The code guarantees none of it, and
`stream_lost_stop` shows what happens otherwise; the theorems of section 6 do
without. Reloads and checks overlap freely. What such an overlap may break is said
by `overlapped` in each property; section 5 has an example.

## 5. Findings

1. `Session_RTSP.cpp:76` and `:86`. A thread raises its own running flag, and
   clears the watch variable after opening. A Deactivate that wrote them
   earlier is lost and joins for ever. The decoder, RepeatWorkProc and
   RecvWorkerSyncQueue start their threads in the same way.
2. `Decoder.cpp:252`. All decoders share one locker name, so a second stream
   frees the locker that the first one waits on.
3. `SyncSharedMemory.cpp:39`. The semaphores are closed before the memory
   (line 77 against `RecvWorkerSyncQueue.cpp:57`). Between the two a client that
   has just opened the memory creates new ones: the consumers' starts at 0 over
   a queue that holds packets, against the reason given in line 37.
   Those packets wait for a `SyncClear`, which drops them.
4. `RecvWorkerSyncQueue.cpp:55`. Deactivate closes the mutex and the semaphores
   before it joins the receive thread (line 56) and before it unmaps the queue (57).
   If the thread is in its callback and nobody else has the mutex open, the next
   client makes it anew over the same memory and both are in the queue, which the
   mutex is there to prevent (`SyncSharedMemory.h:85`).
Seen while modelling, without a run of their own:

* A reload (`Camera.cpp:183-187`) and the check timer (`Camera.cpp:289-293`) restart
  the same stream on two threads without a lock. Both may stop it, find
  `m_thread_running` down, since the new thread has yet to raise it
  (`Session_RTSP.cpp:50`), and start the thread: the second assigns to a joinable
  `std::thread`. `FaultsTakeOverlap` says that nothing but such an overlap does that.
* A call that receives the mutex of a dead process takes WAIT_ABANDONED for a failed
  wait and keeps the mutex (`SyncSharedMemory.cpp:208`); the others wait for it without
  a limit (line 176, `SetMutexTimeOut` has no caller). A decoder's thread there holds
  `m_send_workers_mutex`, which `UnlockSendWork` needs to release it, the purpose that
  the comment at `Camera.cpp:181` gives. `Stuck` is this state.
* With an odd width YUY2, with an odd width or height YV12 get a smaller buffer than
  FFmpeg asks for (`Decoder.cpp:127` and `:132`), so Decode leaves the conversion out in
  every round (`Decoder_FFmpeg.cpp:168`) and the frame is sent with whatever the buffer
  holds, although line 308 says that a new buffer is converted into in the next round.
  `WholePairs` in `SendsWhatItSays` leaves these frames out.
* A BYE, the end of the source or a failed PLAY closes the client in the event
  loop (`rtsp_callback.cpp:308`), and the session closes it again.
* `CPacketWriter::End` writes ETX without CheckBuffer (`PacketDefine.cpp:417`).
  A packet whose blocks fill the buffer exactly has it one byte past the end;
  `OnlyETXOverruns` says that this is the only way to a refused packet.
* A ring stays torn when a process dies between the index and `use_size`
  (`QueueSharedMemory.cpp:225-228`), until every process has closed it; and a
  size of 0 stays when the creator dies before line 129, since who opens the
  memory never writes it. While the size is still to come, only the `sync_count`
  tokens keep the senders inside the memory, and a packet that is taken gives one
  back: the proof of `RingSound` needs that no packet is taken, and the semaphores
  do not start again, before line 129. With finding 4 two calls write the same
  words. `RingSound` names these cases and holds otherwise.
* A save that is read in the middle, or that the disk cut off, is loaded
  without an error when it ends between two fields (`SystemInfo.cpp:37`). A
  camera file then has fewer than three streams, and line 60 reads past them.
* A user name or url with a character outside ASCII makes the camera file
  unreadable: it is saved as it is (`SystemInfo.cpp:26`), and the parser refuses
  a string that is not UTF-8.
* When the packet with the RTP marker is lost, two pictures are delivered as one
  (`rtsp_H264Sink.cpp:221`); a unit that does not fit is left out and the rest is
  delivered (`rtsp_H264Sink.h:20`).
* With an event that cannot be created main's wait fails at once and its loop
  turns without a pause until the key (`main.cpp:27`).
* `UnlockSendWork` needs the mutex that a sender holds while it waits for a place
  at a client, too, so it cannot end that wait either; there the wait's own limit of
  10 or 100 ms does.
* If the frame info changes within a round of the decoder, the header of that
  one frame may give another size than its data has; `SendsWhatItSays` therefore
  speaks of the rounds without a change.
* The header of the original's size is taken before `Decode` writes that size, without
  the mutex (`Decoder_FFmpeg.cpp:140-142`): after a change of the stream's size one
  frame goes out with the old one.
* A stream request sets the stream's one frame info (`Camera.cpp:270`): the
  last client's size and format hold for all clients of that stream.
* `Ret_MutexTimeout` (`SyncSharedMemory.cpp:206`) falls through to
  `Ret_WaitForObjectFailed`; no caller sets a mutex timeout.
* A send that leaves the mutex wait because of an unlock set earlier gives up
  its slot until the next clear (`SyncSharedMemory.cpp:200`); `TokenBalance`
  counts it in `lost`.
* `CTimerLocker::GetFps` gives 62 for a locker made for 60, so the decoder
  makes its locker anew at every frame (`TimerLockerManager.cpp:46`).
* When `Decoder::Activate` fails (`Streamer.cpp:170`) the session's thread runs
  on and the check timer passes the stream over. A client whose DESCRIBE could
  not be sent (`Session_RTSP.cpp:144`) is not deleted.

## 6. Proofs

TLAPS checks, for every value of the constants that the named assumptions
allow:

| Module | Theorems | Assumptions on constants |
|---|---|---|
| `FormatsProofs` | `RingTypeCorrect`, `RingIndicesAgree`, `RingPopIsCovered`, `RingIsFifo` (refinement of `ByteFifo`) | a positive buffer size below the integers' wrap |
| | `PacketsOnlyETXOverruns`, `PacketsReadBack` | texts of characters, integers, a least size that holds the start of a packet |
| `MessagesProofs` | `ObjectsMessageLaws` | an even width of integers from 15 to 32 bits; messages with texts that are UTF-8, unknown fields that a later version may have written, and parts whose bytes a uint32 can count |
| | `FilesInvariant`, `FilesWholeFileLoads`, `FilesTornNeverMixed` | the structures of `SystemInfo.h` with any values: any bytes as texts, any characters in a name; parts as before |
| `SyncSharedMemoryProofs` | `SyncTypeCorrect`, `SyncMutualExclusion`, `SyncTokenBalance`, `SyncPacketBalance`, `SyncNoEmptyRead`, `SyncImplementsChannel` (refinement of `PacketChannel`), `SyncAnswerIsTrue` | finite disjoint sets of endpoints, a positive `SyncCount` |
| `StreamSessionProofs` | `StreamTypeCorrect`, `StreamStoppedAtRest`, `StreamActiveHasThreads`, `StreamFaultsTakeOverlap` | natural bounds; with and without `Prompt` |
| `RepeatWorkProofs` | `RepeatTypeCorrect`, `RepeatWakeUpPending`, `RepeatStopLeavesOnlyLate` | natural bounds; any set of works |
| `SendManagerProofs` | `SendTypeCorrect`, `SendOneSender`, `SendOnlyToSubscriber`, `SendOneWorkerPerClient`, `SendQuietAtEnd` | a positive `SyncCount`; streams distinct from the other threads and owners of a mutex |
| `StartupProofs` | `StartupOneCamera`, `StartupRingSound` | disjoint sets of processes; `sync_count` packets fit the ring, whose size fits an integer; any bounds |
| `DecoderProofs` | `FramesTypeCorrect`, `FramesOnePicture`, `FramesStaysInside`, `FramesSendsWhatItSays` | natural room and limits, positive lengths and sizes of a stream, frame infos of any format and edges |
| | `PathImplementsDecoder` (refinement of `DecoderFrames`), `PathDeliversUnit` | NAL units of positive size, records that are typed; a start code that fits `m_received_buffer`, whose fillings are lengths of pictures |
| | `TimersListsHaveTimers`, `TimersSlotsSuffice` | a finite set of users, as many slots as names |

Ring. The invariant is `TypeOK`, `RingShape`, `PopWithinUse` and `Locked`.
The ranges tell on which side of a wrap head and tail are, and `Locked` (one
handle at a time, and only inside can a front be outstanding) is what keeps
another handle's Pop or Clear from taking the measured bytes away. For the
refinement the abstract sequence is the cells from head on, around the end;
each action is shown to change it as the FIFO's does, by cases on the wrap.

Packets. `CodecInv` says what the cells are: `Laid` gives a place (`starts`) to
each block written so far, and to the next one, and the fields left are the
others. `CheckBufferRoom` and `WrittenCells` show that a block is written inside
and touches nothing before it, so a block more is laid (`LaidMore`); the length
that End writes last lies between the cells that `Laid` speaks of, so they are
kept (`LaidKept`). The reader stands at a place of `starts`: the first colon after
a name of one cell ends it, whatever the text holds, and the length leads to the
next place (`BlockThere`). A field is found because the fields of a packet have
different names, and its value comes back by `TextBack`. That every integer is
read from its digits as it was written (`StoiBack`) is an induction over numbers.
The library's theorem for that takes an operator, so it is proved here over sets:
`Least`, from the library's ordering of finite sets, gives `Induction`, and this
gives `Recursion`, that a function which calls itself for a smaller number is
there and is what its definition says.

Wire format. `Holds(b, p, w)` says that the bytes w stand in b from place p on,
and `Prefix` that a file is the beginning of another. What is proved of a number,
a text or a part is proved for the place where its bytes stand, and for bytes that
end inside it (`VarintBack` and `VarintCutOff`, `TextPiece`, `PartPiece`):
a file that is cut off anywhere is then the same proof as one that is whole. The
parser's loop over fields is one operator for all classes (`Loop`; each parser is
shown to be it, `ParseIsLoop`). `Settled` is what is known of it up to a place:
it stands there with a certain message, or, if the bytes end before, it failed or
ended with one of the messages between two fields; `SettledStep` takes it past one
more piece. A field is read as it was written because its setter is what its step
of the loop does (`ReadsText`, `ReadsNumber`, `ReadsFlag`, `ReadsPart`). Fields that
a class does not know are moved as they stand, so skipping must not depend on
where they stand (`SkipShift`, `NewFieldsRead`).

Messages. For each class the bytes it writes are counted (`StreamBytes`,
`CameraBytes`, ...), read into any other object of the class, which gives their
merge (`StreamReads`, `CameraReads`, ...), and kept by copying (`ObjectCopied`,
`ObjectKeeps`). `FitObjects` is closed under all calls. The invariant of
`ObjectsMessageLaws` is that both objects are in it; the laws follow for any two
of its members.

Files. A save's message is the fields one after another (`CameraMessageIs`,
`SystemMessageIs`), so its bytes are pieces as above, and what any beginning of
them is read as is a list of cases (`TornRead`, `FileReads`): the new message,
the guid, or guid, name and the first parts. A number comes back through uint32
(`NumberBack`). A name comes back through UTF-8 (`NameConverted`): by
`CharTexts` the bytes of a character decode to it, and `OneMoreCharValid` and
`OneMoreCharDecoded` add one character at a time to a text. `FilesInv` says
that the disk always holds a beginning of what the latest save writes, and that
a load's result is what such bytes are read as; `FilesInvariant` is by one step
per action. A whole file has all its streams (`CameraBack`) and one that is not
whole lacks some (`CameraTorn`), so a camera is loaded as it was saved,
refused, or read past its streams.

Transport. Exclusion is not inductive: `MutexInv` adds that whoever is in the
section owns the mutex, or has closed its handle to it when it was made anew, that
an abandoned mutex has no owner, and that an owned one has a positive depth;
`Offered` that a sender in a call has its packet. A mutex is made anew only if
nobody has a handle, so until it happens under a callback (`overtaken`) all in the
section own the same one, and afterwards still those that have the new one. The
balances add what a clear has done to the semaphores at each of its steps, and
are stated with cardinalities of sets of endpoints, which change by one element
a step. `QueueStep` lists the few steps that change the queue or offer a packet;
`Fresh` (no two offers are one packet, and what is still on its way was never in
the queue) makes each of them a step of the channel. From an overtaken mutex on the
channel counts as gone, which is a step of its own, until the memory is made anew.
`Answered` ties a sender's result to the queue. It needs that a sender is not
stopped inside its own call: the send workers are used, unlocked and deleted under
`m_send_workers_mutex` (section 8). A receive worker, which is stopped from
outside, has no packet to answer for.

Stream. `StoppedAtRest` needs, for each controller's place in Deactivate and
Activate, what is over by then (`StopProgress`), that one controller is busy at
a time (`OneController`), how the running flags follow the threads (`SessionFlag`,
`DecoderFlag`) and that a client exists only between opening and closing
(`ClientOwned`). All of it is `Sound`, and the invariant is `overlapped` or
`Sound`: two controllers at once are reached only by a step that is remembered. No
assumption on timing is used: a lost stop makes Deactivate hang and never lets it
return early.

Repeat. `WakeUpKept` says that what is queued when the thread is yet to wait
has its wake-up counted or in the callback's hands. `LateTimers`, `LateWorks`
and `LateQueue` say what is gone after each statement of Deactivate; `late` is
the set of works that AddWork has entered, or given a timer, since Deactivate
began.

Send workers. `LockHeld` says that a thread sends exactly while it holds the
mutex; from it follow `OneSender` and that the list does not change between
`Choose` and the end of the push, its two waits included. `InsertsNew` carries
the result of the look-up to the insertion: only the receive worker inserts,
and others only clear. `ActiveRuns` (a decoder in SendFrame belongs to an
active stream) and `Joined` (what each join of Deactivate found stays so) give
`QuietAtEnd`.

Decoder. `InStep` says that there is a function of offsets (`Cut`) that divides
`m_queue_stream` into the pictures of `m_queue_src`; a push extends it and a
pop shifts it. `DstFresh` and `DstTrue` tell what `dst` still agrees with at
each step of the round, `Converted` what the buffer shows before it is looked
at again. FFmpeg's count of a picture's bytes is never above the decoder's if
no pixel is without a pair (`WholeWords`), so a buffer that passes the one test
then passes the other; without that premise `SendsWhatItSays` is false. That conversions stay inside needs no such thing, since `Decode`
compares with FFmpeg's count.

Startup. `OneCamera` speaks of the memory and the semaphores, the code decides
by the event. `IInv` connects them: a camera that works, from the creation of
the event until it has let go of the memory, has the event
(`WorkersHaveEvent`); one that has yet to create it, or has only it left, holds
nothing else (`NothingHeld`). So a process that finds no event finds nobody at
work, and `OneWorks` is kept. The order of Finalize, in which the event is
closed last, is what the second part rests on. For the ring, `Attached` says
who has which handle at each place of a start and an end, and `MutexHolds`
that, until a mutex is made anew under a call, there is one call at a time,
whose process owns the mutex. `RingInv` says how far that call has come:
`Sized` and `Early` state for each step of it how `head`, `tail` and `use_size`
differ, in a memory with its size and in one without. In the second nothing
tests for room (the free size wraps around), so `Early` counts tokens: `Paid`
says that those taken pay for the bytes written, and all together for less than
the ring.

Timers. `Sound` is an invariant of the manager's state as one record, so that
each operation has a lemma about an operator (`DeletedSound`,
`GetTimerLockerSound`) and a step only has to name the operation. Set timers and
lists are each other's (`Timed`), and the lists are those that some locker needs.
So there are at most as many lists as lockers (`ListsPerName`), and one fewer than
names when one is asked for, since a name's old locker goes first; if every slot
were taken, the slots would inject into fewer lists (`FreeSlot`).

Video path. `SinkInv` says what `m_received_buffer` holds at any time: `Units`
of what arrived since the last delivery, if that fits, and otherwise bodies in
their order (`CollectedIn`). Each NAL unit keeps it, by `AppendFits`: if the
whole fits, so does each piece before it, and none was left out earlier. What was
delivered stays `GoodIn` a longer sequence of NAL units, since `Units` of a range
depends on that range only (`UnitsAgree`). `PairInv` ties a queued picture to its
delivery by number and length, so the decoder takes what the sink gave. `Size`
and `setSpropRecords` are folds over sets of places; `FoldExists` shows by the
induction over sets that such a fold is there and `SizeIs` that it adds up piece
by piece. The sink's buffer is never empty when it is pushed, because a start code
that did not fit leaves something in it (`BodyAppended`); with this a step of the
path is a step of the decoder, and its theorems hold of the composition
(`PathImplementsDecoder`).

Only model-checked: liveness, which the prover does not treat (no fairness, no
`ENABLED`), that is the properties of section 4's fairness. Every invariant and
every refinement that a passing run checks is a theorem.

## 7. Plan

Done: the transport, the ring, the stream's life cycle, the timers, the
repeated works, the send workers, the packet format, the camera file, the video
path from NAL unit to frame and the processes, with the proofs above. Next:

1. `Locker` with counts above one, against its comment (`Locker.h:33`), if a
   user of it appears.
2. The end of a client inside the event loop (`rtsp_callback.cpp:308`) beside the
   session that closes it, as a part of `StreamSession`.

## 8. Abstractions, and what is not modelled

* A packet or a frame is a number; pixel data, SDP, names and log text are left
  out. An RTSP session has the one H.264 video subsession that is set up.
* Each endpoint of the transport is a process of its own. A crash comes before
  or after a push, never inside it, and closes all of a process's handles at once.
  Sender threads do not end, and a send worker is not used, unlocked or deleted by
  two threads at once (`m_send_workers_mutex`, `SendManager`). `WorkerStops` is
  about a receive worker whose thread has started; before that its stop is lost
  as in finding 1.
* In `SyncSharedMemory` a wait is one step, and what a wait under way keeps of an
  object whose handle is closed meanwhile is left out; so is an Activate that finds
  some objects and makes others in several steps, which `Startup` has for the memory
  against the semaphores.
* In `Startup` the mutex and both semaphores close in one step, a mutex that was
  abandoned is free for the next call, and a token that a call loses is not
  followed: these are `SyncSharedMemory`'s.
* In `Startup` the semaphores and the mutex of a queue are one object, a call has
  its token and the mutex or does not start, `sync_count` is the same for all (3
  in the code), the process's name and the camera's guid belong together, and the
  clients use the classes of this repository. The second process of a name may
  be told so, and end, while the first is still on its way out.
* `CameraFile` has one saving process, files smaller than the stream's buffer, and
  loads that see the file at one moment. Arenas, reflection, descriptors and text
  formats of the generated code are not used and left out.
* `H264Sink` leaves out the second parse mode, which nothing selects
  (`rtsp_H264Sink.cpp:210`), and the debug texts. The bytes of a NAL unit are its
  type and size.
* In `RepeatWork`, Deactivate follows the thread's start, and `std::queue` and
  `std::map` operations are atomic although line 65 and lines 31, 32 and 51
  have no lock.
* The multimedia timer's calls always succeed and timeKillEvent does not wait
  for a callback under way. The other timer implementations in `TimerEx.cpp`
  are for other platforms.
* A decoder that uses a deleted locker ends the program in the model.
* `SendManager` leaves out what a frame is converted to (SetDecodeFrameInfo and
  `frame_type`) and the consumers' semaphore of a client's queue, which no sender waits
  for; a client's handles stay open or are opened again. How a stream stops and starts
  is two steps, a stop that waits for the decoder to be outside SendFrame and a start
  that may fail.
* In `PacketCodec` a length, a name and a delimiter take one cell each, not four
  bytes or several characters, and floating-point fields are left out.
* `DecoderFrames` has one kind of frame beside the original, which is never
  converted since nothing sets its decode flag; BGR24 and RGB24 are one format. How
  FFmpeg decodes is a choice between a picture and a failure.
* Not modelled: FFmpeg's work on the data (library calls), the
  frame rate's measurement (real time, for the log only), the command
  line, log and utilities (text and files), the preview window (drawing, debug
  builds), PTZ and control (empty classes), `deepview.pb.*`
  (an older copy of the generated code), `live555/RtspSession.*` and other
  files nothing includes, and everything under `third_party`.
