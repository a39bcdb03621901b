---------------------------- MODULE TimerLockers ----------------------------
(***************************************************************************)
(* CTimerLockerManager over timer_ex, and the threads that pace themselves *)
(* with a CTimerLocker: the decoders' (Decoder::ThreadLoop), which wait on *)
(* one, and the repeated works', whose lockers have a callback.            *)
(*                                                                         *)
(* The manager keeps one CTimerLockerList, with one multimedia timer, for  *)
(* each tick length that some locker needs.  m_mutex_items makes each of   *)
(* its operations one step.  The timers' callback thread does not hold it  *)
(* until CallbackTimer, so an expiry may be under way, in `flight', while  *)
(* its list goes and its slot is given to another.                         *)
(***************************************************************************)
EXTENDS Naturals, FiniteSets, Functions

CONSTANTS
  Decoders, Works,
  NameOf,          (* the name each asks for a locker by                   *)
  DecodingFps,     (* what GetDecodingFps may return                       *)
  WorkPeriod,      (* the period of the repeated works                     *)
  Second,          (* 1000 in the code                                     *)
  MinResolution,   (* m_timer_min_resolution, 10 in the code               *)
  Slots            (* m_timers.size(), 64 in the code                      *)

Users == Decoders \cup Works
Names == {NameOf[u] : u \in Users}

ASSUME TimerAssumption ==
  /\ IsFiniteSet(Users) /\ Decoders \cap Works = {}
  /\ NameOf \in [Users -> Names]
  /\ DecodingFps \subseteq Nat \ {0} /\ WorkPeriod \in Nat
  /\ MinResolution \in Nat \ {0}
  /\ Second \in Nat
  /\ Slots \in Nat /\ Cardinality(Names) <= Slots

VARIABLES
  timers,    (* m_timers: the ms of each slot in use, 0 of a free one      *)
  lists,     (* m_map_timers: from tick length to the list's m_timer_id    *)
  lockers,   (* the CTimerLockers by name: period, m_period_count and the  *)
             (* Locker's m_lock_count                                      *)
  flight,    (* where the callback thread is: the expired slot, then the   *)
             (* ms it read there                                           *)
  pointer,   (* a decoder's timer_fps: "none", "live", or "stale" when the *)
             (* locker it points to was deleted                            *)
  pc,        (* where each decoder's thread is                             *)
  running,   (* its m_thread_running                                       *)
  fault      (* a stale pointer was used                                   *)

manager == <<timers, lists, lockers>>
timerVars == <<manager, flight, pointer, pc, running, fault>>

AtLeast(ms) == IF ms < MinResolution THEN MinResolution ELSE ms

DivisorsFrom(first, ms) == {d \in first..ms : ms % d = 0}

GetDivisor(ms) ==
  LET ds == DivisorsFrom(MinResolution, ms)
  IN  CHOOSE d \in ds : \A e \in ds : d <= e

(* Both divisions are of integers. *)
PeriodOf(fps) == AtLeast(Second \div fps)
GetFps(locker) == Second \div locker.period

ListOf(locker) == GetDivisor(locker.period)

CreateTimerId(ts) ==
  LET free == {i \in 0..(Slots - 1) : ts[i] = 0}
  IN  IF free = {} THEN Slots ELSE CHOOSE i \in free : \A j \in free : i <= j
----------------------------------------------------------------------------
(* The manager's operations, on its state as a record.                     *)
State == [timers |-> timers, lists |-> lists, lockers |-> lockers]
Becomes(m) == timers' = m.timers /\ lists' = m.lists /\ lockers' = m.lockers

(* A list that became empty is finalized, which deletes its timer.  (Its   *)
(* destructor deletes it once more.)                                       *)
Emptied(m, d, keep) ==
  IF \E n \in DOMAIN m.lockers : ListOf(m.lockers[n]) = d THEN m
  ELSE [m EXCEPT !.timers[m.lists[d]] = 0,
                 !.lists = IF keep THEN @ ELSE Restrict(@, DOMAIN @ \ {d})]

(* Mutant: the finalized list stays in the map. *)
FinalizeListKeeping(m, d) == Emptied(m, d, TRUE)

FinalizeList(m, d) == Emptied(m, d, FALSE)

(* DeleteTimerLocker. *)
Deleted(m, name) ==
  IF name \notin DOMAIN m.lockers THEN m
  ELSE LET d == ListOf(m.lockers[name])
       IN  FinalizeList([m EXCEPT !.lockers = Restrict(@, DOMAIN @ \ {name})], d)

(* CTimerWinmm::CreateTimer: timeSetEvent does not fail, and what is       *)
(* written past m_timers is not seen again.                                *)
CreateTimer(ts, ms) ==
  [i \in DOMAIN ts |-> IF i = CreateTimerId(ts) THEN ms ELSE ts[i]]

(* GetList. *)
WithList(m, d) ==
  IF d \in DOMAIN m.lists THEN m
  ELSE [m EXCEPT !.timers = CreateTimer(@, d),
                 !.lists = [e \in DOMAIN @ \cup {d} |->
                              IF e = d THEN CreateTimerId(m.timers) ELSE @[e]]]

(* AddItem. *)
WithLocker(m, name, ms) ==
  LET item == [period |-> ms, count |-> 0, signal |-> 0]
  IN  [m EXCEPT !.lockers = [n \in DOMAIN @ \cup {name} |->
                               IF n = name THEN item ELSE @[n]]]

(* Mutant: the new locker's list is made before the old locker is deleted. *)
GetTimerLockerCreatingFirst(m, name, ms) ==
  LET made == WithList(m, GetDivisor(ms))
  IN  WithLocker(WithList(Deleted(made, name), GetDivisor(ms)), name, ms)

GetTimerLockerByTime(m, name, ms) ==
  WithLocker(WithList(Deleted(m, name), GetDivisor(ms)), name, ms)

(* Whoever else holds the locker of this name holds freed memory.          *)
Stale(name) ==
  [u \in Decoders |-> IF pointer[u] = "live" /\ NameOf[u] = name
                      THEN "stale" ELSE pointer[u]]
Lost(u) == [Stale(NameOf[u]) EXCEPT ![u] = "none"]
Held(u) == [Stale(NameOf[u]) EXCEPT ![u] = "live"]

TimersInit ==
  /\ timers = [i \in 0..(Slots - 1) |-> 0]
  /\ lists = << >> /\ lockers = << >>
  /\ flight = [at |-> "none", value |-> 0]
  /\ pointer = [u \in Decoders |-> "none"]
  /\ pc = [u \in Decoders |-> "off"]
  /\ running = [u \in Decoders |-> FALSE]
  /\ fault = FALSE
----------------------------------------------------------------------------
(* The timers' callback thread: one, whichever timer expires.              *)
Expire(i) ==
  /\ flight.at = "none" /\ timers[i] # 0
  /\ flight' = [at |-> "slot", value |-> i]
  /\ UNCHANGED <<manager, pointer, pc, running, fault>>

(* CTimerImpl::CallBack, without a lock: a slot that is no longer used is  *)
(* passed over, one that is used again speaks for its new list.            *)
CallBack ==
  /\ flight.at = "slot"
  /\ flight' = IF timers[flight.value] = 0 THEN [at |-> "none", value |-> 0]
               ELSE [at |-> "ms", value |-> timers[flight.value]]
  /\ UNCHANGED <<manager, pointer, pc, running, fault>>

(* Mutant: the waiting thread is not woken. *)
TickedSilently(locker, ms) ==
  [locker EXCEPT !.count = IF @ + ms >= locker.period THEN 0 ELSE @ + ms]

Tick(locker, ms) ==
  IF locker.count + ms >= locker.period
  THEN [locker EXCEPT !.signal = 1, !.count = 0]
  ELSE [locker EXCEPT !.count = @ + ms]

SendEvent(ms) ==
  [n \in DOMAIN lockers |->
     IF ListOf(lockers[n]) = ms THEN Tick(lockers[n], ms) ELSE lockers[n]]

CallbackTimer ==
  /\ flight.at = "ms"
  /\ lockers' = IF flight.value \in DOMAIN lists THEN SendEvent(flight.value)
                ELSE lockers
  /\ flight' = [at |-> "none", value |-> 0]
  /\ UNCHANGED <<timers, lists, pointer, pc, running, fault>>

TimerThread == CallBack \/ CallbackTimer \/ \E i \in DOMAIN timers : Expire(i)
----------------------------------------------------------------------------
(* The decoders' threads.                                                  *)
At(u, label) == ~fault /\ pc[u] = label
Goto(u, label) == pc' = [pc EXCEPT ![u] = label]

StartLoop(u) ==
  /\ At(u, "off")
  /\ \E fps \in DecodingFps :
       Becomes(GetTimerLockerByTime(State, NameOf[u], PeriodOf(fps)))
  /\ pointer' = Held(u)
  /\ running' = [running EXCEPT ![u] = TRUE]
  /\ Goto(u, "work")
  /\ UNCHANGED <<flight, fault>>

Live(u) == pointer[u] = "live"
Locker(u) == lockers[NameOf[u]]

(* A frame, if one is due, and the rate it asks for.                       *)
SameFps(u) ==
  /\ At(u, "work")
  /\ Goto(u, "wait")
  /\ UNCHANGED <<manager, flight, pointer, running, fault>>

ChangeFps(u) ==
  /\ At(u, "work") /\ Live(u)
  /\ \E fps \in DecodingFps :
       /\ GetFps(Locker(u)) # fps
       /\ Becomes(GetTimerLockerByTime(State, NameOf[u], PeriodOf(fps)))
  /\ pointer' = Held(u)
  /\ Goto(u, "wait")
  /\ UNCHANGED <<flight, running, fault>>

Wait(u) ==
  /\ At(u, "wait") /\ Live(u) /\ Locker(u).signal > 0
  /\ lockers' = [lockers EXCEPT ![NameOf[u]].signal = 0]
  /\ Goto(u, IF running[u] THEN "work" ELSE "end")
  /\ UNCHANGED <<timers, lists, flight, pointer, running, fault>>

EndLoop(u) ==
  /\ At(u, "end") /\ Live(u)
  /\ Becomes(Deleted(State, NameOf[u]))
  /\ pointer' = Lost(u)
  /\ Goto(u, "off")
  /\ UNCHANGED <<flight, running, fault>>

(* A freed CTimerLocker is asked for its rate or its name, or waited on.   *)
UseStale(u) ==
  /\ At(u, "work") \/ At(u, "wait") \/ At(u, "end")
  /\ pointer[u] = "stale"
  /\ fault' = TRUE
  /\ UNCHANGED <<manager, flight, pointer, pc, running>>

(* Decoder::Deactivate, of a thread that is in its loop. *)
Stop(u) ==
  /\ ~fault /\ pc[u] # "off" /\ running[u]
  /\ running' = [running EXCEPT ![u] = FALSE]
  /\ UNCHANGED <<manager, flight, pointer, pc, fault>>

(* RepeatWorkProc::AddWork and DeleteWork, as far as they concern a timer. *)
AddWork(w) ==
  /\ ~fault /\ NameOf[w] \notin DOMAIN lockers
  /\ Becomes(GetTimerLockerByTime(State, NameOf[w], AtLeast(WorkPeriod)))
  /\ UNCHANGED <<flight, pointer, pc, running, fault>>

DeleteWork(w) ==
  /\ ~fault /\ NameOf[w] \in DOMAIN lockers
  /\ Becomes(Deleted(State, NameOf[w]))
  /\ UNCHANGED <<flight, pointer, pc, running, fault>>

DecoderThread(u) ==
  StartLoop(u) \/ SameFps(u) \/ ChangeFps(u) \/ Wait(u) \/ EndLoop(u) \/ UseStale(u)

TimersNext ==
  \/ TimerThread
  \/ \E u \in Decoders : DecoderThread(u) \/ Stop(u)
  \/ \E w \in Works : AddWork(w) \/ DeleteWork(w)

TimersSpec == TimersInit /\ [][TimersNext]_timerVars

(* A periodic timer keeps expiring while it is set, also when others do.   *)
TimersFairness ==
  /\ \A i \in 0..(Slots - 1) : SF_timerVars(Expire(i))
  /\ WF_timerVars(CallBack \/ CallbackTimer)
  /\ \A u \in Decoders : WF_timerVars(SameFps(u) \/ ChangeFps(u) \/ Wait(u) \/ EndLoop(u))

TimersFairSpec == TimersSpec /\ TimersFairness
----------------------------------------------------------------------------
(* Every list has a timer of its own that ticks at its length, every timer *)
(* that is set belongs to a list, and a list is there exactly while some   *)
(* locker needs it: no locker is left on a list whose timer was deleted.   *)
ListsHaveTimers ==
  /\ \A d \in DOMAIN lists : lists[d] \in DOMAIN timers => timers[lists[d]] = d
  /\ \A i \in DOMAIN timers : timers[i] # 0 => timers[i] \in DOMAIN lists
                                               /\ lists[timers[i]] = i
  /\ DOMAIN lists = {ListOf(lockers[n]) : n \in DOMAIN lockers}

(* CreateTimerId, which answers one past the end of m_timers when every    *)
(* slot is taken, is never asked in that case: a slot for each name is     *)
(* enough, because a locker's predecessor is deleted first.                *)
SlotsSuffice == \A d \in DOMAIN lists : lists[d] < Slots

(* The locker a decoder's thread holds is there until that thread replaces *)
(* or deletes it.                                                          *)
PointersLive == \A u \in Decoders : pc[u] # "off" => pointer[u] = "live"

(* A decoder's thread that waits for its tick goes on, unless its locker   *)
(* was deleted under it: also after rates changed, lists went and came     *)
(* back on other slots, and expiries were in flight meanwhile.             *)
WaitReturns ==
  \A u \in Decoders : pc[u] = "wait" ~> pc[u] # "wait" \/ ~Live(u) \/ fault
=============================================================================
