---------------------------- MODULE TimerManager ----------------------------
(***************************************************************************)
(* Class TimerManager and the loop of MMIService::OnThread that drives it. *)
(* Each round computes how long epoll may sleep, sleeps, handles the       *)
(* events that came (whose handlers add, remove and reset timers) and then *)
(* runs every timer that is due.  A timer's callback runs inside           *)
(* ProcessTimers, between the removal of its timer from the list and the   *)
(* next look at the list, and may use the timer functions itself.          *)
(*                                                                         *)
(* The time is that of system_clock: it can be set.  epoll measures its    *)
(* time-out on a clock of its own, which cannot.                           *)
(***************************************************************************)
EXTENDS TimerTable

CONSTANTS
  Intervals,    \* intervals the model's users ask for
  Repeats,      \* repeat counts the model's users ask for; below 1 is for ever
  MaxTime,      \* bound of the model: the last time the clock shows
  DelayRange,   \* 2^31, where the conversion of a delay to int32_t wraps
  ClockIsSet    \* TRUE when the wall clock may be set while the service runs

ASSUME UsersAssumption ==
  /\ Intervals \subseteq Int
  /\ Repeats \subseteq Int
  /\ MaxTime \in Nat
  /\ DelayRange \in Nat \ {0}
  /\ ClockIsSet \in BOOLEAN

VARIABLES
  timers,      \* timers_
  now,         \* GetMillisTime()
  phase,       \* where the worker thread is in its loop
  passNow,     \* nowTime of the ProcessTimersInternal in progress
  sleepLeft,   \* what is left of epoll's time-out, NoTimeout when it has none
  lag,         \* history: time from the look at the clock to epoll_wait, which
               \* a clock that is set does not tell
  fired        \* ids that have run in the ProcessTimersInternal in progress

timerVars == <<timers, now, phase, passNow, sleepLeft, lag, fired>>

NoTimeout == -1

Timer == [id : TimerId, interval : MinInterval..MaxInterval, repeat : Repeats,
          count : Nat, next : Int]

TimerTypeOK ==
  /\ timers \in Seq(Timer)
  /\ now \in 0..MaxTime
  /\ phase \in {"top", "poll", "asleep", "events", "pass", "callback"}
  /\ passNow \in 0..MaxTime
  /\ sleepLeft \in Nat \cup {NoTimeout}
  /\ lag \in Nat
  /\ fired \subseteq TimerId

(* OnStart adds timers before it starts the thread. *)
TimerInit ==
  /\ timers = <<>>
  /\ now = 0
  /\ phase = "events"
  /\ passNow = 0
  /\ sleepLeft = NoTimeout
  /\ lag = 0
  /\ fired = {}

-----------------------------------------------------------------------------
(* AddTimer, RemoveTimer and ResetTimer, called by the event handlers and by
   the callbacks of timers, all of them on the worker thread. *)

MayUseTimers == phase \in {"events", "callback"}

AddTimer(intervalMs, repeat) ==
  /\ MayUseTimers
  /\ \E id \in NextTimerIds(timers), k \in InsertPositions(timers, now + ClampInterval(intervalMs)) :
       timers' = InsertAt(timers, k,
                   [id |-> id, interval |-> ClampInterval(intervalMs), repeat |-> repeat,
                    count |-> 0, next |-> now + ClampInterval(intervalMs)])
  /\ UNCHANGED <<now, phase, passNow, sleepLeft, lag, fired>>

RemoveTimer(id) ==
  /\ MayUseTimers
  /\ \E i \in PositionsOf(timers, id) : timers' = RemoveAt(timers, i)
  /\ UNCHANGED <<now, phase, passNow, sleepLeft, lag, fired>>

ResetTimer(id) ==
  /\ MayUseTimers
  /\ \E i \in PositionsOf(timers, id) :
       LET rest == RemoveAt(timers, i)
           next == now + timers[i].interval
       IN  \E k \in InsertPositions(rest, next) :
             timers' = InsertAt(rest, k, [timers[i] EXCEPT !.next = next, !.count = 0])
  /\ UNCHANGED <<now, phase, passNow, sleepLeft, lag, fired>>

-----------------------------------------------------------------------------
(* The loop of OnThread *)

(* The difference is an int64_t, the delay an int32_t. *)
ToInt32(d) == ((d + DelayRange) % (2 * DelayRange)) - DelayRange

(* Mutant: the delay of the timer that is last in the list. *)
DelayOfLast ==
  IF timers = <<>> THEN -1
  ELSE IF now >= timers[Len(timers)].next THEN 0 ELSE ToInt32(timers[Len(timers)].next - now)

(* Mutant: no test for a deadline that has passed. *)
DelayUnchecked ==
  IF timers = <<>> THEN -1 ELSE ToInt32(Head(timers).next - now)

CalcNextDelay ==
  IF timers = <<>> THEN -1
  ELSE IF now >= Head(timers).next THEN 0 ELSE ToInt32(Head(timers).next - now)

(* The thread looks at the clock for the time-out it will give to epoll_wait,
   which takes every negative one for none at all. *)
TakeDelay ==
  /\ phase = "top"
  /\ phase' = "poll"
  /\ sleepLeft' = IF CalcNextDelay < 0 THEN NoTimeout ELSE CalcNextDelay
  /\ lag' = 0
  /\ UNCHANGED <<timers, now, passNow, fired>>

EpollWait ==
  /\ phase = "poll"
  /\ phase' = "asleep"
  /\ UNCHANGED <<timers, now, passNow, sleepLeft, lag, fired>>

WakeForTimers ==
  /\ phase = "asleep"
  /\ sleepLeft = 0
  /\ phase' = "events"
  /\ sleepLeft' = NoTimeout
  /\ lag' = 0
  /\ UNCHANGED <<timers, now, passNow, fired>>

WakeForEvent ==
  /\ phase = "asleep"
  /\ phase' = "events"
  /\ sleepLeft' = NoTimeout
  /\ lag' = 0
  /\ UNCHANGED <<timers, now, passNow, fired>>

StartPass ==
  /\ phase = "events"
  /\ phase' = "pass"
  /\ passNow' = now
  /\ fired' = {}
  /\ UNCHANGED <<timers, now, sleepLeft, lag>>

(* Mutant: a timer whose time is the present millisecond is not due. *)
HeadIsOverdue == timers # <<>> /\ Head(timers).next < passNow

HeadIsDue == timers # <<>> /\ Head(timers).next <= passNow

HasRunOut(t) == t.repeat >= 1 /\ t.count + 1 >= t.repeat

(* The last call of a timer: it is gone, and its id free, before its
   callback runs. *)
FireLast ==
  /\ phase = "pass"
  /\ HeadIsDue
  /\ HasRunOut(Head(timers))
  /\ timers' = Tail(timers)
  /\ phase' = "callback"
  /\ fired' = fired \cup {Head(timers).id}
  /\ UNCHANGED <<now, passNow, sleepLeft, lag>>

(* Mutant: periods counted from the missed deadline, to keep the phase. *)
NextCallFromDeadline(t) == t.next + t.interval

NextCall(t) == passNow + t.interval

(* Any other call: the timer is back in the list before its callback runs.
   The count of a timer that repeats for ever decides nothing. *)
FireAgain ==
  /\ phase = "pass"
  /\ HeadIsDue
  /\ LET t == Head(timers) IN
       /\ ~HasRunOut(t)
       /\ \E k \in InsertPositions(Tail(timers), NextCall(t)) :
            timers' = InsertAt(Tail(timers), k,
                        [t EXCEPT !.next = NextCall(t),
                                  !.count = IF t.repeat >= 1 THEN t.count + 1 ELSE t.count])
       /\ fired' = fired \cup {t.id}
  /\ phase' = "callback"
  /\ UNCHANGED <<now, passNow, sleepLeft, lag>>

CallbackReturns ==
  /\ phase = "callback"
  /\ phase' = "pass"
  /\ UNCHANGED <<timers, now, passNow, sleepLeft, lag, fired>>

EndPass ==
  /\ phase = "pass"
  /\ ~HeadIsDue
  /\ phase' = "top"
  /\ UNCHANGED <<timers, now, passNow, sleepLeft, lag, fired>>

(* A unit of time passes, on both clocks; epoll's time-out begins to run when
   epoll_wait is called.  At the model's last time only that is left to run. *)
Tick ==
  /\ now < MaxTime \/ (phase = "asleep" /\ sleepLeft > 0)
  /\ now' = IF now < MaxTime THEN now + 1 ELSE now
  /\ sleepLeft' = IF phase = "asleep" /\ sleepLeft > 0 THEN sleepLeft - 1 ELSE sleepLeft
  /\ lag' = IF phase = "poll" /\ ~ClockIsSet THEN lag + 1 ELSE lag
  /\ UNCHANGED <<timers, phase, passNow, fired>>

SetClock ==
  /\ ClockIsSet
  /\ now' \in 0..MaxTime
  /\ UNCHANGED <<timers, phase, passNow, sleepLeft, lag, fired>>

UserStep ==
  \/ \E ms \in Intervals, r \in Repeats : AddTimer(ms, r)
  \/ \E id \in TimerId : RemoveTimer(id) \/ ResetTimer(id)

LoopStep ==
  \/ TakeDelay \/ EpollWait \/ WakeForTimers \/ StartPass
  \/ FireLast \/ FireAgain \/ CallbackReturns \/ EndPass

TimerNext == UserStep \/ LoopStep \/ WakeForEvent \/ Tick \/ SetClock

TimerSpec == TimerInit /\ [][TimerNext]_timerVars

(***************************************************************************)
(* Fairness: time passes and the worker thread, when it is not asleep, is  *)
(* scheduled and its handlers return.  No event has to arrive.             *)
(***************************************************************************)
TimerFairSpec == TimerSpec /\ WF_timerVars(LoopStep) /\ WF_timerVars(Tick)

-----------------------------------------------------------------------------
(* ProcessTimers stops at the first timer that is not due and finds its
   timers by id: both are right only while the list is in order and no two
   timers share a slot, across callbacks that change the list they run from. *)
TableConsistent == OrderedByNextCall(timers) /\ DistinctIds(timers)

(* epoll's time-out never outlasts the earliest deadline by more than the time
   that passed between the look at the clock and the call of epoll_wait. *)
SleepCoversHead ==
  phase \in {"poll", "asleep"} /\ timers # <<>> =>
    /\ sleepLeft # NoTimeout
    /\ sleepLeft = 0 \/ now + sleepLeft <= Head(timers).next + lag

(* One look at the clock serves the whole of ProcessTimers: no slot runs
   twice on it, neither a timer put back nor one a callback has just added,
   so the loop ends however late the worker thread is. *)
NoSlotRunsTwice ==
  [][phase = "pass" /\ phase' = "callback" => Head(timers).id \notin fired]_timerVars

(* When ProcessTimers returns, no timer that was due when it began is left,
   not even behind timers its callbacks have added, reset or removed. *)
NoDueTimerLeft ==
  [][phase = "pass" /\ phase' = "top" =>
       \A i \in DOMAIN timers : timers[i].next > passNow]_timerVars

(* A timer that is due is run, or was taken back by its user. *)
DueTimersRun ==
  \A id \in TimerId :
    (\E i \in DOMAIN timers : timers[i].id = id /\ timers[i].next <= now)
      ~> ~(\E i \in DOMAIN timers : timers[i].id = id /\ timers[i].next <= now)
=============================================================================
