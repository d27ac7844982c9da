----------------------------- MODULE TimerTable -----------------------------
(***************************************************************************)
(* The timer list of class TimerManager as a value: a sequence of timers   *)
(* ordered by the time of their next call, and what TakeNextTimerId,       *)
(* InsertTimerInternal, RemoveTimerInternal and the interval limits of     *)
(* AddTimerInternal compute on it.  Timer ids are the slots of a table of  *)
(* MaxTimers bits and are reused as soon as they are free.                 *)
(***************************************************************************)
EXTENDS Integers, Sequences, SequencesExt

CONSTANTS
  MaxTimers,     \* MAX_TIMER_COUNT
  MinInterval,   \* MIN_INTERVAL, in units of the model's clock
  MaxInterval    \* MAX_INTERVAL

ASSUME TimerAssumption ==
  /\ MaxTimers \in Nat \ {0}
  /\ MinInterval \in Nat \ {0}
  /\ MaxInterval \in Nat
  /\ MinInterval <= MaxInterval

TimerId == 0..(MaxTimers - 1)

NoTimer == -1   \* NONEXISTENT_ID

UsedIds(timers) == {timers[i].id : i \in DOMAIN timers}

(* TakeNextTimerId: the lowest slot not in use, none when all are. *)
NextTimerIds(timers) ==
  {i \in TimerId : i \notin UsedIds(timers) /\ \A j \in 0..(i - 1) : j \in UsedIds(timers)}

(* What AddTimer returns: that slot, or NONEXISTENT_ID. *)
NewTimerId(timers) ==
  IF NextTimerIds(timers) = {} THEN NoTimer ELSE CHOOSE i \in NextTimerIds(timers) : TRUE

(* Mutant: no upper limit. *)
ClampFromBelow(ms) == IF ms < MinInterval THEN MinInterval ELSE ms

ClampInterval(ms) ==
  IF ms < MinInterval THEN MinInterval
  ELSE IF ms > MaxInterval THEN MaxInterval ELSE ms

(* Mutant: before the first timer that is not earlier, so that the scan
   stops at the first one. *)
InsertAtFront(timers, next) == {1}

(* InsertTimerInternal: before the first timer that is strictly later, at
   the end when there is none. *)
InsertPositions(timers, next) ==
  {k \in 1..(Len(timers) + 1) :
     /\ \A i \in 1..(k - 1) : timers[i].next <= next
     /\ k <= Len(timers) => timers[k].next > next}

IsExist(timers, id) == id \in UsedIds(timers)

(* RemoveTimerInternal erases the first timer that carries the id. *)
PositionsOf(timers, id) ==
  {i \in DOMAIN timers : timers[i].id = id /\ \A j \in 1..(i - 1) : timers[j].id # id}

(* RemoveTimer for each id of a set. *)
Without(timers, ids) ==
  LET left[n \in 0..Len(timers)] ==
        IF n = 0 THEN <<>>
        ELSE IF timers[n].id \in ids THEN left[n - 1]
        ELSE Append(left[n - 1], timers[n])
  IN  left[Len(timers)]

(* The order of the list, and ids that tell the timers apart. *)
OrderedByNextCall(timers) ==
  \A i, j \in DOMAIN timers : i < j => timers[i].next <= timers[j].next

DistinctIds(timers) ==
  \A i, j \in DOMAIN timers : i # j => timers[i].id # timers[j].id
=============================================================================
