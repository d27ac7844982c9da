----------------------------- MODULE EventTimers -----------------------------
(***************************************************************************)
(* The service's thread with two users of its one timer table: ANRManager, *)
(* which watches the events sent to applications, and KeyAutoRepeat, which *)
(* repeats a key that is held.  Each action is one callback of the thread: *)
(* an input event, a message of a client, a delegated task or a timer.     *)
(***************************************************************************)
EXTENDS AnrManager, KeyAutoRepeat

VARIABLES
  timers,          \* TimerManager::timers_
  nextEventId      \* g_nextEventId

vars == <<timers, nextEventId, anrVars, keyVars>>

IsAnr(i) == timers[i].owner.kind = "anr"
Owners == [kind : {"anr"}, app : App, type : AnrType] \cup [kind : {"repeat"}]

Init ==
  /\ timers = <<>>
  /\ nextEventId = 1
  /\ AnrInit
  /\ KeyInit

FreshEventId == nextEventId <= MaxEvents /\ nextEventId' = nextEventId + 1

(* The id of a pointer or touch event is its own.  A touch event is also
   sent to the monitors. *)
SendEvent(s, type) ==
  /\ FreshEventId
  /\ Send(timers, s, type, nextEventId)
  /\ timers' = TableAfterSend(timers, s, type)
  /\ UNCHANGED keyVars

(* A key event is sent to the application that has the focus, unless none
   has, it does not respond or its socket does not take it. *)
SendKey(table, id, tableAfter) ==
  \/ \E s \in App :
       /\ Send(table, s, "ANR_DISPATCH", id)
       /\ tableAfter = TableAfterSend(table, s, "ANR_DISPATCH")
  \/ UNCHANGED anrVars /\ tableAfter = table

TablesAfterKey(table) ==
  {table} \cup {TableAfterSend(table, s, "ANR_DISPATCH") : s \in App}

KeyDown ==
  /\ FreshEventId
  /\ keyEventId' = nextEventId
  /\ \E table \in TablesAfterKey(timers) :
       /\ SendKey(timers, nextEventId, table)
       /\ SelectAutoRepeatDown(table, timers')

KeyUp(isRepeatKey) ==
  /\ keyEventId # 0
  /\ FreshEventId
  /\ keyEventId' = nextEventId
  /\ \E table \in TablesAfterKey(timers) :
       /\ SendKey(timers, nextEventId, table)
       /\ SelectAutoRepeatUp(table, timers', isRepeatKey)

(* The repetition's timer runs: the key is sent with the id it has, gets a
   new one, and the timer is added again. *)
Repeat(i) ==
  /\ ~IsAnr(i)
  /\ FreshEventId
  /\ keyEventId' = nextEventId
  /\ \E table \in TablesAfterKey(RemoveAt(timers, i)) :
       /\ SendKey(RemoveAt(timers, i), keyEventId, table)
       /\ AddHandleTimer(table, timers')
  /\ UNCHANGED strayed

(* The state machine of the cooperation stops the repetition of the keyboard
   of another device, when a cooperation ends or moves on. *)
CooperationEnds ==
  /\ RemoveTimer(timers, timers')
  /\ UNCHANGED <<nextEventId, keyEventId, anrVars>>

(* An ANR timer runs, the oldest first. *)
Anr(i, sent) ==
  LET owner == timers[i].owner
  IN  /\ IsAnr(i)
      /\ \A j \in 1..(i - 1) : ~IsAnr(j)
      /\ Timeout(owner.app, owner.type, sent)
      /\ timers' = TableAfterTimeout(RemoveAt(timers, i), owner.app, owner.type, sent)
      /\ UNCHANGED <<nextEventId, keyVars>>

Mark(s, type, k) ==
  /\ MarkProcessed(s, type, k)
  /\ timers' = TableAfterMark(timers, s, type, k)
  /\ UNCHANGED <<nextEventId, keyVars>>

Disconnect(s) ==
  /\ OnSessionLost(s)
  /\ timers' = TableAfterLoss(timers, s)
  /\ UNCHANGED <<nextEventId, keyVars>>

(* What does not touch the timers. *)
Aside ==
  /\ \/ \E s \in Process : AddSession(s) \/ SetANRNoticedPid(s)
     \/ \E s \in App, t \in AnrType :
          \/ \E k \in DOMAIN unprocessed[s][t] : LoseMark(s, t, k)
          \/ \E k \in DOMAIN events[s][t] : GrowOld(s, t, k)
  /\ UNCHANGED <<timers, nextEventId, keyVars>>

Next ==
  \/ \E s \in App, t \in AnrType :
       \/ SendEvent(s, t)
       \/ \E k \in DOMAIN unprocessed[s][t] : Mark(s, t, k)
  \/ KeyDown
  \/ \E isRepeatKey \in BOOLEAN : KeyUp(isRepeatKey)
  \/ \E i \in DOMAIN timers : Repeat(i) \/ \E sent \in BOOLEAN : Anr(i, sent)
  \/ \E s \in Process : Disconnect(s)
  \/ CooperationEnds
  \/ Aside

Spec == Init /\ [][Next]_vars

-----------------------------------------------------------------------------
(* Types: ids that tell the timers of the table apart, owners that exist,
   and no more ANR timers counted than MAX_ANR_TIMER_COUNT. *)
TypeOK ==
  /\ AnrTypeOK
  /\ timerId \in TimerId \cup {NoTimer}
  /\ keyEventId \in EventId \cup {0}
  /\ stale \in BOOLEAN /\ strayed \in BOOLEAN
  /\ nextEventId \in 1..(MaxEvents + 1)
  /\ \A i \in DOMAIN timers : timers[i].id \in TimerId /\ timers[i].owner \in Owners
  /\ DistinctIds(timers)

(* anrTimerCount_, which AddTimer increments and four other places decrement,
   is the number of events that name a timer, over all sessions: the budget
   of MAX_ANR_TIMER_COUNT does not leak. *)
CountMatchesEvents ==
  anrTimerCount =
    Cardinality(UNION {{s} \X {t} \X Watched(events[s][t]) : s \in App, t \in AnrType})

(* Every ANR timer in the table watches an event in the list of a session
   that is not lost, and unless one of the application's marks was not sent,
   the application has that event, or one before it in the list, still to
   mark: TriggerANR never blocks an application that has answered all it was
   sent up to the event.  It may be the event before: a mark stops at the
   first larger id, so that in a list that is not sorted by id an event that
   is marked is still watched. *)
TimersWatchEvents ==
  \A i \in DOMAIN timers : IsAnr(i) =>
    LET s == timers[i].owner.app
        entries == events[s][timers[i].owner.type]
        owed == unprocessed[s][timers[i].owner.type]
    IN  /\ s \in live
        /\ \E k \in DOMAIN entries :
             /\ entries[k].timer = timers[i].id
             /\ s \in unreliable \/ \E j \in 1..k, n \in DOMAIN owed : entries[j].id = owed[n]

(* When the application has marked all it was sent, in whatever order, and
   none of its marks was lost, DelEvents has emptied its list: although the
   list is not sorted by id, since KeyAutoRepeat sends a key with the id it
   got when it was sent before, no event is left that no mark will remove. *)
AllMarkedAllGone ==
  \A s \in App \ unreliable, t \in AnrType : unprocessed[s][t] = <<>> => events[s][t] = <<>>

(* The timer of the repeated key is the one KeyAutoRepeat::timerId_ names: a
   key that goes up can stop it. *)
RepeatCanBeStopped ==
  \A i \in DOMAIN timers : ~IsAnr(i) => timers[i].id = timerId

(* Whoever holds the id of a timer that exists holds the id of a timer of its
   own, although ids are reused at once: RemoveTimer(id) stops no other
   user's timer.  Left out is the id that KeyAutoRepeat::RemoveTimer leaves in
   timerId_, until the next timer of the repetition is added. *)
IdsNameOwnTimers ==
  \A i \in DOMAIN timers :
    /\ \A s \in App, t \in AnrType :
         timers[i].id \in TimersOf(events[s][t]) => timers[i].owner = AnrTimer(s, t)
    /\ timers[i].id = timerId /\ ~stale => ~IsAnr(i)

(* RepeatCanBeStopped always, and IdsNameOwnTimers as long as every notice of
   an ANR has been sent, so that the callback of ANRManager::AddTimer has
   never returned early, and no key has removed another user's timer by an id
   that KeyAutoRepeat::RemoveTimer left. *)
IdsMatchTimers == RepeatCanBeStopped /\ (unsent \/ strayed \/ IdsNameOwnTimers)
=============================================================================
