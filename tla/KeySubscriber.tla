---------------------------- MODULE KeySubscriber ----------------------------
(***************************************************************************)
(* Class KeySubscriberHandler: applications subscribe to a key that is     *)
(* pressed or released while other keys are held, to a key that is held    *)
(* for some time, or to a release with a delay.  The last two keep a timer *)
(* per subscription, in the one table of the service.                      *)
(*                                                                         *)
(* The keyboard is the environment: keys go down and up, and the key that  *)
(* went down last repeats; applications inject events of their own.  A     *)
(* handler before this one in the chain (an interceptor, a key command)    *)
(* may consume any key event.  The durations of subscriptions are          *)
(* arbitrary, so their timers run in any order.                            *)
(***************************************************************************)
EXTENDS TimerTable, FiniteSets

CONSTANTS
  Sessions,        \* sessions of applications
  Keys,            \* key codes
  PowerKeys,       \* KEYCODE_POWER
  VolumeKeys,      \* KEYCODE_VOLUME_DOWN, KEYCODE_VOLUME_UP
  Subscriptions,   \* the [sess, id, option] the applications ask for
  Injected         \* actions of the key events that applications inject

(* A KeyOption.  lasting is finalKeyDownDuration_ > 0, delayed is
   finalKeyUpDelay_ > 0. *)
Option == [preKeys : SUBSET Keys, finalKey : Keys, isFinalKeyDown : BOOLEAN,
           lasting : BOOLEAN, delayed : BOOLEAN]

ASSUME SubscriberAssumption ==
  /\ PowerKeys \cup VolumeKeys \subseteq Keys
  /\ Injected \subseteq {"down", "up", "cancel"}
  /\ Subscriptions \subseteq [sess : Sessions, id : Nat, option : Option]

VARIABLES
  live,               \* sessions the server has
  subscribers,        \* subscribers_
  hasEventExecuting,  \* hasEventExecuting_
  keyEvent,           \* keyEvent_, the clone of the last event that was not skipped
  timers,             \* TimerManager::timers_
  pressed,            \* keys that are down
  repeating           \* the key KeyAutoRepeat repeats, if any

vars == <<live, subscribers, hasEventExecuting, keyEvent, timers, pressed, repeating>>
handlerVars == <<subscribers, hasEventExecuting, keyEvent, timers>>

KeyEvent == [action : {"down", "up", "cancel"}, key : Keys, pressed : SUBSET Keys]
NoEvent == [action |-> "none"]

KeyTimer(subscriber) == [kind |-> "key", sess |-> subscriber.sess, id |-> subscriber.id]
OtherTimer == [kind |-> "other"]

Init ==
  /\ live = {}
  /\ subscribers = <<>>
  /\ hasEventExecuting = FALSE
  /\ keyEvent = NoEvent
  /\ timers = <<>>
  /\ pressed = {}
  /\ repeating = {}

-----------------------------------------------------------------------------
(* One turn of the handler works on its subscribers, the timers and the
   flag, one subscriber after the other. *)

Turn == [subs |-> subscribers, table |-> timers, executing |-> hasEventExecuting]

EndTurn(turn) ==
  /\ subscribers' = turn.subs
  /\ timers' = turn.table
  /\ hasEventExecuting' = turn.executing

(* Mutant: the subscriber keeps the event that was cloned before this one. *)
AddTimerWithOldEvent(turn, k, event) ==
  LET id == NewTimerId(turn.table)
  IN  IF turn.subs[k].timerId # NoTimer \/ id = NoTimer THEN turn
      ELSE [subs      |-> [turn.subs EXCEPT ![k].timerId = id, ![k].event = keyEvent],
            table     |-> Append(turn.table, [id |-> id, owner |-> KeyTimer(turn.subs[k])]),
            executing |-> TRUE]

AddTimer(turn, k, event) ==
  LET id == NewTimerId(turn.table)
  IN  IF turn.subs[k].timerId # NoTimer \/ id = NoTimer THEN turn
      ELSE [subs      |-> [turn.subs EXCEPT ![k].timerId = id, ![k].event = event],
            table     |-> Append(turn.table, [id |-> id, owner |-> KeyTimer(turn.subs[k])]),
            executing |-> TRUE]

(* RemoveTimerInternal *)
Removed(table, id) ==
  IF PositionsOf(table, id) = {} THEN table
  ELSE RemoveAt(table, CHOOSE i \in PositionsOf(table, id) : TRUE)

ClearTimer(turn, k) ==
  IF turn.subs[k].timerId = NoTimer THEN turn
  ELSE [subs      |-> [turn.subs EXCEPT ![k].timerId = NoTimer, ![k].event = NoEvent],
        table     |-> Removed(turn.table, turn.subs[k].timerId),
        executing |-> FALSE]

ClearTimers(turn, ks) ==
  LET after[n \in 0..Len(turn.subs)] ==
        IF n = 0 THEN turn
        ELSE IF n \in ks THEN ClearTimer(after[n - 1], n) ELSE after[n - 1]
  IN  after[Len(turn.subs)]

(* The final key and IsPreKeysMatch. *)
Matches(option, event) ==
  /\ event.key = option.finalKey
  /\ option.preKeys \in {{}, event.pressed \ {event.key}}

IsNotifyPowerKeySubscriber(option, event) ==
  option.finalKey \in PowerKeys => event.pressed \cap VolumeKeys = {}

(* A subscription without a duration is notified at once, which changes
   nothing here. *)
HandleKeyDown(turn, k, event) ==
  LET option == turn.subs[k].option
  IN  IF ~option.isFinalKeyDown THEN turn
      ELSE IF ~Matches(option, event) THEN ClearTimer(turn, k)
      ELSE IF option.lasting THEN AddTimer(turn, k, event) ELSE turn

(* Mutant: a release does not end the wait of the others. *)
HandleKeyUpOfOwn(turn, k, event, quick) ==
  LET option == turn.subs[k].option
  IN  IF option.isFinalKeyDown
      THEN IF event.key = option.finalKey THEN ClearTimer(turn, k) ELSE turn
      ELSE IF /\ Matches(option, event)
              /\ IsNotifyPowerKeySubscriber(option, event)
              /\ option.lasting => quick
              /\ option.delayed
           THEN AddTimer(turn, k, event) ELSE turn

(* quick: the key was down for less than the duration of a subscription. *)
HandleKeyUp(turn, k, event, quick) ==
  LET option == turn.subs[k].option
  IN  IF option.isFinalKeyDown THEN ClearTimer(turn, k)
      ELSE IF /\ Matches(option, event)
              /\ IsNotifyPowerKeySubscriber(option, event)
              /\ option.lasting => quick
              /\ option.delayed
           THEN AddTimer(turn, k, event) ELSE turn

HandleOne(turn, k, event, quick) ==
  CASE event.action = "down"   -> HandleKeyDown(turn, k, event)
    [] event.action = "up"     -> HandleKeyUp(turn, k, event, quick)
    [] event.action = "cancel" -> ClearTimer(turn, k)

HandleKey(turn, event, quick) ==
  LET before == IF event.action = "down" THEN turn ELSE [turn EXCEPT !.executing = FALSE]
      after[n \in 0..Len(turn.subs)] ==
        IF n = 0 THEN before ELSE HandleOne(after[n - 1], n, event, quick)
  IN  after[Len(turn.subs)]

(* Equal keys, actions and key items. *)
IsRepeatedKeyEvent(event) == hasEventExecuting /\ event = keyEvent

OnSubscribeKeyEvent(event, quick) ==
  IF IsRepeatedKeyEvent(event) THEN UNCHANGED handlerVars
  ELSE keyEvent' = event /\ EndTurn(HandleKey(Turn, event, quick))

(* RemoveSubscriberKeyUpTimer, for each of the keys. *)
RemoveSubscriberKeyUpTimer(keys) ==
  LET waiting == {k \in DOMAIN subscribers : subscribers[k].option.finalKey \in keys}
  IN  EndTurn(ClearTimers(Turn, waiting))

(* The event reaches the handler, unless it was intercepted. *)
Chain(event, quick) == OnSubscribeKeyEvent(event, quick) \/ UNCHANGED handlerVars

(* The event completes a sequence of keys: KeyCommandHandler removes the
   timers of the keys of the sequence and consumes it. *)
CompletesSequence(event) ==
  /\ \E keys \in SUBSET Keys : event.key \in keys /\ RemoveSubscriberKeyUpTimer(keys)
  /\ UNCHANGED keyEvent

-----------------------------------------------------------------------------
(* The keyboard *)

KeyDown(key) ==
  LET event == [action |-> "down", key |-> key, pressed |-> pressed \cup {key}]
  IN  /\ key \notin pressed
      /\ pressed' = pressed \cup {key}
      /\ repeating' = {key}
      /\ Chain(event, FALSE) \/ CompletesSequence(event)
      /\ UNCHANGED live

KeyUp(key, quick) ==
  LET event == [action |-> "up", key |-> key, pressed |-> pressed \ {key}]
  IN  /\ key \in pressed
      /\ pressed' = pressed \ {key}
      /\ repeating' = repeating \ {key}
      /\ Chain(event, quick) \/ CompletesSequence(event)
      /\ UNCHANGED live

KeyRepeats(key) ==
  /\ key \in repeating
  /\ Chain([action |-> "down", key |-> key, pressed |-> pressed], FALSE)
  /\ UNCHANGED <<live, pressed, repeating>>

(* OnInjectKeyEvent: the event itself says which keys are pressed, its own
   key among them unless it is released (KeyEvent::IsValidKeyItem). *)
InjectKeyEvent(event, quick) ==
  /\ event.action \in Injected
  /\ event.key \in event.pressed <=> event.action # "up"
  /\ OnSubscribeKeyEvent(event, quick)
  /\ UNCHANGED <<live, pressed, repeating>>

-----------------------------------------------------------------------------
(* Timers *)

SubscribersOf(timer) == {k \in DOMAIN subscribers : KeyTimer(subscribers[k]) = timer.owner}

OnTimer(k) == [subscribers EXCEPT ![k].timerId = NoTimer, ![k].event = NoEvent]

(* The timer of a subscription runs: it is gone from the table, and its
   subscriber, if it is still there, is notified. *)
TimerRuns(i) ==
  /\ timers[i].owner # OtherTimer
  /\ timers' = RemoveAt(timers, i)
  /\ subscribers' \in IF SubscribersOf(timers[i]) = {} THEN {subscribers}
                      ELSE {OnTimer(k) : k \in SubscribersOf(timers[i])}
  /\ UNCHANGED <<live, hasEventExecuting, keyEvent, pressed, repeating>>

(* The other users of the table. *)
OtherAdds ==
  /\ NewTimerId(timers) # NoTimer
  /\ timers' = Append(timers, [id |-> NewTimerId(timers), owner |-> OtherTimer])
  /\ UNCHANGED <<live, subscribers, hasEventExecuting, keyEvent, pressed, repeating>>

OtherEnds(i) ==
  /\ timers[i].owner = OtherTimer
  /\ timers' = RemoveAt(timers, i)
  /\ UNCHANGED <<live, subscribers, hasEventExecuting, keyEvent, pressed, repeating>>

-----------------------------------------------------------------------------
(* Sessions and their subscriptions *)

Connect(s) ==
  /\ s \notin live
  /\ live' = live \cup {s}
  /\ UNCHANGED <<handlerVars, pressed, repeating>>

Registered(subscription) ==
  \E k \in DOMAIN subscribers : /\ subscribers[k].sess = subscription.sess
                                /\ subscribers[k].id = subscription.id

(* Mutant: InsertSubScriber does not look for the id. *)
InsertAlways(subscription) == TRUE

Inserts(subscription) == ~Registered(subscription)

SubscribeKeyEvent(subscription) ==
  /\ subscription.sess \in live
  /\ Inserts(subscription)
  /\ subscribers' = Append(subscribers,
       [sess |-> subscription.sess, id |-> subscription.id, option |-> subscription.option,
        timerId |-> NoTimer, event |-> NoEvent])
  /\ UNCHANGED <<live, hasEventExecuting, keyEvent, timers, pressed, repeating>>

UnsubscribeKeyEvent(k) ==
  /\ subscribers[k].sess \in live
  /\ EndTurn([ClearTimer(Turn, k) EXCEPT !.subs = RemoveAt(@, k)])
  /\ UNCHANGED <<live, keyEvent, pressed, repeating>>

OfOthers(subs, s) ==
  LET left[n \in 0..Len(subs)] ==
        IF n = 0 THEN <<>>
        ELSE IF subs[n].sess = s THEN left[n - 1] ELSE Append(left[n - 1], subs[n])
  IN  left[Len(subs)]

(* Mutant: the timers of the subscribers that go are left. *)
WithoutSession(s) == [Turn EXCEPT !.subs = OfOthers(@, s)]

AfterSession(s) ==
  [ClearTimers(Turn, {k \in DOMAIN subscribers : subscribers[k].sess = s})
     EXCEPT !.subs = OfOthers(@, s)]

OnSessionDelete(s) ==
  /\ s \in live
  /\ live' = live \ {s}
  /\ EndTurn(AfterSession(s))
  /\ UNCHANGED <<keyEvent, pressed, repeating>>

Next ==
  \/ \E key \in Keys :
       KeyDown(key) \/ KeyRepeats(key) \/ \E quick \in BOOLEAN : KeyUp(key, quick)
  \/ \E event \in KeyEvent, quick \in BOOLEAN : InjectKeyEvent(event, quick)
  \/ \E i \in DOMAIN timers : TimerRuns(i) \/ OtherEnds(i)
  \/ OtherAdds
  \/ \E s \in Sessions : Connect(s) \/ OnSessionDelete(s)
  \/ \E subscription \in Subscriptions : SubscribeKeyEvent(subscription)
  \/ \E k \in DOMAIN subscribers : UnsubscribeKeyEvent(k)

Spec == Init /\ [][Next]_vars

-----------------------------------------------------------------------------
(* Types; no subscription is registered twice, and none outlives its session. *)
TypeOK ==
  /\ live \subseteq Sessions
  /\ \A k \in DOMAIN subscribers :
       /\ subscribers[k].sess \in live
       /\ subscribers[k].option \in Option
       /\ subscribers[k].timerId \in TimerId \cup {NoTimer}
       /\ subscribers[k].event \in KeyEvent \cup {NoEvent}
  /\ \A j, k \in DOMAIN subscribers :
       KeyTimer(subscribers[j]) = KeyTimer(subscribers[k]) => j = k
  /\ hasEventExecuting \in BOOLEAN
  /\ keyEvent \in KeyEvent \cup {NoEvent}
  /\ \A i \in DOMAIN timers : timers[i].id \in TimerId
  /\ pressed \subseteq Keys
  /\ repeating \subseteq pressed

(* The ids that subscribers hold are exactly their own timers, although ids
   are reused: ClearTimer removes no other user's timer, and no timer is
   left of a subscription that has ended.  This takes the other users of the
   table to remove only timers of their own, which the ids left behind by
   KeyAutoRepeat::RemoveTimer (key_auto_repeat.cpp:156) and by a request of
   cooperation that ran out (distributed_input_adapter.cpp:180, :204) do not. *)
TimersMatchSubscribers ==
  /\ DistinctIds(timers)
  /\ \A k \in DOMAIN subscribers :
       subscribers[k].timerId # NoTimer =>
         \E i \in DOMAIN timers : /\ timers[i].id = subscribers[k].timerId
                                  /\ timers[i].owner = KeyTimer(subscribers[k])
  /\ \A i \in DOMAIN timers :
       timers[i].owner # OtherTimer =>
         \E k \in SubscribersOf(timers[i]) : subscribers[k].timerId = timers[i].id

(* A subscription waits with the event that matched it, and is notified with
   it, whatever else has come in meanwhile. *)
PendingEventMatches ==
  \A k \in DOMAIN subscribers :
    LET sub == subscribers[k] IN
      IF sub.timerId = NoTimer THEN sub.event = NoEvent
      ELSE /\ sub.event.action = IF sub.option.isFinalKeyDown THEN "down" ELSE "up"
           /\ Matches(sub.option, sub.event)

(* As far as the handler has been told, the keys of a subscription that
   waits for its key to be held are held: the last event still matches it,
   since any that does not ends the wait.  And PendingEventMatches. *)
WaitsWhileHeld ==
  /\ PendingEventMatches
  /\ \A k \in DOMAIN subscribers :
       subscribers[k].timerId # NoTimer /\ subscribers[k].option.isFinalKeyDown =>
         keyEvent.action = "down" /\ Matches(subscribers[k].option, keyEvent)
=============================================================================
