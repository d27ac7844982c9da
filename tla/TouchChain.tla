------------------------------ MODULE TouchChain ------------------------------
(***************************************************************************)
(* Touches of one touch screen on their way to the windows: normalised     *)
(* (TouchTransformProcessor), given a window (InputWindowsManager), shown  *)
(* to the filter, the interceptors and the monitors, and dispatched.       *)
(*                                                                         *)
(* A monitor may mark an event it was sent as consumed.  The call is made  *)
(* from another process and runs as a delegated task, after any number of  *)
(* later touches.  It cancels the touch for the window and keeps the rest  *)
(* of it from there.                                                       *)
(*                                                                         *)
(* A gesture is what happens from the first finger down to the last up.    *)
(* The ids of the events of a gesture are told apart only by the gesture:  *)
(* they enter and leave eventIds_ together.  One window per application.   *)
(* Who listens is the matter of HandlerRegistry: here any event may be     *)
(* taken by a filter or an interceptor, and those that are not are sent to *)
(* a monitor.                                                              *)
(***************************************************************************)
EXTENDS Naturals, FiniteSets, Functions

CONSTANTS
  Fingers,      \* slots of the touch screen: pointer ids
  Windows,      \* windows, each of a process of its own
  MaxGestures,  \* bound on the gestures
  None

ASSUME TouchAssumption == MaxGestures \in Nat /\ None \notin Windows /\ None \notin Fingers

VARIABLES
  windows,    \* windows in displayGroupInfo_ that can be touched
  items,      \* items of pointerEvent_: finger -> its target window
  event,      \* the rest of pointerEvent_: pointer, target window
  downInfos,  \* touchItemDownInfos_: finger -> window it went down in
  eventIds,   \* eventIds_, by gesture
  consumed,   \* isMonitorConsumed_
  gesture,    \* history: number of the gesture
  marked,     \* history: an event of the gesture was marked
  touching,   \* history: window -> fingers of the gesture that it was told are down
  stray,      \* history: a window was told of a touch it was not told the beginning of
  odd         \* history: what was unusual about the gesture

stateVars == <<eventIds, consumed>>
eventVars == <<items, event>>
historyVars == <<gesture, marked, touching, stray, odd>>
vars == <<windows, eventVars, downInfos, stateVars, historyVars>>

Empty == <<>>
NoEvent == [pointer |-> None, window |-> None]

Init ==
  /\ windows = Windows
  /\ items = Empty /\ event = NoEvent /\ downInfos = Empty
  /\ eventIds = {} /\ consumed = FALSE
  /\ gesture = 0 /\ marked = FALSE
  /\ touching = [w \in Windows |-> {}]
  /\ stray = FALSE
  /\ odd = {}

With(f, k, v) == [x \in DOMAIN f \cup {k} |-> IF x = k THEN v ELSE f[x]]
Insert(f, k, v) == IF k \in DOMAIN f THEN f ELSE With(f, k, v)
Without(f, k) == [x \in DOMAIN f \ {k} |-> f[x]]
Get(f, k) == IF k \in DOMAIN f THEN f[k] ELSE None

-----------------------------------------------------------------------------
(* Mutant: a window that has gone is told nothing. *)
TargetInWindows(action, finger, targets, under) ==
  LET own == Get(targets, finger)
      window == (IF own # None THEN {own} ELSE {under}) \cap windows
  IN  [action |-> action, window |-> IF window = {} THEN None ELSE CHOOSE w \in window : TRUE]

(* UpdateTouchScreenTarget: the window of a finger is the one it went down
   in, or the first one under it if it has none.  A window that has gone is
   told that the touch is cancelled. *)
Target(action, finger, targets, under) ==
  LET own == Get(targets, finger)
      window == (IF own # None THEN {own} ELSE {under}) \cap windows
      gone == Get(downInfos, finger)
  IN  IF window # {} THEN [action |-> action, window |-> CHOOSE w \in window : TRUE]
      ELSE IF action = "down" \/ gone = None THEN [action |-> action, window |-> None]
      ELSE [action |-> "cancel", window |-> gone]

(* Mutant: a finger on no window is recorded too. *)
RecordAlways(target, finger) ==
  IF target.action = "down" THEN Insert(downInfos, finger, target.window) ELSE downInfos

DownInfos(target, finger) ==
  IF target.window = None THEN downInfos
  ELSE CASE target.action = "down" -> Insert(downInfos, finger, target.window)
         [] target.action = "up"   -> Without(downInfos, finger)
         [] OTHER                  -> downInfos

-----------------------------------------------------------------------------
(* GetClientFd and HandlePointerEventInner.  What the window makes of it: a
   cancel ends all touches in it. *)
Receiver(e, infos) ==
  IF e.window \in windows THEN e.window
  ELSE IF e.action = "cancel" THEN Get(infos, e.pointer) ELSE None

(* The window that has gone is looked up once. *)
LookedUp(e, infos) ==
  IF e.window \notin windows /\ e.action = "cancel" THEN Without(infos, e.pointer) ELSE infos

Dispatch(e, infos, before) ==
  LET w == Receiver(e, infos)
  IN  /\ downInfos' = LookedUp(e, infos)
      /\ touching' = IF w = None THEN before
                     ELSE [before EXCEPT ![w] =
                       CASE e.action = "down"   -> @ \cup {e.pointer}
                         [] e.action = "up"     -> @ \ {e.pointer}
                         [] e.action = "cancel" -> {}
                         [] OTHER               -> @]
      /\ stray' = (/\ w # None /\ e.action \in {"move", "up"}
                   /\ e.pointer \notin before[w])

Kept(infos, before) ==
  /\ downInfos' = infos
  /\ touching' = before
  /\ stray' = FALSE

(* The window is looked up, and not told: its session is gone, TriggerANR says
   that it does not respond, the pointer is with another device, or SendMsg
   fails. *)
Lose(e, infos, before) == Kept(LookedUp(e, infos), before)

-----------------------------------------------------------------------------
(* UpdateConsumptionState *)

First(e, fingers) == e.action = "down" /\ Cardinality(fingers) = 1
Last(e, fingers) == e.action = "up" /\ Cardinality(fingers) = 1

EventIds(e, fingers, g) ==
  IF First(e, fingers) THEN {g} ELSE IF Last(e, fingers) THEN {} ELSE eventIds \cup {g}

(* Mutant: what was consumed stays so. *)
StaysConsumed(e, fingers) == consumed

(* Mutant: any finger that goes down begins a gesture. *)
ConsumedUntilDown(e, fingers) == IF e.action = "down" THEN FALSE ELSE consumed

Consumed(e, fingers) == IF First(e, fingers) THEN FALSE ELSE consumed

(* The handlers, each before the next: a filter or an interceptor takes the
   event, a monitor is sent it, the window is told of it or is not. *)
Handle(e, fingers, infos, before, g, fate) ==
  IF fate = "taken"
  THEN Kept(infos, before) /\ UNCHANGED stateVars
  ELSE /\ eventIds' = EventIds(e, fingers, g)
       /\ consumed' = Consumed(e, fingers)
       /\ IF consumed' THEN Kept(infos, before)
          ELSE IF fate = "lost" THEN Lose(e, infos, before)
          ELSE Dispatch(e, infos, before)

-----------------------------------------------------------------------------
(* Touches.  After the last finger the event is reset. *)
Touch(action, finger, under, fate) ==
  LET first == items = Empty
      targets == IF action = "down" THEN With(items, finger, None) ELSE items
      target == Target(action, finger, targets, under)
      window == IF target.window = None THEN event.window ELSE target.window
      newItems == IF target.window = None THEN targets ELSE [targets EXCEPT ![finger] = target.window]
      left == IF action = "up" THEN Without(newItems, finger) ELSE newItems
      g == IF first THEN gesture + 1 ELSE gesture
  IN  /\ gesture' = g
      /\ items' = left
      /\ event' = IF left = Empty THEN NoEvent ELSE [pointer |-> finger, window |-> window]
      /\ Handle([action |-> target.action, pointer |-> finger, window |-> window],
                DOMAIN targets, DownInfos(target, finger),
                IF first THEN [w \in Windows |-> {}] ELSE touching, g, fate)
      /\ odd' = (IF first THEN odd \cap {"stale"} ELSE odd)
                \cup ({fate} \cap {"taken", "lost"})
                \cup (IF target.window = None /\ (action = "down" \/ window \in windows) THEN {"missed"} ELSE {})
                \cup (IF left = Empty /\ downInfos' # Empty THEN {"stale"} ELSE {})
      /\ marked' = (~first /\ marked)
      /\ UNCHANGED windows

OnEventTouchDown(finger, under, fate) ==
  /\ finger \notin DOMAIN items
  /\ items = Empty => gesture < MaxGestures
  /\ Touch("down", finger, under, fate)

OnEventTouchMotion(finger, under, fate) ==
  finger \in DOMAIN items /\ Touch("move", finger, under, fate)

OnEventTouchUp(finger, under, fate) ==
  finger \in DOMAIN items /\ Touch("up", finger, under, fate)

-----------------------------------------------------------------------------
(* The cancel goes to one window: that of the last event, even if its finger
   is up.  The fingers that are down may be in another, or it may be closed. *)
CancelAstray(window) ==
  /\ items # Empty
  /\ \/ Range(items) # {window}
     \/ event.pointer \notin DOMAIN items /\ window \notin windows

(* MarkConsumed, of an event of gesture g that the monitor was sent.  The
   last event is shared with the normaliser: what is cancelled is what it is
   by now.  The cancel is not intercepted or monitored. *)
MarkConsumed(g, under, fate) ==
  LET target == IF event.pointer \in DOMAIN items
                THEN Target("cancel", event.pointer, items, under)
                ELSE [action |-> "cancel", window |-> None]
      window == IF target.window = None THEN event.window ELSE target.window
  IN  /\ g \in eventIds /\ ~consumed
      /\ consumed' = TRUE
      /\ marked' = (marked \/ g = gesture)
      /\ IF fate = "filtered" THEN Kept(downInfos, touching)
         ELSE LET e == [action |-> "cancel", pointer |-> event.pointer, window |-> window]
            IN  IF fate = "lost" THEN Lose(e, downInfos, touching) ELSE Dispatch(e, downInfos, touching)
      /\ odd' = odd \cup (IF fate = "filtered" THEN {"taken"} ELSE {})
                    \cup ({fate} \cap {"lost"})
                    \cup (IF CancelAstray(window) THEN {"astray"} ELSE {})
      /\ UNCHANGED <<windows, eventVars, eventIds, gesture>>

-----------------------------------------------------------------------------
(* Windows come and go. *)
UpdateDisplayInfo(newWindows) ==
  /\ windows' = newWindows
  /\ odd' = IF items # Empty /\ newWindows \ windows # {} THEN odd \cup {"opened"} ELSE odd
  /\ UNCHANGED <<eventVars, downInfos, stateVars, gesture, marked, touching, stray>>

(* The window under a finger, which is looked for if it has none. *)
Under(finger) == IF Get(items, finger) = None THEN windows \cup {None} ELSE {None}

Next ==
  \/ \E finger \in Fingers, fate \in {"taken", "lost", "dispatched"} :
       \E under \in Under(finger) :
         \/ OnEventTouchDown(finger, under, fate)
         \/ OnEventTouchMotion(finger, under, fate)
         \/ OnEventTouchUp(finger, under, fate)
  \/ \E g \in eventIds, under \in Under(event.pointer), fate \in {"filtered", "lost", "dispatched"} :
       MarkConsumed(g, under, fate)
  \/ \E newWindows \in (SUBSET Windows) \ {windows} : UpdateDisplayInfo(newWindows)

Spec == Init /\ [][Next]_vars

-----------------------------------------------------------------------------
(* Types; a finger that is down is known to the normaliser. *)
TypeOK ==
  /\ windows \subseteq Windows
  /\ DOMAIN items \subseteq Fingers /\ Range(items) \subseteq Windows \cup {None}
  /\ event \in [pointer : Fingers \cup {None}, window : Windows \cup {None}]
  /\ DOMAIN downInfos \subseteq Fingers /\ Range(downInfos) \subseteq Windows
  /\ {consumed, marked, stray} \subseteq BOOLEAN
  /\ gesture \in 0..MaxGestures
  /\ eventIds \subseteq 1..gesture
  /\ touching \in [Windows -> SUBSET Fingers]

(* A gesture is kept from the windows only if a monitor marked an event of
   it, however late the mark, and not because of one that is over.  Not so
   if its first event was taken before the monitors saw it. *)
OnlyMarkedIsConsumed ==
  items # Empty /\ consumed /\ "taken" \notin odd => marked

(* When the last finger is up no window believes that one is down, whether
   the touch was marked, and when, and whichever windows have closed. *)
WindowsAreReleased ==
  items = Empty /\ odd = {} => \A w \in Windows : touching[w] = {}

(* A window is told of the moves and the end of a touch only if it was told
   of its beginning, and not of its end: not after it was cancelled, by a
   mark or by its own closing. *)
NothingOutOfTheBlue == odd \subseteq {"astray"} => ~stray
=============================================================================
