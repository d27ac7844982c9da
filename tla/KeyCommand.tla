------------------------------ MODULE KeyCommand ------------------------------
(***************************************************************************)
(* Class KeyCommandHandler: abilities launched by a shortcut, a key that   *)
(* goes down or up while others are held, or by a sequence of keys.  A     *)
(* shortcut may ask that its key is held for some time and a sequence that *)
(* some time goes by: each has a timer.  The handler also holds back the   *)
(* volume keys, one timer for each event, before the subscribers get them, *)
(* since they may turn out to be part of a sequence.                       *)
(*                                                                         *)
(* The keyboard is the environment: keys go down and up, and the key that  *)
(* went down last repeats.  Applications inject events, whose time they    *)
(* choose, and interceptors keep events from the handler.  Time is how     *)
(* long an event comes after the last key in keys_ and which timer runs    *)
(* next; all timers of volume keys are equally long.                       *)
(***************************************************************************)
EXTENDS TimerTable, FiniteSets

CONSTANTS
  Keys,             \* key codes
  PowerKeys,        \* KEYCODE_POWER: KEY_DOWN_ACTION in SPECIAL_KEYS
  VolumeKeys,       \* KEYCODE_VOLUME_DOWN, KEYCODE_VOLUME_UP: SPECIAL_ALL
  Shortcuts,        \* shortcutKeys_, as read from the configuration
  Sequences,        \* sequences_
  MaxSequenceKeys,  \* MAX_SEQUENCEKEYS_NUM
  Injected,         \* the [key, action] that applications inject
  Intercepted       \* the [key, action] that an interceptor may take

Action == {"down", "up", "cancel"}

(* lasting is keyDownDuration > 0. *)
Shortcut == [preKeys : SUBSET Keys, finalKey : Keys, trigger : {"down", "up"}, lasting : BOOLEAN]

(* timed is delay > 0, delayed is abilityStartDelay > 0. *)
SequenceKey == [key : Keys, action : {"down", "up"}, timed : BOOLEAN]
Sequence == [keys : Seq(SequenceKey), delayed : BOOLEAN]

(* IsSequenceKeysValid: not empty, not too long, and no key goes the same
   way twice in a row. *)
IsSequenceKeysValid(ks) ==
  /\ Len(ks) \in 1..MaxSequenceKeys
  /\ \A i, j \in DOMAIN ks :
       /\ i < j /\ ks[i].key = ks[j].key
       /\ \A k \in (i + 1)..(j - 1) : ks[k].key # ks[i].key
       => ks[i].action # ks[j].action

ASSUME KeyCommandAssumption ==
  /\ PowerKeys \cup VolumeKeys \subseteq Keys
  /\ PowerKeys \cap VolumeKeys = {}
  /\ Shortcuts \subseteq Shortcut
  /\ \A c \in Shortcuts : IsFiniteSet(c.preKeys)
  /\ \A c, d \in Shortcuts :     \* GenerateKey
       c.preKeys = d.preKeys /\ c.finalKey = d.finalKey /\ c.trigger = d.trigger => c = d
  /\ Sequences \in Seq(Sequence)
  /\ \A q \in DOMAIN Sequences : IsSequenceKeysValid(Sequences[q].keys)
  /\ MaxSequenceKeys \in Nat \ {0}
  /\ Injected \subseteq [key : Keys, action : Action]
  /\ Intercepted \subseteq [key : Keys, action : Action]

VARIABLES
  lastMatchedKey,   \* lastMatchedKey_: a shortcut that waits and the id of its timer
  keys,             \* keys_
  filterSequences,  \* filterSequences_
  specialKeys,      \* specialKeys_
  specialTimers,    \* specialTimers_: of each key, the timers in the order of its events
  timers,           \* TimerManager::timers_
  pressed,          \* keys that are down
  repeating,        \* the key KeyAutoRepeat repeats, if any
  irregular,        \* keys of which an event was injected, intercepted or not held back
  seen,             \* of each volume key, what the subscribers were told last
  erased            \* filterSequences_ stems from a loop that has erased it

handlerVars == <<lastMatchedKey, keys, filterSequences, specialKeys, specialTimers, timers, erased>>
vars == <<handlerVars, pressed, repeating, irregular, seen>>

NoShortcut == [shortcut |-> {}, timerId |-> NoTimer]

ShortcutTimer(c) == [kind |-> "shortcut", shortcut |-> c]
SequenceTimer(q) == [kind |-> "sequence", seq |-> q]
SpecialTimer(event) == [kind |-> "special", key |-> event.key, action |-> event.action]

(* An entry of filterSequences_: a copy of a sequence.  intact is FALSE when
   its keys were lost. *)
Entry(q) == [seq |-> q, intact |-> TRUE, timerId |-> NoTimer]
SequenceKeys(entry) == IF entry.intact THEN Sequences[entry.seq].keys ELSE <<>>

Init ==
  /\ lastMatchedKey = NoShortcut
  /\ keys = <<>>
  /\ filterSequences = <<>>
  /\ specialKeys = {}
  /\ specialTimers = [key \in VolumeKeys |-> <<>>]
  /\ timers = <<>>
  /\ pressed = {}
  /\ repeating = {}
  /\ irregular = {}
  /\ seen = [key \in VolumeKeys |-> "up"]
  /\ erased = FALSE

-----------------------------------------------------------------------------
(* One turn of the handler: its members and the timer table; whether the
   event is consumed; and of the loop over filterSequences_, tempSeqs,
   isLaunchAbility and whether the list it runs over was erased. *)

Turn ==
  [last |-> lastMatchedKey, keys |-> keys, filter |-> filterSequences, special |-> specialKeys,
   held |-> specialTimers, table |-> timers, erased |-> erased, handled |-> FALSE,
   tempSeqs |-> <<>>, launched |-> FALSE, gone |-> FALSE]

EndTurn(turn) ==
  /\ lastMatchedKey' = turn.last
  /\ keys' = turn.keys
  /\ filterSequences' = turn.filter
  /\ specialKeys' = turn.special
  /\ specialTimers' = turn.held
  /\ timers' = turn.table
  /\ erased' = turn.erased

ResetSequenceKeys(turn) == [turn EXCEPT !.keys = <<>>, !.filter = <<>>, !.erased = FALSE]

-----------------------------------------------------------------------------
(* Shortcuts.  The items of an event are its key and the other keys that
   are down. *)

IsKeyMatch(c, event) ==
  /\ event.key = c.finalKey
  /\ event.action = c.trigger
  /\ Cardinality(event.others) = Cardinality(c.preKeys)
  /\ event.others \subseteq c.preKeys

Waits(last, event) == \E c \in last.shortcut : IsKeyMatch(c, event)

(* A shortcut without a duration is launched at once. *)
HandleKeyDown(turn, c) ==
  LET id == NewTimerId(turn.table)
  IN  IF ~c.lasting THEN [turn EXCEPT !.handled = TRUE]
      ELSE IF id = NoTimer THEN turn
      ELSE [turn EXCEPT !.table = Append(@, [id |-> id, owner |-> ShortcutTimer(c)]),
                        !.last = [shortcut |-> {c}, timerId |-> id], !.handled = TRUE]

(* quick: the key was down for less than the duration. *)
HandleKeyUp(turn, c, quick) == [turn EXCEPT !.handled = c.lasting => quick]

ResetLastMatchedKey(turn) ==
  [turn EXCEPT !.last = NoShortcut, !.table = Without(@, {turn.last.timerId})]

HandleShortKeys(turn, event, quick) ==
  LET idle == ResetLastMatchedKey(turn)
      matching == {c \in Shortcuts : IsKeyMatch(c, event)}
      c == CHOOSE c \in matching : TRUE
  IN  IF Waits(turn.last, event) THEN [turn EXCEPT !.handled = TRUE]
      ELSE IF matching = {} THEN idle
      ELSE IF c.trigger = "down" THEN HandleKeyDown(idle, c) ELSE HandleKeyUp(idle, c, quick)

-----------------------------------------------------------------------------
(* Sequences.  gap is the time from the last key in keys_ to the event:
   "back" when it is negative, "long" when it is beyond MAX_DELAY_TIME,
   else "slow" or "quick", as it is within the delay of a key of a sequence
   or not. *)

IsRepeatKeyEvent(ks, event) ==
  \E i \in DOMAIN ks :
    /\ ks[i].key = event.key /\ ks[i].action = event.action
    /\ \A j \in (i + 1)..Len(ks) : ks[j].key # event.key

(* Mutant: the timers go on. *)
LeaveTimers(turn) == turn

InterruptTimers(turn) ==
  [turn EXCEPT !.table = Without(@, {entry.timerId : entry \in ToSet(turn.filter)}),
               !.filter = [k \in DOMAIN @ |-> [@[k] EXCEPT !.timerId = NoTimer]]]

(* Mutant: keys_ grows without limit. *)
AddsAnyKey(turn, event, gap) ==
  turn.keys # <<>> =>
    gap = "long" \/ (gap # "back" /\ ~IsRepeatKeyEvent(turn.keys, event))

(* The key is added if it does not come back in time, repeat, or exceed the
   number of keys there were before a pause emptied keys_. *)
AddsKey(turn, event, gap) ==
  /\ Len(turn.keys) <= MaxSequenceKeys
  /\ turn.keys # <<>> =>
       gap = "long" \/ (gap # "back" /\ ~IsRepeatKeyEvent(turn.keys, event))

AddSequenceKey(turn, event, gap) ==
  LET size == Len(turn.keys)
      before ==
        IF size = 0 THEN turn
        ELSE IF gap \in {"back", "long"} THEN ResetSequenceKeys(turn)
        ELSE IF IsRepeatKeyEvent(turn.keys, event) THEN turn
        ELSE InterruptTimers([turn EXCEPT !.keys[size].gap = gap])
      added == [key |-> event.key, action |-> event.action, gap |-> "quick"]
  IN  IF AddsKey(turn, event, gap) THEN [before EXCEPT !.keys = Append(@, added)] ELSE before

MatchesSequence(ks, sequenceKeys) ==
  /\ Len(ks) <= Len(sequenceKeys)
  /\ \A i \in DOMAIN ks :
       /\ ks[i].key = sequenceKeys[i].key
       /\ ks[i].action = sequenceKeys[i].action
       /\ i # Len(ks) /\ sequenceKeys[i].timed => ks[i].gap = "quick"

(* One step of the loop over filterSequences_, which collects in tempSeqs.
   A launch erases the list the loop runs over: the entry at hand and those
   after it are read when they are gone, with the keys they had or with
   none, as lost says. *)
HandleSequence(turn, list, k, lost) ==
  LET entry == IF turn.gone /\ lost THEN [list[k] EXCEPT !.intact = FALSE] ELSE list[k]
      id == NewTimerId(turn.table)
  IN  IF ~MatchesSequence(turn.keys, SequenceKeys(entry)) THEN turn
      ELSE IF Len(turn.keys) < Len(SequenceKeys(entry))
        THEN [turn EXCEPT !.tempSeqs = Append(@, entry)]
      ELSE IF ~Sequences[entry.seq].delayed
        THEN [ResetSequenceKeys(turn) EXCEPT
                !.gone = TRUE, !.launched = TRUE,
                !.tempSeqs = Append(@, [entry EXCEPT !.intact = @ /\ ~lost])]
      ELSE IF id # NoTimer
        THEN [turn EXCEPT !.table = Append(@, [id |-> id, owner |-> SequenceTimer(entry.seq)]),
                          !.tempSeqs = Append(@, [entry EXCEPT !.timerId = id]),
                          !.launched = TRUE]
      ELSE IF turn.gone THEN turn
      ELSE [turn EXCEPT !.filter[k].timerId = NoTimer]

(* Mutant: a release leaves the key where it is. *)
KeepSpecialKeys(special, key, action) ==
  IF action = "down" THEN special \cup {key} ELSE special

HandleSpecialKeys(special, key, action) ==
  CASE action = "down" -> special \cup {key}
    [] action = "up" -> special \ {key}
    [] OTHER -> special

RemoveSubscribedTimer(turn, removed) ==
  [turn EXCEPT !.table = Without(@, UNION {ToSet(turn.held[key]) : key \in removed}),
               !.held = [key \in DOMAIN @ |-> IF key \in removed THEN <<>> ELSE @[key]]]

(* Mutant: the keys of a sequence that is launched are not taken. *)
LeaveKeys(turn) == RemoveSubscribedTimer(turn, {k.key : k \in ToSet(turn.keys)} \cap VolumeKeys)

(* The keys of a sequence that is launched are the handler's own until they
   are released, and what was held back of them is dropped. *)
TakeKeys(turn) ==
  LET taken[n \in 0..Len(turn.keys)] ==
        IF n = 0 THEN turn.special
        ELSE IF turn.keys[n].key \in PowerKeys \cup VolumeKeys
          THEN HandleSpecialKeys(taken[n - 1], turn.keys[n].key, turn.keys[n].action)
        ELSE taken[n - 1]
  IN  RemoveSubscribedTimer([turn EXCEPT !.special = taken[Len(turn.keys)]],
                            {k.key : k \in ToSet(turn.keys)} \cap VolumeKeys)

MatchSequences(turn, lost) ==
  LET list == IF turn.filter = <<>> THEN [q \in DOMAIN Sequences |-> Entry(q)] ELSE turn.filter
      pass[k \in 0..Len(list)] ==
        IF k = 0 THEN [turn EXCEPT !.filter = list]
        ELSE HandleSequence(pass[k - 1], list, k, lost)
      end == pass[Len(list)]
  IN  [IF end.launched THEN TakeKeys(end) ELSE end EXCEPT
         !.filter = IF end.tempSeqs = <<>> THEN @ ELSE end.tempSeqs,
         !.handled = @ \/ end.launched,
         !.erased = @ \/ end.gone]

HandleSequences(turn, event, gap, lost) ==
  LET added == AddSequenceKey(turn, event, gap)
  IN  IF Sequences = <<>> THEN turn
      ELSE IF AddsKey(turn, event, gap) THEN MatchSequences(added, lost) ELSE added

-----------------------------------------------------------------------------
(* Key events *)

(* What the subscribers have been told of a volume key: a release of a key
   that was not down is stray. *)
Told(event) ==
  CASE event.key \notin VolumeKeys \/ event.action = "cancel" -> seen
    [] event.key \in VolumeKeys /\ event.action = "down" -> [seen EXCEPT ![event.key] = "down"]
    [] event.key \in VolumeKeys /\ event.action = "up" ->
         [seen EXCEPT ![event.key] = IF @ = "down" THEN "up" ELSE "stray"]

(* IsSpecialType(key, SUBSCRIBER_BEFORE_DELAY) *)
IsHeldBack(event) == event.key \in VolumeKeys

HoldBack(turn, event) ==
  LET id == NewTimerId(turn.table)
  IN  [turn EXCEPT !.table = Append(@, [id |-> id, owner |-> SpecialTimer(event)]),
                   !.held[event.key] = Append(@, id)]

(* odd: keys whose events are no longer those of the keyboard. *)
Consume(turn, event, odd) ==
  LET toldNow == IsHeldBack(event) /\ NewTimerId(turn.table) = NoTimer
  IN  IF turn.handled \/ event.key \in turn.special
      THEN /\ EndTurn(IF turn.handled THEN turn
                      ELSE [turn EXCEPT !.special =
                              HandleSpecialKeys(@, event.key, event.action)])
           /\ irregular' = irregular \cup odd
           /\ UNCHANGED seen
      ELSE IF IsHeldBack(event) /\ ~toldNow
      THEN /\ EndTurn(HoldBack(turn, event))
           /\ irregular' = irregular \cup odd
           /\ UNCHANGED seen
      ELSE /\ EndTurn(turn)
           /\ irregular' = irregular \cup odd \cup IF toldNow THEN {event.key} ELSE {}
           /\ seen' = Told(event)

(* What the handler can tell apart: the time of the first key is not looked
   at, nor is a delay that no sequence limits. *)
Gaps ==
  IF keys = <<>> THEN {"quick"}
  ELSE {"quick", "long"}
       \cup (IF \E q \in DOMAIN Sequences :
                  /\ Len(keys) \in DOMAIN Sequences[q].keys
                  /\ Sequences[q].keys[Len(keys)].timed
             THEN {"slow"} ELSE {})
       \cup (IF Injected = {} THEN {} ELSE {"back"})

Quick(event) ==
  IF \E c \in Shortcuts : c.lasting /\ c.trigger = "up" /\ IsKeyMatch(c, event)
  THEN BOOLEAN ELSE {FALSE}

(* A launch may erase filterSequences_ if the event ends such a sequence. *)
Lost(event) ==
  IF \E q \in DOMAIN Sequences :
       LET last == Last(Sequences[q].keys)
       IN  ~Sequences[q].delayed /\ last.key = event.key /\ last.action = event.action
  THEN BOOLEAN ELSE {FALSE}

(* A repetition has the time of the keyboard's last event. *)
GapsOfRepetition == IF irregular = {} THEN {"quick"} ELSE Gaps

OnHandleEvent(event, gaps, odd) ==
  \E short \in {HandleShortKeys(Turn, event, quick) : quick \in Quick(event)} :
    \E turn \in {HandleSequences(short, event, gap, lost) : gap \in gaps, lost \in Lost(event)} :
      Consume(turn, event, odd)

(* The event reaches the handler, or is intercepted. *)
Chain(event, gaps) ==
  \/ OnHandleEvent(event, gaps, {})
  \/ /\ [key |-> event.key, action |-> event.action] \in Intercepted
     /\ irregular' = irregular \cup {event.key}
     /\ UNCHANGED <<handlerVars, seen>>

KeyDown(key) ==
  /\ key \notin pressed
  /\ pressed' = pressed \cup {key}
  /\ repeating' = {key}
  /\ Chain([action |-> "down", key |-> key, others |-> pressed], Gaps)

KeyUp(key) ==
  /\ key \in pressed
  /\ pressed' = pressed \ {key}
  /\ repeating' = repeating \ {key}
  /\ Chain([action |-> "up", key |-> key, others |-> pressed \ {key}], Gaps)

KeyRepeats(key) ==
  /\ key \in repeating
  /\ Chain([action |-> "down", key |-> key, others |-> pressed \ {key}], GapsOfRepetition)
  /\ UNCHANGED <<pressed, repeating>>

(* OnInjectKeyEvent: an event of a key alone. *)
InjectKeyEvent(injected) ==
  /\ OnHandleEvent([action |-> injected.action, key |-> injected.key, others |-> {}],
                   Gaps, {injected.key})
  /\ UNCHANGED <<pressed, repeating>>

-----------------------------------------------------------------------------
(* Timers: one that runs is gone from the table. *)

(* Mutant: the callback of a held event leaves its id. *)
KeepFront(ids) == ids

PopFront(ids) == IF ids = <<>> THEN ids ELSE Tail(ids)

(* LaunchAbility, of a shortcut *)
ShortcutTimerRuns(i) ==
  /\ timers[i].owner.kind = "shortcut"
  /\ timers' = RemoveAt(timers, i)
  /\ lastMatchedKey' = NoShortcut
  /\ UNCHANGED <<keys, filterSequences, specialKeys, specialTimers, erased,
                 pressed, repeating, irregular, seen>>

(* LaunchAbility, of a sequence *)
SequenceTimerRuns(i) ==
  /\ timers[i].owner.kind = "sequence"
  /\ EndTurn(ResetSequenceKeys([Turn EXCEPT !.table = RemoveAt(@, i)]))
  /\ UNCHANGED <<pressed, repeating, irregular, seen>>

(* The event that was held back is given to the subscribers, the oldest
   first. *)
SpecialTimerRuns(i) ==
  /\ timers[i].owner.kind = "special"
  /\ \A j \in 1..(i - 1) : timers[j].owner.kind # "special"
  /\ timers' = RemoveAt(timers, i)
  /\ specialTimers' = [specialTimers EXCEPT ![timers[i].owner.key] = PopFront(@)]
  /\ seen' = Told(timers[i].owner)
  /\ UNCHANGED <<lastMatchedKey, keys, filterSequences, specialKeys, erased,
                 pressed, repeating, irregular>>

Next ==
  \/ \E key \in Keys : KeyDown(key) \/ KeyUp(key) \/ KeyRepeats(key)
  \/ \E injected \in Injected : InjectKeyEvent(injected)
  \/ \E i \in DOMAIN timers :
       ShortcutTimerRuns(i) \/ SequenceTimerRuns(i) \/ SpecialTimerRuns(i)

Spec == Init /\ [][Next]_vars

-----------------------------------------------------------------------------
HasTimer(id, owner) == \E i \in DOMAIN timers : timers[i].id = id /\ timers[i].owner = owner

(* ids are those of the timers of a volume key, in their order. *)
IsOwn(owner, key) == owner.kind = "special" /\ owner.key = key

ListsInOrder(ids, key) ==
  /\ \A i \in DOMAIN timers :
       IsOwn(timers[i].owner, key) => \E n \in DOMAIN ids : ids[n] = timers[i].id
  /\ \A n \in DOMAIN ids :
       \E i \in DOMAIN timers : timers[i].id = ids[n] /\ IsOwn(timers[i].owner, key)
  /\ \A m, n \in DOMAIN ids, i, j \in DOMAIN timers :
       ids[m] = timers[i].id /\ ids[n] = timers[j].id => (m < n <=> i < j)

(* Types; keys_ has at most one key more than MAX_SEQUENCEKEYS_NUM. *)
TypeOK ==
  /\ lastMatchedKey.shortcut \subseteq Shortcuts
  /\ lastMatchedKey.timerId \in TimerId \cup {NoTimer}
  /\ Len(keys) <= MaxSequenceKeys + 1
  /\ \A i \in DOMAIN keys :
       keys[i] \in [key : Keys, action : Action, gap : {"quick", "slow"}]
  /\ \A k \in DOMAIN filterSequences :
       filterSequences[k] \in
         [seq : DOMAIN Sequences, intact : BOOLEAN, timerId : TimerId \cup {NoTimer}]
  /\ specialKeys \subseteq PowerKeys \cup VolumeKeys
  /\ DOMAIN specialTimers = VolumeKeys
  /\ \A i \in DOMAIN timers : timers[i].id \in TimerId
  /\ pressed \subseteq Keys /\ repeating \subseteq pressed /\ irregular \subseteq Keys
  /\ seen \in [VolumeKeys -> {"down", "up", "stray"}]
  /\ erased \in BOOLEAN

(* The ids in lastMatchedKey_, filterSequences_ and specialTimers_ are those
   of their own timers, although ids are reused, so that RemoveTimer stops no
   other timer; the timers of a volume key are listed in the order in which
   they run; and a shortcut's timer can always be stopped.  This takes the
   other users of the table to remove only timers of their own, which the ids
   left behind by KeyAutoRepeat::RemoveTimer (key_auto_repeat.cpp:156) and by a
   request of cooperation that ran out (distributed_input_adapter.cpp:180, :204)
   do not. *)
IdsNameOwnTimers ==
  /\ DistinctIds(timers)
  /\ \A c \in lastMatchedKey.shortcut : HasTimer(lastMatchedKey.timerId, ShortcutTimer(c))
  /\ \A entry \in ToSet(filterSequences) :
       entry.timerId # NoTimer => HasTimer(entry.timerId, SequenceTimer(entry.seq))
  /\ \A key \in VolumeKeys : ListsInOrder(specialTimers[key], key)
  /\ \A i \in DOMAIN timers :
       timers[i].owner.kind = "shortcut" => lastMatchedKey.timerId = timers[i].id

(* A shortcut waits only while just its keys are down, and a sequence only
   while its keys are the last ones: any other key ends the wait.  A sequence
   whose timer was forgotten, after a pause or the launch of another one, is
   not covered, nor is an event that did not come from the keyboard. *)
PendingLaunchIsCurrent ==
  /\ \A i \in DOMAIN timers :
       timers[i].owner.kind = "shortcut" =>
         LET c == timers[i].owner.shortcut
             chord == c.preKeys \cup {c.finalKey}
         IN  c.finalKey \in irregular
             \/ (pressed \ chord) \cup (chord \ pressed) \subseteq irregular
  /\ \A entry \in ToSet(filterSequences) :
       entry.timerId # NoTimer /\ ~erased =>
         /\ Len(keys) = Len(SequenceKeys(entry))
         /\ MatchesSequence(keys, SequenceKeys(entry))

(* A key that a launched sequence has taken is down: once it was released it
   is the subscribers' again, and its next press is not swallowed.  This
   leaves out the keys whose release launches a shortcut, or a sequence that
   does not wait: OnHandleEvent returns before the key is given back, and
   LaunchAbility has emptied keys_ before they are gone through. *)
SpecialKeysAreHeld ==
  specialKeys \subseteq
    pressed \cup irregular
      \cup {c.finalKey : c \in {d \in Shortcuts : d.trigger = "up"}}
      \cup {Last(Sequences[q].keys).key : q \in
             {r \in DOMAIN Sequences :
                ~Sequences[r].delayed /\ Last(Sequences[r].keys).action = "up"}}

(* The subscribers are told of the release of a volume key only after its
   press, although both are held back and a sequence may take either.  This
   leaves out the keys whose press itself launches an ability. *)
ReleasesFollowPresses ==
  {key \in VolumeKeys : seen[key] = "stray"} \subseteq
    irregular \cup {c.finalKey : c \in Shortcuts}
      \cup {Last(Sequences[q].keys).key : q \in {r \in DOMAIN Sequences : ~Sequences[r].delayed}}
=============================================================================
