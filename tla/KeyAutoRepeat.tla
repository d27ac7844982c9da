---------------------------- MODULE KeyAutoRepeat ----------------------------
(***************************************************************************)
(* Class KeyAutoRepeat, for keyboards that have automatic repetition       *)
(* switched on: one timer that runs once and is added again each time it   *)
(* has run, known only by its id.  The one KeyEvent object of the service  *)
(* is what the timer sends again; it gets a new id after it was sent.      *)
(* RemoveTimer leaves timerId_ as it is, so that it may name the timer of  *)
(* another user later; the history variables say when it does.             *)
(***************************************************************************)
EXTENDS TimerTable

VARIABLES
  timerId,         \* KeyAutoRepeat::timerId_
  keyEventId,      \* id of the KeyEvent that keyEvent_ points to, 0: none yet
  stale,           \* history: timerId_ names a timer that RemoveTimer removed
  strayed          \* history: a timer was removed by a stale timerId_

keyVars == <<timerId, keyEventId, stale, strayed>>

KeyInit ==
  /\ timerId = NoTimer
  /\ keyEventId = 0
  /\ stale = FALSE
  /\ strayed = FALSE

(* AddHandleTimer *)
AddHandleTimer(table, tableAfter) ==
  /\ timerId' = NewTimerId(table)
  /\ stale' = FALSE
  /\ tableAfter = IF NewTimerId(table) = NoTimer THEN table
                  ELSE Append(table, [id |-> NewTimerId(table), owner |-> [kind |-> "repeat"]])

(* The table after the timer timerId_ names has been removed. *)
WithoutTimer(table) == Without(table, {timerId})

(* That timer is not KeyAutoRepeat's own. *)
Strays(table) == stale /\ IsExist(table, timerId)

(* Mutant: the timer that runs is not removed. *)
RestartDown(table, tableAfter) == AddHandleTimer(table, tableAfter) /\ UNCHANGED strayed

(* SelectAutoRepeat, for a key that goes down: the timer starts anew. *)
SelectAutoRepeatDown(table, tableAfter) ==
  /\ strayed' = (strayed \/ Strays(table))
  /\ AddHandleTimer(IF IsExist(table, timerId) THEN WithoutTimer(table) ELSE table, tableAfter)

(* Mutant: timerId_ keeps the id of the timer that was removed. *)
StopUp(table, tableAfter, isRepeatKey) ==
  tableAfter = WithoutTimer(table) /\ UNCHANGED <<timerId, stale, strayed>>

(* For a key that goes up: the timer stops, and starts anew for the key that
   is repeated when it was another one that went up. *)
SelectAutoRepeatUp(table, tableAfter, isRepeatKey) ==
  /\ strayed' = (strayed \/ Strays(table))
  /\ IF ~IsExist(table, timerId)
     THEN tableAfter = table /\ UNCHANGED <<timerId, stale>>
     ELSE IF isRepeatKey
          THEN timerId' = NoTimer /\ stale' = FALSE /\ tableAfter = WithoutTimer(table)
          ELSE AddHandleTimer(WithoutTimer(table), tableAfter)

(* RemoveTimer, which forgets nothing: timerId_ still names the timer. *)
RemoveTimer(table, tableAfter) ==
  /\ strayed' = (strayed \/ Strays(table))
  /\ tableAfter = WithoutTimer(table)
  /\ stale' = (timerId # NoTimer)
  /\ UNCHANGED timerId
=============================================================================
