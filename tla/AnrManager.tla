----------------------------- MODULE AnrManager -----------------------------
(***************************************************************************)
(* Class ANRManager and the part of UDSSession it works on: which events   *)
(* an application has been sent and has not marked as processed, the timer *)
(* that watches each of them, and the flag that stops the dispatch to an   *)
(* application that does not respond.                                      *)
(*                                                                         *)
(* The handlers are stated over a timer table given as an argument, since  *)
(* one turn of the service's thread may use the table several times.  A    *)
(* table is a sequence in the order of insertion: all these timers have    *)
(* the same interval, so this is the order in which they run.              *)
(***************************************************************************)
EXTENDS TimerTable, FiniteSets

CONSTANTS
  App,             \* processes whose token is TOKEN_HAP and that are not FOUNDATION
  Other,           \* other processes, that are sent events but never watched
  MaxAnrTimers,    \* MAX_ANR_TIMER_COUNT
  MaxEvents        \* bound: number of event ids

ASSUME AnrAssumption ==
  /\ App \cap Other = {}
  /\ MaxAnrTimers \in Nat
  /\ MaxEvents \in Nat

Process == App \cup Other
AnrType == {"ANR_DISPATCH", "ANR_MONITOR"}
EventId == 1..MaxEvents
NoPid == -1

VARIABLES
  live,            \* UDSServer::sessionsMap_: processes that have a session
  events,          \* UDSSession::events_: per type, the events not processed
  isAnrProcess,    \* UDSSession::isAnrProcess_
  anrTimerCount,   \* ANRManager::anrTimerCount_
  anrNoticedPid,   \* ANRManager::anrNoticedPid_
  unprocessed,     \* the application: events it got and has not marked
  unreliable,      \* applications one of whose marks was not sent
  unsent           \* some notice of an ANR has not been sent

anrVars == <<live, events, isAnrProcess, anrTimerCount, anrNoticedPid,
             unprocessed, unreliable, unsent>>

AnrTimer(s, type) == [kind |-> "anr", app |-> s, type |-> type]

Entry == [id : EventId, timer : TimerId \cup {NoTimer}, overdue : BOOLEAN]

AnrTypeOK ==
  /\ live \subseteq Process
  /\ \A s \in App, t \in AnrType :
       /\ \A k \in DOMAIN events[s][t] : events[s][t][k] \in Entry
       /\ \A k \in DOMAIN unprocessed[s][t] : unprocessed[s][t][k] \in EventId
       /\ isAnrProcess[s][t] \in BOOLEAN
  /\ anrTimerCount \in 0..MaxAnrTimers
  /\ anrNoticedPid \in Process \cup {NoPid}
  /\ unreliable \subseteq App
  /\ unsent \in BOOLEAN

AnrInit ==
  /\ live = {}
  /\ events = [s \in App |-> [t \in AnrType |-> <<>>]]
  /\ isAnrProcess = [s \in App |-> [t \in AnrType |-> FALSE]]
  /\ anrTimerCount = 0
  /\ anrNoticedPid = NoPid
  /\ unprocessed = [s \in App |-> [t \in AnrType |-> <<>>]]
  /\ unreliable = {}
  /\ unsent = FALSE

-----------------------------------------------------------------------------
(* The ids that a list of events names, -1 left out, and how many they are. *)
TimersOf(entries) == {entries[k].timer : k \in DOMAIN entries} \ {NoTimer}
Watched(entries) == {k \in DOMAIN entries : entries[k].timer # NoTimer}

-----------------------------------------------------------------------------
(* TriggerANR says whether the event may be sent; AddTimer watches an event
   that was sent, unless there are too many timers. *)

MaySend(s, type) == s \in live /\ ~isAnrProcess[s][type]

(* Mutant: without the limit. *)
WatchesAny(table) == NewTimerId(table) # NoTimer

Watches(table) == anrTimerCount < MaxAnrTimers /\ NewTimerId(table) # NoTimer

TableAfterSend(table, s, type) ==
  IF Watches(table)
  THEN Append(table, [id |-> NewTimerId(table), owner |-> AnrTimer(s, type)])
  ELSE table

Send(table, s, type, id) ==
  /\ MaySend(s, type)
  /\ unprocessed' = [unprocessed EXCEPT ![s][type] = Append(@, id)]
  /\ IF Watches(table)
     THEN /\ anrTimerCount' = anrTimerCount + 1
          /\ events' = [events EXCEPT ![s][type] =
                          Append(@, [id |-> id, timer |-> NewTimerId(table), overdue |-> FALSE])]
     ELSE UNCHANGED <<anrTimerCount, events>>
  /\ UNCHANGED <<live, isAnrProcess, anrNoticedPid, unreliable, unsent>>

-----------------------------------------------------------------------------
(* DelEvents: the events at the head of the list up to the first whose id
   is larger. *)

(* Mutant: the event that was marked stays. *)
HeadBelow(entries, id) ==
  CHOOSE n \in 0..Len(entries) :
    /\ \A k \in 1..n : entries[k].id < id
    /\ n < Len(entries) => entries[n + 1].id >= id

HeadLength(entries, id) ==
  CHOOSE n \in 0..Len(entries) :
    /\ \A k \in 1..n : entries[k].id <= id
    /\ n < Len(entries) => entries[n + 1].id > id

Responds(entries) == entries = <<>> \/ ~Head(entries).overdue

(* MarkProcessed, for the k-th event of those the application has. *)
(* Mutant: the timers of the events go on. *)
TableUntouched(table, s, type, k) == table

TableAfterMark(table, s, type, k) ==
  LET n == HeadLength(events[s][type], unprocessed[s][type][k])
  IN  Without(table, TimersOf(SubSeq(events[s][type], 1, n)))

MarkProcessed(s, type, k) ==
  LET entries == events[s][type]
      n == HeadLength(entries, unprocessed[s][type][k])
      rest == SubSeq(entries, n + 1, Len(entries))
  IN  /\ s \in live
      /\ unprocessed' = [unprocessed EXCEPT ![s][type] = RemoveAt(@, k)]
      /\ events' = [events EXCEPT ![s][type] = rest]
      /\ anrTimerCount' = anrTimerCount - Cardinality(Watched(SubSeq(entries, 1, n)))
      /\ isAnrProcess' = [isAnrProcess EXCEPT ![s][type] = @ /\ ~(n > 0 /\ Responds(rest))]
      /\ UNCHANGED <<live, anrNoticedPid, unreliable, unsent>>

(* The client's socket refuses the mark: OnDispatchEventProcessed logs it
   and forgets it. *)
LoseMark(s, type, k) ==
  /\ s \in live
  /\ unprocessed' = [unprocessed EXCEPT ![s][type] = RemoveAt(@, k)]
  /\ unreliable' = unreliable \cup {s}
  /\ UNCHANGED <<live, events, isAnrProcess, anrTimerCount, anrNoticedPid, unsent>>

-----------------------------------------------------------------------------
(* GetTimerIds: the timers of the list, which it forgets. *)

(* Mutant: the list keeps the ids. *)
Kept(entries) == entries

Forgotten(entries) == [k \in DOMAIN entries |-> [entries[k] EXCEPT !.timer = NoTimer]]

(* The callback of an ANR timer.  The notice is sent when the observer has
   a session whose socket takes it; otherwise the callback returns early. *)
TableAfterTimeout(table, s, type, sent) ==
  IF sent THEN Without(table, TimersOf(events[s][type])) ELSE table

Timeout(s, type, sent) ==
  /\ sent => anrNoticedPid \in live
  /\ isAnrProcess' = [isAnrProcess EXCEPT ![s][type] = TRUE]
  /\ IF sent
     THEN /\ anrTimerCount' = anrTimerCount - Cardinality(Watched(events[s][type]))
          /\ events' = [events EXCEPT ![s][type] = Forgotten(@)]
     ELSE UNCHANGED <<anrTimerCount, events>>
  /\ unsent' = (unsent \/ ~sent)
  /\ UNCHANGED <<live, anrNoticedPid, unprocessed, unreliable>>

(* INPUT_UI_TIMEOUT_TIME passes for the oldest event it has not passed for. *)
GrowOld(s, type, k) ==
  /\ ~events[s][type][k].overdue
  /\ \A j \in 1..(k - 1) : events[s][type][j].overdue
  /\ events' = [events EXCEPT ![s][type][k].overdue = TRUE]
  /\ UNCHANGED <<live, isAnrProcess, anrTimerCount, anrNoticedPid, unprocessed,
                 unreliable, unsent>>

-----------------------------------------------------------------------------
(* Sessions come and go: AddSession makes a new UDSSession, DelSession calls
   OnSessionLost and drops it. *)

AddSession(s) ==
  /\ s \notin live
  /\ live' = live \cup {s}
  /\ UNCHANGED <<events, isAnrProcess, anrTimerCount, anrNoticedPid, unprocessed,
                 unreliable, unsent>>

TableAfterLoss(table, s) ==
  IF s \in App
  THEN Without(table, UNION {TimersOf(events[s][t]) : t \in AnrType})
  ELSE table

OnSessionLost(s) ==
  /\ s \in live
  /\ live' = live \ {s}
  /\ anrNoticedPid' = IF anrNoticedPid = s THEN NoPid ELSE anrNoticedPid
  /\ unreliable' = unreliable \ {s}
  /\ IF s \in App
     THEN /\ anrTimerCount' = anrTimerCount
               - Cardinality(Watched(events[s]["ANR_DISPATCH"]))
               - Cardinality(Watched(events[s]["ANR_MONITOR"]))
          /\ events' = [events EXCEPT ![s] = [t \in AnrType |-> <<>>]]
          /\ isAnrProcess' = [isAnrProcess EXCEPT ![s] = [t \in AnrType |-> FALSE]]
          /\ unprocessed' = [unprocessed EXCEPT ![s] = [t \in AnrType |-> <<>>]]
     ELSE UNCHANGED <<anrTimerCount, events, isAnrProcess, unprocessed>>
  /\ UNCHANGED unsent

(* Any process may become the observer, with a session or without. *)
SetANRNoticedPid(pid) ==
  /\ anrNoticedPid' = pid
  /\ UNCHANGED <<live, events, isAnrProcess, anrTimerCount, unprocessed, unreliable, unsent>>
=============================================================================
