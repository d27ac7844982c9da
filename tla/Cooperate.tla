----------------------------- MODULE Cooperate -----------------------------
(***************************************************************************)
(* Keyboard and mouse crossing between two devices                         *)
(* (InputDeviceCooperateSM, the Free, In and Out state objects, the        *)
(* adapters of the softbus and of distributed input).  Each device has a   *)
(* mouse of its own; a device that lends it is Out, the one that uses it   *)
(* is In.  The two sides tell each other what they do over a softbus       *)
(* session, and each asks distributed input to move the events.            *)
(*                                                                         *)
(* The functions of the state machine hold its mutex: each is one step.    *)
(* Tasks run on the runner of the state object that posted them and go     *)
(* with it; an answer of distributed input goes to a callback that names   *)
(* that object.                                                            *)
(***************************************************************************)
EXTENDS Naturals, Sequences

CONSTANTS
  Devices,      \* the two devices
  NoDevice,     \* the empty network id, and the empty dhid
  MaxStarts,    \* bound: calls of StartInputDeviceCooperate
  MaxStops,     \* bound: calls that stop, and switch-offs
  MaxFaults,    \* bound: sessions cut, services restarted, requests refused
  MaxSessions   \* bound: sessions opened

ASSUME TwoDevices ==
  /\ NoDevice \notin Devices
  /\ \E d, e \in Devices : d # e /\ Devices = {d, e}
ASSUME BoundAssumption == MaxSessions \in Nat

VARIABLES
  dev,      \* what each device's state machine keeps
  asked,    \* requests distributed input has not answered yet
  session,  \* sessionDevMap_ of each device: its session with the other, or 0
  live,     \* the session the softbus has open, or 0
  opened,   \* how many it ever opened
  inbox,    \* what the softbus has still to give each device
  off,      \* a profile change "the other switched crossing off" to come
  events,   \* cooperateCallbacks_: the calls that are still to be answered
  starts, stops, faults,   \* the bounds' counters
  odd,      \* history: what went wrong, or crossed, so far
  stranded  \* history: the devices with a call that nothing can answer

transport == <<session, live, opened, inbox>>
counters  == <<starts, stops, faults>>
history   == <<odd, stranded>>
vars      == <<dev, asked, transport, off, events, counters, history>>

Peer(d) == CHOOSE e \in Devices : e # d

(* CallbackType: the four whose callbacks do something. *)
Calls == {"prepare", "start", "stopIn", "stopOut"}

(* A callback, for the remote `to` and the mouse it is about; its owner is *)
(* the state object it names: the current one, one that was replaced, or   *)
(* none (the empty lambda of OnCloseCooperation).                          *)
Callback == [to : Devices \cup {NoDevice}, mouse : Devices \cup {NoDevice},
             owner : {"current", "gone", "nobody"}]
NoCall   == [to |-> NoDevice, mouse |-> NoDevice, owner |-> "none"]

Task(what, ok, to, mouse) ==
  [what |-> what, ok |-> ok, to |-> to, mouse |-> mouse]

Fresh == [state |-> "free", starting |-> FALSE, stopping |-> FALSE,
          src |-> NoDevice, mouse |-> NoDevice, prepared |-> NoDevice,
          tasks |-> <<>>, calls |-> [c \in Calls |-> NoCall]]

Init ==
  /\ dev = [d \in Devices |-> Fresh]
  /\ asked = [d \in Devices |-> [c \in Calls |-> 0]]
  /\ session = [d \in Devices |-> 0]
  /\ live = 0 /\ opened = 0
  /\ inbox = [d \in Devices |-> <<>>]
  /\ off = {}
  /\ starts = 0 /\ stops = 0 /\ faults = 0
  /\ events = [d \in Devices |-> {}]
  /\ odd = {} /\ stranded = {}

----------------------------------------------------------------------------
(* What the functions of the state machine make of one device's record. *)

Post(v, task) == [v EXCEPT !.tasks = Append(@, task)]

(* currentStateSM_ is assigned: the old object goes, with its runner. *)
Replaced(v, state) ==
  [v EXCEPT !.state = state, !.tasks = <<>>,
            !.calls = [c \in Calls |-> IF v.calls[c].owner = "current"
                                       THEN [v.calls[c] EXCEPT !.owner = "gone"]
                                       ELSE v.calls[c]]]

(* Reset(bool) *)
Reset(v) ==
  [Replaced(v, "free") EXCEPT !.src = NoDevice, !.mouse = NoDevice,
                              !.starting = FALSE, !.stopping = FALSE]

(* Mutant: a device that shares a mouse keeps doing so. *)
ResetIdle(v, who) ==
  IF v.state = "free" THEN [Reset(v) EXCEPT !.prepared = NoDevice] ELSE v

(* Reset(networkId): a device that is Out or In listens to its partner. *)
ResetBy(v, who) ==
  IF \/ v.state = "out" /\ who # v.src
     \/ v.state = "in" /\ who # v.mouse
  THEN v
  ELSE [Reset(v) EXCEPT !.prepared = NoDevice]

(* OnStartFinish, once it has told the other device. *)
StartFinished(v, ok, mouse) ==
  LET w == IF ok THEN [v EXCEPT !.mouse = mouse] ELSE v IN
  CASE ~v.starting -> v
    [] v.starting /\ ok /\ v.state = "free" ->
         [Replaced(w, "out") EXCEPT !.starting = FALSE]
    [] v.starting /\ ok /\ v.state = "in" -> Reset(w)
    [] OTHER -> [w EXCEPT !.starting = FALSE]

(* Mutant: the state is not changed. *)
StopOnlyFlags(v, ok) == [v EXCEPT !.stopping = FALSE]

(* OnStopFinish, likewise. *)
StopFinished(v, ok) ==
  IF ok /\ v.state # "free" THEN Reset(v) ELSE [v EXCEPT !.stopping = FALSE]

(* StartRemoteCooperateResult *)
ToldStart(v, ok, mouse) ==
  LET w == [v EXCEPT !.mouse = mouse, !.starting = FALSE] IN
  CASE ~v.starting -> v
    [] v.starting /\ ok /\ v.state = "free" -> Replaced(w, "in")
    [] v.starting /\ ok /\ v.state = "out" -> Reset(w)
    [] OTHER -> w

(* StopRemoteCooperateResult *)
ToldStop(v, ok) ==
  IF v.stopping /\ ok THEN Reset(v) ELSE [v EXCEPT !.stopping = FALSE]

(* OnCloseCooperation, without its request to distributed input. *)
Closed(v, who, isLocal) ==
  LET w == [v EXCEPT !.prepared = NoDevice] IN
  IF v.state # "free" /\ (isLocal \/ who \in {v.src, v.mouse})
  THEN Reset(w) ELSE w

----------------------------------------------------------------------------
(* The softbus. *)

Start         == [type |-> "start"]
StartRes(ok, mouse) == [type |-> "startRes", ok |-> ok,
                        mouse |-> IF ok THEN mouse ELSE NoDevice]
Stop          == [type |-> "stop"]
StopRes(ok)   == [type |-> "stopRes", ok |-> ok]
Lost(id)      == [type |-> "closed", id |-> id]

(* A message for `to`: only the other device has an entry in the session   *)
(* map, and what is sent on a session that is already closed goes nowhere. *)
Send(d, to, message) ==
  /\ inbox' = IF to = Peer(d) /\ session[d] # 0 /\ session[d] = live
              THEN [inbox EXCEPT ![to] = Append(@, message)]
              ELSE inbox
  /\ UNCHANGED <<session, live, opened>>

(* Mutant: the id is kept without a look at whether OpenSession failed, as *)
(* one that names no session.                                              *)
OpenUnchecked(d, first) ==
  IF session[d] # 0 THEN UNCHANGED transport
  ELSE \/ /\ opened < MaxSessions
          /\ opened' = opened + 1 /\ live' = opened'
          /\ session' = [e \in Devices |-> opened']
          /\ inbox' = [inbox EXCEPT ![Peer(d)] = @ \o first]
       \/ /\ session' = [session EXCEPT ![d] = opened + 1]
          /\ UNCHANGED <<live, opened, inbox>>

(* OpenInputSoftbus, and what is sent on the session it opens. *)
OpenInputSoftbus(d, first) ==
  IF session[d] # 0 THEN UNCHANGED transport
  ELSE /\ opened < MaxSessions
       /\ opened' = opened + 1 /\ live' = opened'
       /\ session' = [e \in Devices |-> opened']
       /\ inbox' = [inbox EXCEPT ![Peer(d)] = @ \o first]

OpenAndSend(d) == IF session[d] # 0 THEN Send(d, Peer(d), Start)
                                    ELSE OpenInputSoftbus(d, <<Start>>)

(* Of what is on its way, the news of sessions that are closed.            *)
Closings(mail) ==
  LET kept[n \in 0..Len(mail)] ==
        IF n = 0 THEN <<>>
        ELSE IF mail[n].type = "closed" THEN Append(kept[n - 1], mail[n])
        ELSE kept[n - 1]
  IN  kept[Len(mail)]

(* The session ends: of what was on its way to d, `lost` says whether it   *)
(* is lost; then d is told.                                                *)
Ending(d, lost) ==
  Append(IF lost THEN Closings(inbox[d]) ELSE inbox[d], Lost(live))

(* The result of a stop, then CloseInputSoftbus: the one that closes is    *)
(* not told, and hears no more of that session.                            *)
SendAndClose(d, to, message) ==
  IF to # Peer(d) \/ session[d] = 0 THEN UNCHANGED transport
  ELSE /\ session' = [session EXCEPT ![d] = 0]
       /\ UNCHANGED opened
       /\ IF session[d] # live THEN UNCHANGED <<live, inbox>>
          ELSE /\ live' = 0
               /\ inbox' = [inbox EXCEPT
                    ![to] = Append(Append(@, message), Lost(live)),
                    ![d] = Closings(@)]

----------------------------------------------------------------------------
(* Calls from applications. *)

Becomes(d, v) == dev' = [dev EXCEPT ![d] = v]

(* AddCooperationEvent replaces the event of a call that is not answered. *)
Register(d, calls) ==
  /\ stranded' = IF events[d] \cap calls # {} THEN stranded \cup {d}
                 ELSE stranded
  /\ events' = [events EXCEPT ![d] = @ \cup calls]

(* The call is refused: OnErrorMessage answers the event it has put there. *)
RegisterAndRefuse(d, call) ==
  /\ stranded' = IF call \in events[d] THEN stranded \cup {d} ELSE stranded
  /\ events' = [events EXCEPT ![d] = @ \ {call}]

(* OnStart, OnStop *)
Answer(d, call) == events' = [events EXCEPT ![d] = @ \ {call}]

(* History: a call is made before all that an earlier one began is over. *)
Overlaps == \E d \in Devices : \/ dev[d].starting \/ dev[d].stopping
                              \/ inbox[d] # <<>>
NoteOverlap == odd' = IF Overlaps THEN odd \cup {"crossed"} ELSE odd

(* The softbus may not open a session, and may refuse what is sent on one  *)
(* that is closed before the device has heard of it: an error at once.     *)
CannotSend(d) == session[d] = 0 \/ session[d] # live

(* StartInputDeviceCooperate with a mouse: its own, or the one it uses. *)
StartInputDeviceCooperate(d, mouse) ==
  LET v == dev[d] IN
  /\ starts < MaxStarts /\ starts' = starts + 1
  /\ NoteOverlap
  /\ \/ /\ ~v.starting
        /\ (v.state = "free" /\ mouse = d) \/ v.state = "in"
        /\ OpenAndSend(d)
        /\ Register(d, {"start"})
        /\ Becomes(d, [Post(v, Task("processStart", TRUE, Peer(d), mouse)) EXCEPT
                         !.starting = TRUE,
                         !.src = IF v.state = "free" THEN Peer(d) ELSE @])
     \/ /\ v.starting /\ RegisterAndRefuse(d, "start")
        /\ UNCHANGED <<dev, transport>>
     \/ /\ ~v.starting /\ v.state = "out" /\ RegisterAndRefuse(d, "start")
        /\ OpenInputSoftbus(d, <<>>)
        /\ UNCHANGED dev
     \/ /\ ~v.starting /\ CannotSend(d) /\ RegisterAndRefuse(d, "start")
        /\ UNCHANGED <<dev, transport>>
  /\ UNCHANGED <<asked, off, stops, faults>>

(* What a stop does, of an application or of the local mouse. *)
CanStop(d) == LET v == dev[d] IN
  /\ ~v.stopping /\ v.state # "free" /\ session[d] # 0
  /\ Peer(d) = IF v.state = "in" THEN v.mouse ELSE v.src

Stopping(d) ==
  /\ Send(d, Peer(d), Stop)
  /\ Becomes(d, [Post(dev[d], Task("processStop", TRUE, Peer(d), NoDevice))
                   EXCEPT !.stopping = TRUE])

StopInputDeviceCooperate(d) ==
  /\ stops < MaxStops /\ stops' = stops + 1
  /\ NoteOverlap
  /\ \/ CanStop(d) /\ Stopping(d) /\ Register(d, {"stop"})
     \/ /\ ~CanStop(d) \/ CannotSend(d)
        /\ RegisterAndRefuse(d, "stop")
        /\ UNCHANGED <<dev, transport>>
  /\ UNCHANGED <<asked, off, starts, faults>>

(* A mouse other than the one that is shared moves.  (If Stop is refused,   *)
(* nothing changes.)                                                       *)
CheckPointerEvent(d) ==
  /\ stops < MaxStops /\ stops' = stops + 1
  /\ ~dev[d].starting /\ CanStop(d)
  /\ NoteOverlap
  /\ Stopping(d) /\ Register(d, {})
  /\ UNCHANGED <<asked, off, starts, faults>>

(* OnCloseCooperation stops what the devices it has prepared had started, *)
(* with a callback that does nothing.                                     *)
CloseCooperation(d, who, isLocal) ==
  LET v     == dev[d]
      asks  == v.prepared # NoDevice /\ v.state # "free"
      w     == Closed(v, who, isLocal)
  IN /\ Becomes(d, IF asks THEN [w EXCEPT !.calls["stopOut"] =
                                   [NoCall EXCEPT !.owner = "nobody"]]
                           ELSE w)
     /\ asked' = IF asks THEN [asked EXCEPT ![d]["stopOut"] = @ + 1]
                         ELSE asked
     /\ UNCHANGED transport

(* EnableInputDeviceCooperate(false): the profile tells the others. *)
DisableInputDeviceCooperate(d) ==
  /\ stops < MaxStops /\ stops' = stops + 1
  /\ CloseCooperation(d, d, TRUE)
  /\ off' = off \cup {Peer(d)}
  /\ odd' = odd \cup {"disabled"}
  /\ UNCHANGED <<events, starts, faults, stranded>>

(* OnCooperateChanged *)
OnCooperateChanged(d) ==
  /\ d \in off /\ off' = off \ {d}
  /\ CloseCooperation(d, Peer(d), FALSE)
  /\ UNCHANGED <<events, counters, history>>

----------------------------------------------------------------------------
(* Tasks of the state objects, and what they ask of distributed input. *)

(* Mutants: of a start that failed, the other device, or the caller, is *)
(* not told.                                                            *)
FinishStartApart(d, v, ok, to, mouse) ==
  /\ Becomes(d, StartFinished(v, ok, mouse))
  /\ IF v.starting THEN Answer(d, "start") ELSE UNCHANGED events
  /\ IF v.starting /\ ok THEN Send(d, to, StartRes(ok, mouse))
                         ELSE UNCHANGED transport
FinishStartUntold(d, v, ok, to, mouse) ==
  /\ Becomes(d, StartFinished(v, ok, mouse))
  /\ IF v.starting THEN Send(d, to, StartRes(ok, mouse))
                   ELSE UNCHANGED transport
  /\ IF v.starting /\ ok THEN Answer(d, "start") ELSE UNCHANGED events

FinishStart(d, v, ok, to, mouse) ==
  /\ Becomes(d, StartFinished(v, ok, mouse))
  /\ IF v.starting THEN Send(d, to, StartRes(ok, mouse)) /\ Answer(d, "start")
                   ELSE UNCHANGED <<transport, events>>

FinishStop(d, v, ok, to) ==
  IF ~v.stopping
  THEN Becomes(d, v) /\ UNCHANGED <<transport, events>>
  ELSE /\ Becomes(d, StopFinished(v, ok)) /\ Answer(d, "stop")
       /\ SendAndClose(d, to, StopRes(ok))

(* SaveCallback, then the request. *)
Saved(v, c, to, mouse) ==
  [v EXCEPT !.calls[c] = [to |-> to, mouse |-> mouse, owner |-> "current"]]
Ask(d, v, c, to, mouse) ==
  /\ Becomes(d, Saved(v, c, to, mouse))
  /\ asked' = [asked EXCEPT ![d][c] = @ + 1]
  /\ UNCHANGED <<transport, events, faults, odd>>

(* Distributed input refuses the request; the callback stays saved. *)
Refuse(because) ==
  /\ faults < MaxFaults /\ faults' = faults + 1
  /\ odd' = odd \cup because
  /\ UNCHANGED asked

AskPrepare(d, v, mouse) ==
  LET w == [v EXCEPT !.prepared = Peer(d)] IN
  \/ Ask(d, w, "prepare", Peer(d), mouse)
  \/ /\ Refuse({"refused"})
     /\ FinishStart(d, [Saved(v, "prepare", Peer(d), mouse) EXCEPT
                          !.prepared = NoDevice], FALSE, d, mouse)

AskStart(d, v, mouse) ==
  \/ Ask(d, v, "start", v.prepared, mouse)
  \/ /\ Refuse({"refused"})
     /\ FinishStart(d, Saved(v, "start", v.prepared, mouse),
                    FALSE, v.prepared, mouse)

(* To come back is to stop; a relay that cannot stop tells itself. *)
AskBack(d, v, to, mouse, toTell) ==
  \/ Ask(d, v, "stopIn", to, mouse)
  \/ /\ Refuse({"refused"})
     /\ FinishStart(d, Saved(v, "stopIn", to, mouse), FALSE, toTell, mouse)

AskStop(d, v, to) ==
  LET c == IF v.state = "in" THEN "stopIn" ELSE "stopOut" IN
  \/ Ask(d, v, c, to, NoDevice)
  \/ /\ Refuse({"refused", "stopFailed"})
     /\ FinishStop(d, Saved(v, c, to, NoDevice), FALSE, to)

(* PrepareAndStart, ComeBack or RelayComeBack. *)
ProcessStart(d, v, mouse) ==
  IF v.state = "in" /\ mouse = Peer(d) THEN AskBack(d, v, mouse, mouse, mouse)
  ELSE IF v.prepared = Peer(d) THEN AskStart(d, v, mouse)
  ELSE AskPrepare(d, v, mouse)

RunTask(d) ==
  /\ dev[d].tasks # <<>>
  /\ LET t == Head(dev[d].tasks)
         v == [dev[d] EXCEPT !.tasks = Tail(@)]
     IN \/ t.what = "processStart" /\ ProcessStart(d, v, t.mouse)
        \/ t.what = "startDinput" /\ AskStart(d, v, t.mouse)
        \/ t.what = "relayStop" /\ AskBack(d, v, t.to, t.mouse, d)
        \/ t.what = "processStop" /\ AskStop(d, v, t.to)
        \/ /\ t.what = "startFinish"
           /\ FinishStart(d, v, t.ok, t.to, t.mouse)
           /\ UNCHANGED <<asked, faults, odd>>
        \/ /\ t.what = "stopFinish"
           /\ FinishStop(d, v, t.ok, t.to)
           /\ odd' = IF t.ok THEN odd ELSE odd \cup {"stopFailed"}
           /\ UNCHANGED <<asked, faults>>
  /\ UNCHANGED <<off, starts, stops, stranded>>

----------------------------------------------------------------------------
(* Answers of distributed input.  ProcessDInputCallback gives an answer to *)
(* whatever callback of its type is saved.  A callback whose state object  *)
(* was replaced names freed memory: here it does nothing (Crash is the     *)
(* other outcome).                                                         *)
(*                                                                         *)
(* An answer is one step, which is coarser than the code: it holds the     *)
(* adapter's lock throughout, but the mutex of the state machine only for  *)
(* each of two calls (UpdatePreparedDevices and OnStartFinish, IsStarting  *)
(* and IsStopping), between which another thread's call may come; and the  *)
(* timer's lambda does not take the adapter's lock, so that a save or an   *)
(* answer may come in its midst.  Of these interleavings the model has     *)
(* those in which one of the two is over before the other begins, and      *)
(* Crash.                                                                  *)
Called(d, v, c, ok) ==
  LET call == dev[d].calls[c]
      Posts(what, isOk) ==
        /\ Becomes(d, Post(v, Task(what, isOk, call.to, call.mouse)))
        /\ UNCHANGED <<transport, events>>
      Nothing == Becomes(d, v) /\ UNCHANGED <<transport, events>>
  IN IF call.owner # "current" THEN Nothing
     ELSE CASE c = "prepare" /\ ok -> Posts("startDinput", TRUE)
            [] c = "prepare" /\ ~ok ->      \* OnPrepareDistributedInput
                 FinishStart(d, [v EXCEPT !.prepared = NoDevice],
                             FALSE, call.to, call.mouse)
            [] c = "start" /\ ok /\ v.state = "in" -> Posts("relayStop", TRUE)
            [] c = "start" /\ ~(ok /\ v.state = "in") ->
                 Posts("startFinish", ok)
            [] c = "stopOut" -> Posts("stopFinish", ok)
            [] c = "stopIn" ->               \* OnStopRemoteInput of In
                 IF v.starting THEN Posts("startFinish", ok)
                 ELSE IF v.stopping THEN Posts("stopFinish", ok)
                 ELSE Nothing

Forgotten(d, c) == [dev[d] EXCEPT !.calls[c] = NoCall]

ProcessDInputCallback(d, c, ok) ==
  /\ asked[d][c] > 0
  /\ asked' = [asked EXCEPT ![d][c] = @ - 1]
  /\ Called(d, Forgotten(d, c), c, ok)
  /\ UNCHANGED <<off, counters, history>>

(* The second run of the adapter's timer. *)
TimeOut(d, c) ==
  /\ dev[d].calls[c] # NoCall
  /\ Called(d, Forgotten(d, c), c, FALSE)
  /\ UNCHANGED <<asked, off, counters, history>>

----------------------------------------------------------------------------
(* What the softbus gives a device: HandleSessionData and OnSessionClosed. *)
HandleSessionData(d) ==
  /\ inbox[d] # <<>>
  /\ inbox' = [inbox EXCEPT ![d] = Tail(@)]
  /\ LET m == Head(inbox[d])
         v == dev[d]
     IN /\ Becomes(d,
             CASE m.type = "start"    -> [v EXCEPT !.starting = TRUE]
               [] m.type = "stop"     -> [v EXCEPT !.stopping = TRUE]
               [] m.type = "startRes" -> ToldStart(v, m.ok, m.mouse)
               [] m.type = "stopRes"  -> ToldStop(v, m.ok)
               [] m.type = "closed"   ->
                    ResetBy(v, IF session[d] = m.id THEN Peer(d) ELSE NoDevice))
        /\ session' = IF m.type = "closed" /\ session[d] = m.id
                      THEN [session EXCEPT ![d] = 0] ELSE session
  /\ UNCHANGED <<asked, off, live, opened, events, counters, history>>

----------------------------------------------------------------------------
(* Faults: the softbus loses the session, or the service of a device dies  *)
(* and starts again.                                                       *)
Cut ==
  /\ faults < MaxFaults /\ faults' = faults + 1
  /\ live # 0 /\ live' = 0
  /\ \E lost \in [Devices -> BOOLEAN] :
       inbox' = [d \in Devices |-> Ending(d, lost[d])]
  /\ odd' = odd \cup {"cut"}
  /\ UNCHANGED <<dev, asked, session, opened, off, events, starts, stops, stranded>>

Crash(d) ==
  /\ faults < MaxFaults /\ faults' = faults + 1
  /\ Becomes(d, Fresh)
  /\ asked' = [asked EXCEPT ![d] = [c \in Calls |-> 0]]
  /\ session' = [session EXCEPT ![d] = 0]
  /\ live' = IF session[d] = live THEN 0 ELSE live
  /\ \E lost \in BOOLEAN :
       inbox' = [inbox EXCEPT ![d] = <<>>,
                              ![Peer(d)] = IF live # 0 /\ session[d] = live
                                           THEN Ending(Peer(d), lost) ELSE @]
  /\ odd' = odd \cup {"crashed"}
  /\ events' = [events EXCEPT ![d] = {}]
  /\ UNCHANGED <<opened, off, starts, stops, stranded>>

Next ==
  \/ \E d \in Devices :
       \/ \E mouse \in Devices : StartInputDeviceCooperate(d, mouse)
       \/ StopInputDeviceCooperate(d)
       \/ CheckPointerEvent(d)
       \/ DisableInputDeviceCooperate(d)
       \/ OnCooperateChanged(d)
       \/ RunTask(d)
       \/ HandleSessionData(d)
       \/ Crash(d)
       \/ \E c \in Calls :
            \/ TimeOut(d, c)
            \/ \E ok \in BOOLEAN : ProcessDInputCallback(d, c, ok)
  \/ Cut

Spec == Init /\ [][Next]_vars

----------------------------------------------------------------------------
(* Type correctness. *)
TypeOK ==
  /\ dev \in [Devices -> [
       state : {"free", "in", "out"}, starting : BOOLEAN, stopping : BOOLEAN,
       src : Devices \cup {NoDevice}, mouse : Devices \cup {NoDevice},
       prepared : Devices \cup {NoDevice},
       tasks : Seq([what : {"processStart", "startDinput", "relayStop",
                            "startFinish", "processStop", "stopFinish"},
                    ok : BOOLEAN, to : Devices \cup {NoDevice},
                    mouse : Devices \cup {NoDevice}]),
       calls : [Calls -> Callback \cup {NoCall}]]]
  /\ asked \in [Devices -> [Calls -> Nat]]
  /\ session \in [Devices -> 0..MaxSessions]
  /\ live \in 0..opened /\ opened \in 0..MaxSessions
  /\ \A d \in Devices : session[d] <= opened
  /\ off \subseteq Devices
  /\ events \in [Devices -> SUBSET {"start", "stop"}]

(* Nothing is under way: no task, no callback, nothing to be told. *)
Quiet == /\ off = {}
         /\ \A d \in Devices : /\ inbox[d] = <<>> /\ dev[d].tasks = <<>>
                               /\ \A c \in Calls : dev[d].calls[c] = NoCall

(* Calls do not overlap, no request is refused on the spot, no stop fails, *)
(* and crossing is not switched off; but sessions may be cut and services  *)
(* die, and distributed input may fail, answer late or not at all.         *)
Orderly == odd \subseteq {"cut", "crashed"}

(* Safety: when all is done, one device lends its mouse exactly when the   *)
(* other uses it (StartRemoteCooperateResult, StopRemoteCooperateResult    *)
(* and, when they are lost, OnSessionClosed and Reset bring this about).   *)
SidesAgree ==
  Quiet /\ Orderly =>
    \A d \in Devices : dev[d].state = "out" <=> dev[Peer(d)].state = "in"

(* Safety: a device that shares a mouse has a session, and knows the other *)
(* device: without them StopInputDeviceCooperate fails, and nothing but    *)
(* the loss of a session it does not have brings it back.                  *)
CanBeStopped ==
  Orderly =>
    \A d \in Devices : dev[d].state # "free" =>
      /\ session[d] # 0
      /\ Peer(d) = IF dev[d].state = "in" THEN dev[d].mouse ELSE dev[d].src

(* Safety: every caller of a start or a stop is told how it ended (the     *)
(* events of CooperateEventManager), when nothing at all goes wrong but    *)
(* distributed input.                                                      *)
CallersAreTold ==
  Quiet /\ odd = {} => stranded = {} /\ \A d \in Devices : events[d] = {}

(* Safety: when all is done, no device is left in transition: there        *)
(* CheckPointerEvent drops every mouse event, and a start or a stop is     *)
(* refused.  And CallersAreTold: no caller is left either.                 *)
NobodyLeftWaiting ==
  /\ CallersAreTold
  /\ Quiet /\ Orderly =>
       \A d \in Devices : ~dev[d].starting /\ ~dev[d].stopping

(* What input_manager.h:354-361 says of StartInputDeviceCooperate ("this   *)
(* callback is called"), with no fault: false, a second call that is       *)
(* refused replaces the event of the first and clears it.                  *)
CallbackIsCalled ==
  Quiet /\ faults = 0 => stranded = {}

============================================================================
