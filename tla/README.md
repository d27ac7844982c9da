# Verification of the multimodal input service

This directory holds TLA+ models of `src/input` (the input service, its
utilities and what its clients do to it), TLC configurations that check them on
small instances, and proofs checked by TLAPS.

The service is one process. One thread, `MMIService::OnThread`
(`mmi_service.cpp`), waits in `epoll_wait` for libinput events, sockets of
clients, a pipe of delegated calls and signals, and then runs the timers that
are due. Almost everything else is a class used from this one thread. The other
threads are the binder threads, which hand their calls over to it, and the
threads of the client processes. What is hard here is therefore of two kinds:
the hand-over between threads, and long sequences of callbacks of one thread
that share state: a table of timers whose ids are reused, sessions that come
and go, events that are answered late, out of order or never.

Paths below are relative to `src/input`; `S/` stands for `service/`.

## Inventory

| Component (main source) | State | Operations | Hard behaviour | What makes it correct |
|---|---|---|---|---|
| Delegated tasks (`S/delegate_task`, `util/common/include/id_factory.h`) | task queue, id factory, pipe, a promise on each poster's stack | `PostSyncTask`, `PostAsyncTask`, `ProcessTasks`, `SetWaited` | posters, worker and time limits interleave; one record per wake-up but a batch of tasks | no wake-up is lost, ids never clash or leak, an answer is the caller's own, FIFO and at most once, every poster returns |
| Timer manager (`S/timer_manager`) | ordered list, 64 slots of ids | `AddTimer`, `RemoveTimer`, `ResetTimer`, `CalcNextDelay`, `ProcessTimers` | callbacks change the list during the pass; the wall clock jumps; a late worker | list ordered, ids distinct, sleep never past a deadline, a pass ends and leaves nothing due |
| ANR manager and sessions (`S/event_handler/src/anr_manager.cpp`, `util/socket/src/uds_session.cpp`) | events per session with timer ids, count of timers, blocked flags, observer | `AddTimer`, `TriggerANR`, `MarkProcessed`, `OnSessionLost`, `HandleAnrState` | marks lost or out of order, notices that fail, sessions lost, ids of timers reused | the count is exact, no timer is left for an application that has answered all, a blocked application can be unblocked |
| Key auto repeat (`S/event_handler/src/key_auto_repeat.cpp`) | one timer id, the last key event | `SelectAutoRepeat`, `AddHandleTimer`, `RemoveTimer` | re-arms itself in its callback, which dispatches the event first | the repetition can be stopped; it stops no one else's timer |
| Key subscriber (`S/subscriber`) | subscribers with a timer and an event each, a flag, the last event | subscribe, unsubscribe, down/up/cancel, `OnTimer`, `OnSessionDelete` | timers race key events; events are intercepted or injected; sessions go | timers and subscribers match, a notification carries the event that matched, a wait ends when the keys change |
| Service loop (`S/module_loader/src/mmi_service.cpp`) | run state, epoll set | start, stop, the loop | order of events and timers in a round | see the two components it drives |
| Sessions of the server (`S/module_loader/src/uds_server.cpp`) | maps fd to session and pid to fd | `AddSocketPairInfo`, `AddSession`, `DelSession`, `ReleaseSession` | two connections of one process, failure half way | both maps agree, descriptors are closed |
| Handler chain (`S/event_handler`, `S/event_dispatch`, `S/filter`, `S/interceptor`, `S/monitor`) | collections of remote filters, interceptors and monitors, the consumption of touch sequences | add, remove, handle, mark consumed | registrations change in the middle of a sequence, owners die | an event goes to one consumer; no consumption outlives its consumer |
| Key commands (`S/key_command`) | shortcuts, sequences, timers of both | handle a key event | several timers per key, delayed events, a list that is erased while it is read | a launch waits only while its keys are right, timers belong to what holds their id, the subscribers get a release after its press |
| Key event state (`S/key_event_normalize`) | pressed keys of the service's one key event | normalize | several keyboards, lost releases | a key is pressed while its device holds it |
| Device cooperation (`S/input_device_cooperate`) | state machine per device, callbacks with timers | start, stop, results, session closed | two devices exchange messages that may be lost or cross | the devices agree; no device stays in transition |
| Device manager (`S/device_manager`) | device map, observers | add, remove, observe | hot plugging | ids are unique, observers hear of each device |
| Windows and pointer (`S/window_manager`) | displays, windows, targets of touches | update, find the target, draw | windows change during a sequence | a sequence has one target |
| Sockets and packets (`util/socket`, `util/network`) | circular buffers | read, write, frame | partial sends, full buffers | packets arrive whole and in order |
| Client side (`frameworks/proxy`) | registries of handlers and subscriptions, connection | add, remove, reconnect | threads of the client, the service dies | the service knows what the client has registered |
| Touch and mouse normalizers, libinput adapter, binder stubs, permissions, dump, NAPI, tools, build files | little or none | conversions, marshalling, printing | none that TLC would reach | |

`PROJECT.json` gives the state of each, and under `hazards` the lines at which
these behaviours bite, with the properties about them; those that no property
covers say why.

## Modules

| Module | Models | Uses |
|---|---|---|
| `CallQueue` | abstract: what the delegate queue promises its posters | |
| `DelegateTasks` | `DelegateTasks`, `IdFactory`, `MMIService::OnDelegateTask` | `CallQueue` (refined) |
| `MCDelegateTasks` | two posters for TLC | `DelegateTasks` |
| `TimerTable` | the timer list as a value: slots, insertion, removal, clamping | |
| `TimerManager` | `TimerManager` and the loop of `OnThread` | `TimerTable` |
| `ServiceLoopProofs` | theorems about the two that the loop drives, and that `DelegateTasks` implements `CallQueue` | `DelegateTasks`, `TimerManager` |
| `AnrManager` | `ANRManager`, the event lists of `UDSSession`, marks of the application | `TimerTable` |
| `KeyAutoRepeat` | `KeyAutoRepeat` | `TimerTable` |
| `EventTimers` | the thread with both of them on one table | `AnrManager`, `KeyAutoRepeat` |
| `EventTimersProofs` | theorems about it | `EventTimers` |
| `MCEventTimers` | instance for TLC, symmetry | `EventTimers` |
| `KeySubscriber` | `KeySubscriberHandler`, with the keyboard, injected events and the table's other users | `TimerTable` |
| `KeySubscriberProofs` | theorems about it | `KeySubscriber` |
| `MCKeySubscriber` | two applications and their subscriptions for TLC | `KeySubscriber` |
| `HandlerRegistry` | sessions of `UDSServer`, monitors of the service, `InputHandlerManager`, `MMIClient` and the proxy of the service | |
| `HandlerRegistryProofs` | theorems about it | `HandlerRegistry` |
| `MCHandlerRegistry` | names of handlers, types and sockets for TLC | `HandlerRegistry` |
| `PacketStream` | `SendMsg`, `CircleStreamBuffer`, `OnReadPackets` | |
| `PacketStreamProofs` | theorems about it | `PacketStream` |
| `TouchChain` | touches from the normalizer to the windows, with the consumption by monitors | |
| `TouchChainProofs` | theorems about it | `TouchChain` |
| `MCTouchChain` | two fingers and two windows, symmetry | `TouchChain` |
| `Cooperate` | the cooperation of two devices | |
| `CooperateProofs` | theorems about it | `Cooperate` |
| `MCCooperate` | symmetry of the devices | `Cooperate` |
| `KeyCommand` | `KeyCommandHandler`, with the keyboard, injected and intercepted events | `TimerTable` |
| `KeyCommandProofs` | theorems about it | `KeyCommand` |
| `MCKeyCommand` | two shortcuts and two sequences for TLC | `KeyCommand` |

### DelegateTasks

State: `tasks`, `seed`, `freeIds` and `pipe` are the members of the class and the
records in its pipe; `batch` and `worker` are the local vector of `ProcessTasks`
and where the worker is in it; `poster` and `promise` are the frame of each
`PostSyncTask`. One action is one stretch of code that nothing can interleave
with: the body of a mutex, one access to the atomic `hasWaited_`, one system
call. `StartCallback` and `DecideAnswer` are the two tests of `hasWaited_` in
`ProcessTask`; between each of them and what follows, `Leave` (`SetWaited`, return
and destruction of the promise) may come.

Using a promise that is gone is undefined. `SetValueDangling` lets it do nothing or
satisfy the promise of a later call of the same thread (whose frame is at the
same place); `Abort` is the exception of `set_value`, after which the process is
started anew. `undefined` remembers such a use, and `AnswerIsOwn` promises nothing after
it. Whether
`set_value` on a live promise has already waked the poster before it returns is
not distinguished.

`MaxId` stands for the maximum of `int32_t`; `IdsConsistent` bounds the seed by
the limit of the queue, so it is never reached.

### TimerManager

`phase` is where the worker is: about to compute the delay, about to call `epoll_wait`
with it, asleep, handling events, in `ProcessTimersInternal`, or in the callback of a timer.
`TakeDelay` and `EpollWait` are two steps since time passes between them, and epoll's time-out
begins to run with the second: `lag` is what was lost, and `SleepCoversHead` allows a sleep past
the deadline by no more than that. Handlers and callbacks
may call `AddTimer`, `RemoveTimer` and `ResetTimer` any number of times. Time is a
counter; `Tick` may come between any two steps, so a slow handler is included.
`SetClock` changes `GetMillisTime`, which reads `system_clock`, and not the
time-out of epoll. `ToInt32` is the conversion of the delay to `int32_t`, with
2^31 scaled to `DelayRange`. With a clock that is not set no delay exceeds the longest
interval, so the conversion never wraps (`timer_pass` has a `DelayRange` of one more than it); with a
clock that is set back it may, which `timer_clock` allows.

`TakeNextTimerId` is `NextTimerIds`, the lowest slot not in use, which is why ids are
reused at once. `FireLast` takes the timer off the list before its callback;
`FireAgain` puts it back before its callback. The overflow test of
`AddInt64` is left out: it needs a clock near 2^63.

### AnrManager, KeyAutoRepeat, EventTimers

Each action of `EventTimers` is one callback of the thread. The operations of the two
users are stated over a table passed as an argument, since one callback may
use the table several times (a repeated key is dispatched, which adds an ANR
timer, before the repetition adds its own). `events[s][type]` is the list
in `UDSSession`; `unprocessed` is the application's side. A mark is sent in any
order or lost (`LoseMark`; `unreliable` remembers it). Sending to a
socket is a success or a failure. `unsent` remembers that the callback of an ANR
timer has returned early, at `anr_manager.cpp:97`, `:103` or `:108`.

`CooperationEnds` is `KeyAutoRepeat::RemoveTimer`, which the state machine of the cooperation
calls (`input_device_cooperate_sm.cpp:289`, `:326`). It removes the timer and leaves `timerId_` as
it is (`key_auto_repeat.cpp:156`), so the id may be given to another user, whose timer the next key or the next such
call removes. `stale` says that `timerId_` is such an id and `strayed` that it has removed a
timer: what `IdsMatchTimers` says of ids is claimed until then. The cooperation calls it from its own threads, without
a lock; in the model it comes between two callbacks of the service's thread.

`TimersWatchEvents` does not say that the event a timer watches is unmarked. A mark stops at the first
larger id (`uds_session.cpp:169`), so in a list out of order an event may be marked and
still watched; but then one before it in the list is still to be marked.

All ANR timers have one interval, so a table in order of insertion is the order
in which they run; the repetition's timer may run at any time. `GrowOld` is the
passing of `INPUT_UI_TIMEOUT_TIME` for an event whose timer is gone or was never
added. The event id of a key that is repeated is the one drawn when the
key was last sent, which is how a list of events gets out of order.

### KeySubscriber

`subscribers` is the list, with `timerId_` and `keyEvent_` of each. A handler works
through the list and changes the timers and `hasEventExecuting_` as it goes: `Turn`
is these three, and the loops over the list are recursive functions of the position, which
a proof can look into. `OnSubscribeKeyEvent`
is the whole of it, the skipped repetition included.

Abstractions: a subscription's durations are only present or absent, and timers
run in any order, which is every choice of durations; whether a key was
released quickly enough is the free choice `quick`. A notification changes
nothing here and is not an action. Handlers that come first in the chain may consume an event
(`Chain`), and a key command that completes a sequence removes the timers of its
keys (`CompletesSequence`). Events that the key command handler holds back and
gives to the subscriber handler later are among the injected ones. There is one keyboard.
`callbackInitialized_`, which registers for lost sessions with the first
subscription, is left out.

The other users of the timer table remove only timers of their own here, and in `KeyCommand`. In
the code two hold ids that are not theirs any more: `KeyAutoRepeat` after
`RemoveTimer`, and `DistributedInputAdapter`, whose lambda does not forget the timer that has run for the last time
(`distributed_input_adapter.cpp:180`, `:204`). Both come with the cooperation of devices, and
`TimersMatchSubscribers` and `IdsNameOwnTimers` do not hold of a service in which such an id strikes.

### HandlerRegistry

Three threads: the service's, which runs delegated tasks one by one; the thread of
`MMIClient` in an application, which connects, registers what the application's
handlers ask for and waits for the socket to hang up (`link` is where it is); and
a thread of the application that adds and removes handlers (`app`). `sessions`,
`idxPid` and `monitors` are `sessionsMap_`, `idxPidMap_` and `monitors_`; `handlers`
is `inputHandlers_`. A socket pair is one name: the application's end is
`fd`, the service's is in `sessions`, and `orphans` are those whose other end was
returned to a caller that had given up.

A call is posted as a task with the thread that waits for it. `GiveUp` is the time
limit of `PostSyncTask`: the task stays in the queue and still runs, and its answer
goes nowhere, unless the worker finds that the caller has left before it reaches the task (`DiscardTask`). `Crash` ends the service with all its state and refuses the calls
under way; `Restart` is init. `OnDeath` and `Call` take turns at the lock of
the connect manager, which `AllocSocketPair` holds while it waits
(`Call` is disabled meanwhile).

The service learns that a socket is closed (`HangUp`) when its process has ended: the other ends of sockets
that a caller gave up (`orphans`) are left open in the service, where nobody knows them any more. An older connection of a process that lives
therefore never ends here, and `CallsFindSession` does not speak of the entry of `idxPidMap_` that
its end would erase (`uds_server.cpp:354`).

`OnConnectedReads` and `OnConnectedRegisters` are two steps because
`InputHandlerManager::OnConnected` reads the handlers without their lock.
`doubtful` remembers, per connection, what makes the two sides differ in the code as it
is: that race, a call given up, and a registration whose refusal is ignored.
`ServiceKnowsHandlers` claims nothing then.

### PacketStream

A packet is a sequence of units that know their packet, so a unit out of place is
seen. `Send` is one call of `send`, which takes what the socket has room for;
`Recv` one `recv` of at most a packet's size and the write to the circular
buffer, whose capacity is two packets; `unread`, `rPos` and `wPos` are
its positions, and `OnReadPackets` takes packets out, at most `ProcessLimit` of them.
`SEND_RETRY_LIMIT` counts calls, not failures: a packet whose last part goes
out with the last call is reported as not sent, as in the code.

`broken` remembers what tears the stream: a packet given up in the middle
("torn"), a read that found no room ("dropped"), a connection lost with a packet
half received, which `MMIClient` keeps in its buffer ("stale"), and the packet of another
thread between two parts of one ("mixed"). `SendMsg` of both ends has no lock, and is called by
several threads of an application (`client_msg_handler.cpp:387`) and of the
service (`cooperate_event_manager.cpp:131`); `SendBetween` is the first `send` of such another call, which comes when a
part of a packet was taken. After those a head
may say anything (`HeadSays`). "behind" says that the limit of one read has left packets
behind, which alone may fill the buffer (`RoomForARead`, a part of `QuietMeansDelivered`). The properties claim
nothing of a torn stream and TLC follows it only until it is cut twice (`CutOnce`).

### TouchChain

One touch is one action, through the normalizer (`items` are the fingers that are
down), the choice of the window (`Target`), a filter or an interceptor that may take it
(`fate`), the monitors (`Handle`) and the dispatch, which may also drop the event: the session is gone or does not
respond, another device has the pointer, or the socket does not take it. A mark of a monitor is another,
as it comes by a delegated task: `MarkConsumed` may run after any number of touches
of this gesture or the next, and cancels what the shared last event has become by
then. Windows close and open between any two events.

Events are told apart only by their gesture, since `eventIds_` takes and drops
those of a gesture together. `touching` is what the windows believe. `odd` collects
what the properties cannot promise for the code as it is, each a case the model
reaches: an event taken by a filter or an interceptor ("taken"), one that the dispatch drops
("lost"; `event_dispatch_handler.cpp:97` to `:110`, `:130`), a finger that goes down on
no window ("missed"), an entry of `touchItemDownInfos_` that outlives its gesture
("stale"), a cancel that goes to the window of the last event while other fingers
are in another window ("astray"), and a window that opens during a gesture ("opened").

### Cooperate

`dev[d]` is the state machine of one device: its state, `isStarting_`, `isStopping_`,
the devices it knows, the tasks its state object has posted and the callbacks saved in
`DistributedInputAdapter`. Each function of the state machine holds its mutex and is
one step. When the state object is replaced its tasks go with its runner, and a
callback that names it is `gone`: it does nothing, and the other outcome, a
crash on freed memory, is `Crash`. A start or a stop is refused at once, and nothing changes, if the session
cannot be opened or does not take the message (`CannotSend`). Requests to distributed input are answered well or badly, late, or
not at all; the time limit calls the callback whatever it is by then, and a late answer is given
to the next callback of its type. An answer is one step, coarser than the code: the adapter's
lock and that of the state machine are taken one after the other, and the lambda of the adapter's
timer takes none (`distributed_input_adapter.cpp:180`), so in the code it may even
run a callback while the answer erases it, which the model does not follow.

The softbus keeps one session with messages in order. `Cut` loses the session, with or
without what was under way; `Crash` restarts the service of one device. `live` is
the session that is open and `session[d]` the one that `d` believes in, so a stop's
result can race the end of its own session. `odd` remembers what the
agreement of the two sides does not survive in the code: calls that overlap
("crossed"), requests refused on the spot, after which the callback stays saved
("refused"), stops that fail and close the session all the same ("stopFailed"), and crossing
switched off ("disabled"). `Orderly` leaves cuts, restarts, and
failing, late and missing answers.

### KeyCommand

`lastMatchedKey`, `keys`, `filterSequences`, `specialKeys` and `specialTimers` are the
members of the class. `OnHandleEvent` is one step; the functions it calls work on
`Turn`, the members together with the timer table and what the loop over
`filterSequences_` has collected so far. The keyboard, repetitions and injected
events are those of `KeySubscriber`; an event that an interceptor takes changes the keyboard
and not the handler. `irregular` are the keys of which an event was injected or
intercepted, or not held back for want of a timer, and `seen` what the subscribers were told last of a volume
key. Power and volume keys stand for `SPECIAL_KEYS`.

Abstractions: the time of an event is how long it comes after the last key in `keys_`
(`gap`: before it, beyond `MAX_DELAY_TIME`, beyond or within the delay of a
sequence), a duration or a delay is there or not, and the timers of
shortcuts and sequences run at any time. The timers of volume keys are equally long, so those of them
run in the order in which they were added, as long as the clock is not set back.
`LaunchAbility` always returns; whether the ability manager accepts a launch changes nothing
here. A completed sequence also calls `RemoveSubscriberKeyUpTimer`, whose effect is in
`KeySubscriber`. The configuration is `Shortcuts` and `Sequences`, and
`KeyCommandAssumption` what parsing guarantees of them; that it could be read
is assumed.

A sequence that is launched at once clears `filterSequences_` inside the loop that
runs over it (`key_command_handler.cpp:785`), so the entry at hand and those
after it are read when they are destroyed. `HandleSequence` lets such an entry
have its keys or none (`lost`), and the next list is made of copies of either kind
(`intact`); `erased` remembers that the list stems from such a loop. A crash there
is not followed.

The properties leave out what the code does not promise, and each of these cases is reached:
a sequence's timer whose entry was forgotten, after a pause or the launch of
another sequence, and which then launches for keys that are long gone; a
key whose release launches a shortcut, or a sequence that does not wait, after which it is not given
back, so that its next press is swallowed (for a sequence this takes another one, of which the key
is taken while it is down: the loop at `key_command_handler.cpp:790` then goes through a
`keys_` that the launch has emptied); and a key whose press itself launches
an ability, whose release the subscribers still get.

## Runs

| Run | Configuration | What it shows |
|---|---|---|
| `delegate` | 2 posters, queue limit 2, batches of 2, pipe of 3 | `NoLostWakeup`, `IdsConsistent`, `AnswerIsOwn`, refinement of `CallQueue`, `QueuedTasksAreTaken` (with `SyncCallReturns`) |
| `timer_pass` | 2 slots, times 0..6, the clock is not set, delays wrap at 4 | `SleepCoversHead`, `NoSlotRunsTwice`, `DueTimersRun` |
| `timer_clock` | 3 slots, the clock is set at any time, delays wrap at 3 | `TableConsistent`, `NoDueTimerLeft` |
| `anr_timers` | 2 applications and another process, 2 slots, 3 events | `CountMatchesEvents`, `TimersWatchEvents`, `AllMarkedAllGone`, `IdsMatchTimers` (with `RepeatCanBeStopped`) |
| `key_subscriber` | 2 applications, 2 keys, 4 subscriptions, 3 slots, injected events | `TimersMatchSubscribers`, `WaitsWhileHeld` (with `PendingEventMatches`) |
| `registry` | 1 application, 2 handlers, 2 types, 3 socket pairs, 1 death of the service, 1 call given up | `CallsFindSession`, `ServiceKnowsHandlers`, `Reconnects` |
| `packet_stream` | heads of 2 units, packets of up to 3, buffer of 6, socket of 3, 8 packets, 1 lost connection | `PacketsComeOutWhole`, `QuietMeansDelivered` (with `RoomForARead`) |
| `touch_chain` | 2 fingers, 2 windows, 2 gestures | `OnlyMarkedIsConsumed`, `WindowsAreReleased`, `NothingOutOfTheBlue` |
| `cooperate` | 2 starts, 1 stop, 2 faults, 2 sessions | `SidesAgree`, `NobodyLeftWaiting` (with `CallersAreTold`), `CanBeStopped` |
| `cooperate_callback` | 2 starts, 1 stop, no fault | finding: a callback that is never called |
| `key_command` | a power and a volume key, 2 shortcuts, 2 sequences of 2 keys, 2 slots, presses injected, releases intercepted | `IdsNameOwnTimers`, `PendingLaunchIsCurrent`, `SpecialKeysAreHeld`, `ReleasesFollowPresses` |

Why the bounds are enough for the cases that matter:

* Delegated tasks: the limit of the queue is reached, since three tasks fit into a queue
  of limit 2; a batch takes fewer tasks than there are; the pipe of 3 fills while
  the queue is short, so both refusals fire. Two posters are enough for one to
  leave while the task of the other is in the same batch. In the code the pipe
  holds about 4096 records of 16 bytes, the queue 1000 tasks, a batch 10.
* Timers: with two or three slots the table is full, a callback finds its own timer
  behind, before or gone, and an id is reused in the pass that freed it. Six
  units of time are two periods of the longest interval. Intervals below and above the
  limits are asked for, so both ends of `ClampInterval` matter. The longest delay is the
  largest that fits.
* Events: two slots for three users make an id change hands; `MaxAnrTimers` of 2
  makes the budget run out. Three event ids are the shortest list out of order
  with an event behind it.
* Subscriptions: three slots leave a subscription without a timer when others hold
  them. Two of the four subscriptions have one id, so that registering twice
  is tried.
* Registry: three socket pairs are the connection that was lost, the one that a caller
  gave up and the one that is used; one application has at most one task of each of its
  threads and one it gave up, and meets other applications only in the limit
  of monitors, which its own orphaned sessions fill (`MaxMonitors` of 2, 100 in the code).
* Packets: two sizes, packets that are cut in their head and in their body, a buffer
  that is filled to the last unit and moved to its front, and enough packets (8)
  to fill it again after packets were left behind.
* Touches: two fingers in one window or in two; the second gesture is enough
  for a mark and a record of the first to come late. A gesture is followed until three unusual
  things have happened to it (`FewOddities`): `WindowsAreReleased` and `NothingOutOfTheBlue` claim
  nothing of such a gesture, and what it may leave to the next one, a record that outlives it or a mark that is
  late, is reached with two. The properties also hold without this bound (777,823 states).
* Cooperation: a second start covers the way back, a relay and two devices that start
  at once; two faults are a cut or a restart during the recovery from another. The
  same properties hold with two stops and one fault, and with three starts and one
  fault (5,494,374 states), which take too long to be kept as runs.
* Key commands: the two shortcuts have the same keys and differ in their trigger; one
  sequence is launched at once and erases the list from which the second, which waits, is read
  next; both begin with the same press. Two slots make a held-back event, a
  shortcut and a sequence compete for timers, and ids change hands. Sequences of two keys with a
  limit of two let `keys_` grow past what any sequence can match (10 in the code).
  `SpecialKeysAreHeld` leaves out the power key of this configuration, whose release launches
  both a shortcut and the sequence that does not wait, so TLC checks it for the volume key only; the theorem is about
  every configuration. It was also checked with the shortcut on a third key and a sequence
  that ends with the press of the power key (2,596,300 states), which takes too long to be kept as a run. The same
  properties hold with releases of the power key both injected and intercepted (352,285 states), with a second delayed
  sequence and one shortcut (340,195), and with three slots and no irregular events
  (610,311).

`MaxEvents`, `MaxTime`, `MaxCrashes`, `MaxGiveUps`, `MaxSent`, `MaxLosses`, `MaxGestures`,
`MaxStarts`, `MaxStops`, `MaxFaults`, `MaxSessions` and the sets of intervals and repeat
counts are bounds of the models alone; all other constants are limits of the code, scaled.

Deadlock is checked in every run but those of `HandlerRegistry`, `PacketStream` and
`Cooperate`: there the system stops when the application has ended, all packets are
sent, or the calls and faults of the bound are used up.

### Fairness

`DelegateTasks!FairSpec`: the worker, if it can go on, goes on (its callbacks return
and the thread is scheduled), and a poster's wait returns when its value is set or
its 3 seconds are over. No fairness on posting or on the signal that stops
the worker. `SyncCallReturns` needs no worker at all: it is the time limit
that carries it, and its mutant removes exactly that.

`TimerManager!TimerFairSpec`: time passes, and the loop goes on when it can. No fairness
on events: `DueTimersRun` must not depend on epoll being woken by something else.
`Tick` stops at `MaxTime`; a timer whose deadline lies beyond it is not due in
the model, so the bound hides no violation of `DueTimersRun`, and a sleep
that would end beyond it only matters if it covers a deadline before it.

`HandlerRegistry!FairSpec`: the loop of the service runs its tasks, init starts
the service again (`multimodalinput.cfg`), and the threads of the application and the binder
thread that is told of the death run on. No fairness on handlers, crashes or callers
that give up. `Reconnects` needs both the restart and the proxy of the dead
service being forgotten, which its mutant leaves out.

## Theorems

A theorem is about every value of the constants that satisfies the assumptions of its
module: any number of threads, applications, slots, keys or packets, and any limits.

| Theorem | Module | Says |
|---|---|---|
| `TypeCorrect` | `ServiceLoopProofs` | types, and the pipe within its capacity |
| `WakeupsCoverTasks` | `ServiceLoopProofs` | `NoLostWakeup` for any batch limit and pipe |
| `IdsAreConsistent` | `ServiceLoopProofs` | `IdsConsistent` for any number of posters and any limits |
| `ServesCallsInOrder` | `ServiceLoopProofs` | `ImplementsCallQueue`: calls are served in order and at most once |
| `AnswersAreOwn` | `ServiceLoopProofs` | `AnswerIsOwn`: a value is the one of the poster's own call |
| `TimersAreTyped` | `ServiceLoopProofs` | types of the table and of the loop |
| `TableAlwaysConsistent` | `ServiceLoopProofs` | the list is ordered and its ids distinct, whatever is done to the clock |
| `PassLeavesNoDueTimer` | `ServiceLoopProofs` | `NoDueTimerLeft`, an action property, whatever is done to the clock |
| `SlotsRunOnceAPass` | `ServiceLoopProofs` | `NoSlotRunsTwice`, if the clock is not set |
| `SleepIsShortEnough` | `ServiceLoopProofs` | `SleepCoversHead`, if the clock is not set and intervals fit the delay |
| `TableIsTyped` | `EventTimersProofs` | `TypeOK`: types of the table, the lists and the counter |
| `BudgetDoesNotLeak` | `EventTimersProofs` | `CountMatchesEvents` |
| `NoTimerIsLeftBehind` | `EventTimersProofs` | `TimersWatchEvents` |
| `MarksEmptyTheList` | `EventTimersProofs` | `AllMarkedAllGone`, although lists are not sorted |
| `IdsNameTheirOwn` | `EventTimersProofs` | `IdsMatchTimers`, and the repetition can be stopped |
| `SubscribersAreTyped` | `KeySubscriberProofs` | `TypeOK`: no subscription is registered twice, none outlives its session |
| `TimersAreSubscribers` | `KeySubscriberProofs` | `TimersMatchSubscribers` |
| `WaitersAreHeld` | `KeySubscriberProofs` | `WaitsWhileHeld` |
| `RegistryIsTyped` | `HandlerRegistryProofs` | `TypeOK`: types of sessions, monitors, queue and applications |
| `CallsAreFound` | `HandlerRegistryProofs` | `CallsFindSession` for any number of crashes and calls given up |
| `HandlersAreKnown` | `HandlerRegistryProofs` | `ServiceKnowsHandlers` |
| `BufferIsNotLeft` | `PacketStreamProofs` | `TypeOK`: no position leaves the circular buffer |
| `NothingReportedWaits` | `PacketStreamProofs` | `QuietMeansDelivered`, with `RoomForARead` |
| `PacketsAreWhole` | `PacketStreamProofs` | `PacketsComeOutWhole`, an action property |
| `TouchesAreTyped` | `TouchChainProofs` | `TypeOK`: types of the chain |
| `LateMarksAreHarmless` | `TouchChainProofs` | `OnlyMarkedIsConsumed` |
| `NoTouchIsLeftBehind` | `TouchChainProofs` | `WindowsAreReleased` |
| `NoTouchComesFromNowhere` | `TouchChainProofs` | `NothingOutOfTheBlue` |
| `CommandTypesCorrect` | `KeyCommandProofs` | `TypeOK`: types of the members, and the bound of `keys_` |
| `KeptIdsNameOwnTimers` | `KeyCommandProofs` | `IdsNameOwnTimers`, although ids are reused and lists are erased while they are read |
| `LaunchesAreCurrent` | `KeyCommandProofs` | `PendingLaunchIsCurrent` |
| `TakenKeysAreHeld` | `KeyCommandProofs` | `SpecialKeysAreHeld` |
| `PressesComeFirst` | `KeyCommandProofs` | `ReleasesFollowPresses`, for any number of events held back |
| `DevicesAreTyped` | `CooperateProofs` | `TypeOK`: types of the two devices, whatever goes wrong |
| `SharingCanBeStopped` | `CooperateProofs` | `CanBeStopped` |
| `TwoSidesAgree` | `CooperateProofs` | `SidesAgree`, for any number of starts, stops, cuts and restarts |
| `NobodyIsLeftWaiting` | `CooperateProofs` | `NobodyLeftWaiting`, with `CallersAreTold` |

Each follows from an inductive invariant of its module, shown to hold initially and to
be preserved by one lemma per action, or per kind of step. The arguments:

* Delegated tasks (`IndInv`): assumptions are `ClientsAssumption` and `LimitsAssumption` (a
  batch and a pipe of at least one; the limit of the queue two below the largest
  id). `NoLostWakeup` is inductive with the types: popping takes a
  record with it if it takes anything, since it is preceded by `ReadRecord`. `IdsConsistent`
  needs more: that queued and free ids together are exactly those below the seed
  makes a generated id new in both cases of `GenerateId`, and a bound on the seed
  follows from counting them: the ids are distinct, so there are as many as the queue is
  long when the pool is empty (`IntervalCardinality`, `SeedBelowLimit`).
* The refinement of `CallQueue`: the abstract queue is the popped batch followed by the
  queue, the `Line`, without what the abstract queue does not know of (ids, promises, the pipe). Most steps leave
  the line alone, popping only moves the border inside it, and the others append a call,
  take the first away or mark those of a poster that has left. Nothing is added to `IndInv` for it.
* Answers (`AnswerInv`): that a value is one's own needs three facts about the line. A poster
  has at most one call in it that it still waits for; while that call is there its promise
  is unset; and the worker has run the callback of the call it is about to
  answer. All are claimed only until a dangling frame has been used (`undefined`).
* Timers (`TableInv`): assumptions are `TimerAssumption` (limits in order, at least one slot) and
  `UsersAssumption`. The invariant is the types with order and distinct ids; the work is in
  `InsertKeepsTable` and `RemoveKeepsTable`, which say what insertion at
  one of `InsertPositions` and removal do to a list that has both properties. Order and distinctness
  hold without any assumption about time, which is why the clock may be set.
* The pass over the timers (`PassInv`): `NoDueTimerLeft` needs only the order of the list.
  That no slot runs twice is not inductive alone. It needs that a slot that has run in this pass is
  free or holds a timer due after the time the pass goes by, and for this that the
  pass does not go by a time ahead of the clock; a clock set back breaks it, so the theorem assumes
  `~ClockIsSet`. `SleepCoversHead` counts from the look at the clock, so that `lag` goes with it step by
  step; it needs that no timer is further ahead than
  `MaxInterval`, and that this fits into the delay (`MaxInterval < DelayRange`; in the code 4096 and
  2^31).
* Unanswered events (`TimersInv`): the counter is the number of triples of session, kind and timer
  id that lists name (`CountOK`), so adding to a list or cutting its front is counted by the
  cardinality of a set. That table and lists agree takes both directions: `Watch` (a timer in the table is named by the
  list of a session that lives) holds always, `Names` (what a list names is in the
  table, once) until a notice was not sent or a stale id of the repetition has
  removed a timer. `TimersWatchEvents` and `AllMarkedAllGone` follow from
  `MarksRemoveEvents`: every event has a mark still to come whose id is as
  large as all ids up to the event, which survives marks in any order because a mark cuts the list
  at its first larger id.
* Subscriptions (`SubscriberInv`): `TurnOK` says that subscribers and table agree, in both directions, at
  every point of a turn and not only between turns. It is therefore proved for each thing a turn does to one
  subscriber (`ClearTimerKeeps`, `AddTimerKeeps`, `HandleOneKeeps`), then for the loop. The loops
  are defined by recursion over positions; that such a function exists
  is `LoopExists`. `WaitsWhileHeld` needs no more than `Holds`, since every turn that changes the last event goes
  over all subscribers.
* Registry (`SessionInv`, `KnowledgeInv`): `CallsFindSession` needs the order of the queue:
  the requests for a socket that a process has given up come before the one it waits for, which is the
  last of its tasks, so that the session registered last is the one it uses (`RequestsInOrder`).
  `ServiceKnowsHandlers` needs what is registered at every point of the way of the connecting thread,
  from the making of the socket on, and while a call of the application is under way: a
  union without the handler to be added (`KnownWhenOpen`, `KnownWhenRead`, `KnownWhenRegistering`,
  `KnownWhenUp`), and that a call made during the registration is behind it in the queue
  (`QueueOf`).
* Packets (`PacketInv`): buffer, socket and what is not sent yet are one stream, in which each unit is
  inside a packet that fills the places around it (`InWholePacket`), but for the cut at its
  front; packets are in order and none twice. This is claimed while nothing has cut or mixed the stream. The
  bounds of the buffer and `RoomForARead` hold with it because between two reads no whole packet waits
  unless the limit of a read left it behind.
* Touches (`TouchInv`): for a gesture of nothing unusual, `Sound` ties four things together: the fingers that are down, the
  windows they went down in, the windows there are, and what the windows were told. Once it is
  consumed, no window knows of a touch. `WindowsAreReleased` alone is not inductive,
  since it speaks only of the end of a gesture.
* Key commands (`CommandInv`, which is `HandlerOK` of the handler, the keyboard and what the
  subscribers were told): the assumption is `KeyCommandAssumption`. The timer table is a set of `Rows` with an
  order, `Before`, so that what the other users of the table do (`TableRemove`, `TableAppend`) is said without
  positions. `TurnOK` is the agreement of members and table, proved for every function that works on a turn.
  A launch that waits is current because `keys_` tells which keys are down: the last stroke of a key says so unless the
  key is irregular (`KeysTell`), and a list with an entry that waits belongs to a complete `keys_` (`Complete`).
  That the release of a volume key follows its press is about a queue: the events held back run in the order of the table,
  each release behind its press or behind what was told last (`Follows`), and a key that is down ends in a press
  (`EndsDown`). The second half is what makes the first inductive, since a release is appended behind it. A launch
  drops all events of the keys it takes, and those keys are then in `specialKeys_`, which frees them of `EndsDown`.
  The loops of a turn (over the shortcuts' ids, `filterSequences_`, the keys taken) are followed by `UpTo`.
* Cooperation (`CooperateInv`): assumptions are `TwoDevices` and `BoundAssumption`. The types hold whatever happens
  (`TypesOK`); the rest holds while all is `Orderly`, and nothing that went wrong is forgotten (`OrderlyBefore`). `SidesAgree` speaks
  only of the moments when nothing is under way, so what is between them has to be said: while the session of both is open, one device
  at most is at work, with one task or one callback (`OneThing`), and what it has begun (`Starts`, `Stops`) or finished
  fixes what the other has still to hear: the request, or the request and its result, of which it may have
  heard the first (`HearsStart`, `HearsStarted`, `HearsStop`; together `Together`). A session that ends may end in each of
  these; from then on the two do not
  hear of each other, and each finds its way back alone: by what is left before the news of the end (`Mail`), and by that news,
  which makes it `Alone`. The case that is easily forgotten is a device that is still at work in a session that
  is gone (`Acts`, `HearsStopped`). That callers are told needs only that the work they wait for is still going on (`CallersOK`), and
  `CanBeStopped` that a device that shares a mouse knows with whom (`Knows`).

Two idioms recur. Induction up to a number is done with a set: the numbers for which a fact
holds contain 0 and with each number the next, so the least one missing would be a contradiction (`Least`,
`UpTo`; well-foundedness of finite sets from the library). And a lemma with a long conclusion
states it as an operator (`Made`, `WaitIs`, `IsPicked`).

Eight things came out of the proofs. Selecting by `SelectSeq` and folding say nothing that a prover
can use, so `Without`, `OfOthers`, `ClearTimers` and `HandleKey` are recursive functions now. Two
cases of the windows a touch went down in overlapped (`DownInfos`) and were made disjoint. `ClearTimer`
removes the first timer with the id (`Removed`), as the code does. And retries are never used up between two calls of
`send`, which the types of `PacketStream` did not say (`StateOK`). `TakeKeys` was a fold and is recursive now, and
`InjectKeyEvent` says which events it makes. `IsKeyMatch` compares the sizes of two sets, which says nothing
unless the keys of a shortcut are finitely many, as they are in a configuration; the assumption says so now. And the
invariant of a list that waits holds only of `keys_` that are not empty: a launch that erased the list under
the loop leaves `keys_` empty behind entries that have a timer, which is why `ListCurrent` is claimed only while `erased` is
false. What a lost session leaves of its messages (`Closings`) was selected by `SelectSeq` and is recursive now, and `TwoDevices` says
that there are two without counting them.

Each invariant and action property that a run checks is a theorem. Model-checked only are the liveness properties
`QueuedTasksAreTaken`, `SyncCallReturns`, `DueTimersRun` and `Reconnects`: liveness under fairness needs
`ENABLED`, which this prover does not do.

No module declares a RECURSIVE operator.

## Findings

1. `cooperate_callback`: `CooperateEventManager` keeps one event per kind. A second
   start made before the first is answered replaces its event, is refused, and
   clears it; the first crossing is made and its callback is never called
   (`input_manager.h:358`).

Read from the code while modelling, without a statement of the repository to hold
it against: the time limit of a caller may pass after `hasWaited_` was tested, and the callback then uses
references into a frame that is gone, or `set_value` a promise that is (`delegate_tasks.cpp:37` to `:40`); after a
cooperation has ended, the next key may remove the timer of another user, whose id
`timerId_` still holds (`key_auto_repeat.cpp:156`); packets of two threads may be mixed
(`uds_session.cpp:64`); the queue of delegated tasks takes one task more than its limit
(`delegate_tasks.cpp:143`); after a notice that could not be sent the mark of an event may
remove another user's timer (`anr_manager.cpp:53`); the release of a held key that
an interceptor consumes does not end the wait for it; a full table of monitors refuses
a change of one that is in it (`event_monitor_handler.cpp:207`); a packet completed by
the last retry is reported as failed (`uds_session.cpp:86`); a stop that has failed
closes the session all the same (`input_device_cooperate_sm.cpp:354`); a monitor
that is added while the connection is being renewed may be registered and then replaced by
the types that `OnConnected` read before it was added (`input_handler_manager.cpp:237`); the three cases under
`KeyCommand`.

## Not modelled, and why

Geometry, drawing, conversions of libinput events, marshalling, permissions, dumps,
NAPI, tools and scripts have no state worth checking. `EPOLLIN` handling of
sockets, signals and libinput appear only as "something woke the worker". That the cooperation
uses the timer table from its own threads, without a lock, is not modelled: a race on the list
itself is undefined, and every module takes the operations of the table one at a time. The
remaining components of the inventory are in the plan.

## Plan

Done: the hand-over, timers, unanswered events, subscriptions; the registry of handlers
and its renewal, packets, touches and their consumption, the cooperation of two devices,
key commands.
Theorems about all of them.
What is left: observers of `InputDeviceManager`, and the keyboards and unplugged devices that
`Cooperate` leaves out.
