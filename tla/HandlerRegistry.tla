---------------------------- MODULE HandlerRegistry ----------------------------
(***************************************************************************)
(* The monitors (or the interceptors: the code is the same) of the         *)
(* applications, and the connections they depend on.                       *)
(*                                                                         *)
(* An application keeps its handlers in InputHandlerManager.  The service  *)
(* keeps, per session, the union of the event types they ask for, and      *)
(* loses it with the session: when the socket hangs up, or when it dies    *)
(* and is started again.  The thread of MMIClient then asks for a new      *)
(* socket until it gets one and registers the union anew, while a thread   *)
(* of the application adds and removes handlers.                           *)
(*                                                                         *)
(* Calls cross binder and run as delegated tasks, one after the other; a   *)
(* caller gives up after a while (DelegateTasks), and its task is          *)
(* discarded, unless the worker is past its test of hasWaited_.            *)
(***************************************************************************)
EXTENDS Naturals, Sequences, FiniteSets, Functions

CONSTANTS
  Clients,     \* application processes, one pid each
  HandlerIds,  \* handlers an application has at a time
  Types,       \* event types: HANDLE_EVENT_TYPE_KEY, HANDLE_EVENT_TYPE_POINTER
  Sockets,     \* socket pairs
  MaxMonitors, \* MAX_N_INPUT_MONITORS, MAX_N_INPUT_INTERCEPTORS
  MaxCrashes,  \* how often the service dies
  MaxGiveUps,  \* how often a caller gives up
  None

ASSUME RegistryAssumption ==
  /\ MaxMonitors \in Nat \ {0}
  /\ MaxCrashes \in Nat /\ MaxGiveUps \in Nat
  /\ None \notin Sockets

VARIABLES
  up,        \* the service runs
  sessions,  \* sessionsMap_: socket -> process
  idxPid,    \* idxPidMap_: process -> socket
  monitors,  \* monitors_ (interceptors_): socket of the session -> types
  tasks,     \* delegated tasks that have not run
  proxy,     \* multimodalInputConnectService_: "none", "live", or "dead" if its service is
  orphans,   \* sockets whose other end nobody has taken
  fd,        \* fd_: the application's end of a socket pair
  link,      \* what the thread that connects MMIClient is at
  read,      \* the union that OnConnected has read
  handlers,  \* inputHandlers_: handler -> types
  app,       \* what the thread of the application is at, under mtxHandlers_
  faults,    \* how often the service has died and callers have given up
  doubtful   \* history: a call of this connection was lost or overtaken

serverVars == <<up, sessions, idxPid, monitors, orphans>>
linkVars == <<fd, link, read>>
appVars == <<handlers, app>>
vars == <<serverVars, tasks, proxy, linkVars, appVars, faults, doubtful>>

Empty == <<>>
Idle == [pc |-> "idle"]

Union(c) == UNION Range(handlers[c])

Init ==
  /\ up = TRUE
  /\ sessions = Empty /\ idxPid = Empty /\ monitors = Empty
  /\ orphans = {}
  /\ tasks = <<>>
  /\ proxy = [c \in Clients |-> "none"]
  /\ fd = [c \in Clients |-> None]
  /\ link = [c \in Clients |-> "down"]
  /\ read = [c \in Clients |-> {}]
  /\ handlers = [c \in Clients |-> Empty]
  /\ app = [c \in Clients |-> Idle]
  /\ faults = [crashes |-> 0, giveUps |-> 0]
  /\ doubtful = [c \in Clients |-> FALSE]

-----------------------------------------------------------------------------
(* The service: sessions *)

With(f, k, v) == [x \in DOMAIN f \cup {k} |-> IF x = k THEN v ELSE f[x]]

Without(f, k) == [x \in DOMAIN f \ {k} |-> f[x]]

(* Mutant: a process that is known keeps its first socket. *)
AddSessionOnce(c, s) ==
  /\ sessions' = With(sessions, s, c)
  /\ idxPid' = IF c \in DOMAIN idxPid THEN idxPid ELSE With(idxPid, c, s)

AddSession(c, s) ==
  /\ sessions' = With(sessions, s, c)
  /\ idxPid' = With(idxPid, c, s)

(* Mutant: the monitors have not asked to be told of lost sessions. *)
DelSessionOnly(s) ==
  /\ idxPid' = Without(idxPid, sessions[s])
  /\ sessions' = Without(sessions, s)
  /\ UNCHANGED monitors

(* ReleaseSession, DelSession, and the callback OnSessionLost. *)
DelSession(s) ==
  /\ idxPid' = Without(idxPid, sessions[s])
  /\ sessions' = Without(sessions, s)
  /\ monitors' = Without(monitors, s)

(* The application has ended, and its end of the pair is closed with it. *)
HangUp(s) ==
  /\ link[sessions[s]] = "gone" /\ s \notin orphans
  /\ DelSession(s)
  /\ UNCHANGED <<up, orphans, tasks, proxy, linkVars, appVars, faults, doubtful>>

-----------------------------------------------------------------------------
(* The service: delegated tasks *)

(* GetSessionByPid *)
Session(c) == IF c \in DOMAIN idxPid THEN idxPid[c] ELSE None

(* Mutant: a session that has a monitor keeps its types. *)
AddMonitorOnce(s, types) ==
  monitors' = IF s \in DOMAIN monitors THEN monitors ELSE With(monitors, s, types)

AddMonitor(s, types) == monitors' = With(monitors, s, types)

RemoveMonitor(s, types) ==
  monitors' = IF s \notin DOMAIN monitors THEN monitors
              ELSE IF types = {} THEN Without(monitors, s) ELSE With(monitors, s, types)

(* The thread that called is told, unless it has given up or ended. *)
Reply(task, ok) ==
  /\ app' = IF task.late \/ task.thread = "link" \/ link[task.client] = "gone" THEN app
            ELSE [app EXCEPT ![task.client] = IF ok THEN Idle ELSE [@ EXCEPT !.pc = "refused"]]
  /\ link' = IF task.late \/ task.thread = "app" \/ link[task.client] = "gone" THEN link
             ELSE [link EXCEPT ![task.client] = IF task.op = "alloc" THEN "open" ELSE "up"]
  /\ doubtful' = [doubtful EXCEPT ![task.client] =
       IF task.op = "alloc" THEN FALSE ELSE @ \/ (task.thread = "link" /\ ~ok)]

(* AddSocketPairInfo.  A task that runs late makes a session whose other end
   nobody takes and nobody closes. *)
RunAlloc(task) ==
  \E s \in Sockets \ (DOMAIN sessions \cup Range(fd)) :
    /\ AddSession(task.client, s)
    /\ orphans' = IF task.late THEN orphans \cup {s} ELSE orphans
    /\ fd' = IF task.late \/ link[task.client] = "gone" THEN fd
             ELSE [fd EXCEPT ![task.client] = s]
    /\ Reply(task, TRUE)
    /\ UNCHANGED monitors

RunAdd(task) ==
  LET s == Session(task.client)
      ok == s # None /\ Cardinality(DOMAIN monitors) < MaxMonitors
  IN  /\ IF ok THEN AddMonitor(s, task.types) ELSE UNCHANGED monitors
      /\ Reply(task, ok)
      /\ UNCHANGED <<sessions, idxPid, orphans, fd>>

RunRemove(task) ==
  LET s == Session(task.client)
  IN  /\ IF s # None THEN RemoveMonitor(s, task.types) ELSE UNCHANGED monitors
      /\ Reply(task, s # None)
      /\ UNCHANGED <<sessions, idxPid, orphans, fd>>

RunTask ==
  /\ tasks # <<>> /\ ~Head(tasks).expired
  /\ tasks' = Tail(tasks)
  /\ LET task == Head(tasks) IN
       \/ task.op = "alloc" /\ RunAlloc(task)
       \/ task.op = "add" /\ RunAdd(task)
       \/ task.op = "remove" /\ RunRemove(task)
  /\ UNCHANGED <<up, proxy, read, handlers, faults>>

(* The worker finds hasWaited_ set. *)
DiscardTask ==
  /\ tasks # <<>> /\ Head(tasks).expired
  /\ tasks' = Tail(tasks)
  /\ UNCHANGED <<serverVars, proxy, linkVars, appVars, faults, doubtful>>

-----------------------------------------------------------------------------
(* The service dies, and is started again *)

Crash ==
  /\ up /\ faults.crashes < MaxCrashes
  /\ up' = FALSE
  /\ sessions' = Empty /\ idxPid' = Empty /\ monitors' = Empty /\ orphans' = {}
  /\ tasks' = <<>>
  /\ proxy' = [c \in Clients |-> IF proxy[c] = "live" THEN "dead" ELSE proxy[c]]
  /\ app' = [c \in Clients |->
       IF app[c].pc = "waiting" THEN [app[c] EXCEPT !.pc = "refused"] ELSE app[c]]
  /\ link' = [c \in Clients |->
       CASE link[c] = "alloc" -> "down" [] link[c] = "register" -> "up" [] OTHER -> link[c]]
  /\ faults' = [faults EXCEPT !.crashes = @ + 1]
  /\ UNCHANGED <<fd, read, handlers, doubtful>>

Restart ==
  /\ ~up
  /\ up' = TRUE
  /\ UNCHANGED <<sessions, idxPid, monitors, orphans, tasks, proxy, linkVars, appVars, faults, doubtful>>

-----------------------------------------------------------------------------
(* Calls of an application *)

(* GetInstance connects to the service if there is no proxy. *)
Connected(c) == IF proxy[c] = "none" /\ up THEN "live" ELSE proxy[c]

Post(c, thread, op, types) ==
  tasks' = Append(tasks, [client |-> c, thread |-> thread, op |-> op, types |-> types,
                          late |-> FALSE, expired |-> FALSE])

(* PostSyncTask of the caller has waited long enough.  The worker is past the
   test of hasWaited_ of the first task at most. *)
GiveUp(i) ==
  LET task == tasks[i]  c == task.client IN
  /\ ~task.late /\ link[c] # "gone"
  /\ faults.giveUps < MaxGiveUps
  /\ faults' = [faults EXCEPT !.giveUps = @ + 1]
  /\ \E expired \in IF i = 1 THEN BOOLEAN ELSE {TRUE} :
       tasks' = [tasks EXCEPT ![i] = [@ EXCEPT !.late = TRUE, !.expired = expired]]
  /\ IF task.thread = "app"
     THEN app' = [app EXCEPT ![c].pc = "refused"] /\ UNCHANGED link
     ELSE link' = [link EXCEPT ![c] = IF task.op = "alloc" THEN "down" ELSE "up"] /\ UNCHANGED app
  /\ doubtful' = [doubtful EXCEPT ![c] = TRUE]
  /\ UNCHANGED <<serverVars, proxy, fd, read, handlers>>

-----------------------------------------------------------------------------
(* The connection: MMIClient, and MultimodalInputConnectManager *)

(* Mutant: the proxy of the service that died is kept. *)
KeepProxy(c) ==
  /\ proxy[c] = "dead" /\ link[c] # "gone"
  /\ UNCHANGED vars

(* OnDeath, Clean: under the lock that AllocSocketPair holds. *)
OnDeath(c) ==
  /\ proxy[c] = "dead" /\ link[c] # "gone"
  /\ proxy' = [proxy EXCEPT ![c] = "none"]
  /\ UNCHANGED <<serverVars, tasks, linkVars, appVars, faults, doubtful>>

(* NotifyDeath *)
ConnectAgain(c) ==
  /\ proxy[c] # Connected(c) /\ link[c] # "gone"
  /\ proxy' = [proxy EXCEPT ![c] = Connected(c)]
  /\ UNCHANGED <<serverVars, tasks, linkVars, appVars, faults, doubtful>>

(* OnReconnect: a call that fails is tried again. *)
OnReconnect(c) ==
  /\ link[c] = "down" /\ Connected(c) = "live"
  /\ proxy' = [proxy EXCEPT ![c] = "live"]
  /\ link' = [link EXCEPT ![c] = "alloc"]
  /\ Post(c, "link", "alloc", {})
  /\ UNCHANGED <<serverVars, fd, read, appVars, faults, doubtful>>

(* OnConnected of the manager reads its handlers without their lock... *)
OnConnectedReads(c) ==
  /\ link[c] = "open"
  /\ read' = [read EXCEPT ![c] = Union(c)]
  /\ link' = [link EXCEPT ![c] = IF Union(c) = {} THEN "up" ELSE "read"]
  /\ doubtful' = [doubtful EXCEPT ![c] = @ \/ app[c] # Idle]
  /\ UNCHANGED <<serverVars, tasks, proxy, fd, appVars, faults>>

(* ... and registers what it has read, whether the call succeeds or not.
   Then the socket is listened to. *)
OnConnectedRegisters(c) ==
  /\ link[c] = "read"
  /\ proxy' = [proxy EXCEPT ![c] = Connected(c)]
  /\ IF Connected(c) = "live"
     THEN link' = [link EXCEPT ![c] = "register"] /\ Post(c, "link", "add", read[c])
     ELSE link' = [link EXCEPT ![c] = "up"] /\ UNCHANGED tasks
  /\ read' = [read EXCEPT ![c] = {}]
  /\ UNCHANGED <<serverVars, fd, appVars, faults, doubtful>>

(* The service has closed its end, or was closed with it. *)
OnDisconnected(c) ==
  /\ link[c] = "up" /\ fd[c] \notin DOMAIN sessions
  /\ fd' = [fd EXCEPT ![c] = None]
  /\ link' = [link EXCEPT ![c] = "down"]
  /\ UNCHANGED <<serverVars, tasks, proxy, read, appVars, faults, doubtful>>

-----------------------------------------------------------------------------
(* The handlers: InputHandlerManager, under mtxHandlers_ *)

(* A change that the service needs to know is reported. *)
Change(c, op, handler, newHandlers) ==
  LET types == UNION Range(newHandlers) IN
  /\ app[c] = Idle /\ link[c] # "gone"
  /\ handlers' = [handlers EXCEPT ![c] = newHandlers]
  /\ app' = [app EXCEPT ![c] =
       IF types = Union(c) THEN Idle
       ELSE [pc |-> "calling", op |-> op, handler |-> handler, types |-> types]]
  /\ doubtful' = [doubtful EXCEPT ![c] = @ \/ link[c] = "read"]
  /\ UNCHANGED <<serverVars, tasks, proxy, linkVars, faults>>

AddHandler(c, handler, types) ==
  /\ handler \notin DOMAIN handlers[c]
  /\ Change(c, "add", handler, With(handlers[c], handler, types))

RemoveHandler(c, handler) ==
  /\ handler \in DOMAIN handlers[c]
  /\ Change(c, "remove", handler, Without(handlers[c], handler))

(* The call needs the lock that AllocSocketPair holds while it waits. *)
Call(c) ==
  /\ app[c].pc = "calling" /\ link[c] # "alloc"
  /\ proxy' = [proxy EXCEPT ![c] = Connected(c)]
  /\ IF Connected(c) = "live"
     THEN /\ app' = [app EXCEPT ![c].pc = "waiting"]
          /\ Post(c, "app", app[c].op, app[c].types)
     ELSE app' = [app EXCEPT ![c].pc = "refused"] /\ UNCHANGED tasks
  /\ UNCHANGED <<serverVars, linkVars, handlers, faults, doubtful>>

(* A handler that was refused is removed again; a removal is final. *)
Refused(c) ==
  /\ app[c].pc = "refused"
  /\ handlers' = [handlers EXCEPT ![c] =
       IF app[c].op = "add" THEN Without(@, app[c].handler) ELSE @]
  /\ app' = [app EXCEPT ![c] = Idle]
  /\ UNCHANGED <<serverVars, tasks, proxy, linkVars, faults, doubtful>>

(* The process of the application ends. *)
Exit(c) ==
  /\ link[c] # "gone"
  /\ link' = [link EXCEPT ![c] = "gone"]
  /\ fd' = [fd EXCEPT ![c] = None]
  /\ read' = [read EXCEPT ![c] = {}]
  /\ handlers' = [handlers EXCEPT ![c] = Empty]
  /\ app' = [app EXCEPT ![c] = Idle]
  /\ proxy' = [proxy EXCEPT ![c] = "none"]
  /\ UNCHANGED <<serverVars, tasks, faults, doubtful>>

LinkStep(c) == OnReconnect(c) \/ OnConnectedReads(c) \/ OnConnectedRegisters(c) \/ OnDisconnected(c)
DeathStep(c) == OnDeath(c) \/ ConnectAgain(c)
AppStep(c) == Call(c) \/ Refused(c)

Next ==
  \/ RunTask \/ DiscardTask \/ Crash \/ Restart
  \/ \E s \in DOMAIN sessions : HangUp(s)
  \/ \E i \in DOMAIN tasks : GiveUp(i)
  \/ \E c \in Clients :
       \/ LinkStep(c) \/ DeathStep(c) \/ AppStep(c) \/ Exit(c)
       \/ \E handler \in HandlerIds :
            \/ RemoveHandler(c, handler)
            \/ \E types \in (SUBSET Types) \ {{}} : AddHandler(c, handler, types)

Spec == Init /\ [][Next]_vars

(* The loop of the service and the threads of an application run on, and the
   init process starts a service that has died.  Nobody has to add a handler,
   and nothing has to fail. *)
Fairness ==
  /\ WF_vars(RunTask \/ DiscardTask) /\ WF_vars(Restart)
  /\ \A c \in Clients :
       WF_vars(LinkStep(c)) /\ WF_vars(OnDeath(c)) /\ WF_vars(AppStep(c))

FairSpec == Spec /\ Fairness

-----------------------------------------------------------------------------
Task == [client : Clients, thread : {"app", "link"}, op : {"alloc", "add", "remove"},
         types : SUBSET Types, late : BOOLEAN, expired : BOOLEAN]

(* Types; a session that the service has no process for, or a handler of a
   session that is lost, would be a type error. *)
TypeOK ==
  /\ up \in BOOLEAN
  /\ DOMAIN sessions \subseteq Sockets /\ Range(sessions) \subseteq Clients
  /\ \A c \in DOMAIN idxPid : idxPid[c] \in DOMAIN sessions /\ sessions[idxPid[c]] = c
  /\ DOMAIN monitors \subseteq DOMAIN sessions
  /\ \A s \in DOMAIN monitors : monitors[s] \in (SUBSET Types) \ {{}}
  /\ orphans \subseteq DOMAIN sessions
  /\ \A i \in DOMAIN tasks : tasks[i] \in Task
  /\ proxy \in [Clients -> {"none", "live", "dead"}]
  /\ fd \in [Clients -> Sockets \cup {None}]
  /\ link \in [Clients -> {"down", "alloc", "open", "read", "register", "up", "gone"}]
  /\ read \in [Clients -> SUBSET Types]
  /\ \A c \in Clients : /\ DOMAIN handlers[c] \subseteq HandlerIds
                        /\ Range(handlers[c]) \subseteq (SUBSET Types) \ {{}}
  /\ \A c \in Clients : app[c].pc \in {"idle", "calling", "waiting", "refused"}
  /\ doubtful \in [Clients -> BOOLEAN]

(* A call of a connected application finds its session: the service looks it
   up by pid, and a pid may have had other sessions, made for calls that
   were given up. *)
CallsFindSession ==
  \A c \in Clients : fd[c] \in DOMAIN sessions => Session(c) = fd[c]

Settled(c) ==
  /\ link[c] = "up" /\ fd[c] \in DOMAIN sessions
  /\ app[c] = Idle
  /\ \A i \in DOMAIN tasks : tasks[i].client # c

Registered(c) == IF fd[c] \in DOMAIN monitors THEN monitors[fd[c]] ELSE {}

(* Whatever died, and whenever: once an application is connected and nothing
   is under way, the service has exactly the types that its handlers ask
   for, unless on this connection a call was given up or refused without the
   handlers being told, or a handler changed behind OnConnected's back. *)
ServiceKnowsHandlers ==
  \A c \in Clients : Settled(c) /\ ~doubtful[c] => Registered(c) = Union(c)

(* An application that is not connected is connected in the end. *)
Reconnects == \A c \in Clients : link[c] = "down" ~> link[c] \in {"up", "gone"}
=============================================================================
