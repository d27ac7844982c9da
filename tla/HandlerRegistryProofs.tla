------------------------- MODULE HandlerRegistryProofs -------------------------
(***************************************************************************)
(* Theorems about HandlerRegistry for any number of applications, of       *)
(* handlers and event types, and any number of crashes of the service and  *)
(* of calls that are given up: the task of a connected application finds   *)
(* its session, and the service knows what the application's handlers ask  *)
(* for.  The first follows from what is known of sessions, the second from *)
(* what is known of the tasks in the queue and of the connecting thread.   *)
(***************************************************************************)
EXTENDS HandlerRegistry, SequenceTheorems, TLAPS

(* The types again, as far as a proof needs them to look into functions and
   records: the service, the queue, where every task that adds names an event
   type, and the applications. *)
ServerOK ==
  /\ up \in BOOLEAN
  /\ DOMAIN sessions \subseteq Sockets /\ Range(sessions) \subseteq Clients
  /\ \A c \in DOMAIN idxPid : idxPid[c] \in DOMAIN sessions /\ sessions[idxPid[c]] = c
  /\ DOMAIN monitors \subseteq DOMAIN sessions
  /\ \A s \in DOMAIN monitors : monitors[s] \in (SUBSET Types) \ {{}}
  /\ orphans \subseteq DOMAIN sessions

QueueOK ==
  /\ tasks \in Seq(Task)
  /\ \A i \in DOMAIN tasks :
       /\ tasks[i].op = "add" => tasks[i].types # {}
       /\ tasks[i].op = "alloc" => tasks[i].thread = "link"
       /\ tasks[i].op = "remove" => tasks[i].thread = "app"
       /\ tasks[i].expired => tasks[i].late

Calling == [pc : {"calling", "waiting", "refused"}, op : {"add", "remove"},
            handler : HandlerIds, types : SUBSET Types]

HandlersOK ==
  /\ DOMAIN handlers = Clients
  /\ \A c \in Clients : /\ DOMAIN handlers[c] \subseteq HandlerIds
                        /\ Range(handlers[c]) \subseteq (SUBSET Types) \ {{}}

AppOK ==
  /\ app \in [Clients -> {Idle} \cup Calling]
  /\ \A c \in Clients : app[c] # Idle /\ app[c].op = "add" => app[c].types # {}

LinkOK ==
  /\ proxy \in [Clients -> {"none", "live", "dead"}]
  /\ fd \in [Clients -> Sockets \cup {None}]
  /\ link \in [Clients -> {"down", "alloc", "open", "read", "register", "up", "gone"}]
  /\ read \in [Clients -> SUBSET Types]
  /\ doubtful \in [Clients -> BOOLEAN]

(* What OnConnected registers is never empty. *)
ReadIsSome == \A c \in Clients : link[c] = "read" => read[c] # {}

StateOK == ServerOK /\ QueueOK /\ HandlersOK /\ AppOK /\ LinkOK /\ ReadIsSome

(* The thread that connects MMIClient has a socket. *)
Linked(c) == link[c] \in {"open", "read", "register", "up"}

Alloc(i, c) == tasks[i].client = c /\ tasks[i].op = "alloc"

(* The requests of a process for a socket: those it has given up come first,
   the one it waits for is the last of its tasks, and none is left once it is
   connected.  Only then has it a socket. *)
RequestsInOrder ==
  \A c \in Clients : link[c] # "gone" =>
    /\ \A i \in DOMAIN tasks : Alloc(i, c) =>
         /\ link[c] \in {"down", "alloc"}
         /\ ~tasks[i].late =>
              /\ link[c] = "alloc"
              /\ \A j \in DOMAIN tasks : tasks[j].client = c => j <= i
    /\ fd[c] # None => Linked(c)

GoneIsGone == \A c \in Clients : link[c] = "gone" => fd[c] = None /\ app[c] = Idle

(* A task whose caller waits for it: the thread of the application has one
   at most, and waits; so does the thread that connects. *)
Waits(i, c, thread) == tasks[i].client = c /\ tasks[i].thread = thread /\ ~tasks[i].late

CallersWait ==
  \A c \in Clients : link[c] # "gone" =>
    \A i \in DOMAIN tasks :
      /\ Waits(i, c, "app") =>
           /\ app[c].pc = "waiting"
           /\ tasks[i].op = app[c].op /\ tasks[i].types = app[c].types
           /\ \A j \in DOMAIN tasks : Waits(j, c, "app") => j = i
      /\ Waits(i, c, "link") =>
           /\ tasks[i].op = "add" => link[c] = "register"
           /\ \A j \in DOMAIN tasks : Waits(j, c, "link") => j = i

OrderInv == RequestsInOrder /\ GoneIsGone /\ CallersWait

SessionInv == StateOK /\ OrderInv /\ CallsFindSession

-----------------------------------------------------------------------------
(* Why the service knows the handlers of a connected application. *)

(* The union that the service knew before the handler was added whose
   addition is under way. *)
Before(c) == UNION Range(Without(handlers[c], app[c].handler))

Busy(c, op) == app[c] # Idle /\ app[c].op = op

(* What is registered for a connection that nothing has made doubtful, from
   the moment its socket is made until its union is registered and after. *)
KnownWhenOpen(c) ==
  link[c] = "open" =>
    /\ app[c] = Idle => Registered(c) \in {{}, Union(c)}
    /\ Busy(c, "add") => Registered(c) \in {{}, Before(c)}
    /\ Busy(c, "remove") /\ app[c].pc = "refused" => Registered(c) = {}

KnownWhenRead(c) ==
  link[c] = "read" =>
    app[c] = Idle /\ read[c] = Union(c) /\ read[c] # {} /\ Registered(c) \in {{}, Union(c)}

KnownWhenRegistering(c) ==
  link[c] = "register" =>
    \A i \in DOMAIN tasks : Waits(i, c, "link") =>
      /\ Registered(c) \in {{}, tasks[i].types}
      /\ app[c] = Idle => Union(c) = tasks[i].types
      /\ Busy(c, "add") => Before(c) = tasks[i].types
      /\ app[c].pc # "refused"

KnownWhenUp(c) ==
  link[c] = "up" =>
    /\ app[c] = Idle => Registered(c) = Union(c)
    /\ Busy(c, "add") => Registered(c) = Before(c)
    /\ Busy(c, "remove") => Registered(c) # {} /\ app[c].pc # "refused"

(* The tasks of a connection that nothing has made doubtful are all waited
   for; while it registers, the registration is one of them, and a call of the
   application is behind it. *)
QueueOf(c) ==
  /\ \A j \in DOMAIN tasks : tasks[j].client = c => ~tasks[j].late
  /\ link[c] = "register" =>
       \E i \in DOMAIN tasks :
         /\ Waits(i, c, "link")
         /\ \A j \in DOMAIN tasks : Waits(j, c, "app") => i < j

Sound(c) ==
  /\ KnownWhenOpen(c) /\ KnownWhenRead(c) /\ KnownWhenRegistering(c) /\ KnownWhenUp(c)
  /\ QueueOf(c)

(* The application calls with the union of the handlers that it has. *)
CallsAreCurrent == \A c \in Clients : app[c] # Idle => app[c].types = Union(c)

(* A proxy is live as long as the session made over it. *)
SessionsAreLive ==
  \A c \in Clients :
    /\ fd[c] \in DOMAIN sessions => proxy[c] = "live"
    /\ \A i \in DOMAIN tasks : Alloc(i, c) /\ ~tasks[i].late /\ link[c] # "gone" => proxy[c] = "live"

Certain(c) == Linked(c) /\ fd[c] \in DOMAIN sessions /\ ~doubtful[c]

KnowledgeInv ==
  CallsAreCurrent /\ SessionsAreLive /\ \A c \in Clients : Certain(c) => Sound(c)
-----------------------------------------------------------------------------
(* Functions, and the queue of tasks *)

(* With puts one value into a function, Without takes one out. *)
LEMMA WithApplies ==
  ASSUME NEW f, NEW k, NEW v
  PROVE  /\ DOMAIN With(f, k, v) = DOMAIN f \cup {k}
         /\ With(f, k, v)[k] = v
         /\ \A x \in DOMAIN f : x # k => With(f, k, v)[x] = f[x]
  BY DEF With

LEMMA WithoutApplies ==
  ASSUME NEW f, NEW k
  PROVE  /\ DOMAIN Without(f, k) = DOMAIN f \ {k}
         /\ \A x \in DOMAIN f : x # k => Without(f, k)[x] = f[x]
  BY DEF Without

LEMMA WithRange ==
  ASSUME NEW f, NEW k, NEW v
  PROVE  Range(With(f, k, v)) \subseteq Range(f) \cup {v}
  BY DEF With, Range

LEMMA WithoutRange ==
  ASSUME NEW f, NEW k
  PROVE  Range(Without(f, k)) \subseteq Range(f)
  BY DEF Without, Range

LEMMA EmptyApplies == DOMAIN Empty = {} /\ Range(Empty) = {}
  BY DEF Empty, Range

(* A task that is posted is the last of the queue. *)
LEMMA PostedIsLast ==
  ASSUME NEW q \in Seq(Task), NEW t \in Task
  PROVE  LET r == Append(q, t) n == Len(q) + 1 IN
         /\ r \in Seq(Task)
         /\ \A i \in DOMAIN q : i \in Nat /\ i < n /\ i \in DOMAIN r /\ r[i] = q[i]
         /\ n \in DOMAIN r /\ r[n] = t /\ n \in Nat
         /\ \A i \in DOMAIN r : i \in DOMAIN q \/ i = n
<1>1. Append(q, t) \in Seq(Task)
  OBVIOUS
<1>2. /\ DOMAIN q = 1 .. Len(q) /\ Len(q) \in Nat
      /\ DOMAIN Append(q, t) = 1 .. Len(q) + 1
  BY <1>1, AppendProperties, LenProperties
<1>3. /\ \A i \in 1 .. Len(q) : Append(q, t)[i] = q[i]
      /\ Append(q, t)[Len(q) + 1] = t
  BY AppendProperties
<1>4. QED
  BY <1>1, <1>2, <1>3

(* The task that runs is the first; the others move up. *)
LEMMA RestMovesUp ==
  ASSUME NEW q \in Seq(Task), q # <<>>
  PROVE  /\ Tail(q) \in Seq(Task)
         /\ 1 \in DOMAIN q /\ Head(q) = q[1] /\ q[1] \in Task
         /\ \A i \in DOMAIN Tail(q) :
              i \in Nat /\ i + 1 \in DOMAIN q /\ Tail(q)[i] = q[i + 1] /\ i + 1 # 1
         /\ \A i \in DOMAIN q : i # 1 => i \in Nat /\ i - 1 \in DOMAIN Tail(q) /\ Tail(q)[i - 1] = q[i]
<1>1. /\ Tail(q) \in Seq(Task) /\ Len(Tail(q)) = Len(q) - 1
      /\ \A i \in 1 .. Len(Tail(q)) : Tail(q)[i] = q[i + 1]
  BY HeadTailProperties
<1>2. /\ Len(q) \in Nat /\ Len(q) # 0
      /\ DOMAIN q = 1 .. Len(q) /\ DOMAIN Tail(q) = 1 .. Len(Tail(q))
  BY <1>1, LenProperties, EmptySeq
<1>3. 1 \in DOMAIN q /\ Head(q) = q[1] /\ q[1] \in Task
  BY <1>2, ElementOfSeq
<1>4. QED
  BY <1>1, <1>2, <1>3

(* A task that is given up keeps its place. *)
LEMMA LateKeepsPlace ==
  ASSUME tasks \in Seq(Task), NEW i \in DOMAIN tasks, GiveUp(i)
  PROVE  /\ tasks' \in Seq(Task)
         /\ DOMAIN tasks' = DOMAIN tasks
         /\ \A j \in DOMAIN tasks : /\ tasks'[j].client = tasks[j].client /\ tasks'[j].thread = tasks[j].thread
                                    /\ tasks'[j].op = tasks[j].op /\ tasks'[j].types = tasks[j].types
         /\ tasks'[i].late
         /\ \A j \in DOMAIN tasks : j # i => tasks'[j] = tasks[j]
<1>1. tasks[i] \in Task
  BY ElementOfSeq, LenProperties
<1>2. PICK expired \in BOOLEAN :
        tasks' = [tasks EXCEPT ![i] = [tasks[i] EXCEPT !.late = TRUE, !.expired = expired]]
  BY DEF GiveUp
<1>3. PICK t : t = [tasks[i] EXCEPT !.late = TRUE, !.expired = expired]
  OBVIOUS
<1>4. t \in Task /\ t.late /\ t.client = tasks[i].client /\ t.thread = tasks[i].thread
      /\ t.op = tasks[i].op /\ t.types = tasks[i].types
  BY <1>1, <1>3 DEF Task
<1>5. tasks' = [tasks EXCEPT ![i] = t]
  BY <1>2, <1>3
<1>6. DOMAIN tasks' = DOMAIN tasks /\ tasks'[i] = t /\ \A j \in DOMAIN tasks : j # i => tasks'[j] = tasks[j]
  BY <1>5
<1>7. tasks' \in Seq(Task)
  BY <1>4, <1>5
<1>8. QED
  BY <1>4, <1>6, <1>7

(* A thread that is not idle is at some call; the call goes on with the same
   handler and types. *)
LEMMA IdleOrCalling ==
  ASSUME AppOK, NEW c \in Clients
  PROVE  /\ app[c] = Idle => app[c].pc = "idle"
         /\ app[c] # Idle => app[c] \in Calling /\ app[c].pc # "idle"
  BY DEF AppOK, Calling, Idle

LEMMA CallGoesOn ==
  ASSUME NEW a \in Calling, NEW pc \in {"calling", "waiting", "refused"}
  PROVE  LET b == [a EXCEPT !.pc = pc] IN
         /\ b \in Calling /\ b # Idle
         /\ b.pc = pc /\ b.op = a.op /\ b.handler = a.handler /\ b.types = a.types
<1>1. PICK b : b = [a EXCEPT !.pc = pc]
  OBVIOUS
<1>2. /\ b \in Calling
      /\ b.pc = pc /\ b.op = a.op /\ b.handler = a.handler /\ b.types = a.types
  BY <1>1 DEF Calling
<1>3. b # Idle
  BY <1>2 DEF Idle
<1>4. QED
  BY <1>1, <1>2, <1>3

-----------------------------------------------------------------------------
(* Types *)

LEMMA StateIsTyped == StateOK => TypeOK
<1>1. SUFFICES ASSUME StateOK PROVE TypeOK
  OBVIOUS
<1>2. \A i \in DOMAIN tasks : tasks[i] \in Task
  BY <1>1, ElementOfSeq, LenProperties DEF StateOK, QueueOK
<1>3. \A c \in Clients : app[c].pc \in {"idle", "calling", "waiting", "refused"}
  BY <1>1 DEF StateOK, AppOK, Calling, Idle
<1>4. QED
  BY <1>1, <1>2, <1>3 DEF StateOK, ServerOK, HandlersOK, LinkOK, TypeOK

(* The session of a process is one of the service's. *)
LEMMA SessionIsKnown ==
  ASSUME ServerOK, NEW c
  PROVE  Session(c) # None => /\ c \in DOMAIN idxPid /\ Session(c) = idxPid[c]
                              /\ Session(c) \in DOMAIN sessions /\ sessions[Session(c)] = c
  BY DEF ServerOK, Session

LEMMA AddSessionKeepsTypes ==
  ASSUME ServerOK, NEW c \in Clients, NEW s \in Sockets \ DOMAIN sessions,
         AddSession(c, s), UNCHANGED <<up, monitors>>, orphans' \subseteq orphans \cup {s}
  PROVE  ServerOK'
<1>1. DOMAIN sessions' = DOMAIN sessions \cup {s} /\ sessions'[s] = c
      /\ \A x \in DOMAIN sessions : sessions'[x] = sessions[x]
  BY DEF AddSession, With
<1>2. DOMAIN idxPid' = DOMAIN idxPid \cup {c} /\ idxPid'[c] = s
      /\ \A x \in DOMAIN idxPid : x # c => idxPid'[x] = idxPid[x]
  BY DEF AddSession, With
<1>3. Range(sessions') \subseteq Clients
  BY WithRange DEF AddSession, ServerOK
<1>4. QED
  BY <1>1, <1>2, <1>3 DEF ServerOK

LEMMA DelSessionKeepsTypes ==
  ASSUME ServerOK, NEW s \in DOMAIN sessions, DelSession(s), s \notin orphans, UNCHANGED <<up, orphans>>
  PROVE  ServerOK'
<1>1. DOMAIN sessions' = DOMAIN sessions \ {s}
      /\ \A x \in DOMAIN sessions : x # s => sessions'[x] = sessions[x]
  BY WithoutApplies DEF DelSession
<1>2. DOMAIN idxPid' = DOMAIN idxPid \ {sessions[s]}
      /\ \A x \in DOMAIN idxPid : x # sessions[s] => idxPid'[x] = idxPid[x]
  BY WithoutApplies DEF DelSession
<1>3. DOMAIN monitors' = DOMAIN monitors \ {s}
      /\ \A x \in DOMAIN monitors : x # s => monitors'[x] = monitors[x]
  BY WithoutApplies DEF DelSession
<1>4. Range(sessions') \subseteq Clients
  BY WithoutRange DEF DelSession, ServerOK
<1>5. QED
  BY <1>1, <1>2, <1>3, <1>4 DEF ServerOK

(* What a call of process c changes in the monitors. *)
LEMMA MonitorKeepsTypes ==
  ASSUME ServerOK, NEW c \in Clients, NEW types \in SUBSET Types, UNCHANGED <<up, sessions, idxPid, orphans>>,
         \/ UNCHANGED monitors
         \/ types # {} /\ Session(c) # None /\ AddMonitor(Session(c), types)
         \/ Session(c) # None /\ RemoveMonitor(Session(c), types)
  PROVE  ServerOK'
<1> DEFINE s == Session(c)
<1>1. CASE UNCHANGED monitors
  BY <1>1 DEF ServerOK
<1>2. ASSUME monitors' = With(monitors, s, types), types # {}, s # None
      PROVE  ServerOK'
  <2>1. DOMAIN monitors' = DOMAIN monitors \cup {s} /\ monitors'[s] = types
        /\ \A x \in DOMAIN monitors : x # s => monitors'[x] = monitors[x]
    BY <1>2 DEF With
  <2>2. s \in DOMAIN sessions
    BY <1>2, SessionIsKnown
  <2>3. QED
    BY <2>1, <2>2, <1>2 DEF ServerOK
<1>3. ASSUME monitors' = Without(monitors, s)
      PROVE  ServerOK'
  <2>1. DOMAIN monitors' = DOMAIN monitors \ {s}
        /\ \A x \in DOMAIN monitors : x # s => monitors'[x] = monitors[x]
    BY <1>3, WithoutApplies
  <2>2. QED
    BY <2>1 DEF ServerOK
<1>4. QED
  BY <1>1, <1>2, <1>3 DEF AddMonitor, RemoveMonitor

LEMMA ServerStep ==
  ASSUME ServerOK, QueueOK, LinkOK, Next
  PROVE  ServerOK'
<1>1. CASE RunTask
  <2> DEFINE task == Head(tasks)
  <2>1. task \in Task /\ 1 \in DOMAIN tasks /\ task = tasks[1]
    BY <1>1, RestMovesUp DEF RunTask, QueueOK
  <2>2. task.client \in Clients /\ task.types \in SUBSET Types
    BY <2>1 DEF Task
  <2>3. CASE RunAlloc(task)
    <3>1. PICK s \in Sockets \ (DOMAIN sessions \cup Range(fd)) :
            /\ AddSession(task.client, s)
            /\ orphans' = IF task.late THEN orphans \cup {s} ELSE orphans
            /\ UNCHANGED monitors
      BY <2>3 DEF RunAlloc
    <3>2. UNCHANGED up
      BY <1>1 DEF RunTask
    <3>3. QED
      BY <3>1, <3>2, <2>2, AddSessionKeepsTypes
  <2>4. CASE RunAdd(task) /\ task.op = "add"
    <3>1. task.types # {}
      BY <2>1, <2>4 DEF QueueOK
    <3>2. UNCHANGED <<up, sessions, idxPid, orphans>>
      BY <1>1, <2>4 DEF RunTask, RunAdd
    <3>3. UNCHANGED monitors \/ (Session(task.client) # None /\ AddMonitor(Session(task.client), task.types))
      BY <2>4 DEF RunAdd
    <3>4. QED
      BY <3>1, <3>2, <3>3, <2>2, MonitorKeepsTypes
  <2>5. CASE RunRemove(task)
    <3>1. UNCHANGED <<up, sessions, idxPid, orphans>>
      BY <1>1, <2>5 DEF RunTask, RunRemove
    <3>2. UNCHANGED monitors \/ (Session(task.client) # None /\ RemoveMonitor(Session(task.client), task.types))
      BY <2>5 DEF RunRemove
    <3>3. QED
      BY <3>1, <3>2, <2>2, MonitorKeepsTypes
  <2>6. QED
    BY <1>1, <2>3, <2>4, <2>5 DEF RunTask
<1>2. CASE Crash
  BY <1>2, EmptyApplies DEF Crash, ServerOK
<1>3. CASE Restart \/ DiscardTask
  BY <1>3 DEF Restart, DiscardTask, serverVars, ServerOK
<1>4. ASSUME NEW s \in DOMAIN sessions, HangUp(s)
      PROVE  ServerOK'
  BY <1>4, DelSessionKeepsTypes DEF HangUp
<1>5. ASSUME NEW i \in DOMAIN tasks, GiveUp(i)
      PROVE  ServerOK'
  BY <1>5 DEF GiveUp, serverVars, ServerOK
<1>6. ASSUME NEW c \in Clients, LinkStep(c) \/ DeathStep(c) \/ AppStep(c) \/ Exit(c)
      PROVE  ServerOK'
  <2>1. UNCHANGED serverVars
    BY <1>6 DEF LinkStep, DeathStep, AppStep, Exit, OnReconnect, OnConnectedReads, OnConnectedRegisters,
                OnDisconnected, OnDeath, ConnectAgain, Call, Refused
  <2>2. QED
    BY <2>1 DEF serverVars, ServerOK
<1>7. ASSUME NEW c \in Clients, NEW handler \in HandlerIds, NEW types \in (SUBSET Types) \ {{}},
             RemoveHandler(c, handler) \/ AddHandler(c, handler, types)
      PROVE  ServerOK'
  BY <1>7 DEF RemoveHandler, AddHandler, Change, serverVars, ServerOK
<1>8. ASSUME NEW c \in Clients, NEW handler \in HandlerIds, RemoveHandler(c, handler)
      PROVE  ServerOK'
  BY <1>8 DEF RemoveHandler, Change, serverVars, ServerOK
<1>9. QED
  BY <1>1, <1>2, <1>3, <1>4, <1>5, <1>6, <1>7, <1>8 DEF Next
LEMMA QueueStep ==
  ASSUME QueueOK, LinkOK, AppOK, ReadIsSome, Next
  PROVE  QueueOK'
<1>1. ASSUME NEW c \in Clients, NEW thread \in {"app", "link"}, NEW op \in {"alloc", "add", "remove"},
             NEW types \in SUBSET Types, Post(c, thread, op, types),
             op = "add" => types # {}, op = "alloc" => thread = "link", op = "remove" => thread = "app"
      PROVE  QueueOK'
  <2> DEFINE t == [client |-> c, thread |-> thread, op |-> op, types |-> types, late |-> FALSE, expired |-> FALSE]
  <2>1. t \in Task /\ t.thread = thread /\ t.op = op /\ t.types = types /\ ~t.expired
    BY DEF Task
  <2>2. tasks' = Append(tasks, t)
    BY <1>1 DEF Post
  <2> HIDE DEF t
  <2>3. QED
    BY <1>1, <2>1, <2>2, PostedIsLast DEF QueueOK
<1>2. CASE RunTask \/ DiscardTask
  <2>1. tasks \in Seq(Task) /\ tasks # <<>> /\ tasks' = Tail(tasks)
    BY <1>2 DEF RunTask, DiscardTask, QueueOK
  <2>2. tasks' \in Seq(Task) /\ \A i \in DOMAIN tasks' : i + 1 \in DOMAIN tasks /\ tasks'[i] = tasks[i + 1]
    BY <2>1, RestMovesUp
  <2>3. QED
    BY <2>2 DEF QueueOK
<1>3. CASE Crash
  BY <1>3 DEF Crash, QueueOK
<1>4. CASE Restart
  BY <1>4 DEF Restart, QueueOK
<1>5. ASSUME NEW s \in DOMAIN sessions, HangUp(s)
      PROVE  QueueOK'
  BY <1>5 DEF HangUp, QueueOK
<1>6. ASSUME NEW i \in DOMAIN tasks, GiveUp(i)
      PROVE  QueueOK'
  <2>1. tasks \in Seq(Task)
    BY <1>6 DEF GiveUp, QueueOK
  <2>2. /\ tasks' \in Seq(Task) /\ DOMAIN tasks' = DOMAIN tasks
        /\ tasks'[i].late /\ \A j \in DOMAIN tasks : j # i => tasks'[j] = tasks[j]
        /\ \A j \in DOMAIN tasks : /\ tasks'[j].client = tasks[j].client /\ tasks'[j].thread = tasks[j].thread
                                   /\ tasks'[j].op = tasks[j].op /\ tasks'[j].types = tasks[j].types
    BY <1>6, <2>1, LateKeepsPlace
  <2>3. QED
    BY <2>2 DEF QueueOK
<1>7. ASSUME NEW c \in Clients, OnReconnect(c)
      PROVE  QueueOK'
  BY <1>1, <1>7 DEF OnReconnect
<1>8. ASSUME NEW c \in Clients, OnConnectedRegisters(c)
      PROVE  QueueOK'
  <2>1. read[c] \in SUBSET Types /\ read[c] # {}
    BY <1>8 DEF LinkOK, ReadIsSome, OnConnectedRegisters
  <2>2. UNCHANGED tasks \/ Post(c, "link", "add", read[c])
    BY <1>8 DEF OnConnectedRegisters
  <2>3. QED
    BY <1>1, <2>1, <2>2 DEF QueueOK
<1>9. ASSUME NEW c \in Clients, Call(c)
      PROVE  QueueOK'
  <2>1. app[c] \in Calling /\ (app[c].op = "add" => app[c].types # {})
    BY <1>9, IdleOrCalling DEF Call, AppOK
  <2>2. app[c].op \in {"add", "remove"} /\ app[c].types \in SUBSET Types
    BY <2>1 DEF Calling
  <2>3. UNCHANGED tasks \/ Post(c, "app", app[c].op, app[c].types)
    BY <1>9 DEF Call
  <2>4. QED
    BY <1>1, <2>1, <2>2, <2>3 DEF QueueOK
<1>10. ASSUME NEW c \in Clients,
              \/ OnConnectedReads(c) \/ OnDisconnected(c) \/ DeathStep(c) \/ Refused(c) \/ Exit(c)
       PROVE  QueueOK'
  <2>1. UNCHANGED tasks
    BY <1>10 DEF OnConnectedReads, OnDisconnected, DeathStep, OnDeath, ConnectAgain, Refused, Exit
  <2>2. QED
    BY <2>1 DEF QueueOK
<1>11. ASSUME NEW c \in Clients, NEW op, NEW handler, NEW newHandlers, Change(c, op, handler, newHandlers)
       PROVE  QueueOK'
  BY <1>11 DEF Change, QueueOK
<1>12. QED
  BY <1>2, <1>3, <1>4, <1>5, <1>6, <1>7, <1>8, <1>9, <1>10, <1>11
     DEF Next, LinkStep, AppStep, AddHandler, RemoveHandler

LEMMA LinkTypesStep ==
  ASSUME LinkOK, QueueOK, HandlersOK, Next
  PROVE  LinkOK'
<1> USE DEF LinkOK
<1>1. CASE RunTask
  <2> DEFINE task == Head(tasks)
  <2>1. task \in Task
    BY <1>1, RestMovesUp DEF RunTask, QueueOK
  <2>2. task.client \in Clients
    BY <2>1 DEF Task
  <2> HIDE DEF task
  <2>3. UNCHANGED <<proxy, read>>
    BY <1>1 DEF RunTask
  <2>4. ASSUME NEW ok \in BOOLEAN, Reply(task, ok)
        PROVE  /\ link' \in [Clients -> {"down", "alloc", "open", "read", "register", "up", "gone"}]
               /\ doubtful' \in [Clients -> BOOLEAN]
    BY <2>2, <2>4 DEF Reply
  <2>5. CASE RunAlloc(task)
    <3>1. fd' \in [Clients -> Sockets \cup {None}]
      BY <2>2, <2>5 DEF RunAlloc
    <3>2. Reply(task, TRUE)
      BY <2>5 DEF RunAlloc
    <3>3. QED
      BY <2>3, <2>4, <3>1, <3>2
  <2>6. CASE RunAdd(task)
    <3>1. UNCHANGED fd /\ \E ok \in BOOLEAN : Reply(task, ok)
      BY <2>6 DEF RunAdd
    <3>2. QED
      BY <2>3, <2>4, <3>1
  <2>7. CASE RunRemove(task)
    <3>1. UNCHANGED fd /\ \E ok \in BOOLEAN : Reply(task, ok)
      BY <2>7 DEF RunRemove
    <3>2. QED
      BY <2>3, <2>4, <3>1
  <2>8. QED
    BY <1>1, <2>5, <2>6, <2>7 DEF RunTask, task
<1>2. CASE Crash
  BY <1>2 DEF Crash
<1>3. CASE Restart \/ DiscardTask
  BY <1>3 DEF Restart, DiscardTask, linkVars
<1>4. ASSUME NEW s \in DOMAIN sessions, HangUp(s)
      PROVE  LinkOK'
  BY <1>4 DEF HangUp, linkVars
<1>5. ASSUME NEW i \in DOMAIN tasks, GiveUp(i)
      PROVE  LinkOK'
  <2>1. tasks[i].client \in Clients
    <3>1. tasks[i] \in Task
      BY ElementOfSeq, LenProperties DEF QueueOK
    <3>2. QED
      BY <3>1 DEF Task
  <2>2. QED
    BY <1>5, <2>1 DEF GiveUp
<1>6. ASSUME NEW c \in Clients, LinkStep(c)
      PROVE  LinkOK'
  <2>1. Union(c) \in SUBSET Types
    BY DEF Union, HandlersOK
  <2>2. Connected(c) \in {"none", "live", "dead"}
    BY DEF Connected
  <2>3. CASE OnReconnect(c)
    BY <2>3 DEF OnReconnect
  <2>4. CASE OnConnectedReads(c)
    BY <2>1, <2>4 DEF OnConnectedReads
  <2>5. CASE OnConnectedRegisters(c)
    BY <2>2, <2>5 DEF OnConnectedRegisters
  <2>6. CASE OnDisconnected(c)
    BY <2>6 DEF OnDisconnected
  <2>7. QED
    BY <1>6, <2>3, <2>4, <2>5, <2>6 DEF LinkStep
<1>7. ASSUME NEW c \in Clients, DeathStep(c) \/ AppStep(c) \/ Exit(c)
      PROVE  LinkOK'
  <2>1. Connected(c) \in {"none", "live", "dead"}
    BY DEF Connected
  <2>2. QED
    BY <1>7, <2>1 DEF DeathStep, OnDeath, ConnectAgain, AppStep, Call, Refused, Exit, linkVars
<1>8. ASSUME NEW c \in Clients, NEW op, NEW handler, NEW newHandlers, Change(c, op, handler, newHandlers)
      PROVE  LinkOK'
  BY <1>8 DEF Change, linkVars
<1>9. QED
  BY <1>1, <1>2, <1>3, <1>4, <1>5, <1>6, <1>7, <1>8 DEF Next, AddHandler, RemoveHandler

LEMMA HandlersStep ==
  ASSUME HandlersOK, Next
  PROVE  HandlersOK'
<1> USE DEF HandlersOK
<1>1. ASSUME NEW c \in Clients, NEW new, handlers' = [handlers EXCEPT ![c] = new],
             DOMAIN new \subseteq HandlerIds, Range(new) \subseteq (SUBSET Types) \ {{}}
      PROVE  HandlersOK'
  BY <1>1
<1>2. CASE UNCHANGED handlers
  BY <1>2
<1>3. ASSUME NEW c \in Clients, Refused(c)
      PROVE  HandlersOK'
  <2> DEFINE new == IF app[c].op = "add" THEN Without(handlers[c], app[c].handler) ELSE handlers[c]
  <2>1. handlers' = [handlers EXCEPT ![c] = new]
    BY <1>3 DEF Refused
  <2>2. DOMAIN new \subseteq DOMAIN handlers[c]
    BY DEF Without
  <2>3. Range(new) \subseteq Range(handlers[c])
    BY WithoutRange
  <2> HIDE DEF new
  <2>4. QED
    BY <1>1, <2>1, <2>2, <2>3
<1>4. ASSUME NEW c \in Clients, Exit(c)
      PROVE  HandlersOK'
  <2>1. handlers' = [handlers EXCEPT ![c] = Empty]
    BY <1>4 DEF Exit
  <2>2. QED
    BY <1>1, <2>1, EmptyApplies
<1>5. ASSUME NEW c \in Clients, NEW handler \in HandlerIds, RemoveHandler(c, handler)
      PROVE  HandlersOK'
  <2> DEFINE new == Without(handlers[c], handler)
  <2>1. handlers' = [handlers EXCEPT ![c] = new]
    BY <1>5 DEF RemoveHandler, Change
  <2>2. DOMAIN new \subseteq DOMAIN handlers[c]
    BY DEF Without
  <2>3. Range(new) \subseteq Range(handlers[c])
    BY WithoutRange
  <2> HIDE DEF new
  <2>4. QED
    BY <1>1, <2>1, <2>2, <2>3
<1>6. ASSUME NEW c \in Clients, NEW handler \in HandlerIds, NEW types \in (SUBSET Types) \ {{}},
             AddHandler(c, handler, types)
      PROVE  HandlersOK'
  <2> DEFINE new == With(handlers[c], handler, types)
  <2>1. handlers' = [handlers EXCEPT ![c] = new]
    BY <1>6 DEF AddHandler, Change
  <2>2. DOMAIN new \subseteq DOMAIN handlers[c] \cup {handler}
    BY DEF With
  <2>3. Range(new) \subseteq Range(handlers[c]) \cup {types}
    BY WithRange
  <2> HIDE DEF new
  <2>4. QED
    BY <1>1, <2>1, <2>2, <2>3
<1>7. ASSUME NEW c \in Clients, LinkStep(c) \/ DeathStep(c) \/ Call(c)
      PROVE  UNCHANGED handlers
  BY <1>7 DEF LinkStep, OnReconnect, OnConnectedReads, OnConnectedRegisters, OnDisconnected,
              DeathStep, OnDeath, ConnectAgain, Call, appVars
<1>8. CASE RunTask \/ DiscardTask \/ Crash \/ Restart
  BY <1>2, <1>8 DEF RunTask, DiscardTask, Crash, Restart, appVars
<1>9. ASSUME NEW s \in DOMAIN sessions, HangUp(s)
      PROVE  UNCHANGED handlers
  BY <1>9 DEF HangUp, appVars
<1>10. ASSUME NEW i \in DOMAIN tasks, GiveUp(i)
       PROVE  UNCHANGED handlers
  BY <1>10 DEF GiveUp
<1>11. QED
  BY <1>2, <1>3, <1>4, <1>5, <1>6, <1>7, <1>8, <1>9, <1>10 DEF Next, AppStep
LEMMA ReadIsSomeStep ==
  ASSUME ReadIsSome, LinkOK, QueueOK, Next
  PROVE  ReadIsSome'
<1> USE DEF ReadIsSome, LinkOK
<1>1. CASE RunTask
  <2> DEFINE task == Head(tasks)
  <2>1. task \in Task
    BY <1>1, RestMovesUp DEF RunTask, QueueOK
  <2>2. task.client \in Clients
    BY <2>1 DEF Task
  <2> HIDE DEF task
  <2>3. UNCHANGED read
    BY <1>1 DEF RunTask
  <2>4. \E ok \in BOOLEAN : Reply(task, ok)
    BY <1>1 DEF RunTask, RunAlloc, RunAdd, RunRemove, task
  <2>5. \A c \in Clients : link'[c] = "read" => link[c] = "read"
    BY <2>2, <2>4 DEF Reply
  <2>6. QED
    BY <2>3, <2>5
<1>2. CASE Crash
  BY <1>2 DEF Crash
<1>3. CASE Restart \/ DiscardTask
  BY <1>3 DEF Restart, DiscardTask, linkVars
<1>4. ASSUME NEW s \in DOMAIN sessions, HangUp(s)
      PROVE  ReadIsSome'
  BY <1>4 DEF HangUp, linkVars
<1>5. ASSUME NEW i \in DOMAIN tasks, GiveUp(i)
      PROVE  ReadIsSome'
  BY <1>5 DEF GiveUp
<1>6. ASSUME NEW c \in Clients, LinkStep(c)
      PROVE  ReadIsSome'
  <2>1. CASE OnReconnect(c)
    BY <2>1 DEF OnReconnect
  <2>2. CASE OnConnectedReads(c)
    BY <2>2 DEF OnConnectedReads
  <2>3. CASE OnConnectedRegisters(c)
    BY <2>3 DEF OnConnectedRegisters
  <2>4. CASE OnDisconnected(c)
    BY <2>4 DEF OnDisconnected
  <2>5. QED
    BY <1>6, <2>1, <2>2, <2>3, <2>4 DEF LinkStep
<1>7. ASSUME NEW c \in Clients, DeathStep(c) \/ AppStep(c) \/ Exit(c)
      PROVE  ReadIsSome'
  BY <1>7 DEF DeathStep, OnDeath, ConnectAgain, AppStep, Call, Refused, Exit, linkVars
<1>8. ASSUME NEW c \in Clients, NEW op, NEW handler, NEW newHandlers, Change(c, op, handler, newHandlers)
      PROVE  ReadIsSome'
  BY <1>8 DEF Change, linkVars
<1>9. QED
  BY <1>1, <1>2, <1>3, <1>4, <1>5, <1>6, <1>7, <1>8 DEF Next, AddHandler, RemoveHandler

(* The answer to a call that is waited for finds its caller waiting. *)
LEMMA AnsweredCallerWaits ==
  ASSUME QueueOK, AppOK, CallersWait, NEW i \in DOMAIN tasks
  PROVE  LET task == tasks[i] IN
         /\ task \in Task /\ task.client \in Clients
         /\ task.thread # "link" /\ ~task.late /\ link[task.client] # "gone" =>
              app[task.client].pc = "waiting" /\ app[task.client] \in Calling
<1>1. tasks[i] \in Task
  BY ElementOfSeq, LenProperties DEF QueueOK
<1>2. tasks[i].client \in Clients /\ tasks[i].thread \in {"app", "link"}
  BY <1>1 DEF Task
<1>3. ASSUME tasks[i].thread # "link", ~tasks[i].late, link[tasks[i].client] # "gone"
      PROVE  app[tasks[i].client].pc = "waiting" /\ app[tasks[i].client] \in Calling
  <2>1. app[tasks[i].client].pc = "waiting"
    BY <1>2, <1>3 DEF CallersWait, Waits
  <2>2. QED
    BY <1>2, <2>1, IdleOrCalling
<1>4. QED
  BY <1>1, <1>2, <1>3

LEMMA AppTypesStep ==
  ASSUME AppOK, QueueOK, HandlersOK, CallersWait, Next
  PROVE  AppOK'
<1>1. ASSUME NEW c \in Clients, NEW a \in {Idle} \cup Calling, app' = [app EXCEPT ![c] = a],
             a # Idle /\ a.op = "add" => a.types # {}
      PROVE  AppOK'
  BY <1>1 DEF AppOK
<1>2. ASSUME NEW c \in Clients, app[c] \in Calling, NEW pc \in {"calling", "waiting", "refused"},
             app' = [app EXCEPT ![c] = [app[c] EXCEPT !.pc = pc]]
      PROVE  AppOK'
  <2>1. PICK b : b = [app[c] EXCEPT !.pc = pc]
    OBVIOUS
  <2>2. b \in Calling /\ b.op = app[c].op /\ b.types = app[c].types
    BY <1>2, <2>1, CallGoesOn
  <2>3. app[c] # Idle
    BY <1>2 DEF Idle, Calling
  <2>4. QED
    BY <1>1, <1>2, <2>1, <2>2, <2>3 DEF AppOK
<1>3. CASE UNCHANGED app
  BY <1>3 DEF AppOK
<1>4. CASE RunTask
  <2> DEFINE task == Head(tasks)
  <2>1. /\ task.client \in Clients
        /\ task.thread # "link" /\ ~task.late /\ link[task.client] # "gone" => app[task.client] \in Calling
    BY <1>4, RestMovesUp, AnsweredCallerWaits DEF RunTask, QueueOK
  <2>2. \E ok \in BOOLEAN : Reply(task, ok)
    BY <1>4 DEF RunTask, RunAlloc, RunAdd, RunRemove
  <2> HIDE DEF task
  <2>3. \/ UNCHANGED app
        \/ app' = [app EXCEPT ![task.client] = Idle]
        \/ /\ app' = [app EXCEPT ![task.client] = [app[task.client] EXCEPT !.pc = "refused"]]
           /\ task.thread # "link" /\ ~task.late /\ link[task.client] # "gone"
    BY <2>1, <2>2 DEF Reply, AppOK
  <2>4. QED
    BY <1>1, <1>2, <1>3, <2>1, <2>3
<1>5. CASE Crash
  <2>1. \A c \in Clients : app[c].pc = "waiting" => app[c] \in Calling
    BY IdleOrCalling
  <2>2. \A c \in Clients :
          /\ app'[c] \in {Idle} \cup Calling
          /\ app'[c] # Idle => app[c] # Idle /\ app'[c].op = app[c].op /\ app'[c].types = app[c].types
    <3>1. SUFFICES ASSUME NEW c \in Clients
                   PROVE  /\ app'[c] \in {Idle} \cup Calling
                          /\ app'[c] # Idle => app[c] # Idle /\ app'[c].op = app[c].op /\ app'[c].types = app[c].types
      OBVIOUS
    <3>2. CASE app[c].pc = "waiting"
      <4>1. PICK b : b = [app[c] EXCEPT !.pc = "refused"]
        OBVIOUS
      <4>2. b \in Calling /\ b.op = app[c].op /\ b.types = app[c].types
        BY <2>1, <3>2, <4>1, CallGoesOn
      <4>3. app'[c] = b /\ app[c] # Idle
        BY <1>5, <3>2, <4>1 DEF Crash, Idle
      <4>4. QED
        BY <4>2, <4>3
    <3>3. CASE app[c].pc # "waiting"
      <4>1. app'[c] = app[c]
        BY <1>5, <3>3 DEF Crash
      <4>2. QED
        BY <4>1 DEF AppOK
    <3>4. QED
      BY <3>2, <3>3
  <2>3. app' = [c \in Clients |-> app'[c]]
    BY <1>5 DEF Crash
  <2>4. QED
    BY <2>2, <2>3 DEF AppOK
<1>6. ASSUME NEW i \in DOMAIN tasks, GiveUp(i)
      PROVE  AppOK'
  <2> DEFINE c == tasks[i].client
  <2>1. /\ c \in Clients
        /\ tasks[i].thread # "link" => app[c] \in Calling
    BY <1>6, AnsweredCallerWaits DEF GiveUp
  <2>2. \/ UNCHANGED app
        \/ app' = [app EXCEPT ![c] = [app[c] EXCEPT !.pc = "refused"]] /\ tasks[i].thread = "app"
    BY <1>6, <2>1 DEF GiveUp, AppOK
  <2>3. QED
    BY <1>2, <1>3, <2>1, <2>2
<1>7. ASSUME NEW c \in Clients, Call(c)
      PROVE  AppOK'
  <2>1. app[c] \in Calling
    BY <1>7, IdleOrCalling DEF Call
  <2>2. \/ app' = [app EXCEPT ![c] = [app[c] EXCEPT !.pc = "waiting"]]
        \/ app' = [app EXCEPT ![c] = [app[c] EXCEPT !.pc = "refused"]]
    BY <1>7 DEF Call, AppOK
  <2>3. QED
    BY <1>2, <2>1, <2>2
<1>8. ASSUME NEW c \in Clients, Refused(c) \/ Exit(c)
      PROVE  AppOK'
  BY <1>1, <1>8 DEF Refused, Exit
<1>9. ASSUME NEW c \in Clients, NEW op \in {"add", "remove"}, NEW handler \in HandlerIds, NEW new,
             Change(c, op, handler, new), Range(new) \subseteq SUBSET Types,
             op = "add" => UNION Range(new) # {}
      PROVE  AppOK'
  <2> DEFINE a == [pc |-> "calling", op |-> op, handler |-> handler, types |-> UNION Range(new)]
  <2>1. a \in Calling /\ a.op = op /\ a.types = UNION Range(new)
    BY <1>9 DEF Calling
  <2>2. app' = [app EXCEPT ![c] = Idle] \/ app' = [app EXCEPT ![c] = a]
    BY <1>9 DEF Change
  <2> HIDE DEF a
  <2>3. QED
    BY <1>1, <1>9, <2>1, <2>2
<1>10. ASSUME NEW c \in Clients, NEW handler \in HandlerIds, RemoveHandler(c, handler)
       PROVE  AppOK'
  <2>1. Range(Without(handlers[c], handler)) \subseteq SUBSET Types
    BY WithoutRange DEF HandlersOK
  <2>2. QED
    BY <1>9, <1>10, <2>1 DEF RemoveHandler
<1>11. ASSUME NEW c \in Clients, NEW handler \in HandlerIds, NEW types \in (SUBSET Types) \ {{}},
              AddHandler(c, handler, types)
       PROVE  AppOK'
  <2>1. Range(With(handlers[c], handler, types)) \subseteq SUBSET Types
    BY WithRange DEF HandlersOK
  <2>2. types \in Range(With(handlers[c], handler, types))
    BY DEF Range, With
  <2>3. QED
    BY <1>9, <1>11, <2>1, <2>2 DEF AddHandler
<1>12. ASSUME NEW c \in Clients, LinkStep(c) \/ DeathStep(c)
       PROVE  UNCHANGED app
  BY <1>12 DEF LinkStep, OnReconnect, OnConnectedReads, OnConnectedRegisters, OnDisconnected,
               DeathStep, OnDeath, ConnectAgain, appVars
<1>13. ASSUME NEW s \in DOMAIN sessions, HangUp(s)
       PROVE  UNCHANGED app
  BY <1>13 DEF HangUp, appVars
<1>14. CASE Restart \/ DiscardTask
  BY <1>3, <1>14 DEF Restart, DiscardTask, appVars
<1>15. QED
  BY <1>3, <1>4, <1>5, <1>6, <1>7, <1>8, <1>10, <1>11, <1>12, <1>13, <1>14 DEF Next, AppStep

LEMMA StateStep ==
  ASSUME StateOK, CallersWait, Next
  PROVE  StateOK'
  BY ServerStep, QueueStep, HandlersStep, AppTypesStep, LinkTypesStep, ReadIsSomeStep DEF StateOK
-----------------------------------------------------------------------------
(* Requests in order, callers that wait *)

(* What a task that runs changes for the applications. *)
LEMMA RunTaskAnswers ==
  ASSUME StateOK, OrderInv, RunTask
  PROVE  LET t == tasks[1] c == t.client IN
         /\ 1 \in DOMAIN tasks /\ t \in Task /\ c \in Clients
         /\ \A x \in Clients : x # c \/ link[x] = "gone" \/ t.late =>
              link'[x] = link[x] /\ app'[x] = app[x] /\ fd'[x] = fd[x]
         /\ link[c] # "gone" /\ ~t.late /\ t.thread = "app" =>
              /\ link'[c] = link[c] /\ fd'[c] = fd[c]
              /\ app'[c].pc \in {"idle", "refused"}
         /\ link[c] # "gone" /\ ~t.late /\ t.thread = "link" =>
              /\ app'[c] = app[c]
              /\ t.op = "alloc" => link[c] = "alloc" /\ link'[c] = "open"
              /\ t.op # "alloc" =>
                   t.op = "add" /\ link[c] = "register" /\ link'[c] = "up" /\ fd'[c] = fd[c]
<1> DEFINE t == tasks[1]
           c == t.client
<1>1. tasks \in Seq(Task) /\ tasks # <<>>
  BY DEF StateOK, QueueOK, RunTask
<1>2. 1 \in DOMAIN tasks /\ t \in Task /\ Head(tasks) = t
  BY <1>1, RestMovesUp
<1>3. c \in Clients /\ t.thread \in {"app", "link"} /\ t.op \in {"alloc", "add", "remove"}
  BY <1>2 DEF Task
<1>4. (t.op = "alloc" => t.thread = "link") /\ (t.op = "remove" => t.thread = "app")
  BY <1>2 DEF StateOK, QueueOK
<1>5. /\ \E ok \in BOOLEAN : Reply(t, ok)
      /\ t.op = "alloc" \/ UNCHANGED fd
      /\ UNCHANGED fd \/ (~t.late /\ link[c] # "gone" /\ \E s \in Sockets : fd' = [fd EXCEPT ![c] = s])
  BY <1>2 DEF RunTask, RunAlloc, RunAdd, RunRemove
<1>6. link \in [Clients -> {"down", "alloc", "open", "read", "register", "up", "gone"}]
      /\ app \in [Clients -> {Idle} \cup Calling] /\ fd \in [Clients -> Sockets \cup {None}]
  BY DEF StateOK, LinkOK, AppOK
<1>7. \A x \in Clients : x # c \/ link[x] = "gone" \/ t.late =>
        link'[x] = link[x] /\ app'[x] = app[x] /\ fd'[x] = fd[x]
  BY <1>3, <1>5, <1>6 DEF Reply
<1>8. ASSUME link[c] # "gone", ~t.late, t.thread = "app"
      PROVE  /\ link'[c] = link[c] /\ fd'[c] = fd[c]
             /\ app'[c].pc \in {"idle", "refused"}
  <2>1. app[c] \in Calling
    BY <1>2, <1>8, AnsweredCallerWaits DEF StateOK, OrderInv
  <2>2. link'[c] = link[c] /\ fd'[c] = fd[c]
    BY <1>3, <1>4, <1>5, <1>6, <1>8 DEF Reply
  <2>3. app'[c] = Idle \/ app'[c] = [app[c] EXCEPT !.pc = "refused"]
    BY <1>3, <1>5, <1>6, <1>8 DEF Reply
  <2>4. Idle.pc = "idle" /\ [app[c] EXCEPT !.pc = "refused"].pc = "refused"
    BY <2>1, CallGoesOn DEF Idle
  <2>5. QED
    BY <2>2, <2>3, <2>4
<1>9. ASSUME link[c] # "gone", ~t.late, t.thread = "link"
      PROVE  /\ app'[c] = app[c]
             /\ t.op = "alloc" => link[c] = "alloc" /\ link'[c] = "open"
             /\ t.op # "alloc" =>
                  t.op = "add" /\ link[c] = "register" /\ link'[c] = "up" /\ fd'[c] = fd[c]
  <2>1. app'[c] = app[c] /\ link'[c] = IF t.op = "alloc" THEN "open" ELSE "up"
    BY <1>3, <1>5, <1>6, <1>9 DEF Reply
  <2>2. t.op = "alloc" => link[c] = "alloc"
    BY <1>2, <1>3, <1>9 DEF OrderInv, RequestsInOrder, Alloc
  <2>3. t.op # "alloc" => t.op = "add" /\ link[c] = "register" /\ fd'[c] = fd[c]
    BY <1>2, <1>3, <1>4, <1>5, <1>9 DEF OrderInv, CallersWait, Waits
  <2>4. QED
    BY <2>1, <2>2, <2>3
<1>10. QED
  BY <1>2, <1>3, <1>7, <1>8, <1>9

LEMMA RunTaskKeepsOrder ==
  ASSUME StateOK, OrderInv, RunTask
  PROVE  OrderInv'
<1> DEFINE t == tasks[1]
           c == t.client
<1>1. /\ 1 \in DOMAIN tasks /\ t \in Task /\ c \in Clients
      /\ \A x \in Clients : x # c \/ link[x] = "gone" \/ t.late =>
           link'[x] = link[x] /\ app'[x] = app[x] /\ fd'[x] = fd[x]
      /\ link[c] # "gone" /\ ~t.late /\ t.thread = "app" =>
           /\ link'[c] = link[c] /\ fd'[c] = fd[c]
           /\ app'[c].pc \in {"idle", "refused"}
      /\ link[c] # "gone" /\ ~t.late /\ t.thread = "link" =>
           /\ app'[c] = app[c]
           /\ t.op = "alloc" => link[c] = "alloc" /\ link'[c] = "open"
           /\ t.op # "alloc" =>
                t.op = "add" /\ link[c] = "register" /\ link'[c] = "up" /\ fd'[c] = fd[c]
  BY RunTaskAnswers
<1>2. /\ \A i \in DOMAIN tasks' :
           i \in Nat /\ i + 1 \in DOMAIN tasks /\ tasks'[i] = tasks[i + 1] /\ i + 1 # 1
  BY RestMovesUp DEF RunTask, StateOK, QueueOK
<1>3. t.thread \in {"app", "link"}
  BY <1>1 DEF Task
<1> HIDE DEF t, c
<1>4. GoneIsGone'
  BY <1>1, <1>3 DEF OrderInv, GoneIsGone
<1>5. ASSUME NEW x \in Clients, link'[x] # "gone", NEW i \in DOMAIN tasks', Alloc(i, x)'
      PROVE  /\ link'[x] \in {"down", "alloc"}
             /\ ~tasks'[i].late =>
                  /\ link'[x] = "alloc"
                  /\ \A j \in DOMAIN tasks' : tasks'[j].client = x => j <= i
  <2>1. Alloc(i + 1, x) /\ i + 1 \in DOMAIN tasks /\ i + 1 # 1 /\ link[x] # "gone"
    BY <1>1, <1>2, <1>5 DEF Alloc
  <2>2. /\ link[x] \in {"down", "alloc"}
        /\ ~tasks[i + 1].late =>
             /\ link[x] = "alloc"
             /\ \A j \in DOMAIN tasks : tasks[j].client = x => j <= i + 1
    BY <2>1 DEF OrderInv, RequestsInOrder
  <2>3. link'[x] = link[x]
    <3>1. CASE x # c \/ t.late \/ t.thread = "app"
      BY <1>1, <2>1, <3>1
    <3>2. CASE x = c /\ ~t.late /\ t.thread = "link"
      <4>1. t.op = "alloc" => i + 1 <= 1
        BY <1>1, <2>1, <3>2 DEF OrderInv, RequestsInOrder, Alloc, t, c
      <4>2. t.op # "alloc"
        BY <1>2, <1>5, <4>1
      <4>3. QED
        BY <1>1, <2>1, <2>2, <3>2, <4>2
    <3>3. QED
      BY <1>3, <3>1, <3>2
  <2>4. QED
    BY <1>2, <1>5, <2>2, <2>3
<1>6. ASSUME NEW x \in Clients, link'[x] # "gone", fd'[x] # None
      PROVE  Linked(x)'
  BY <1>1, <1>3, <1>6 DEF OrderInv, RequestsInOrder, Linked
<1>7. RequestsInOrder'
  BY <1>5, <1>6 DEF RequestsInOrder
<1>8. ASSUME NEW x \in Clients, link'[x] # "gone", NEW i \in DOMAIN tasks', Waits(i, x, "app")'
      PROVE  /\ app'[x].pc = "waiting"
             /\ tasks'[i].op = app'[x].op /\ tasks'[i].types = app'[x].types
             /\ \A j \in DOMAIN tasks' : Waits(j, x, "app")' => j = i
  <2>1. /\ Waits(i + 1, x, "app") /\ i + 1 \in DOMAIN tasks /\ i + 1 # 1
        /\ tasks'[i] = tasks[i + 1] /\ link[x] # "gone"
    BY <1>1, <1>2, <1>8 DEF Waits
  <2>2. /\ app[x].pc = "waiting"
        /\ tasks[i + 1].op = app[x].op /\ tasks[i + 1].types = app[x].types
        /\ \A j \in DOMAIN tasks : Waits(j, x, "app") => j = i + 1
    BY <2>1 DEF OrderInv, CallersWait
  <2>3. ~Waits(1, x, "app")
    BY <1>1, <2>1, <2>2
  <2>4. app'[x] = app[x]
    BY <1>1, <1>3, <2>1, <2>3 DEF Waits, t, c
  <2>5. \A j \in DOMAIN tasks' : Waits(j, x, "app")' => j + 1 = i + 1
    BY <1>2, <2>2 DEF Waits
  <2>6. \A j \in DOMAIN tasks' : Waits(j, x, "app")' => j = i
    BY <1>2, <2>5
  <2>7. QED
    BY <2>1, <2>2, <2>4, <2>6
<1>9. ASSUME NEW x \in Clients, link'[x] # "gone", NEW i \in DOMAIN tasks', Waits(i, x, "link")'
      PROVE  /\ tasks'[i].op = "add" => link'[x] = "register"
             /\ \A j \in DOMAIN tasks' : Waits(j, x, "link")' => j = i
  <2>1. /\ Waits(i + 1, x, "link") /\ i + 1 \in DOMAIN tasks /\ i + 1 # 1
        /\ tasks'[i] = tasks[i + 1] /\ link[x] # "gone"
    BY <1>1, <1>2, <1>9 DEF Waits
  <2>2. /\ tasks[i + 1].op = "add" => link[x] = "register"
        /\ \A j \in DOMAIN tasks : Waits(j, x, "link") => j = i + 1
    BY <2>1 DEF OrderInv, CallersWait
  <2>3. ~Waits(1, x, "link")
    BY <1>1, <2>1, <2>2
  <2>4. link'[x] = link[x]
    BY <1>1, <1>3, <2>1, <2>3 DEF Waits, t, c
  <2>5. \A j \in DOMAIN tasks' : Waits(j, x, "link")' => j + 1 = i + 1
    BY <1>2, <2>2 DEF Waits
  <2>6. \A j \in DOMAIN tasks' : Waits(j, x, "link")' => j = i
    BY <1>2, <2>5
  <2>7. QED
    BY <2>1, <2>2, <2>4, <2>6
<1>10. CallersWait'
  BY <1>8, <1>9 DEF CallersWait
<1>11. QED
  BY <1>4, <1>7, <1>10 DEF OrderInv

(* A task that is discarded is waited for by nobody. *)
LEMMA DiscardKeepsOrder ==
  ASSUME StateOK, OrderInv, DiscardTask
  PROVE  OrderInv'
<1>1. \A i \in DOMAIN tasks' :
        i \in Nat /\ i + 1 \in DOMAIN tasks /\ tasks'[i] = tasks[i + 1] /\ i + 1 # 1
  BY RestMovesUp DEF DiscardTask, StateOK, QueueOK
<1>2. UNCHANGED <<link, app, fd>>
  BY DEF DiscardTask, linkVars, appVars
<1>3. GoneIsGone'
  BY <1>2 DEF OrderInv, GoneIsGone
<1>4. ASSUME NEW x \in Clients, link[x] # "gone", NEW i \in DOMAIN tasks', Alloc(i, x)'
      PROVE  /\ link[x] \in {"down", "alloc"}
             /\ ~tasks'[i].late =>
                  /\ link[x] = "alloc"
                  /\ \A j \in DOMAIN tasks' : tasks'[j].client = x => j <= i
  <2>1. Alloc(i + 1, x) /\ i + 1 \in DOMAIN tasks
    BY <1>1, <1>4 DEF Alloc
  <2>2. /\ link[x] \in {"down", "alloc"}
        /\ ~tasks[i + 1].late =>
             /\ link[x] = "alloc"
             /\ \A j \in DOMAIN tasks : tasks[j].client = x => j <= i + 1
    BY <1>4, <2>1 DEF OrderInv, RequestsInOrder
  <2>3. QED
    BY <1>1, <2>2
<1>5. RequestsInOrder'
  BY <1>2, <1>4 DEF OrderInv, RequestsInOrder, Linked
<1>6. ASSUME NEW x \in Clients, link[x] # "gone", NEW i \in DOMAIN tasks', NEW w \in {"app", "link"},
             Waits(i, x, w)'
      PROVE  /\ w = "app" => app[x].pc = "waiting" /\ tasks'[i].op = app[x].op /\ tasks'[i].types = app[x].types
             /\ w = "link" => (tasks'[i].op = "add" => link[x] = "register")
             /\ \A j \in DOMAIN tasks' : Waits(j, x, w)' => j = i
  <2>1. Waits(i + 1, x, w) /\ i + 1 \in DOMAIN tasks /\ tasks'[i] = tasks[i + 1]
    BY <1>1, <1>6 DEF Waits
  <2>2. \A j \in DOMAIN tasks : Waits(j, x, w) => j = i + 1
    BY <1>6, <2>1 DEF OrderInv, CallersWait
  <2>3. \A j \in DOMAIN tasks' : Waits(j, x, w)' => j + 1 = i + 1
    BY <1>1, <2>2 DEF Waits
  <2>4. \A j \in DOMAIN tasks' : Waits(j, x, w)' => j = i
    BY <1>1, <2>3
  <2>5. QED
    BY <1>6, <2>1, <2>4 DEF OrderInv, CallersWait
<1>7. CallersWait'
  BY <1>2, <1>6 DEF CallersWait
<1>8. QED
  BY <1>3, <1>5, <1>7 DEF OrderInv

LEMMA GiveUpKeepsOrder ==
  ASSUME StateOK, OrderInv, NEW i \in DOMAIN tasks, GiveUp(i)
  PROVE  OrderInv'
<1> DEFINE t == tasks[i]
           c == t.client
<1>1. t \in Task /\ c \in Clients /\ ~t.late /\ link[c] # "gone" /\ t.thread \in {"app", "link"}
      /\ (t.op = "alloc" => t.thread = "link") /\ t.op \in {"alloc", "add", "remove"}
      /\ (t.op = "remove" => t.thread = "app")
  <2>1. t \in Task /\ ~t.late /\ link[c] # "gone"
    BY ElementOfSeq, LenProperties DEF GiveUp, StateOK, QueueOK
  <2>2. QED
    BY <2>1 DEF StateOK, QueueOK, Task
<1>2. tasks \in Seq(Task) /\ UNCHANGED fd
  BY DEF GiveUp, StateOK, QueueOK
<1>3. /\ DOMAIN tasks' = DOMAIN tasks /\ tasks'[i].late
      /\ \A j \in DOMAIN tasks : /\ tasks'[j].client = tasks[j].client /\ tasks'[j].thread = tasks[j].thread
                                 /\ tasks'[j].op = tasks[j].op /\ tasks'[j].types = tasks[j].types
      /\ \A j \in DOMAIN tasks : j # i => tasks'[j] = tasks[j]
  BY <1>2, LateKeepsPlace
<1>4. /\ \A x \in Clients : x # c => link'[x] = link[x] /\ app'[x] = app[x]
      /\ t.thread = "app" => link'[c] = link[c]
      /\ t.thread = "link" => app'[c] = app[c] /\ link'[c] = IF t.op = "alloc" THEN "down" ELSE "up"
  BY <1>1 DEF GiveUp, StateOK, LinkOK, AppOK
<1>5. /\ t.op = "alloc" => link[c] = "alloc" /\ \A j \in DOMAIN tasks : tasks[j].client = c => j <= i
      /\ t.thread = "link" /\ t.op = "add" => link[c] = "register"
  BY <1>1 DEF OrderInv, RequestsInOrder, CallersWait, Alloc, Waits
<1> HIDE DEF t, c
<1>6. GoneIsGone'
  BY <1>1, <1>2, <1>4 DEF OrderInv, GoneIsGone
<1>7. \A j \in DOMAIN tasks : j \in Nat /\ i \in Nat
  BY LenProperties DEF StateOK, QueueOK
<1>8. ASSUME NEW x \in Clients, link'[x] # "gone", NEW k \in DOMAIN tasks', Alloc(k, x)'
      PROVE  /\ link'[x] \in {"down", "alloc"}
             /\ ~tasks'[k].late =>
                  /\ link'[x] = "alloc"
                  /\ \A j \in DOMAIN tasks' : tasks'[j].client = x => j <= k
  <2>1. Alloc(k, x) /\ k \in DOMAIN tasks /\ link[x] # "gone"
    BY <1>1, <1>3, <1>4, <1>8 DEF Alloc
  <2>2. /\ link[x] \in {"down", "alloc"}
        /\ ~tasks[k].late =>
             /\ link[x] = "alloc"
             /\ \A j \in DOMAIN tasks : tasks[j].client = x => j <= k
    BY <2>1 DEF OrderInv, RequestsInOrder
  <2>3. CASE x # c \/ t.thread = "app"
    BY <1>1, <1>3, <1>4, <2>1, <2>2, <2>3
  <2>4. CASE x = c /\ t.thread = "link"
    <3>1. t.op = "alloc" /\ link'[x] = "down"
      BY <1>1, <1>4, <1>5, <2>2, <2>4
    <3>2. tasks'[k].late
      <4>1. ASSUME ~tasks'[k].late PROVE FALSE
        <5>1. k # i /\ ~tasks[k].late
          BY <1>3, <2>1, <4>1
        <5>2. i <= k /\ k <= i
          BY <1>5, <2>1, <2>2, <2>4, <3>1, <5>1 DEF Alloc, c, t
        <5>3. QED
          BY <1>7, <2>1, <5>1, <5>2
      <4>2. QED
        BY <4>1
    <3>3. QED
      BY <3>1, <3>2
  <2>5. QED
    BY <1>1, <2>3, <2>4
<1>9. ASSUME NEW x \in Clients, link'[x] # "gone", fd'[x] # None
      PROVE  Linked(x)'
  BY <1>1, <1>2, <1>4, <1>5, <1>9 DEF OrderInv, RequestsInOrder, Linked
<1>10. RequestsInOrder'
  BY <1>8, <1>9 DEF RequestsInOrder
<1>11. ASSUME NEW x \in Clients, link'[x] # "gone", NEW k \in DOMAIN tasks'
       PROVE  /\ Waits(k, x, "app")' =>
                   /\ app'[x].pc = "waiting"
                   /\ tasks'[k].op = app'[x].op /\ tasks'[k].types = app'[x].types
                   /\ \A j \in DOMAIN tasks' : Waits(j, x, "app")' => j = k
              /\ Waits(k, x, "link")' =>
                   /\ tasks'[k].op = "add" => link'[x] = "register"
                   /\ \A j \in DOMAIN tasks' : Waits(j, x, "link")' => j = k
  <2>1. link[x] # "gone" /\ k \in DOMAIN tasks
    BY <1>1, <1>3, <1>4, <1>11
  <2>2. \A j \in DOMAIN tasks' : \A thread \in {"app", "link"} :
          Waits(j, x, thread)' => Waits(j, x, thread) /\ j # i /\ tasks'[j] = tasks[j]
    BY <1>3 DEF Waits
  <2>3. Waits(i, c, t.thread)
    BY <1>1 DEF Waits, t, c
  <2>4. /\ Waits(k, x, "app")' => ~(x = c /\ t.thread = "app")
        /\ Waits(k, x, "link")' => ~(x = c /\ t.thread = "link")
    BY <1>3, <1>11, <2>1, <2>2, <2>3 DEF OrderInv, CallersWait
  <2>5. /\ Waits(k, x, "app")' => app'[x] = app[x]
        /\ Waits(k, x, "link")' => link'[x] = link[x]
    BY <1>1, <1>4, <2>4
  <2>6. QED
    BY <1>3, <2>1, <2>2, <2>5 DEF OrderInv, CallersWait
<1>12. CallersWait'
  BY <1>11 DEF CallersWait
<1>13. QED
  BY <1>6, <1>10, <1>12 DEF OrderInv
(* A call is posted by a thread that nothing else is under way for. *)
LEMMA PostKeepsOrder ==
  ASSUME StateOK, OrderInv, StateOK', UNCHANGED fd, NEW c \in Clients, link[c] # "gone",
         \/ /\ link[c] = "down" /\ link'[c] = "alloc" /\ app'[c] = app[c]
            /\ Post(c, "link", "alloc", {})
         \/ /\ link[c] = "read" /\ link'[c] = "register" /\ app'[c] = app[c]
            /\ Post(c, "link", "add", read[c])
         \/ /\ link'[c] = link[c] /\ link[c] # "alloc" /\ app[c].pc = "calling" /\ app'[c].pc = "waiting"
            /\ app'[c].op = app[c].op /\ app'[c].types = app[c].types
            /\ app[c].op # "alloc"
            /\ Post(c, "app", app[c].op, app[c].types),
         \A x \in Clients : x # c => link'[x] = link[x] /\ app'[x] = app[x]
  PROVE  OrderInv'
<1>1. PICK thread \in {"app", "link"}, op \in {"alloc", "add", "remove"}, types \in SUBSET Types :
        /\ Post(c, thread, op, types)
        /\ \/ thread = "link" /\ op = "alloc" /\ link[c] = "down" /\ link'[c] = "alloc" /\ app'[c] = app[c]
           \/ thread = "link" /\ op = "add" /\ link[c] = "read" /\ link'[c] = "register" /\ app'[c] = app[c]
           \/ /\ thread = "app" /\ op # "alloc" /\ link'[c] = link[c] /\ link[c] # "alloc"
              /\ app[c].pc = "calling" /\ app'[c].pc = "waiting"
              /\ app'[c].op = op /\ app'[c].types = types
  <2>1. read[c] \in SUBSET Types
    BY DEF StateOK, LinkOK
  <2>2. app[c].pc = "calling" => app[c].op \in {"add", "remove"} /\ app[c].types \in SUBSET Types
    BY IdleOrCalling DEF StateOK, Calling
  <2>3. QED
    BY <2>1, <2>2
<1> DEFINE t == [client |-> c, thread |-> thread, op |-> op, types |-> types, late |-> FALSE, expired |-> FALSE]
<1>2. t \in Task /\ t.client = c /\ t.thread = thread /\ t.op = op /\ t.types = types /\ ~t.late
  BY DEF Task
<1>3. tasks' = Append(tasks, t) /\ tasks \in Seq(Task)
  BY <1>1 DEF Post, StateOK, QueueOK
<1> HIDE DEF t
<1>4. PICK n :
      /\ \A i \in DOMAIN tasks : i \in Nat /\ i < n /\ i \in DOMAIN tasks' /\ tasks'[i] = tasks[i]
      /\ n \in DOMAIN tasks' /\ tasks'[n] = t /\ n \in Nat
      /\ \A i \in DOMAIN tasks' : i \in DOMAIN tasks \/ i = n
  BY <1>2, <1>3, PostedIsLast
<1>5. \A i \in DOMAIN tasks : \A x \in Clients : \A w \in {"app", "link"} :
        Waits(i, x, w)' => Waits(i, x, w)
  BY <1>4 DEF Waits
<1>6. \A x \in Clients : \A w \in {"app", "link"} : Waits(n, x, w)' => x = c /\ w = thread
  BY <1>2, <1>4 DEF Waits
<1>7. \A i \in DOMAIN tasks : ~Waits(i, c, thread)
  <2>1. thread = "link" => \A i \in DOMAIN tasks : ~Waits(i, c, "link")
    <3>1. SUFFICES ASSUME thread = "link", NEW i \in DOMAIN tasks, Waits(i, c, "link") PROVE FALSE
      OBVIOUS
    <3>2. tasks[i] \in Task
      BY <1>3, ElementOfSeq, LenProperties
    <3>3. tasks[i].op \in {"alloc", "add"}
      BY <3>1, <3>2 DEF Waits, StateOK, QueueOK, Task
    <3>4. QED
      BY <1>1, <3>1, <3>3 DEF Waits, OrderInv, CallersWait, RequestsInOrder, Alloc
  <2>2. thread = "app" => \A i \in DOMAIN tasks : ~Waits(i, c, "app")
    BY <1>1 DEF OrderInv, CallersWait
  <2>3. QED
    BY <2>1, <2>2
<1>8. GoneIsGone'
  BY <1>1 DEF OrderInv, GoneIsGone
<1>9. ASSUME NEW x \in Clients, link'[x] # "gone", NEW i \in DOMAIN tasks', Alloc(i, x)'
      PROVE  /\ link'[x] \in {"down", "alloc"}
             /\ ~tasks'[i].late =>
                  /\ link'[x] = "alloc"
                  /\ \A j \in DOMAIN tasks' : tasks'[j].client = x => j <= i
  <2>1. CASE i = n
    <3>1. x = c /\ op = "alloc"
      BY <1>2, <1>4, <1>9, <2>1 DEF Alloc
    <3>2. \A j \in DOMAIN tasks' : j <= n
      BY <1>4
    <3>3. QED
      BY <1>1, <2>1, <3>1, <3>2
  <2>2. CASE i \in DOMAIN tasks
    <3>1. Alloc(i, x) /\ link[x] # "gone" /\ tasks'[i] = tasks[i]
      BY <1>1, <1>4, <1>9, <2>2 DEF Alloc
    <3>2. /\ link[x] \in {"down", "alloc"}
          /\ ~tasks[i].late =>
               /\ link[x] = "alloc"
               /\ \A j \in DOMAIN tasks : tasks[j].client = x => j <= i
      BY <2>2, <3>1 DEF OrderInv, RequestsInOrder
    <3>3. CASE x = c
      BY <1>1, <3>1, <3>2, <3>3
    <3>4. CASE x # c
      BY <1>2, <1>4, <3>1, <3>2, <3>4
    <3>5. QED
      BY <3>3, <3>4
  <2>3. QED
    BY <1>4, <2>1, <2>2
<1>10. ASSUME NEW x \in Clients, link'[x] # "gone", fd'[x] # None
       PROVE  Linked(x)'
  BY <1>1, <1>10 DEF OrderInv, RequestsInOrder, Linked
<1>11. RequestsInOrder'
  BY <1>9, <1>10 DEF RequestsInOrder
<1>12. ASSUME NEW x \in Clients, link'[x] # "gone", NEW i \in DOMAIN tasks', Waits(i, x, "app")'
       PROVE  /\ app'[x].pc = "waiting"
              /\ tasks'[i].op = app'[x].op /\ tasks'[i].types = app'[x].types
              /\ \A j \in DOMAIN tasks' : Waits(j, x, "app")' => j = i
  <2>1. CASE i = n
    <3>1. x = c /\ thread = "app" /\ tasks'[i] = t
      BY <1>4, <1>6, <1>12, <2>1
    <3>2. \A j \in DOMAIN tasks' : Waits(j, x, "app")' => j = i
      BY <1>4, <1>5, <1>7, <2>1, <3>1
    <3>3. QED
      BY <1>1, <1>2, <3>1, <3>2
  <2>2. CASE i \in DOMAIN tasks
    <3>1. Waits(i, x, "app") /\ tasks'[i] = tasks[i] /\ link[x] # "gone"
      BY <1>1, <1>4, <1>5, <1>12, <2>2
    <3>2. /\ app[x].pc = "waiting"
          /\ tasks[i].op = app[x].op /\ tasks[i].types = app[x].types
          /\ \A j \in DOMAIN tasks : Waits(j, x, "app") => j = i
      BY <2>2, <3>1 DEF OrderInv, CallersWait
    <3>3. ~(x = c /\ thread = "app")
      BY <1>7, <2>2, <3>1
    <3>4. \A j \in DOMAIN tasks' : Waits(j, x, "app")' => j = i
      BY <1>4, <1>5, <1>6, <3>2, <3>3
    <3>5. app'[x] = app[x]
      BY <1>1, <3>3
    <3>6. QED
      BY <3>1, <3>2, <3>4, <3>5
  <2>3. QED
    BY <1>4, <2>1, <2>2
<1>13. ASSUME NEW x \in Clients, link'[x] # "gone", NEW i \in DOMAIN tasks', Waits(i, x, "link")'
       PROVE  /\ tasks'[i].op = "add" => link'[x] = "register"
              /\ \A j \in DOMAIN tasks' : Waits(j, x, "link")' => j = i
  <2>1. CASE i = n
    <3>1. x = c /\ thread = "link" /\ tasks'[i] = t
      BY <1>4, <1>6, <1>13, <2>1
    <3>2. \A j \in DOMAIN tasks' : Waits(j, x, "link")' => j = i
      BY <1>4, <1>5, <1>7, <2>1, <3>1
    <3>3. QED
      BY <1>1, <1>2, <3>1, <3>2
  <2>2. CASE i \in DOMAIN tasks
    <3>1. Waits(i, x, "link") /\ tasks'[i] = tasks[i] /\ link[x] # "gone"
      BY <1>1, <1>4, <1>5, <1>13, <2>2
    <3>2. /\ tasks[i].op = "add" => link[x] = "register"
          /\ \A j \in DOMAIN tasks : Waits(j, x, "link") => j = i
      BY <2>2, <3>1 DEF OrderInv, CallersWait
    <3>3. ~(x = c /\ thread = "link")
      BY <1>7, <2>2, <3>1
    <3>4. \A j \in DOMAIN tasks' : Waits(j, x, "link")' => j = i
      BY <1>4, <1>5, <1>6, <3>2, <3>3
    <3>5. link'[x] = link[x]
      BY <1>1, <3>3
    <3>6. QED
      BY <3>1, <3>2, <3>4, <3>5
  <2>3. QED
    BY <1>4, <2>1, <2>2
<1>14. CallersWait'
  BY <1>12, <1>13 DEF CallersWait
<1>15. QED
  BY <1>8, <1>11, <1>14 DEF OrderInv

(* A thread that nothing is under way for may do something else. *)
Elsewhere(c) ==
  \/ link'[c] = "gone" /\ fd'[c] = None /\ app'[c] = Idle
  \/ /\ link'[c] = link[c]
     /\ fd'[c] = fd[c]
     /\ app'[c] = app[c] \/ (app[c].pc # "waiting" /\ link[c] # "gone")
  \/ /\ link[c] \in {"open", "read"} /\ link'[c] \in {"read", "up"}
     /\ fd'[c] = fd[c] /\ app'[c] = app[c]
  \/ /\ link[c] = "up" /\ link'[c] = "down"
     /\ fd'[c] = None /\ app'[c] = app[c]

LEMMA OthersKeepOrder ==
  ASSUME OrderInv, UNCHANGED tasks, \A c \in Clients : Elsewhere(c)
  PROVE  OrderInv'
<1>1. GoneIsGone'
  BY DEF Elsewhere, OrderInv, GoneIsGone
<1>2. ASSUME NEW c \in Clients, link'[c] # "gone"
      PROVE  /\ \A i \in DOMAIN tasks' : Alloc(i, c)' =>
                  /\ link'[c] \in {"down", "alloc"}
                  /\ ~tasks'[i].late =>
                       /\ link'[c] = "alloc"
                       /\ \A j \in DOMAIN tasks' : tasks'[j].client = c => j <= i
             /\ fd'[c] # None => Linked(c)'
  <2>1. link[c] # "gone"
    BY <1>2 DEF Elsewhere, OrderInv, GoneIsGone
  <2>2. \A i \in DOMAIN tasks : Alloc(i, c) => link'[c] = link[c]
    BY <1>2, <2>1 DEF Elsewhere, OrderInv, RequestsInOrder
  <2>3. fd'[c] # None => Linked(c)'
    BY <1>2, <2>1 DEF Elsewhere, OrderInv, RequestsInOrder, Linked
  <2>4. QED
    BY <2>1, <2>2, <2>3 DEF OrderInv, RequestsInOrder, Alloc
<1>3. RequestsInOrder'
  BY <1>2 DEF RequestsInOrder
<1>4. ASSUME NEW c \in Clients, link'[c] # "gone", NEW i \in DOMAIN tasks'
      PROVE  /\ Waits(i, c, "app")' =>
                  /\ app'[c].pc = "waiting"
                  /\ tasks'[i].op = app'[c].op /\ tasks'[i].types = app'[c].types
                  /\ \A j \in DOMAIN tasks' : Waits(j, c, "app")' => j = i
             /\ Waits(i, c, "link")' =>
                  /\ tasks'[i].op = "add" => link'[c] = "register"
                  /\ \A j \in DOMAIN tasks' : Waits(j, c, "link")' => j = i
  <2>1. link[c] # "gone"
    BY <1>4 DEF Elsewhere, OrderInv, GoneIsGone
  <2>2. \A j \in DOMAIN tasks : \A w : Waits(j, c, w)' <=> Waits(j, c, w)
    BY DEF Waits
  <2>3. QED
    BY <1>4, <2>1, <2>2 DEF Elsewhere, OrderInv, CallersWait
<1>5. CallersWait'
  BY <1>4 DEF CallersWait
<1>6. QED
  BY <1>1, <1>3, <1>5 DEF OrderInv

LEMMA CrashKeepsOrder ==
  ASSUME StateOK, OrderInv, Crash
  PROVE  OrderInv'
<1>1. tasks' = <<>> /\ UNCHANGED fd
      /\ \A c \in Clients : link'[c] = CASE link[c] = "alloc" -> "down" [] link[c] = "register" -> "up" [] OTHER -> link[c]
  BY DEF Crash
<1>2. DOMAIN tasks' = {}
  BY <1>1
<1>3. \A c \in Clients : (link'[c] = "gone" <=> link[c] = "gone") /\ (Linked(c) => Linked(c)')
  BY <1>1 DEF Linked
<1>4. \A c \in Clients : app[c] = Idle => app'[c] = Idle
  BY DEF Crash, Idle
<1>5. QED
  BY <1>1, <1>2, <1>3, <1>4 DEF OrderInv, GoneIsGone, RequestsInOrder, CallersWait

LEMMA OrderStep ==
  ASSUME StateOK, OrderInv, StateOK', Next
  PROVE  OrderInv'
<1>1. /\ link \in [Clients -> {"down", "alloc", "open", "read", "register", "up", "gone"}]
      /\ app \in [Clients -> {Idle} \cup Calling] /\ fd \in [Clients -> Sockets \cup {None}]
  BY DEF StateOK, LinkOK, AppOK
<1>2. CASE RunTask \/ DiscardTask
  BY <1>2, RunTaskKeepsOrder, DiscardKeepsOrder
<1>3. CASE Crash
  BY <1>3, CrashKeepsOrder
<1>4. ASSUME NEW i \in DOMAIN tasks, GiveUp(i)
      PROVE  OrderInv'
  BY <1>4, GiveUpKeepsOrder
<1>5. CASE UNCHANGED <<tasks, link, app, fd>>
  BY <1>5, OthersKeepOrder DEF Elsewhere
<1>6. ASSUME NEW c \in Clients, OnReconnect(c)
      PROVE  OrderInv'
  <2>1. UNCHANGED fd /\ link[c] = "down" /\ Post(c, "link", "alloc", {}) /\ UNCHANGED app
    BY <1>6 DEF OnReconnect, appVars
  <2>2. link'[c] = "alloc" /\ \A x \in Clients : x # c => link'[x] = link[x]
    BY <1>1, <1>6 DEF OnReconnect
  <2>3. QED
    BY <2>1, <2>2, PostKeepsOrder
<1>7. ASSUME NEW c \in Clients, OnConnectedRegisters(c)
      PROVE  OrderInv'
  <2>1. UNCHANGED <<fd, app>> /\ link[c] = "read"
    BY <1>7 DEF OnConnectedRegisters, appVars
  <2>2. CASE Connected(c) = "live"
    <3>1. link'[c] = "register" /\ Post(c, "link", "add", read[c]) /\ \A x \in Clients : x # c => link'[x] = link[x]
      BY <1>1, <1>7, <2>2 DEF OnConnectedRegisters
    <3>2. QED
      BY <2>1, <3>1, PostKeepsOrder
  <2>3. CASE Connected(c) # "live"
    <3>1. link'[c] = "up" /\ UNCHANGED tasks /\ \A x \in Clients : x # c => link'[x] = link[x]
      BY <1>1, <1>7, <2>3 DEF OnConnectedRegisters
    <3>2. QED
      BY <2>1, <3>1, OthersKeepOrder DEF Elsewhere
  <2>4. QED
    BY <2>2, <2>3
<1>8. ASSUME NEW c \in Clients, OnConnectedReads(c)
      PROVE  OrderInv'
  <2>1. UNCHANGED <<tasks, fd, app>> /\ link[c] = "open"
    BY <1>8 DEF OnConnectedReads, appVars
  <2>2. link'[c] \in {"read", "up"} /\ \A x \in Clients : x # c => link'[x] = link[x]
    BY <1>1, <1>8 DEF OnConnectedReads
  <2>3. QED
    BY <2>1, <2>2, OthersKeepOrder DEF Elsewhere
<1>9. ASSUME NEW c \in Clients, OnDisconnected(c)
      PROVE  OrderInv'
  <2>1. UNCHANGED <<tasks, app>> /\ link[c] = "up" /\ link'[c] = "down" /\ fd'[c] = None
        /\ \A x \in Clients : x # c => link'[x] = link[x] /\ fd'[x] = fd[x]
    BY <1>1, <1>9 DEF OnDisconnected, appVars
  <2>2. QED
    BY <2>1, OthersKeepOrder DEF Elsewhere
<1>10. ASSUME NEW c \in Clients, Call(c)
       PROVE  OrderInv'
  <2>1. UNCHANGED <<fd, link>> /\ link[c] # "alloc" /\ app[c].pc = "calling" /\ app[c] \in Calling
    BY <1>10, IdleOrCalling DEF Call, linkVars, StateOK
  <2>2. CASE Connected(c) = "live"
    <3>1. /\ app'[c] = [app[c] EXCEPT !.pc = "waiting"] /\ Post(c, "app", app[c].op, app[c].types)
          /\ \A x \in Clients : x # c => app'[x] = app[x]
      BY <1>1, <1>10, <2>2 DEF Call
    <3>2. app'[c].pc = "waiting" /\ app'[c].op = app[c].op /\ app'[c].types = app[c].types /\ app[c].op # "alloc"
      BY <2>1, <3>1, CallGoesOn DEF Calling
    <3>3. link[c] # "gone"
      BY <2>1 DEF OrderInv, GoneIsGone, Idle
    <3>4. QED
      BY <2>1, <3>1, <3>2, <3>3, PostKeepsOrder
  <2>3. CASE Connected(c) # "live"
    <3>1. UNCHANGED tasks /\ \A x \in Clients : x # c => app'[x] = app[x]
      BY <1>1, <1>10, <2>3 DEF Call
    <3>2. link[c] # "gone"
      BY <2>1 DEF OrderInv, GoneIsGone, Idle
    <3>3. QED
      BY <2>1, <3>1, <3>2, OthersKeepOrder DEF Elsewhere
  <2>4. QED
    BY <2>2, <2>3
<1>11. ASSUME NEW c \in Clients, Refused(c)
       PROVE  OrderInv'
  <2>1. UNCHANGED <<tasks, fd, link>> /\ app[c].pc = "refused"
        /\ \A x \in Clients : x # c => app'[x] = app[x]
    BY <1>1, <1>11 DEF Refused, linkVars
  <2>2. link[c] # "gone"
    BY <2>1 DEF OrderInv, GoneIsGone, Idle
  <2>3. QED
    BY <2>1, <2>2, OthersKeepOrder DEF Elsewhere
<1>12. ASSUME NEW c \in Clients, Exit(c)
       PROVE  OrderInv'
  <2>1. UNCHANGED tasks /\ link'[c] = "gone" /\ fd'[c] = None /\ app'[c] = Idle
        /\ \A x \in Clients : x # c => link'[x] = link[x] /\ fd'[x] = fd[x] /\ app'[x] = app[x]
    BY <1>1, <1>12 DEF Exit
  <2>2. QED
    BY <2>1, OthersKeepOrder DEF Elsewhere
<1>13. ASSUME NEW c \in Clients, NEW op, NEW handler, NEW newHandlers, Change(c, op, handler, newHandlers)
       PROVE  OrderInv'
  <2>1. UNCHANGED <<tasks, fd, link>> /\ app[c].pc # "waiting" /\ link[c] # "gone"
        /\ \A x \in Clients : x # c => app'[x] = app[x]
    BY <1>1, <1>13 DEF Change, linkVars, Idle
  <2>2. QED
    BY <2>1, OthersKeepOrder DEF Elsewhere
<1>14. ASSUME NEW c \in Clients, DeathStep(c)
       PROVE  OrderInv'
  BY <1>5, <1>14 DEF DeathStep, OnDeath, ConnectAgain, linkVars, appVars
<1>15. ASSUME NEW s \in DOMAIN sessions, HangUp(s)
       PROVE  OrderInv'
  BY <1>5, <1>15 DEF HangUp, linkVars, appVars
<1>16. CASE Restart
  BY <1>5, <1>16 DEF Restart, linkVars, appVars
<1>17. QED
  BY <1>2, <1>3, <1>4, <1>6, <1>7, <1>8, <1>9, <1>10, <1>11, <1>12, <1>13, <1>14, <1>15, <1>16
     DEF Next, LinkStep, AppStep, AddHandler, RemoveHandler
-----------------------------------------------------------------------------
(* Calls find their session *)

(* A socket that is made for a process is its last one; no other process has
   it. *)
LEMMA NewSessionIsFound ==
  ASSUME StateOK, OrderInv, CallsFindSession, RunTask, Head(tasks).op = "alloc"
  PROVE  CallsFindSession'
<1> DEFINE t == tasks[1]
           c == t.client
<1>1. 1 \in DOMAIN tasks /\ t \in Task /\ Head(tasks) = t /\ c \in Clients
  <2>1. 1 \in DOMAIN tasks /\ t \in Task /\ Head(tasks) = t
    BY RestMovesUp DEF RunTask, StateOK, QueueOK
  <2>2. QED
    BY <2>1 DEF Task
<1>2. PICK s \in Sockets \ (DOMAIN sessions \cup Range(fd)) :
        /\ AddSession(c, s)
        /\ fd' = IF t.late \/ link[c] = "gone" THEN fd ELSE [fd EXCEPT ![c] = s]
  BY <1>1 DEF RunTask, RunAlloc
<1>3. DOMAIN sessions' = DOMAIN sessions \cup {s}
  BY <1>2 DEF AddSession, With
<1>4. /\ DOMAIN idxPid' = DOMAIN idxPid \cup {c} /\ idxPid'[c] = s
      /\ \A x \in DOMAIN idxPid : x # c => idxPid'[x] = idxPid[x]
  BY <1>2 DEF AddSession, With
<1>5. fd \in [Clients -> Sockets \cup {None}] /\ None \notin DOMAIN sessions'
  BY <1>2, <1>3, RegistryAssumption DEF StateOK, LinkOK, ServerOK
<1>6. t.late \/ link[c] = "gone" => fd[c] = None
  BY <1>1 DEF OrderInv, RequestsInOrder, GoneIsGone, Alloc, Linked
<1> HIDE DEF t, c
<1>7. ASSUME NEW x \in Clients, fd'[x] \in DOMAIN sessions'
      PROVE  Session(x)' = fd'[x]
  <2>1. CASE x = c
    BY <1>1, <1>2, <1>4, <1>5, <1>6, <1>7, <2>1 DEF Session
  <2>2. CASE x # c
    <3>1. fd'[x] = fd[x] /\ fd[x] # s
      BY <1>1, <1>2, <1>5, <2>2 DEF Range
    <3>2. fd[x] \in DOMAIN sessions
      BY <1>3, <1>7, <3>1
    <3>3. Session(x) = fd[x] /\ fd[x] # None
      BY <1>3, <1>5, <3>2 DEF CallsFindSession
    <3>4. QED
      BY <1>4, <2>2, <3>1, <3>3 DEF Session
  <2>3. QED
    BY <2>1, <2>2
<1>8. QED
  BY <1>7 DEF CallsFindSession

(* Only the session of a process that has ended is lost. *)
LEMMA LostSessionIsNobodys ==
  ASSUME StateOK, OrderInv, CallsFindSession, NEW s \in DOMAIN sessions, HangUp(s)
  PROVE  CallsFindSession'
<1>1. sessions[s] \in Clients /\ link[sessions[s]] = "gone" /\ UNCHANGED fd
  BY DEF StateOK, ServerOK, HangUp, linkVars, Range
<1>2. /\ DOMAIN sessions' \subseteq DOMAIN sessions
      /\ DOMAIN idxPid' = DOMAIN idxPid \ {sessions[s]}
      /\ \A x \in DOMAIN idxPid : x # sessions[s] => idxPid'[x] = idxPid[x]
  BY DEF HangUp, DelSession, Without
<1>3. ASSUME NEW x \in Clients, fd'[x] \in DOMAIN sessions'
      PROVE  Session(x)' = fd'[x]
  <2>1. Session(x) = fd[x] /\ fd[x] \in DOMAIN sessions
    BY <1>1, <1>2, <1>3 DEF CallsFindSession
  <2>2. fd[x] # None
    BY <2>1, RegistryAssumption DEF StateOK, ServerOK
  <2>3. x # sessions[s]
    BY <1>1, <2>2 DEF OrderInv, GoneIsGone
  <2>4. QED
    BY <1>1, <1>2, <2>1, <2>2, <2>3 DEF Session
<1>4. QED
  BY <1>3 DEF CallsFindSession

LEMMA SessionsStep ==
  ASSUME StateOK, OrderInv, CallsFindSession, Next
  PROVE  CallsFindSession'
<1>1. fd \in [Clients -> Sockets \cup {None}] /\ None \notin DOMAIN sessions
  BY RegistryAssumption DEF StateOK, LinkOK, ServerOK
<1>2. ASSUME UNCHANGED <<sessions, idxPid>>, \A c \in Clients : fd'[c] \in {fd[c], None}
      PROVE  CallsFindSession'
  BY <1>1, <1>2 DEF CallsFindSession, Session
<1>3. CASE RunTask /\ Head(tasks).op # "alloc"
  <2>1. UNCHANGED <<sessions, idxPid, fd>>
    BY <1>3 DEF RunTask, RunAdd, RunRemove
  <2>2. QED
    BY <1>2, <2>1
<1>4. CASE Crash
  BY <1>4, EmptyApplies DEF Crash, CallsFindSession
<1>5. CASE Restart \/ DiscardTask
  BY <1>2, <1>5 DEF Restart, DiscardTask, serverVars, linkVars
<1>6. ASSUME NEW i \in DOMAIN tasks, GiveUp(i)
      PROVE  CallsFindSession'
  BY <1>2, <1>6 DEF GiveUp, serverVars
<1>7. ASSUME NEW c \in Clients, LinkStep(c) \/ DeathStep(c) \/ AppStep(c) \/ Exit(c)
      PROVE  CallsFindSession'
  <2>1. UNCHANGED <<sessions, idxPid>>
    BY <1>7 DEF LinkStep, OnReconnect, OnConnectedReads, OnConnectedRegisters, OnDisconnected,
                DeathStep, OnDeath, ConnectAgain, AppStep, Call, Refused, Exit, serverVars
  <2>2. UNCHANGED fd \/ fd' = [fd EXCEPT ![c] = None]
    BY <1>7 DEF LinkStep, OnReconnect, OnConnectedReads, OnConnectedRegisters, OnDisconnected,
                DeathStep, OnDeath, ConnectAgain, AppStep, Call, Refused, Exit, linkVars
  <2>3. \A x \in Clients : fd'[x] \in {fd[x], None}
    BY <1>1, <2>2
  <2>4. QED
    BY <1>2, <2>1, <2>3
<1>8. ASSUME NEW c \in Clients, NEW op, NEW handler, NEW newHandlers, Change(c, op, handler, newHandlers)
      PROVE  CallsFindSession'
  BY <1>2, <1>8 DEF Change, linkVars, serverVars
<1>9. QED
  BY <1>3, <1>4, <1>5, <1>6, <1>7, <1>8, NewSessionIsFound, LostSessionIsNobodys
     DEF Next, AddHandler, RemoveHandler

LEMMA InitSessionInv == Init => SessionInv
<1> SUFFICES ASSUME Init PROVE SessionInv
  OBVIOUS
<1> USE DEF Init
<1>1. ServerOK
  BY EmptyApplies DEF ServerOK
<1>2. QueueOK
  BY EmptySeq DEF QueueOK
<1>3. HandlersOK
  BY EmptyApplies DEF HandlersOK
<1>4. AppOK
  BY DEF AppOK
<1>5. LinkOK /\ ReadIsSome
  BY DEF LinkOK, ReadIsSome
<1>6. OrderInv
  BY DEF OrderInv, RequestsInOrder, GoneIsGone, CallersWait
<1>7. CallsFindSession
  BY EmptyApplies DEF CallsFindSession
<1>8. QED
  BY <1>1, <1>2, <1>3, <1>4, <1>5, <1>6, <1>7 DEF SessionInv, StateOK

LEMMA SessionInvIsInductive == SessionInv /\ [Next]_vars => SessionInv'
<1>1. CASE SessionInv /\ Next
  <2>1. StateOK /\ OrderInv /\ CallsFindSession
    BY <1>1 DEF SessionInv
  <2>2. StateOK'
    BY <1>1, <2>1, StateStep DEF OrderInv
  <2>3. OrderInv'
    BY <1>1, <2>1, <2>2, OrderStep
  <2>4. CallsFindSession'
    BY <1>1, <2>1, SessionsStep
  <2>5. QED
    BY <2>2, <2>3, <2>4 DEF SessionInv
<1>2. CASE SessionInv /\ UNCHANGED vars
  BY <1>2 DEF SessionInv, StateOK, ServerOK, QueueOK, HandlersOK, AppOK, LinkOK, ReadIsSome,
              OrderInv, RequestsInOrder, GoneIsGone, CallersWait, Alloc, Linked, Waits,
              CallsFindSession, Session, vars, serverVars, linkVars, appVars
<1>3. QED
  BY <1>1, <1>2

LEMMA SessionsHold == Spec => []SessionInv
  BY InitSessionInv, SessionInvIsInductive, PTL DEF Spec

(* The tables of the service agree with each other, and what the applications
   and their connections hold is what its type says: in particular no process
   is indexed under a session that is not its own, and no monitor outlives
   its session. *)
THEOREM RegistryIsTyped == Spec => []TypeOK
<1>1. SessionInv => TypeOK
  BY StateIsTyped DEF SessionInv
<1>2. QED
  BY <1>1, SessionsHold, PTL

(* GetSessionByPid finds the session of the application that calls, however
   many sockets were made for calls that it had given up. *)
THEOREM CallsAreFound == Spec => []CallsFindSession
<1>1. SessionInv => CallsFindSession
  BY DEF SessionInv
<1>2. QED
  BY <1>1, SessionsHold, PTL
-----------------------------------------------------------------------------
(* What a step leaves alone *)

(* A connection stays as sound as it was while nothing of it changes: its
   tasks may move up by k places. *)
LEMMA SoundStays ==
  ASSUME NEW x \in Clients, Sound(x), NEW k \in {0, 1},
         link'[x] = link[x], app'[x] = app[x], read'[x] = read[x], handlers'[x] = handlers[x],
         Registered(x)' = Registered(x),
         DOMAIN tasks \subseteq Nat, DOMAIN tasks' \subseteq Nat,
         \A j \in DOMAIN tasks' : tasks'[j].client = x => j + k \in DOMAIN tasks /\ tasks'[j] = tasks[j + k],
         \A i \in DOMAIN tasks : tasks[i].client = x => i - k \in DOMAIN tasks' /\ tasks'[i - k] = tasks[i]
  PROVE  Sound(x)'
<1>1. /\ Union(x)' = Union(x) /\ Before(x)' = Before(x)
      /\ \A op \in {"add", "remove"} : Busy(x, op)' <=> Busy(x, op)
  BY DEF Union, Before, Busy, Idle
<1>2. KnownWhenOpen(x)' /\ KnownWhenRead(x)' /\ KnownWhenUp(x)'
  BY <1>1 DEF Sound, KnownWhenOpen, KnownWhenRead, KnownWhenUp, Busy, Idle
<1>3. \A j \in DOMAIN tasks' : \A w \in {"app", "link"} :
        Waits(j, x, w)' => j + k \in DOMAIN tasks /\ Waits(j + k, x, w) /\ tasks'[j] = tasks[j + k]
  BY DEF Waits
<1>4. KnownWhenRegistering(x)'
  BY <1>1, <1>3 DEF Sound, KnownWhenRegistering, Busy, Idle
<1>5. ASSUME link'[x] = "register"
      PROVE  \E i \in DOMAIN tasks' :
               /\ Waits(i, x, "link")'
               /\ \A j \in DOMAIN tasks' : Waits(j, x, "app")' => i < j
  <2>1. PICK i \in DOMAIN tasks :
          Waits(i, x, "link") /\ \A j \in DOMAIN tasks : Waits(j, x, "app") => i < j
    BY <1>5 DEF Sound, QueueOf
  <2>2. i - k \in DOMAIN tasks' /\ tasks'[i - k] = tasks[i]
    BY <2>1 DEF Waits
  <2>3. Waits(i - k, x, "link")'
    BY <2>1, <2>2 DEF Waits
  <2>4. \A j \in DOMAIN tasks' : Waits(j, x, "app")' => i < j + k
    BY <1>3, <2>1
  <2>5. \A j \in DOMAIN tasks' : Waits(j, x, "app")' => i - k < j
    BY <2>4
  <2>6. QED
    BY <2>2, <2>3, <2>5
<1>6. \A j \in DOMAIN tasks' : tasks'[j].client = x => ~tasks'[j].late
  BY DEF Sound, QueueOf
<1>7. QueueOf(x)'
  BY <1>5, <1>6 DEF QueueOf
<1>8. QED
  BY <1>2, <1>4, <1>7 DEF Sound

(* A call of a process, or a session that is made or lost for it, leaves
   alone what is registered for the connection of another. *)
LEMMA OwnMonitor ==
  ASSUME StateOK, CallsFindSession, NEW x \in Clients, fd[x] \in DOMAIN sessions
  PROVE  /\ fd[x] # None /\ Session(x) = fd[x] /\ sessions[fd[x]] = x
         /\ \A c \in Clients : c # x => Session(c) # fd[x]
<1>1. fd[x] # None /\ Session(x) = fd[x]
  BY RegistryAssumption DEF StateOK, ServerOK, CallsFindSession
<1>2. sessions[fd[x]] = x
  BY <1>1, SessionIsKnown DEF StateOK
<1>3. ASSUME NEW c \in Clients, Session(c) = fd[x]
      PROVE  c = x
  <2>1. sessions[Session(c)] = c
    BY <1>1, <1>3, SessionIsKnown DEF StateOK
  <2>2. QED
    BY <1>2, <1>3, <2>1
<1>4. QED
  BY <1>1, <1>2, <1>3

LEMMA RegisteredStays ==
  ASSUME NEW x \in Clients, fd'[x] = fd[x], NEW s, s # fd[x],
         \/ UNCHANGED monitors
         \/ \E types : monitors' = With(monitors, s, types)
         \/ monitors' = Without(monitors, s)
  PROVE  Registered(x)' = Registered(x)
<1>1. CASE UNCHANGED monitors
  BY <1>1 DEF Registered
<1>2. ASSUME NEW types, monitors' = With(monitors, s, types)
      PROVE  Registered(x)' = Registered(x)
  BY <1>2 DEF Registered, With
<1>3. CASE monitors' = Without(monitors, s)
  BY <1>3 DEF Registered, Without
<1>4. QED
  BY <1>1, <1>2, <1>3

(* A task that runs leaves the other applications alone. *)
LEMMA RunTaskSparesOthers ==
  ASSUME SessionInv, RunTask, NEW x \in Clients, x # tasks[1].client, Certain(x)', Certain(x) => Sound(x)
  PROVE  Sound(x)'
<1> DEFINE t == tasks[1]
           c == t.client
<1>0. StateOK /\ OrderInv /\ CallsFindSession
  BY DEF SessionInv
<1>1. /\ 1 \in DOMAIN tasks /\ t \in Task /\ c \in Clients /\ Head(tasks) = t
      /\ link'[x] = link[x] /\ app'[x] = app[x] /\ fd'[x] = fd[x]
  <2>1. 1 \in DOMAIN tasks /\ c \in Clients /\ link'[x] = link[x] /\ app'[x] = app[x] /\ fd'[x] = fd[x]
    BY <1>0, RunTaskAnswers
  <2>2. Head(tasks) = t /\ t \in Task
    BY <1>0, RestMovesUp DEF RunTask, StateOK, QueueOK
  <2>3. QED
    BY <2>1, <2>2
<1>2. read'[x] = read[x] /\ handlers'[x] = handlers[x]
  BY DEF RunTask
<1>3. doubtful'[x] = doubtful[x]
  <2>1. \E ok \in BOOLEAN : Reply(t, ok)
    BY <1>1 DEF RunTask, RunAlloc, RunAdd, RunRemove
  <2>2. QED
    BY <1>0, <1>1, <2>1 DEF Reply, StateOK, LinkOK
<1>4. fd[x] \in DOMAIN sessions
  <2>1. fd[x] \in DOMAIN sessions'
    BY <1>1 DEF Certain
  <2>2. CASE RunAlloc(t)
    <3>1. PICK s \in Sockets \ (DOMAIN sessions \cup Range(fd)) : AddSession(c, s)
      BY <2>2 DEF RunAlloc
    <3>2. DOMAIN sessions' = DOMAIN sessions \cup {s}
      BY <3>1 DEF AddSession, With
    <3>3. fd[x] # s
      BY <1>0, <3>1 DEF Range, StateOK, LinkOK
    <3>4. QED
      BY <2>1, <3>2, <3>3
  <2>3. CASE RunAdd(t) \/ RunRemove(t)
    BY <2>1, <2>3 DEF RunAdd, RunRemove
  <2>4. QED
    BY <1>1, <2>2, <2>3 DEF RunTask
<1>5. Certain(x)
  BY <1>1, <1>3, <1>4 DEF Certain, Linked
<1>6. Registered(x)' = Registered(x)
  <2>1. Session(c) # fd[x]
    BY <1>0, <1>1, <1>4, OwnMonitor
  <2>2. \/ UNCHANGED monitors
        \/ \E types : monitors' = With(monitors, Session(c), types)
        \/ monitors' = Without(monitors, Session(c))
    BY <1>1 DEF RunTask, RunAlloc, RunAdd, RunRemove, AddMonitor, RemoveMonitor
  <2>3. QED
    BY <1>1, <2>1, <2>2, RegisteredStays
<1>7. /\ DOMAIN tasks \subseteq Nat /\ DOMAIN tasks' \subseteq Nat
      /\ \A j \in DOMAIN tasks' : tasks'[j].client = x => j + 1 \in DOMAIN tasks /\ tasks'[j] = tasks[j + 1]
      /\ \A i \in DOMAIN tasks : tasks[i].client = x => i - 1 \in DOMAIN tasks' /\ tasks'[i - 1] = tasks[i]
  <2>1. tasks \in Seq(Task) /\ tasks # <<>> /\ tasks' = Tail(tasks)
    BY <1>0 DEF RunTask, StateOK, QueueOK
  <2>2. DOMAIN tasks \subseteq Nat /\ DOMAIN tasks' \subseteq Nat
    BY <2>1, RestMovesUp, LenProperties
  <2>3. QED
    BY <2>1, <2>2, RestMovesUp
<1>8. QED
  BY <1>1, <1>2, <1>5, <1>6, <1>7, SoundStays
-----------------------------------------------------------------------------
(* What the task of a process does for its own connection *)

(* A socket that is taken belongs to a session without monitors, and no task
   of the process is left. *)
LEMMA AllocIsSound ==
  ASSUME SessionInv, RunTask, tasks[1].op = "alloc", NEW c \in Clients, c = tasks[1].client, Certain(c)'
  PROVE  Sound(c)'
<1> DEFINE t == tasks[1]
<1>0. StateOK /\ OrderInv /\ CallsFindSession
  BY DEF SessionInv
<1>1. 1 \in DOMAIN tasks /\ t \in Task /\ Head(tasks) = t
  BY <1>0, RestMovesUp DEF RunTask, StateOK, QueueOK
<1>2. c = t.client
  OBVIOUS
<1>3. t.thread = "link" /\ t.op = "alloc"
  BY <1>0, <1>1 DEF StateOK, QueueOK
<1>4. link[c] \in {"down", "alloc", "gone"}
  BY <1>0, <1>1, <1>2, <1>3 DEF OrderInv, RequestsInOrder, Alloc
<1>5. link[c] # "gone" /\ ~t.late
  <2>1. link[c] = "gone" \/ t.late => link'[c] = link[c]
    BY <1>0, <1>2, RunTaskAnswers
  <2>2. link'[c] \in {"open", "read", "register", "up"}
    BY DEF Certain, Linked
  <2>3. QED
    BY <1>4, <2>1, <2>2
<1>6. link'[c] = "open"
  BY <1>0, <1>2, <1>3, <1>5, RunTaskAnswers
<1>7. PICK s \in Sockets \ (DOMAIN sessions \cup Range(fd)) : fd' = [fd EXCEPT ![c] = s] /\ UNCHANGED monitors
  BY <1>1, <1>2, <1>3, <1>5 DEF RunTask, RunAlloc
<1>8. fd'[c] = s /\ s \notin DOMAIN monitors'
  BY <1>0, <1>2, <1>7 DEF StateOK, ServerOK, LinkOK
<1>9. Registered(c)' = {}
  BY <1>8 DEF Registered
<1>10. \A j \in DOMAIN tasks' : tasks'[j].client # c
  <2>1. \A j \in DOMAIN tasks : tasks[j].client = c => j <= 1
    BY <1>0, <1>1, <1>2, <1>3, <1>5 DEF OrderInv, RequestsInOrder, Alloc
  <2>2. \A j \in DOMAIN tasks' : j \in Nat /\ j + 1 \in DOMAIN tasks /\ tasks'[j] = tasks[j + 1] /\ j + 1 # 1
    BY <1>0, RestMovesUp DEF RunTask, StateOK, QueueOK
  <2>3. \A j \in DOMAIN tasks' : ~(j + 1 <= 1)
    BY <2>2
  <2>4. QED
    BY <2>1, <2>2, <2>3
<1>11. QED
  BY <1>6, <1>9, <1>10 DEF Sound, KnownWhenOpen, KnownWhenRead, KnownWhenRegistering, KnownWhenUp, QueueOf

(* What is left alone by a task that adds or removes for its own connection. *)
LEMMA OwnCall ==
  ASSUME SessionInv, RunTask, tasks[1].op # "alloc", NEW c \in Clients, c = tasks[1].client,
         Certain(c)', Certain(c) => Sound(c)
  PROVE  LET t == tasks[1] IN
         /\ 1 \in DOMAIN tasks /\ t \in Task /\ Head(tasks) = t
         /\ Certain(c) /\ Sound(c) /\ ~t.late /\ link[c] # "gone"
         /\ Waits(1, c, t.thread) /\ t.thread \in {"app", "link"} /\ t.op \in {"add", "remove"}
         /\ fd'[c] = fd[c] /\ handlers'[c] = handlers[c]
         /\ Session(c) = fd[c] /\ fd[c] # None
         /\ \A j \in DOMAIN tasks' : j \in Nat /\ j + 1 \in DOMAIN tasks /\ tasks'[j] = tasks[j + 1] /\ j + 1 # 1
<1> DEFINE t == tasks[1]
<1>0. StateOK /\ OrderInv /\ CallsFindSession
  BY DEF SessionInv
<1>1. /\ 1 \in DOMAIN tasks /\ t \in Task /\ Head(tasks) = t
      /\ \A j \in DOMAIN tasks' : j \in Nat /\ j + 1 \in DOMAIN tasks /\ tasks'[j] = tasks[j + 1] /\ j + 1 # 1
  BY <1>0, RestMovesUp DEF RunTask, StateOK, QueueOK
<1>2. t.thread \in {"app", "link"} /\ t.op \in {"add", "remove"} /\ t.late \in BOOLEAN
  BY <1>1 DEF Task
<1>3. UNCHANGED <<sessions, idxPid, fd, handlers>> /\ \E ok \in BOOLEAN : Reply(t, ok)
  BY <1>1, <1>2 DEF RunTask, RunAdd, RunRemove
<1>4. doubtful'[c] \in BOOLEAN /\ (doubtful[c] => doubtful'[c])
  BY <1>0, <1>2, <1>3 DEF Reply, StateOK, LinkOK
<1>5. link[c] # "gone"
  <2>1. link[c] = "gone" => link'[c] = link[c]
    BY <1>0, RunTaskAnswers
  <2>2. QED
    BY <2>1 DEF Certain, Linked
<1>6. Linked(c)
  <2>1. CASE t.late \/ t.thread = "app"
    <3>1. link'[c] = link[c]
      BY <1>0, <1>5, <2>1, RunTaskAnswers
    <3>2. QED
      BY <3>1 DEF Certain, Linked
  <2>2. CASE ~t.late /\ t.thread = "link"
    <3>1. link[c] = "register"
      BY <1>0, <1>5, <2>2, RunTaskAnswers
    <3>2. QED
      BY <3>1 DEF Linked
  <2>3. QED
    BY <1>2, <2>1, <2>2
<1>7. Certain(c) /\ Sound(c)
  BY <1>3, <1>4, <1>6 DEF Certain
<1>8. ~t.late
  BY <1>1, <1>7 DEF Sound, QueueOf
<1>9. Session(c) = fd[c] /\ fd[c] # None
  BY <1>0, <1>7, OwnMonitor DEF Certain
<1>10. QED
  BY <1>1, <1>2, <1>3, <1>5, <1>7, <1>8, <1>9 DEF Waits

(* The registration replaces what the service knew by what OnConnected has
   read. *)
LEMMA RegistrationIsSound ==
  ASSUME SessionInv, RunTask, tasks[1].op # "alloc", tasks[1].thread = "link",
         NEW c \in Clients, c = tasks[1].client, Certain(c)', Certain(c) => Sound(c)
  PROVE  Sound(c)'
<1> DEFINE t == tasks[1]
<1>0. StateOK /\ OrderInv /\ CallsFindSession
  BY DEF SessionInv
<1>1. /\ 1 \in DOMAIN tasks /\ t \in Task /\ Head(tasks) = t
      /\ Certain(c) /\ Sound(c) /\ ~t.late /\ link[c] # "gone"
      /\ Waits(1, c, t.thread)
      /\ fd'[c] = fd[c] /\ handlers'[c] = handlers[c]
      /\ Session(c) = fd[c] /\ fd[c] # None
      /\ \A j \in DOMAIN tasks' : j \in Nat /\ j + 1 \in DOMAIN tasks /\ tasks'[j] = tasks[j + 1] /\ j + 1 # 1
  BY OwnCall
<1>2. app'[c] = app[c] /\ t.op = "add" /\ link[c] = "register" /\ link'[c] = "up"
  BY <1>0, <1>1, RunTaskAnswers
<1>3. RunAdd(t)
  BY <1>1, <1>2 DEF RunTask
<1>4. Cardinality(DOMAIN monitors) < MaxMonitors
  <2>1. ASSUME ~(Cardinality(DOMAIN monitors) < MaxMonitors)
        PROVE  FALSE
    <3>1. Reply(t, FALSE)
      BY <1>3, <2>1 DEF RunAdd
    <3>2. doubtful'[c]
      BY <1>0, <3>1, <1>2 DEF Reply, StateOK, LinkOK
    <3>3. QED
      BY <3>2 DEF Certain
  <2>2. QED
    BY <2>1
<1>5. monitors' = With(monitors, fd[c], t.types)
  BY <1>1, <1>3, <1>4 DEF RunAdd, AddMonitor
<1>6. Registered(c)' = t.types
  BY <1>1, <1>5 DEF Registered, With
<1>7. t.types # {}
  BY <1>0, <1>1, <1>2 DEF StateOK, QueueOK
<1>8. /\ app[c] = Idle => Union(c) = t.types
      /\ Busy(c, "add") => Before(c) = t.types
      /\ app[c].pc # "refused"
  BY <1>1, <1>2 DEF Sound, KnownWhenRegistering
<1>9. KnownWhenUp(c)'
  BY <1>1, <1>2, <1>6, <1>7, <1>8 DEF KnownWhenUp, Union, Before, Busy, Idle
<1>10. QueueOf(c)'
  BY <1>1, <1>2 DEF Sound, QueueOf
<1>11. QED
  BY <1>2, <1>9, <1>10 DEF Sound, KnownWhenOpen, KnownWhenRead, KnownWhenRegistering

(* The call of the application, which is the union of its handlers, replaces
   what the service knew; or it is refused, and what the service knew is the
   union without the handler that will be removed again. *)
LEMMA AnswerIsSound ==
  ASSUME SessionInv, KnowledgeInv, RunTask, tasks[1].op # "alloc", tasks[1].thread = "app",
         NEW c \in Clients, c = tasks[1].client, Certain(c)'
  PROVE  Sound(c)'
<1> DEFINE t == tasks[1]
<1>0. StateOK /\ OrderInv /\ CallsFindSession
  BY DEF SessionInv
<1>1. /\ 1 \in DOMAIN tasks /\ t \in Task /\ Head(tasks) = t
      /\ Certain(c) /\ Sound(c) /\ ~t.late /\ link[c] # "gone"
      /\ Waits(1, c, "app") /\ t.op \in {"add", "remove"}
      /\ fd'[c] = fd[c] /\ handlers'[c] = handlers[c]
      /\ Session(c) = fd[c] /\ fd[c] # None
      /\ \A j \in DOMAIN tasks' : j \in Nat /\ j + 1 \in DOMAIN tasks /\ tasks'[j] = tasks[j + 1] /\ j + 1 # 1
  BY OwnCall DEF KnowledgeInv
<1>2. app[c].pc = "waiting" /\ t.op = app[c].op /\ t.types = app[c].types /\ app[c] # Idle
  BY <1>0, <1>1 DEF OrderInv, CallersWait, Idle
<1>3. t.types = Union(c)
  BY <1>2 DEF KnowledgeInv, CallsAreCurrent
<1>4. link'[c] = link[c]
  BY <1>0, <1>1, RunTaskAnswers
<1>5. link[c] \in {"open", "up"}
  <2>1. link[c] # "register"
    <3>1. ASSUME link[c] = "register" PROVE FALSE
      <4>1. PICK i \in DOMAIN tasks : \A j \in DOMAIN tasks : Waits(j, c, "app") => i < j
        BY <1>1, <3>1 DEF Sound, QueueOf
      <4>2. i < 1 /\ i \in Nat /\ i >= 1
        BY <1>0, <1>1, <4>1, LenProperties DEF StateOK, QueueOK
      <4>3. QED
        BY <4>2
    <3>2. QED
      BY <3>1
  <2>2. link[c] # "read"
    BY <1>1, <1>2 DEF Sound, KnownWhenRead
  <2>3. QED
    BY <1>1, <2>1, <2>2 DEF Certain, Linked
<1>6. QueueOf(c)'
  BY <1>1, <1>4, <1>5 DEF Sound, QueueOf
<1>7. Union(c)' = Union(c)
  BY <1>1 DEF Union
<1>8. CASE t.op = "add" /\ Cardinality(DOMAIN monitors) < MaxMonitors
  <2>1. Registered(c)' = t.types
    BY <1>1, <1>8 DEF RunTask, RunAdd, AddMonitor, Registered, With
  <2>2. Reply(t, TRUE)
    BY <1>1, <1>8 DEF RunTask, RunAdd
  <2>3. app'[c] = Idle
    BY <1>0, <1>1, <2>2 DEF Reply, StateOK, AppOK, Waits
  <2>4. QED
    BY <1>3, <1>4, <1>5, <1>6, <1>7, <2>1, <2>3
       DEF Sound, KnownWhenOpen, KnownWhenRead, KnownWhenRegistering, KnownWhenUp, Busy
<1>9. CASE t.op = "add" /\ ~(Cardinality(DOMAIN monitors) < MaxMonitors)
  <2>1. UNCHANGED monitors /\ Reply(t, FALSE)
    BY <1>1, <1>9 DEF RunTask, RunAdd
  <2>2. Registered(c)' = Registered(c)
    BY <1>1, <2>1 DEF Registered
  <2>3. app'[c] = [app[c] EXCEPT !.pc = "refused"]
    BY <1>0, <1>1, <2>1 DEF Reply, StateOK, AppOK, Waits
  <2>4. app'[c] # Idle /\ app'[c].op = "add" /\ app'[c].handler = app[c].handler
    <3>1. app[c] \in Calling /\ app[c].op = "add"
      BY <1>0, <1>2, <1>9, IdleOrCalling DEF StateOK
    <3>2. PICK b : b = [app[c] EXCEPT !.pc = "refused"]
      OBVIOUS
    <3>3. b # Idle /\ b.op = app[c].op /\ b.handler = app[c].handler
      BY <3>1, <3>2, CallGoesOn
    <3>4. QED
      BY <2>3, <3>1, <3>2, <3>3
  <2>5. Before(c)' = Before(c) /\ Busy(c, "add")
    BY <1>1, <1>2, <1>9, <2>4 DEF Before, Busy
  <2>6. QED
    BY <1>1, <1>4, <1>5, <1>6, <2>2, <2>4, <2>5
       DEF Sound, KnownWhenOpen, KnownWhenRead, KnownWhenRegistering, KnownWhenUp, Busy
<1>10. CASE t.op = "remove"
  <2>1. Reply(t, TRUE) /\ RemoveMonitor(fd[c], t.types)
    BY <1>1, <1>10 DEF RunTask, RunRemove
  <2>2. app'[c] = Idle
    BY <1>0, <1>1, <2>1 DEF Reply, StateOK, AppOK, Waits
  <2>3. /\ Registered(c)' \in {{}, t.types}
        /\ Registered(c) # {} => Registered(c)' = t.types
    BY <1>1, <2>1 DEF RemoveMonitor, Registered, With, Without
  <2>4. QED
    BY <1>1, <1>2, <1>3, <1>4, <1>5, <1>6, <1>7, <1>10, <2>2, <2>3
       DEF Sound, KnownWhenOpen, KnownWhenRead, KnownWhenRegistering, KnownWhenUp, Busy
<1>11. QED
  BY <1>1, <1>8, <1>9, <1>10
-----------------------------------------------------------------------------
(* What the steps of an application do for its own connection *)

ClientStep(c) ==
  \/ LinkStep(c) \/ DeathStep(c) \/ AppStep(c) \/ Exit(c)
  \/ \E op, handler, newHandlers : Change(c, op, handler, newHandlers)

LEMMA ClientPosts ==
  ASSUME StateOK, NEW c \in Clients, ClientStep(c)
  PROVE  \/ UNCHANGED tasks
         \/ \E t \in Task : t.client = c /\ ~t.late /\ tasks' = Append(tasks, t)
<1>1. ASSUME NEW thread \in {"app", "link"}, NEW op \in {"alloc", "add", "remove"},
             NEW types \in SUBSET Types, Post(c, thread, op, types)
      PROVE  \E t \in Task : t.client = c /\ ~t.late /\ tasks' = Append(tasks, t)
  <2> DEFINE t == [client |-> c, thread |-> thread, op |-> op, types |-> types, late |-> FALSE, expired |-> FALSE]
  <2>1. t \in Task /\ t.client = c /\ ~t.late
    BY DEF Task
  <2>2. tasks' = Append(tasks, t)
    BY <1>1 DEF Post
  <2> HIDE DEF t
  <2>3. QED
    BY <2>1, <2>2
<1>2. CASE OnReconnect(c)
  BY <1>1, <1>2 DEF OnReconnect
<1>3. CASE OnConnectedRegisters(c)
  <2>1. read[c] \in SUBSET Types
    BY DEF StateOK, LinkOK
  <2>2. UNCHANGED tasks \/ Post(c, "link", "add", read[c])
    BY <1>3 DEF OnConnectedRegisters
  <2>3. QED
    BY <1>1, <2>1, <2>2
<1>4. CASE Call(c)
  <2>1. app[c].op \in {"add", "remove"} /\ app[c].types \in SUBSET Types
    BY <1>4, IdleOrCalling DEF Call, StateOK, Calling
  <2>2. UNCHANGED tasks \/ Post(c, "app", app[c].op, app[c].types)
    BY <1>4 DEF Call
  <2>3. QED
    BY <1>1, <2>1, <2>2
<1>5. CASE OnConnectedReads(c) \/ OnDisconnected(c) \/ DeathStep(c) \/ Refused(c) \/ Exit(c)
  BY <1>5 DEF OnConnectedReads, OnDisconnected, DeathStep, OnDeath, ConnectAgain, Refused, Exit
<1>6. CASE \E op, handler, newHandlers : Change(c, op, handler, newHandlers)
  BY <1>6 DEF Change
<1>7. QED
  BY <1>2, <1>3, <1>4, <1>5, <1>6 DEF ClientStep, LinkStep, AppStep

(* The steps of one application leave the others alone, and the service. *)
LEMMA ClientStepFrame ==
  ASSUME StateOK, NEW c \in Clients, ClientStep(c)
  PROVE  /\ UNCHANGED serverVars
         /\ \A x \in Clients : x # c =>
              /\ link'[x] = link[x] /\ app'[x] = app[x] /\ fd'[x] = fd[x] /\ read'[x] = read[x]
              /\ handlers'[x] = handlers[x] /\ doubtful'[x] = doubtful[x] /\ proxy'[x] = proxy[x]
<1>1. /\ proxy \in [Clients -> {"none", "live", "dead"}] /\ app \in [Clients -> {Idle} \cup Calling]
      /\ fd \in [Clients -> Sockets \cup {None}]
      /\ link \in [Clients -> {"down", "alloc", "open", "read", "register", "up", "gone"}]
      /\ read \in [Clients -> SUBSET Types] /\ doubtful \in [Clients -> BOOLEAN]
      /\ DOMAIN handlers = Clients
  BY DEF StateOK, LinkOK, AppOK, HandlersOK
<1>2. CASE OnReconnect(c)
  BY <1>1, <1>2 DEF OnReconnect, appVars
<1>3. CASE OnConnectedReads(c)
  BY <1>1, <1>3 DEF OnConnectedReads, appVars
<1>4. CASE OnConnectedRegisters(c)
  BY <1>1, <1>4 DEF OnConnectedRegisters, appVars
<1>5. CASE OnDisconnected(c)
  BY <1>1, <1>5 DEF OnDisconnected, appVars
<1>6. CASE DeathStep(c)
  BY <1>1, <1>6 DEF DeathStep, OnDeath, ConnectAgain, appVars, linkVars
<1>7. CASE Call(c)
  BY <1>1, <1>7 DEF Call, linkVars
<1>8. CASE Refused(c)
  BY <1>1, <1>8 DEF Refused, linkVars
<1>9. CASE Exit(c)
  BY <1>1, <1>9 DEF Exit
<1>10. CASE \E op, handler, newHandlers : Change(c, op, handler, newHandlers)
  BY <1>1, <1>10 DEF Change, linkVars
<1>11. QED
  BY <1>2, <1>3, <1>4, <1>5, <1>6, <1>7, <1>8, <1>9, <1>10 DEF ClientStep, LinkStep, AppStep

LEMMA ClientStepSparesOthers ==
  ASSUME SessionInv, NEW c \in Clients, ClientStep(c), NEW x \in Clients, x # c,
         Certain(x) => Sound(x), Certain(x)'
  PROVE  Sound(x)'
<1>0. StateOK /\ tasks \in Seq(Task)
  BY DEF SessionInv, StateOK, QueueOK
<1>1. /\ UNCHANGED serverVars
      /\ link'[x] = link[x] /\ app'[x] = app[x] /\ fd'[x] = fd[x] /\ read'[x] = read[x]
      /\ handlers'[x] = handlers[x] /\ doubtful'[x] = doubtful[x]
  BY <1>0, ClientStepFrame
<1>2. Sound(x) /\ Registered(x)' = Registered(x)
  BY <1>1 DEF Certain, Linked, Registered, serverVars
<1>3. /\ DOMAIN tasks \subseteq Nat /\ DOMAIN tasks' \subseteq Nat
      /\ \A j \in DOMAIN tasks' : tasks'[j].client = x => j \in DOMAIN tasks /\ tasks'[j] = tasks[j]
      /\ \A i \in DOMAIN tasks : tasks[i].client = x => i \in DOMAIN tasks' /\ tasks'[i] = tasks[i]
  <2>1. DOMAIN tasks \subseteq Nat
    BY <1>0, LenProperties
  <2>2. CASE UNCHANGED tasks
    BY <2>1, <2>2
  <2>3. ASSUME NEW t \in Task, t.client = c, tasks' = Append(tasks, t)
        PROVE  /\ DOMAIN tasks' \subseteq Nat
               /\ \A j \in DOMAIN tasks' : tasks'[j].client = x => j \in DOMAIN tasks /\ tasks'[j] = tasks[j]
               /\ \A i \in DOMAIN tasks : tasks[i].client = x => i \in DOMAIN tasks' /\ tasks'[i] = tasks[i]
    BY <1>0, <2>1, <2>3, PostedIsLast
  <2>4. QED
    BY <1>0, <2>1, <2>2, <2>3, ClientPosts
<1>4. /\ \A j \in DOMAIN tasks' : tasks'[j].client = x => j + 0 \in DOMAIN tasks /\ tasks'[j] = tasks[j + 0]
      /\ \A i \in DOMAIN tasks : tasks[i].client = x => i - 0 \in DOMAIN tasks' /\ tasks'[i - 0] = tasks[i]
  BY <1>3
<1>5. QED
  BY <1>1, <1>2, <1>3, <1>4, SoundStays

(* The calls of the thread that connects. *)
LEMMA ReadIsSound ==
  ASSUME SessionInv, NEW c \in Clients, OnConnectedReads(c), Certain(c) => Sound(c), Certain(c)'
  PROVE  Sound(c)'
<1>0. StateOK
  BY DEF SessionInv
<1>1. /\ link[c] = "open" /\ UNCHANGED <<sessions, monitors, tasks, fd, handlers, app>>
      /\ read'[c] = Union(c) /\ link'[c] = IF Union(c) = {} THEN "up" ELSE "read"
  BY <1>0 DEF OnConnectedReads, serverVars, appVars, StateOK, LinkOK
<1>2. app[c] = Idle /\ ~doubtful[c]
  <2>1. doubtful'[c] = (doubtful[c] \/ app[c] # Idle)
    BY <1>0 DEF OnConnectedReads, StateOK, LinkOK
  <2>2. QED
    BY <2>1 DEF Certain
<1>3. Sound(c)
  BY <1>1, <1>2 DEF Certain, Linked
<1>4. Registered(c)' = Registered(c) /\ Union(c)' = Union(c) /\ Registered(c) \in {{}, Union(c)}
  BY <1>1, <1>2, <1>3 DEF Registered, Union, Sound, KnownWhenOpen
<1>5. QueueOf(c)'
  BY <1>1, <1>3 DEF Sound, QueueOf
<1>6. QED
  BY <1>1, <1>2, <1>4, <1>5 DEF Sound, KnownWhenOpen, KnownWhenRead, KnownWhenRegistering, KnownWhenUp, Busy

LEMMA RegisterIsSound ==
  ASSUME SessionInv, SessionInv', SessionsAreLive, NEW c \in Clients, OnConnectedRegisters(c),
         Certain(c) => Sound(c), Certain(c)'
  PROVE  Sound(c)'
<1>0. StateOK /\ tasks \in Seq(Task) /\ OrderInv /\ OrderInv'
  BY DEF SessionInv, StateOK, QueueOK
<1>1. link[c] = "read" /\ UNCHANGED <<sessions, monitors, fd, handlers, app, doubtful>>
  BY DEF OnConnectedRegisters, serverVars, appVars
<1>2. Certain(c) /\ Sound(c)
  BY <1>1 DEF Certain, Linked
<1>3. Connected(c) = "live"
  BY <1>2 DEF SessionsAreLive, Certain, Connected
<1>4. link'[c] = "register" /\ Post(c, "link", "add", read[c])
  BY <1>0, <1>3 DEF OnConnectedRegisters, StateOK, LinkOK
<1>5. app[c] = Idle /\ read[c] = Union(c) /\ Registered(c) \in {{}, Union(c)}
  BY <1>1, <1>2 DEF Sound, KnownWhenRead
<1>6. Registered(c)' = Registered(c) /\ Union(c)' = Union(c) /\ app'[c] = Idle
  BY <1>1, <1>5 DEF Registered, Union
<1> DEFINE t == [client |-> c, thread |-> "link", op |-> "add", types |-> read[c], late |-> FALSE, expired |-> FALSE]
<1>7. t \in Task /\ t.client = c /\ t.thread = "link" /\ t.types = Union(c) /\ ~t.late
  BY <1>0, <1>5 DEF Task, StateOK, LinkOK
<1>8. tasks' = Append(tasks, t)
  BY <1>4 DEF Post
<1> HIDE DEF t
<1>9. PICK n : /\ \A i \in DOMAIN tasks : i \in DOMAIN tasks' /\ tasks'[i] = tasks[i]
               /\ n \in DOMAIN tasks' /\ tasks'[n] = t
               /\ \A i \in DOMAIN tasks' : i \in DOMAIN tasks \/ i = n
  BY <1>0, <1>7, <1>8, PostedIsLast
<1>10. Waits(n, c, "link")'
  BY <1>7, <1>9 DEF Waits
<1>11. \A i \in DOMAIN tasks' : Waits(i, c, "link")' => i = n
  BY <1>0, <1>4, <1>9, <1>10 DEF OrderInv, CallersWait
<1>12. \A i \in DOMAIN tasks' : ~Waits(i, c, "app")'
  BY <1>0, <1>4, <1>6 DEF OrderInv, CallersWait, Idle
<1>13. KnownWhenRegistering(c)'
  BY <1>5, <1>6, <1>7, <1>9, <1>11 DEF KnownWhenRegistering, Busy, Idle
<1>14. QueueOf(c)'
  BY <1>2, <1>7, <1>9, <1>10, <1>12 DEF Sound, QueueOf
<1>15. QED
  BY <1>4, <1>13, <1>14 DEF Sound, KnownWhenOpen, KnownWhenRead, KnownWhenUp

(* The calls of the thread of the application. *)
LEMMA CallIsSound ==
  ASSUME SessionInv, SessionInv', SessionsAreLive, NEW c \in Clients, Call(c),
         Certain(c) => Sound(c), Certain(c)'
  PROVE  Sound(c)'
<1>0. StateOK /\ tasks \in Seq(Task) /\ OrderInv /\ OrderInv'
  BY DEF SessionInv, StateOK, QueueOK
<1>1. app[c].pc = "calling" /\ UNCHANGED <<sessions, monitors, fd, link, read, handlers, doubtful>>
  BY DEF Call, serverVars, linkVars
<1>2. Certain(c) /\ Sound(c)
  BY <1>1 DEF Certain, Linked
<1>3. Connected(c) = "live"
  BY <1>2 DEF SessionsAreLive, Certain, Connected
<1>4. app[c] \in Calling /\ app[c] # Idle
  BY <1>0, <1>1, IdleOrCalling DEF StateOK, Idle
<1>5. PICK b : b = [app[c] EXCEPT !.pc = "waiting"]
  OBVIOUS
<1>6. b # Idle /\ b.pc = "waiting" /\ b.op = app[c].op /\ b.handler = app[c].handler
  BY <1>4, <1>5, CallGoesOn
<1>7. app'[c] = b /\ Post(c, "app", app[c].op, app[c].types)
  BY <1>0, <1>3, <1>5 DEF Call, StateOK, AppOK
<1> DEFINE t == [client |-> c, thread |-> "app", op |-> app[c].op, types |-> app[c].types, late |-> FALSE, expired |-> FALSE]
<1>8. t \in Task /\ t.client = c /\ t.thread = "app" /\ ~t.late
  BY <1>4 DEF Task, Calling
<1>9. tasks' = Append(tasks, t)
  BY <1>7 DEF Post
<1> HIDE DEF t
<1>10. PICK n : /\ \A i \in DOMAIN tasks : i \in Nat /\ i < n /\ i \in DOMAIN tasks' /\ tasks'[i] = tasks[i]
                /\ n \in DOMAIN tasks' /\ tasks'[n] = t
                /\ \A i \in DOMAIN tasks' : i \in DOMAIN tasks \/ i = n
  BY <1>0, <1>8, <1>9, PostedIsLast
<1>11. /\ Registered(c)' = Registered(c) /\ Union(c)' = Union(c) /\ Before(c)' = Before(c)
       /\ \A op \in {"add", "remove"} : Busy(c, op)' <=> Busy(c, op)
  BY <1>1, <1>4, <1>6, <1>7 DEF Registered, Union, Before, Busy
<1>12. \A i \in DOMAIN tasks' : \A w \in {"app", "link"} :
         Waits(i, c, w)' =>
           (i = n /\ w = "app") \/ (i \in DOMAIN tasks /\ Waits(i, c, w) /\ tasks'[i] = tasks[i])
  BY <1>8, <1>10 DEF Waits
<1>13. KnownWhenOpen(c)' /\ KnownWhenRead(c)' /\ KnownWhenUp(c)'
  BY <1>1, <1>2, <1>4, <1>6, <1>7, <1>11 DEF Sound, KnownWhenOpen, KnownWhenRead, KnownWhenUp, Busy
<1>14. KnownWhenRegistering(c)'
  BY <1>1, <1>2, <1>4, <1>6, <1>7, <1>11, <1>12 DEF Sound, KnownWhenRegistering, Busy
<1>15. QueueOf(c)'
  <2>1. \A j \in DOMAIN tasks' : tasks'[j].client = c => ~tasks'[j].late
    BY <1>2, <1>8, <1>10 DEF Sound, QueueOf
  <2>2. ASSUME link'[c] = "register"
        PROVE  \E i \in DOMAIN tasks' : /\ Waits(i, c, "link")'
                                        /\ \A j \in DOMAIN tasks' : Waits(j, c, "app")' => i < j
    <3>1. PICK i \in DOMAIN tasks :
            Waits(i, c, "link") /\ \A j \in DOMAIN tasks : Waits(j, c, "app") => i < j
      BY <1>1, <1>2, <2>2 DEF Sound, QueueOf
    <3>2. i \in DOMAIN tasks' /\ Waits(i, c, "link")' /\ i < n
      BY <1>10, <3>1 DEF Waits
    <3>3. QED
      BY <1>12, <3>1, <3>2
  <2>3. QED
    BY <2>1, <2>2 DEF QueueOf
<1>16. QED
  BY <1>13, <1>14, <1>15 DEF Sound
(* A handler that was refused is removed again: the union is what it was
   before. *)
LEMMA RefusedIsSound ==
  ASSUME SessionInv, NEW c \in Clients, Refused(c), Certain(c) => Sound(c), Certain(c)'
  PROVE  Sound(c)'
<1>0. StateOK
  BY DEF SessionInv
<1>1. app[c].pc = "refused" /\ UNCHANGED <<sessions, monitors, tasks, fd, link, read, doubtful>>
  BY DEF Refused, serverVars, linkVars
<1>2. Certain(c) /\ Sound(c)
  BY <1>1 DEF Certain, Linked
<1>3. app[c] # Idle /\ app[c].op \in {"add", "remove"}
  BY <1>0, <1>1, IdleOrCalling DEF StateOK, Idle, Calling
<1>4. app'[c] = Idle /\ Registered(c)' = Registered(c)
  BY <1>0, <1>1 DEF Refused, Registered, StateOK, AppOK
<1>5. app[c].op = "add" => Union(c)' = Before(c)
  BY <1>0 DEF Refused, Union, Before, StateOK, HandlersOK
<1>6. link[c] # "register"
  <2>1. link[c] = "register" => \E i \in DOMAIN tasks : Waits(i, c, "link")
    BY <1>2 DEF Sound, QueueOf
  <2>2. QED
    BY <1>1, <1>2, <2>1 DEF Sound, KnownWhenRegistering
<1>7. link[c] # "read"
  BY <1>2, <1>3 DEF Sound, KnownWhenRead
<1>8. link[c] \in {"open", "up"}
  BY <1>2, <1>6, <1>7 DEF Certain, Linked
<1>9. link[c] = "open" => Registered(c) \in {{}, Union(c)'}
  BY <1>1, <1>2, <1>3, <1>5 DEF Sound, KnownWhenOpen, Busy
<1>10. link[c] = "up" => Registered(c) = Union(c)'
  BY <1>1, <1>2, <1>3, <1>5 DEF Sound, KnownWhenUp, Busy
<1>11. QueueOf(c)'
  BY <1>1, <1>2, <1>6 DEF Sound, QueueOf
<1>12. QED
  BY <1>1, <1>4, <1>6, <1>7, <1>9, <1>10, <1>11
     DEF Sound, KnownWhenOpen, KnownWhenRead, KnownWhenRegistering, KnownWhenUp, Busy

(* A handler that is taken out after it was put in leaves what was there. *)
LEMMA AddedIsRemoved ==
  ASSUME NEW f, NEW k, k \notin DOMAIN f, NEW v
  PROVE  Range(Without(With(f, k, v), k)) = Range(f)
<1>1. DOMAIN Without(With(f, k, v), k) = DOMAIN f
  BY DEF With, Without
<1>2. \A x \in DOMAIN f : Without(With(f, k, v), k)[x] = f[x]
  BY DEF With, Without
<1>3. QED
  BY <1>1, <1>2 DEF Range

(* A change that the service needs to know leaves it, until it is called,
   with what it knew before. *)
LEMMA ChangeIsSound ==
  ASSUME SessionInv, NEW c \in Clients, NEW op \in {"add", "remove"}, NEW handler, NEW newHandlers,
         Change(c, op, handler, newHandlers),
         op = "add" => UNION Range(Without(newHandlers, handler)) = Union(c),
         op = "remove" => UNION Range(newHandlers) \subseteq Union(c),
         Certain(c) => Sound(c), Certain(c)'
  PROVE  Sound(c)'
<1>0. StateOK
  BY DEF SessionInv
<1>1. /\ app[c] = Idle /\ UNCHANGED <<sessions, monitors, tasks, fd, link, read>>
      /\ handlers'[c] = newHandlers
  BY <1>0 DEF Change, serverVars, linkVars, StateOK, HandlersOK
<1>2. ~doubtful[c] /\ link[c] # "read"
  <2>1. doubtful'[c] = (doubtful[c] \/ link[c] = "read")
    BY <1>0 DEF Change, StateOK, LinkOK
  <2>2. QED
    BY <2>1 DEF Certain
<1>3. Sound(c)
  BY <1>1, <1>2 DEF Certain, Linked
<1>4. Registered(c)' = Registered(c) /\ Union(c)' = UNION Range(newHandlers)
  BY <1>1 DEF Registered, Union
<1>5. QueueOf(c)'
  BY <1>1, <1>3 DEF Sound, QueueOf, Waits
<1>6. \A i \in DOMAIN tasks' : Waits(i, c, "link")' => Waits(i, c, "link") /\ tasks'[i] = tasks[i]
  BY <1>1 DEF Waits
<1>7. CASE Union(c)' = Union(c)
  <2>1. app'[c] = Idle
    BY <1>0, <1>4, <1>7 DEF Change, StateOK, AppOK
  <2>2. QED
    BY <1>1, <1>2, <1>3, <1>4, <1>5, <1>6, <1>7, <2>1
       DEF Sound, KnownWhenOpen, KnownWhenRead, KnownWhenRegistering, KnownWhenUp, Busy
<1>8. CASE Union(c)' # Union(c)
  <2> DEFINE a == [pc |-> "calling", op |-> op, handler |-> handler, types |-> UNION Range(newHandlers)]
  <2>1. app'[c] = a
    BY <1>0, <1>4, <1>8 DEF Change, StateOK, AppOK
  <2>2. a # Idle /\ a.pc = "calling" /\ a.op = op /\ a.handler = handler
    BY DEF Idle
  <2> HIDE DEF a
  <2>3. op = "add" => Before(c)' = Union(c)
    BY <1>1, <2>1, <2>2 DEF Before
  <2>4. op = "remove" => Union(c) # {}
    BY <1>4, <1>8
  <2>5. KnownWhenOpen(c)' /\ KnownWhenRead(c)' /\ KnownWhenUp(c)'
    BY <1>1, <1>2, <1>3, <1>4, <2>1, <2>2, <2>3, <2>4
       DEF Sound, KnownWhenOpen, KnownWhenRead, KnownWhenUp, Busy
  <2>6. KnownWhenRegistering(c)'
    BY <1>1, <1>3, <1>4, <1>6, <2>1, <2>2, <2>3 DEF Sound, KnownWhenRegistering, Busy
  <2>7. QED
    BY <1>5, <2>5, <2>6 DEF Sound
<1>9. QED
  BY <1>7, <1>8

LEMMA ClientStepIsSound ==
  ASSUME SessionInv, SessionInv', SessionsAreLive, NEW c \in Clients,
         \/ LinkStep(c) \/ DeathStep(c) \/ AppStep(c) \/ Exit(c)
         \/ \E handler \in HandlerIds :
              \/ RemoveHandler(c, handler)
              \/ \E types \in (SUBSET Types) \ {{}} : AddHandler(c, handler, types),
         Certain(c) => Sound(c), Certain(c)'
  PROVE  Sound(c)'
<1>0. StateOK
  BY DEF SessionInv
<1>1. CASE OnReconnect(c) \/ OnDisconnected(c) \/ Exit(c)
  <2>1. link'[c] \in {"alloc", "down", "gone"}
    BY <1>0, <1>1 DEF OnReconnect, OnDisconnected, Exit, StateOK, LinkOK
  <2>2. QED
    BY <2>1 DEF Certain, Linked
<1>2. CASE DeathStep(c)
  <2>1. UNCHANGED <<serverVars, tasks, linkVars, appVars, doubtful>>
    BY <1>2 DEF DeathStep, OnDeath, ConnectAgain
  <2>2. Sound(c)
    BY <2>1 DEF Certain, Linked, serverVars, linkVars
  <2>3. QED
    BY <2>1, <2>2 DEF Sound, KnownWhenOpen, KnownWhenRead, KnownWhenRegistering, KnownWhenUp, QueueOf,
                      Registered, Union, Before, Busy, Waits, serverVars, linkVars, appVars
<1>3. CASE OnConnectedReads(c)
  BY <1>3, ReadIsSound
<1>4. CASE OnConnectedRegisters(c)
  BY <1>4, RegisterIsSound
<1>5. CASE Call(c)
  BY <1>5, CallIsSound
<1>6. CASE Refused(c)
  BY <1>6, RefusedIsSound
<1>7. ASSUME NEW handler \in HandlerIds, RemoveHandler(c, handler)
      PROVE  Sound(c)'
  <2>1. UNION Range(Without(handlers[c], handler)) \subseteq Union(c)
    BY WithoutRange DEF Union
  <2>2. QED
    BY <1>7, <2>1, ChangeIsSound DEF RemoveHandler
<1>8. ASSUME NEW handler \in HandlerIds, NEW types \in (SUBSET Types) \ {{}}, AddHandler(c, handler, types)
      PROVE  Sound(c)'
  <2>1. Range(Without(With(handlers[c], handler, types), handler)) = Range(handlers[c])
    BY <1>8, AddedIsRemoved DEF AddHandler
  <2>2. QED
    BY <1>8, <2>1, ChangeIsSound DEF AddHandler, Union
<1>9. QED
  BY <1>1, <1>2, <1>3, <1>4, <1>5, <1>6, <1>7, <1>8 DEF LinkStep, AppStep
-----------------------------------------------------------------------------
(* The other steps of the service, and of the callers *)

LEMMA HangUpIsSound ==
  ASSUME SessionInv, NEW s \in DOMAIN sessions, HangUp(s), NEW c \in Clients,
         Certain(c) => Sound(c), Certain(c)'
  PROVE  Sound(c)'
<1>1. UNCHANGED <<tasks, fd, link, read, handlers, app, doubtful>>
  BY DEF HangUp, linkVars, appVars
<1>2. DOMAIN sessions' = DOMAIN sessions \ {s} /\ monitors' = Without(monitors, s)
  BY DEF HangUp, DelSession, Without
<1>3. fd[c] \in DOMAIN sessions /\ fd[c] # s
  BY <1>1, <1>2 DEF Certain
<1>4. Sound(c)
  BY <1>1, <1>3 DEF Certain, Linked
<1>5. Registered(c)' = Registered(c)
  BY <1>1, <1>2, <1>3, RegisteredStays
<1>6. tasks \in Seq(Task)
  BY DEF SessionInv, StateOK, QueueOK
<1>7. /\ DOMAIN tasks \subseteq Nat /\ DOMAIN tasks' \subseteq Nat
      /\ \A j \in DOMAIN tasks' : tasks'[j].client = c => j + 0 \in DOMAIN tasks /\ tasks'[j] = tasks[j + 0]
      /\ \A i \in DOMAIN tasks : tasks[i].client = c => i - 0 \in DOMAIN tasks' /\ tasks'[i - 0] = tasks[i]
  BY <1>1, <1>6, LenProperties
<1>8. QED
  BY <1>1, <1>4, <1>5, <1>7, SoundStays

LEMMA GiveUpIsSound ==
  ASSUME SessionInv, NEW k \in DOMAIN tasks, GiveUp(k), NEW c \in Clients,
         Certain(c) => Sound(c), Certain(c)'
  PROVE  Sound(c)'
<1>0. StateOK /\ tasks \in Seq(Task)
  BY DEF SessionInv, StateOK, QueueOK, GiveUp
<1>1. tasks[k].client \in Clients
  <2>1. tasks[k] \in Task
    BY <1>0, ElementOfSeq, LenProperties
  <2>2. QED
    BY <2>1 DEF Task
<1>2. c # tasks[k].client
  <2>1. doubtful'[tasks[k].client]
    BY <1>0, <1>1 DEF GiveUp, StateOK, LinkOK
  <2>2. QED
    BY <2>1 DEF Certain
<1>3. /\ link'[c] = link[c] /\ app'[c] = app[c] /\ doubtful'[c] = doubtful[c]
      /\ UNCHANGED <<sessions, monitors, fd, read, handlers>>
  BY <1>0, <1>1, <1>2 DEF GiveUp, serverVars, StateOK, LinkOK, AppOK
<1>4. Sound(c) /\ Registered(c)' = Registered(c)
  BY <1>3 DEF Certain, Linked, Registered
<1>5. /\ DOMAIN tasks' = DOMAIN tasks /\ DOMAIN tasks \subseteq Nat
      /\ \A j \in DOMAIN tasks : tasks'[j].client = tasks[j].client
      /\ \A j \in DOMAIN tasks : j # k => tasks'[j] = tasks[j]
  BY <1>0, LateKeepsPlace, LenProperties
<1>6. /\ \A j \in DOMAIN tasks' : tasks'[j].client = c => j + 0 \in DOMAIN tasks /\ tasks'[j] = tasks[j + 0]
      /\ \A i \in DOMAIN tasks : tasks[i].client = c => i - 0 \in DOMAIN tasks' /\ tasks'[i - 0] = tasks[i]
  BY <1>2, <1>5
<1>7. QED
  BY <1>3, <1>4, <1>5, <1>6, SoundStays

(* Nothing is discarded of a connection that nothing has made doubtful. *)
LEMMA DiscardIsSound ==
  ASSUME SessionInv, DiscardTask, NEW c \in Clients, Certain(c) => Sound(c), Certain(c)'
  PROVE  Sound(c)'
<1>0. tasks \in Seq(Task) /\ tasks # <<>> /\ tasks' = Tail(tasks)
  BY DEF SessionInv, StateOK, QueueOK, DiscardTask
<1>1. /\ UNCHANGED <<sessions, monitors, fd, link, app, read, handlers, doubtful>>
  BY DEF DiscardTask, serverVars, linkVars, appVars
<1>2. Sound(c) /\ Registered(c)' = Registered(c)
  BY <1>1 DEF Certain, Linked, Registered
<1>3. 1 \in DOMAIN tasks /\ tasks[1].late
  BY <1>0, RestMovesUp DEF DiscardTask, SessionInv, StateOK, QueueOK
<1>4. tasks[1].client # c
  BY <1>2, <1>3 DEF Sound, QueueOf
<1>5. DOMAIN tasks \subseteq Nat /\ DOMAIN tasks' \subseteq Nat
  BY <1>0, RestMovesUp, LenProperties
<1>6. /\ \A j \in DOMAIN tasks' : tasks'[j].client = c => j + 1 \in DOMAIN tasks /\ tasks'[j] = tasks[j + 1]
      /\ \A i \in DOMAIN tasks : tasks[i].client = c => i - 1 \in DOMAIN tasks' /\ tasks'[i - 1] = tasks[i]
  BY <1>0, <1>4, RestMovesUp
<1>7. QED
  BY <1>1, <1>2, <1>5, <1>6, SoundStays

LEMMA KnowledgeStep ==
  ASSUME SessionInv, SessionInv', KnowledgeInv, Next, NEW c \in Clients, Certain(c)'
  PROVE  Sound(c)'
<1>0. SessionsAreLive /\ (Certain(c) => Sound(c))
  BY DEF KnowledgeInv
<1>1. CASE RunTask
  <2>1. CASE c # tasks[1].client
    BY <1>0, <1>1, <2>1, RunTaskSparesOthers
  <2>2. CASE c = tasks[1].client /\ tasks[1].op = "alloc"
    BY <1>1, <2>2, AllocIsSound
  <2>3. CASE c = tasks[1].client /\ tasks[1].op # "alloc"
    <3>1. tasks[1].thread \in {"app", "link"}
      BY <1>0, <1>1, <2>3, OwnCall
    <3>2. QED
      BY <1>0, <1>1, <2>3, <3>1, RegistrationIsSound, AnswerIsSound
  <2>4. QED
    BY <2>1, <2>2, <2>3
<1>2. CASE Crash
  <2>1. DOMAIN sessions' = {}
    BY <1>2, EmptyApplies DEF Crash
  <2>2. QED
    BY <2>1 DEF Certain
<1>3. CASE Restart
  <2>1. UNCHANGED <<sessions, monitors, tasks, linkVars, appVars, doubtful>>
    BY <1>3 DEF Restart
  <2>2. Sound(c)
    BY <1>0, <2>1 DEF Certain, Linked, linkVars
  <2>3. QED
    BY <2>1, <2>2 DEF Sound, KnownWhenOpen, KnownWhenRead, KnownWhenRegistering, KnownWhenUp, QueueOf,
                      Registered, Union, Before, Busy, Waits, linkVars, appVars
<1>4. ASSUME NEW s \in DOMAIN sessions, HangUp(s)
      PROVE  Sound(c)'
  BY <1>0, <1>4, HangUpIsSound
<1>5. ASSUME NEW i \in DOMAIN tasks, GiveUp(i)
      PROVE  Sound(c)'
  BY <1>0, <1>5, GiveUpIsSound
<1>6. ASSUME NEW x \in Clients,
             \/ LinkStep(x) \/ DeathStep(x) \/ AppStep(x) \/ Exit(x)
             \/ \E handler \in HandlerIds :
                  \/ RemoveHandler(x, handler)
                  \/ \E types \in (SUBSET Types) \ {{}} : AddHandler(x, handler, types)
      PROVE  Sound(c)'
  <2>1. CASE x = c
    BY <1>0, <1>6, <2>1, ClientStepIsSound
  <2>2. CASE x # c
    <3>1. ClientStep(x)
      BY <1>6 DEF ClientStep, RemoveHandler, AddHandler
    <3>2. QED
      BY <1>0, <2>2, <3>1, ClientStepSparesOthers
  <2>3. QED
    BY <2>1, <2>2
<1>7. CASE DiscardTask
  BY <1>0, <1>7, DiscardIsSound
<1>8. QED
  BY <1>1, <1>2, <1>3, <1>4, <1>5, <1>6, <1>7 DEF Next

(* The handlers change only while their thread is idle, or becomes idle; the
   types that it calls with are those of its handlers. *)
LEMMA CurrentStep ==
  ASSUME SessionInv, CallsAreCurrent, Next
  PROVE  CallsAreCurrent'
<1>0. StateOK /\ OrderInv /\ app \in [Clients -> {Idle} \cup Calling] /\ DOMAIN handlers = Clients
  BY DEF SessionInv, StateOK, AppOK, HandlersOK
<1>1. ASSUME UNCHANGED handlers,
             \A c \in Clients :
               app'[c] = Idle \/ (app[c] # Idle /\ app'[c].types = app[c].types) \/ app'[c] = app[c]
      PROVE  CallsAreCurrent'
  BY <1>1 DEF CallsAreCurrent, Union
<1>2. ASSUME NEW c \in Clients, app[c] \in Calling, NEW pc \in {"calling", "waiting", "refused"},
             app' = [app EXCEPT ![c] = [app[c] EXCEPT !.pc = pc]], UNCHANGED handlers
      PROVE  CallsAreCurrent'
  <2>1. PICK b : b = [app[c] EXCEPT !.pc = pc]
    OBVIOUS
  <2>2. b.types = app[c].types
    BY <1>2, <2>1, CallGoesOn
  <2>3. app[c] # Idle
    BY <1>2 DEF Idle, Calling
  <2>4. \A x \in Clients : app'[x] = app[x] \/ (app[x] # Idle /\ app'[x].types = app[x].types)
    BY <1>0, <1>2, <2>1, <2>2, <2>3
  <2>5. QED
    BY <1>1, <1>2, <2>4
<1>3. CASE RunTask
  <2> DEFINE task == Head(tasks)
  <2>1. /\ task.client \in Clients
        /\ task.thread # "link" /\ ~task.late /\ link[task.client] # "gone" => app[task.client] \in Calling
    BY <1>0, <1>3, RestMovesUp, AnsweredCallerWaits DEF RunTask, StateOK, QueueOK, OrderInv
  <2>2. (\E ok \in BOOLEAN : Reply(task, ok)) /\ UNCHANGED handlers
    BY <1>3 DEF RunTask, RunAlloc, RunAdd, RunRemove
  <2> HIDE DEF task
  <2>3. \/ UNCHANGED app
        \/ app' = [app EXCEPT ![task.client] = Idle]
        \/ /\ app' = [app EXCEPT ![task.client] = [app[task.client] EXCEPT !.pc = "refused"]]
           /\ task.thread # "link" /\ ~task.late /\ link[task.client] # "gone"
    BY <1>0, <2>1, <2>2 DEF Reply
  <2>4. QED
    BY <1>0, <1>1, <1>2, <2>1, <2>2, <2>3
<1>4. CASE Crash
  <2>1. ASSUME NEW c \in Clients
        PROVE  app'[c] = app[c] \/ (app[c] # Idle /\ app'[c].types = app[c].types)
    <3>1. CASE app[c].pc = "waiting"
      <4>1. PICK b : b = [app[c] EXCEPT !.pc = "refused"]
        OBVIOUS
      <4>2. app[c] \in Calling /\ app[c] # Idle
        BY <1>0, <3>1, IdleOrCalling DEF StateOK, Idle
      <4>3. b.types = app[c].types
        BY <4>1, <4>2, CallGoesOn
      <4>4. app'[c] = b
        BY <1>4, <3>1, <4>1 DEF Crash
      <4>5. QED
        BY <4>2, <4>3, <4>4
    <3>2. CASE app[c].pc # "waiting"
      BY <1>4, <3>2 DEF Crash
    <3>3. QED
      BY <3>1, <3>2
  <2>2. UNCHANGED handlers
    BY <1>4 DEF Crash
  <2>3. QED
    BY <1>1, <2>1, <2>2
<1>5. ASSUME NEW i \in DOMAIN tasks, GiveUp(i)
      PROVE  CallsAreCurrent'
  <2> DEFINE c == tasks[i].client
  <2>1. /\ c \in Clients
        /\ tasks[i].thread # "link" => app[c] \in Calling
    BY <1>0, <1>5, AnsweredCallerWaits DEF GiveUp, StateOK, OrderInv
  <2>2. \/ UNCHANGED app
        \/ app' = [app EXCEPT ![c] = [app[c] EXCEPT !.pc = "refused"]] /\ tasks[i].thread = "app"
    BY <1>0, <1>5, <2>1 DEF GiveUp
  <2>3. UNCHANGED handlers
    BY <1>5 DEF GiveUp
  <2>4. QED
    BY <1>1, <1>2, <2>1, <2>2, <2>3
<1>6. ASSUME NEW c \in Clients, Call(c)
      PROVE  CallsAreCurrent'
  <2>1. app[c] \in Calling
    BY <1>0, <1>6, IdleOrCalling DEF Call, StateOK
  <2>2. \/ app' = [app EXCEPT ![c] = [app[c] EXCEPT !.pc = "waiting"]]
        \/ app' = [app EXCEPT ![c] = [app[c] EXCEPT !.pc = "refused"]]
    BY <1>0, <1>6 DEF Call
  <2>3. UNCHANGED handlers
    BY <1>6 DEF Call
  <2>4. QED
    BY <1>2, <2>1, <2>2, <2>3
<1>7. ASSUME NEW c \in Clients, Refused(c) \/ Exit(c)
      PROVE  CallsAreCurrent'
  <2>1. app'[c] = Idle /\ \A x \in Clients : x # c => app'[x] = app[x] /\ handlers'[x] = handlers[x]
    BY <1>0, <1>7 DEF Refused, Exit
  <2>2. QED
    BY <2>1 DEF CallsAreCurrent, Union
<1>8. ASSUME NEW c \in Clients, NEW op, NEW handler, NEW new, Change(c, op, handler, new)
      PROVE  CallsAreCurrent'
  <2> DEFINE a == [pc |-> "calling", op |-> op, handler |-> handler, types |-> UNION Range(new)]
  <2>1. /\ handlers'[c] = new /\ (app'[c] = Idle \/ app'[c] = a)
        /\ \A x \in Clients : x # c => app'[x] = app[x] /\ handlers'[x] = handlers[x]
    BY <1>0, <1>8 DEF Change
  <2>2. a.types = UNION Range(new)
    OBVIOUS
  <2> HIDE DEF a
  <2>3. QED
    BY <2>1, <2>2 DEF CallsAreCurrent, Union
<1>9. ASSUME NEW c \in Clients, LinkStep(c) \/ DeathStep(c)
      PROVE  UNCHANGED <<handlers, app>>
  BY <1>9 DEF LinkStep, OnReconnect, OnConnectedReads, OnConnectedRegisters, OnDisconnected,
              DeathStep, OnDeath, ConnectAgain, appVars
<1>10. ASSUME NEW s \in DOMAIN sessions, HangUp(s)
       PROVE  UNCHANGED <<handlers, app>>
  BY <1>10 DEF HangUp, appVars
<1>11. CASE Restart \/ DiscardTask
  BY <1>1, <1>11 DEF Restart, DiscardTask, appVars
<1>12. QED
  BY <1>1, <1>3, <1>4, <1>5, <1>6, <1>7, <1>8, <1>9, <1>10, <1>11 DEF Next, AppStep, AddHandler, RemoveHandler
(* The proxy is live while there is a session that was made over it, or a
   request for one is waited for: it dies with the service, and the thread
   that connects does not ask without one. *)
LEMMA LiveStep ==
  ASSUME SessionInv, SessionInv', SessionsAreLive, Next
  PROVE  SessionsAreLive'
<1>0. StateOK /\ OrderInv /\ CallsFindSession /\ tasks \in Seq(Task) /\ OrderInv'
      /\ proxy \in [Clients -> {"none", "live", "dead"}] /\ fd \in [Clients -> Sockets \cup {None}]
      /\ None \notin DOMAIN sessions' /\ None \notin DOMAIN sessions
  BY RegistryAssumption DEF SessionInv, StateOK, QueueOK, LinkOK, ServerOK
<1>1. ASSUME NEW c \in Clients,
             proxy[c] = "live" => proxy'[c] = "live",
             fd'[c] \in DOMAIN sessions' => fd'[c] = fd[c] /\ fd[c] \in DOMAIN sessions,
             \A i \in DOMAIN tasks' : Alloc(i, c)' /\ ~tasks'[i].late /\ link'[c] # "gone" =>
               \E j \in DOMAIN tasks : Alloc(j, c) /\ ~tasks[j].late /\ link[c] # "gone"
      PROVE  /\ fd'[c] \in DOMAIN sessions' => proxy'[c] = "live"
             /\ \A i \in DOMAIN tasks' : Alloc(i, c)' /\ ~tasks'[i].late /\ link'[c] # "gone" => proxy'[c] = "live"
  BY <1>1 DEF SessionsAreLive
<1>2. ASSUME NEW c \in Clients,
             proxy[c] = "live" => proxy'[c] = "live",
             fd'[c] \in DOMAIN sessions' => fd'[c] = fd[c] /\ fd[c] \in DOMAIN sessions,
             tasks' = tasks, link'[c] = "gone" \/ link[c] # "gone" \/ link'[c] = link[c]
      PROVE  /\ fd'[c] \in DOMAIN sessions' => proxy'[c] = "live"
             /\ \A i \in DOMAIN tasks' : Alloc(i, c)' /\ ~tasks'[i].late /\ link'[c] # "gone" => proxy'[c] = "live"
  BY <1>2 DEF SessionsAreLive, Alloc
<1>3. CASE RunTask
  <2> DEFINE t == tasks[1]
  <2>1. /\ 1 \in DOMAIN tasks /\ t \in Task /\ t.client \in Clients /\ Head(tasks) = t
        /\ \A x \in Clients : x # t.client \/ link[x] = "gone" \/ t.late => link'[x] = link[x] /\ fd'[x] = fd[x]
        /\ link[t.client] # "gone" /\ ~t.late /\ t.thread = "app" =>
             link'[t.client] = link[t.client] /\ fd'[t.client] = fd[t.client]
        /\ UNCHANGED proxy
    BY <1>0, <1>3, RunTaskAnswers, RestMovesUp DEF RunTask
  <2>2. \A i \in DOMAIN tasks' : i + 1 \in DOMAIN tasks /\ tasks'[i] = tasks[i + 1]
    BY <1>0, <1>3, RestMovesUp DEF RunTask
  <2>3. \A c \in Clients : link'[c] # "gone" => link[c] # "gone"
    BY <2>1
  <2>4. ASSUME NEW c \in Clients, NEW i \in DOMAIN tasks', Alloc(i, c)', ~tasks'[i].late, link'[c] # "gone"
        PROVE  proxy'[c] = "live"
    <3>1. i + 1 \in DOMAIN tasks /\ Alloc(i + 1, c) /\ ~tasks[i + 1].late /\ link[c] # "gone"
      BY <2>2, <2>3, <2>4 DEF Alloc
    <3>2. QED
      BY <2>1, <3>1 DEF SessionsAreLive
  <2>5. ASSUME NEW c \in Clients, fd'[c] \in DOMAIN sessions'
        PROVE  proxy'[c] = "live"
    <3>1. CASE t.op = "alloc"
      <4>1. PICK s \in Sockets \ (DOMAIN sessions \cup Range(fd)) :
              /\ AddSession(t.client, s)
              /\ fd' = IF t.late \/ link[t.client] = "gone" THEN fd ELSE [fd EXCEPT ![t.client] = s]
        BY <1>3, <2>1, <3>1 DEF RunTask, RunAlloc
      <4>2. DOMAIN sessions' = DOMAIN sessions \cup {s}
        BY <4>1 DEF AddSession, With
      <4>3. CASE fd'[c] = fd[c]
        <5>1. fd[c] \in DOMAIN sessions
          BY <1>0, <2>5, <4>1, <4>2, <4>3 DEF Range
        <5>2. QED
          BY <2>1, <5>1 DEF SessionsAreLive
      <4>4. CASE fd'[c] # fd[c]
        <5>1. c = t.client /\ ~t.late /\ link[c] # "gone"
          BY <1>0, <4>1, <4>4
        <5>2. Alloc(1, c)
          BY <3>1, <5>1 DEF Alloc
        <5>3. QED
          BY <2>1, <5>1, <5>2 DEF SessionsAreLive
      <4>5. QED
        BY <4>3, <4>4
    <3>2. CASE t.op # "alloc"
      <4>1. UNCHANGED <<sessions, fd>>
        BY <1>3, <2>1, <3>2 DEF RunTask, RunAdd, RunRemove
      <4>2. QED
        BY <2>1, <2>5, <4>1 DEF SessionsAreLive
    <3>3. QED
      BY <3>1, <3>2
  <2>6. QED
    BY <2>4, <2>5 DEF SessionsAreLive
<1>4. CASE Crash
  <2>1. DOMAIN sessions' = {} /\ DOMAIN tasks' = {}
    BY <1>4, EmptyApplies DEF Crash
  <2>2. QED
    BY <2>1 DEF SessionsAreLive
<1>5. CASE Restart
  BY <1>2, <1>5 DEF Restart, linkVars, SessionsAreLive
<1>6. ASSUME NEW s \in DOMAIN sessions, HangUp(s)
      PROVE  SessionsAreLive'
  <2>1. UNCHANGED <<proxy, fd, link, tasks>> /\ DOMAIN sessions' \subseteq DOMAIN sessions
    BY <1>6 DEF HangUp, linkVars, DelSession, Without
  <2>2. QED
    BY <1>2, <2>1 DEF SessionsAreLive
<1>7. ASSUME NEW i \in DOMAIN tasks, GiveUp(i)
      PROVE  SessionsAreLive'
  <2>1. UNCHANGED <<proxy, fd, sessions>>
    BY <1>7 DEF GiveUp, serverVars
  <2>2. /\ DOMAIN tasks' = DOMAIN tasks
        /\ tasks'[i].late
        /\ \A j \in DOMAIN tasks : j # i => tasks'[j] = tasks[j]
    BY <1>0, <1>7, LateKeepsPlace
  <2>3. \A c \in Clients : link'[c] # "gone" => link[c] # "gone"
    <3>1. link[tasks[i].client] # "gone"
      BY <1>7 DEF GiveUp
    <3>2. QED
      BY <1>0, <1>7, <3>1 DEF GiveUp, StateOK, LinkOK
  <2>4. \A c \in Clients : \A j \in DOMAIN tasks' :
          Alloc(j, c)' /\ ~tasks'[j].late => j \in DOMAIN tasks /\ Alloc(j, c) /\ ~tasks[j].late
    BY <2>2 DEF Alloc
  <2>5. \A c \in Clients :
          /\ fd'[c] \in DOMAIN sessions' => proxy'[c] = "live"
          /\ \A j \in DOMAIN tasks' : Alloc(j, c)' /\ ~tasks'[j].late /\ link'[c] # "gone" => proxy'[c] = "live"
    BY <1>1, <2>1, <2>3, <2>4
  <2>6. QED
    BY <2>5 DEF SessionsAreLive
<1>8. ASSUME NEW c \in Clients, ClientStep(c)
      PROVE  SessionsAreLive'
  <2>1. /\ UNCHANGED sessions
        /\ \A x \in Clients : x # c => link'[x] = link[x] /\ fd'[x] = fd[x] /\ proxy'[x] = proxy[x]
    BY <1>0, <1>8, ClientStepFrame DEF serverVars
  <2>2. /\ proxy[c] = "live" => proxy'[c] = "live" \/ link'[c] = "gone"
        /\ fd'[c] \in {fd[c], None}
        /\ link[c] = "gone" => link'[c] = "gone"
    <3>1. CASE DeathStep(c)
      BY <1>0, <3>1 DEF DeathStep, OnDeath, ConnectAgain, linkVars, Connected
    <3>2. CASE LinkStep(c)
      BY <1>0, <3>2 DEF LinkStep, OnReconnect, OnConnectedReads, OnConnectedRegisters, OnDisconnected,
                        Connected
    <3>3. CASE AppStep(c)
      BY <1>0, <3>3 DEF AppStep, Call, Refused, linkVars, Connected
    <3>4. CASE Exit(c)
      BY <1>0, <3>4 DEF Exit, StateOK, LinkOK
    <3>5. CASE \E op, handler, newHandlers : Change(c, op, handler, newHandlers)
      BY <3>5 DEF Change, linkVars
    <3>6. QED
      BY <1>8, <3>1, <3>2, <3>3, <3>4, <3>5 DEF ClientStep
  <2>3. link'[c] = "gone" => fd'[c] = None
    BY <1>0 DEF OrderInv, GoneIsGone
  <2>4. \A x \in Clients : fd'[x] \in DOMAIN sessions' => proxy'[x] = "live"
    BY <1>0, <2>1, <2>2, <2>3 DEF SessionsAreLive
  <2>5. ASSUME NEW x \in Clients, NEW i \in DOMAIN tasks', Alloc(i, x)', ~tasks'[i].late, link'[x] # "gone"
        PROVE  proxy'[x] = "live"
    <3>1. link[x] # "gone" /\ (proxy[x] = "live" => proxy'[x] = "live")
      BY <2>1, <2>2, <2>5
    <3>2. CASE i \in DOMAIN tasks /\ tasks'[i] = tasks[i]
      BY <2>5, <3>1, <3>2 DEF SessionsAreLive, Alloc
    <3>3. CASE ~(i \in DOMAIN tasks /\ tasks'[i] = tasks[i])
      <4>1. PICK t \in Task : t.client = c /\ tasks' = Append(tasks, t)
        BY <1>0, <1>8, <3>3, ClientPosts
      <4>2. tasks'[i] = t
        BY <1>0, <3>3, <4>1, PostedIsLast
      <4>3. x = c
        BY <2>5, <4>1, <4>2 DEF Alloc
      <4>4. link'[c] = "alloc"
        BY <1>0, <2>5, <4>3 DEF OrderInv, RequestsInOrder
      <4>5. CASE link[c] = "alloc"
        <5>1. ~LinkStep(c)
          BY <4>5 DEF LinkStep, OnReconnect, OnConnectedReads, OnConnectedRegisters, OnDisconnected
        <5>2. ~Call(c)
          BY <4>5 DEF Call
        <5>3. tasks' = tasks
          BY <1>8, <5>1, <5>2 DEF ClientStep, DeathStep, OnDeath, ConnectAgain, AppStep, Refused, Exit, Change
        <5>4. QED
          BY <3>3, <5>3
      <4>6. CASE link[c] # "alloc"
        <5>1. OnReconnect(c)
          BY <1>0, <1>8, <4>4, <4>6
             DEF ClientStep, LinkStep, OnConnectedReads, OnConnectedRegisters, OnDisconnected, DeathStep,
                 OnDeath, ConnectAgain, AppStep, Call, Refused, Exit, Change, linkVars, StateOK, LinkOK
        <5>2. QED
          BY <1>0, <4>3, <5>1 DEF OnReconnect
      <4>7. QED
        BY <4>5, <4>6
    <3>4. QED
      BY <3>2, <3>3
  <2>6. QED
    BY <2>4, <2>5 DEF SessionsAreLive
<1>9. CASE DiscardTask
  <2>1. UNCHANGED <<proxy, fd, sessions, link>>
    BY <1>9 DEF DiscardTask, serverVars, linkVars
  <2>2. \A i \in DOMAIN tasks' : i + 1 \in DOMAIN tasks /\ tasks'[i] = tasks[i + 1]
    BY <1>0, <1>9, RestMovesUp DEF DiscardTask
  <2>3. \A c \in Clients : \A i \in DOMAIN tasks' : Alloc(i, c)' => Alloc(i + 1, c)
    BY <2>2 DEF Alloc
  <2>4. QED
    BY <2>1, <2>2, <2>3 DEF SessionsAreLive
<1>10. QED
  BY <1>3, <1>4, <1>5, <1>6, <1>7, <1>8, <1>9 DEF Next, ClientStep, AddHandler, RemoveHandler

LEMMA InitKnowledgeInv == Init => KnowledgeInv
<1> SUFFICES ASSUME Init PROVE KnowledgeInv
  OBVIOUS
<1>1. DOMAIN sessions = {} /\ DOMAIN tasks = {} /\ \A c \in Clients : app[c] = Idle
  BY EmptyApplies DEF Init
<1>2. QED
  BY <1>1 DEF KnowledgeInv, CallsAreCurrent, SessionsAreLive, Certain

LEMMA KnowledgeInvIsInductive ==
  SessionInv /\ SessionInv' /\ KnowledgeInv /\ [Next]_vars => KnowledgeInv'
<1>1. ASSUME SessionInv, SessionInv', KnowledgeInv, Next
      PROVE  KnowledgeInv'
  <2>1. CallsAreCurrent'
    BY <1>1, CurrentStep DEF KnowledgeInv
  <2>2. SessionsAreLive'
    BY <1>1, LiveStep DEF KnowledgeInv
  <2>3. \A c \in Clients : Certain(c)' => Sound(c)'
    BY <1>1, KnowledgeStep
  <2>4. QED
    BY <2>1, <2>2, <2>3 DEF KnowledgeInv
<1>2. ASSUME SessionInv, KnowledgeInv, UNCHANGED vars
      PROVE  KnowledgeInv'
  BY <1>2 DEF KnowledgeInv, CallsAreCurrent, SessionsAreLive, Certain, Linked, Alloc, Sound, KnownWhenOpen,
              KnownWhenRead, KnownWhenRegistering, KnownWhenUp, QueueOf, Registered, Union, Before, Busy,
              Waits, vars, serverVars, linkVars, appVars
<1>3. QED
  BY <1>1, <1>2

(* Whatever died and whenever: the service knows the union of the handlers of
   an application that is connected and has nothing under way, if nothing on
   its connection was given up, refused or changed behind the registration. *)
THEOREM HandlersAreKnown == Spec => []ServiceKnowsHandlers
<1>1. ASSUME KnowledgeInv
      PROVE  ServiceKnowsHandlers
  <2>1. SUFFICES ASSUME NEW c \in Clients, Settled(c), ~doubtful[c]
                 PROVE  Registered(c) = Union(c)
    BY DEF ServiceKnowsHandlers
  <2>2. Certain(c)
    BY <2>1 DEF Certain, Linked, Settled
  <2>3. QED
    BY <1>1, <2>1, <2>2 DEF KnowledgeInv, Sound, KnownWhenUp, Settled
<1>2. KnowledgeInv => ServiceKnowsHandlers
  BY <1>1
<1>3. QED
  BY <1>2, SessionsHold, InitKnowledgeInv, KnowledgeInvIsInductive, PTL DEF Spec
=============================================================================
