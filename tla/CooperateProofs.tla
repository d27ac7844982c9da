-------------------------- MODULE CooperateProofs --------------------------
(***************************************************************************)
(* Theorems about Cooperate for any number of starts, stops, sessions and  *)
(* faults: each device that shares a mouse can be stopped, and when all is *)
(* done the two agree and nobody is left waiting.                          *)
(*                                                                         *)
(* While all is orderly one device at most is at work, and what the other  *)
(* has still to hear tells how far it is.                                  *)
(***************************************************************************)
EXTENDS Cooperate, FiniteSetTheorems, SequenceTheorems, WellFoundedInduction, TLAPS

Maybe == Devices \cup {NoDevice}
Tasks == [what : {"processStart", "startDinput", "relayStop",
                  "startFinish", "processStop", "stopFinish"},
          ok : BOOLEAN, to : Maybe, mouse : Maybe]
Owned == Callback \cup {NoCall}
Machine == [
  state : {"free", "in", "out"}, starting : BOOLEAN, stopping : BOOLEAN,
  src : Maybe, mouse : Maybe, prepared : Maybe,
  tasks : Seq(Tasks), calls : [Calls -> Owned]]

(* The messages of the softbus. *)
Results == [type : {"startRes"}, ok : BOOLEAN, mouse : Maybe]
Message == [type : {"start", "stop"}] \cup Results
             \cup [type : {"stopRes"}, ok : BOOLEAN] \cup [type : {"closed"}, id : Nat]

(* A device is at work while it has a task, or a callback that does
   something: one of them, as each makes the next. *)
HasTask(v) == v.tasks # <<>>
Awaits(v, c) == v.calls[c].owner = "current"
AtWork(v) == HasTask(v) \/ \E c \in Calls : Awaits(v, c)
OneThing(v) ==
  /\ HasTask(v) => Len(v.tasks) = 1 /\ \A c \in Calls : ~Awaits(v, c)
  /\ \A b, c \in Calls : Awaits(v, b) /\ Awaits(v, c) => b = c

(* The work of a start and of a stop: whom it tells in the end, and of which
   mouse. *)
StartTask(d, v, t) ==
  /\ t.what \in {"processStart", "startDinput", "relayStop", "startFinish"}
  /\ t.to = Peer(d)
  /\ v.state = "free" => t.mouse = d
  /\ t.what = "startDinput" => v.prepared = Peer(d)
  /\ t.what = "relayStop" => v.state = "in"
StartCall(d, v, c) ==
  /\ c \in {"prepare", "start", "stopIn"} /\ v.calls[c].to = Peer(d)
  /\ v.state = "free" => v.calls[c].mouse = d
  /\ c = "prepare" => v.prepared = Peer(d)
  /\ c = "stopIn" => v.state = "in"
StopTask(d, v, t) == t.what \in {"processStop", "stopFinish"} /\ t.to = Peer(d)
StopCall(d, v, c) ==
  /\ c = IF v.state = "in" THEN "stopIn" ELSE "stopOut"
  /\ v.calls[c].to = Peer(d)

(* A device that shares a mouse knows with whom. *)
Knows(d, v) ==
  /\ v.state = "out" => v.src = Peer(d)
  /\ v.state = "in" => v.mouse = Peer(d)

(* What a device is about: nothing, or what it has begun. *)
Rests(v) == ~AtWork(v) /\ ~v.starting /\ ~v.stopping
Starts(d, v) ==
  /\ v.starting /\ ~v.stopping /\ v.state # "out" /\ AtWork(v) /\ OneThing(v)
  /\ v.state = "free" => v.src = Peer(d)
  /\ HasTask(v) => StartTask(d, v, v.tasks[1])
  /\ \A c \in Calls : Awaits(v, c) => StartCall(d, v, c)
Stops(d, v) ==
  /\ v.stopping /\ ~v.starting /\ v.state # "free" /\ AtWork(v) /\ OneThing(v)
  /\ HasTask(v) => StopTask(d, v, v.tasks[1])
  /\ \A c \in Calls : Awaits(v, c) => StopCall(d, v, c)

(* What it has still to hear of what the other has begun: whether it has been
   told of the first message is what its flag says.  Behind that comes the
   news, if there is any, that the session is closed. *)
Mail(told, news) == IF news = 0 THEN told ELSE Append(told, Lost(news))
Told(mail, first, flag, news) ==
  \/ mail = Mail(<<first>>, news) /\ ~flag
  \/ mail = Mail(<<>>, news) /\ flag
ToldTwice(mail, first, next, flag, news) ==
  \/ mail = Mail(<<first, next>>, news) /\ ~flag
  \/ mail = Mail(<<next>>, news) /\ flag
HearsStart(v, mail, news) ==
  /\ ~AtWork(v) /\ ~v.stopping /\ v.state # "in"
  /\ Told(mail, Start, v.starting, news)
HearsStarted(d, v, mail, res, news) ==
  /\ ~AtWork(v) /\ ~v.stopping /\ v.state # "in"
  /\ res.ok /\ v.state = "free" => res.mouse = Peer(d)
  /\ ToldTwice(mail, Start, res, v.starting, news)
HearsStop(v, mail, news) ==
  ~AtWork(v) /\ ~v.starting /\ Told(mail, Stop, v.stopping, news)
HearsStopped(v, mail, news) ==
  ~AtWork(v) /\ ~v.starting /\ ToldTwice(mail, Stop, StopRes(TRUE), v.stopping, news)

Acts(d, v, mail, news) == (Rests(v) \/ Starts(d, v) \/ Stops(d, v)) /\ mail = Mail(<<>>, news)
Hears(d, v, mail, news) ==
  \/ HearsStart(v, mail, news)
  \/ \E res \in Results : HearsStarted(d, v, mail, res, news)
  \/ HearsStop(v, mail, news)
  \/ HearsStopped(v, mail, news)

(* A device without a session, and the two while theirs is open: d has begun
   something, or nothing is under way. *)
Alone(v, mail) ==
  v.state = "free" /\ Rests(v) /\ \A i \in DOMAIN mail : mail[i].type = "closed"

Are(v, w, x, y) == v.state = x /\ w.state = y
Shared(v, w) == Are(v, w, "out", "in") \/ Are(v, w, "in", "out")
Unchanged(v, w) == Are(v, w, "free", "free") \/ Are(v, w, "in", "out")
Changed(v, w) == Are(v, w, "out", "free") \/ Are(v, w, "free", "out")
Together(d, v, w, mine, yours) ==
  /\ mine = <<>>
  /\ \/ Rests(v) /\ Rests(w) /\ yours = <<>> /\ (Are(v, w, "free", "free") \/ Shared(v, w))
     \/ Starts(d, v) /\ HearsStart(w, yours, 0) /\ Unchanged(v, w)
     \/ \E res \in Results : /\ Rests(v) /\ HearsStarted(Peer(d), w, yours, res, 0)
                             /\ IF res.ok THEN Changed(v, w) ELSE Unchanged(v, w)
     \/ Stops(d, v) /\ HearsStop(w, yours, 0) /\ Shared(v, w)

(* Each state that the two can be in while all is orderly. *)
SidesOK(devs, mail, sess, now) ==
  IF now # 0
  THEN /\ \A d \in Devices : sess[d] = now
       /\ \E d \in Devices : Together(d, devs[d], devs[Peer(d)], mail[d], mail[Peer(d)])
  ELSE \A d \in Devices :
         IF sess[d] = 0 THEN Alone(devs[d], mail[d])
         ELSE Acts(d, devs[d], mail[d], sess[d]) \/ Hears(d, devs[d], mail[d], sess[d])

(* A call is answered by the work that it has begun. *)
CallersOK ==
  odd = {} =>
    /\ stranded = {}
    /\ live = 0 => \A d \in Devices : ~AtWork(dev[d])
    /\ \A d \in Devices : /\ "start" \in events[d] => AtWork(dev[d]) /\ dev[d].starting
                          /\ "stop" \in events[d] => AtWork(dev[d]) /\ dev[d].stopping

(* No callback is without an owner, and crossing is never switched off. *)
NoneClosed ==
  off = {} /\ \A d \in Devices, c \in Calls : dev[d].calls[c].owner # "nobody"
(* Induction up to a number, with the set of the numbers it is done for. *)

LEMMA Least ==
  ASSUME NEW n \in Nat, NEW T, T \subseteq 1..n, T # {}
  PROVE  \E k \in T : \A j \in T : k <= j
<1> DEFINE R == StrictSubsetOrdering(Nat)
           I == {1..k : k \in T}
<1>1. IsWellFoundedOn(R, FiniteSubsetsOf(Nat))
  BY FS_StrictSubsetOrderingWellFounded
<1>2. \A k \in T : k \in Nat /\ 1 <= k
  OBVIOUS
<1>3. ASSUME NEW k \in T PROVE 1..k \in FiniteSubsetsOf(Nat)
  BY <1>2, FS_Interval DEF FiniteSubsetsOf
<1>4. I \subseteq FiniteSubsetsOf(Nat) /\ I # {}
  BY <1>3
<1> HIDE DEF R, I
<1>5. PICK x \in I : \A y \in I : ~(<<y, x>> \in R)
  BY <1>1, <1>4, WFMin
<1> USE DEF I
<1>6. PICK k \in T : x = 1..k
  OBVIOUS
<1>7. ASSUME NEW j \in T, ~(k <= j) PROVE FALSE
  <2>1. /\ 1..j \in I /\ 1..j \subseteq 1..k /\ 1..j # 1..k
        /\ 1..j \in SUBSET Nat /\ 1..k \in SUBSET Nat
    BY <1>2, <1>7
  <2>2. <<1..j, 1..k>> \in R
    BY <2>1 DEF R, StrictSubsetOrdering
  <2>3. QED
    BY <1>5, <1>6, <2>1, <2>2
<1>8. QED
  BY <1>7

LEMMA UpTo ==
  ASSUME NEW n \in Nat, NEW G, 0 \in G, \A k \in 1..n : k - 1 \in G => k \in G
  PROVE  \A k \in 0..n : k \in G
<1>1. SUFFICES ASSUME NEW k \in 1..n, k \notin G PROVE FALSE
  OBVIOUS
<1>2. PICK T : T = {j \in 1..n : j \notin G}
  OBVIOUS
<1>3. PICK j \in T : \A i \in T : j <= i
  BY <1>1, <1>2, Least
<1>4. j \in 1..n /\ j \notin G
  BY <1>2
<1>5. j - 1 \in G
  <2>1. j - 1 = 0 \/ j - 1 \in 1..n
    BY <1>4
  <2>2. j - 1 \notin T
    BY <1>3, <1>4
  <2>3. QED
    BY <1>2, <2>1, <2>2
<1>6. QED
  BY <1>4, <1>5

-----------------------------------------------------------------------------
(* Sequences, and loops over them: a recursive function exists, and stays in
   a set that its steps do not leave. *)

LEMMA SeqFacts ==
  ASSUME NEW S, NEW s \in Seq(S)
  PROVE  /\ Len(s) \in Nat /\ DOMAIN s = 1..Len(s) /\ (s = <<>> <=> Len(s) = 0)
         /\ \A i \in DOMAIN s : i \in Nat /\ 1 <= i /\ i <= Len(s) /\ s[i] \in S
BY LenProperties, EmptySeq, ElementOfSeq

LEMMA AppendFacts ==
  ASSUME NEW S, NEW s \in Seq(S), NEW e \in S
  PROVE  /\ Append(s, e) \in Seq(S) /\ Len(Append(s, e)) = Len(s) + 1
         /\ DOMAIN Append(s, e) = 1..Len(s) + 1
         /\ \A i \in DOMAIN s : i \in DOMAIN Append(s, e) /\ Append(s, e)[i] = s[i]
         /\ Append(s, e)[Len(s) + 1] = e
         /\ \A i \in DOMAIN Append(s, e) : i \in DOMAIN s \/ i = Len(s) + 1
<1>1. /\ Append(s, e) \in Seq(S) /\ Len(Append(s, e)) = Len(s) + 1
      /\ \A i \in 1..Len(s) : Append(s, e)[i] = s[i]
      /\ Append(s, e)[Len(s) + 1] = e
  BY AppendProperties
<1>2. Len(s) \in Nat /\ DOMAIN s = 1..Len(s) /\ DOMAIN Append(s, e) = 1..Len(Append(s, e))
  BY <1>1, LenProperties
<1>3. QED
  BY <1>1, <1>2

StepsOn(step, n, S) == step \in [1..n -> [S -> S]]
IsLoop(f, n, S, base, step) ==
  f \in [0..n -> S] /\ \A k \in 0..n : f[k] = IF k = 0 THEN base ELSE step[k][f[k - 1]]

LEMMA LoopExists ==
  ASSUME NEW n \in Nat, NEW S, NEW base \in S, NEW step, StepsOn(step, n, S)
  PROVE  \E f : IsLoop(f, n, S, base, step)
<1>0. step \in [1..n -> [S -> S]]
  BY DEF StepsOn
<1>1. PICK G : G = {m \in 0..n : \E f \in [0..m -> S] :
                      \A k \in 0..m : f[k] = IF k = 0 THEN base ELSE step[k][f[k - 1]]}
  OBVIOUS
<1>2. 0 \in G
  <2>1. PICK f : f = [k \in 0..0 |-> base]
    OBVIOUS
  <2>2. f \in [0..0 -> S] /\ \A k \in 0..0 : k = 0 /\ f[k] = base
    BY <2>1
  <2>3. QED
    BY <1>1, <2>2
<1>3. ASSUME NEW m \in 1..n, m - 1 \in G PROVE m \in G
  <2>1. PICK f \in [0..m - 1 -> S] :
          \A k \in 0..m - 1 : f[k] = IF k = 0 THEN base ELSE step[k][f[k - 1]]
    BY <1>1, <1>3
  <2>2. f[m - 1] \in S
    BY <2>1
  <2>3. step[m][f[m - 1]] \in S
    BY <1>0, <2>2
  <2>4. PICK g : g = [k \in 0..m |-> IF k = m THEN step[m][f[m - 1]] ELSE f[k]]
    OBVIOUS
  <2>5. g \in [0..m -> S]
    <3>1. ASSUME NEW k \in 0..m, k # m PROVE f[k] \in S
      <4>1. k \in 0..m - 1
        BY <3>1
      <4>2. QED
        BY <2>1, <4>1
    <3>2. QED
      BY <2>3, <2>4, <3>1
  <2>6. ASSUME NEW k \in 0..m PROVE g[k] = IF k = 0 THEN base ELSE step[k][g[k - 1]]
    <3>1. CASE k = m
      <4>1. m - 1 \in 0..m /\ m - 1 # m /\ m # 0
        OBVIOUS
      <4>2. g[m - 1] = f[m - 1]
        BY <2>4, <4>1
      <4>3. QED
        BY <2>4, <3>1, <4>1, <4>2
    <3>2. CASE k # m /\ k # 0
      <4>1. k \in 0..m - 1 /\ k - 1 \in 0..m /\ k - 1 # m
        BY <3>2
      <4>2. g[k] = f[k] /\ g[k - 1] = f[k - 1]
        BY <2>4, <3>2, <4>1
      <4>3. QED
        BY <2>1, <3>2, <4>1, <4>2
    <3>3. CASE k # m /\ k = 0
      <4>1. 0 \in 0..m - 1 /\ g[0] = f[0]
        BY <2>4, <3>3
      <4>2. QED
        BY <2>1, <3>3, <4>1
    <3>4. QED
      BY <3>1, <3>2, <3>3
  <2>7. m \in 0..n
    OBVIOUS
  <2>8. QED
    BY <1>1, <2>5, <2>6, <2>7
<1>4. n \in G
  <2>1. \A m \in 1..n : m - 1 \in G => m \in G
    BY <1>3
  <2>2. \A m \in 0..n : m \in G
    BY <1>2, <2>1, UpTo
  <2>3. QED
    BY <2>2
<1>5. PICK f \in [0..n -> S] : \A k \in 0..n : f[k] = IF k = 0 THEN base ELSE step[k][f[k - 1]]
  BY <1>1, <1>4
<1>6. QED
  BY <1>5 DEF IsLoop

(* The function that Closings is defined with. *)
KeptLoop(kept, s, n) ==
  kept = [k \in 0..n |->
            IF k = 0 THEN <<>>
            ELSE IF s[k].type = "closed" THEN Append(kept[k - 1], s[k]) ELSE kept[k - 1]]

LEMMA ClosingsExist ==
  ASSUME NEW S, NEW s \in Seq(S)
  PROVE  \E kept : /\ KeptLoop(kept, s, Len(s)) /\ Closings(s) = kept[Len(s)]
                   /\ \A k \in 0..Len(s) : kept[k] \in Seq(S)
<1>1. PICK n \in Nat : n = Len(s) /\ \A k \in 1..n : s[k] \in S
  BY SeqFacts
<1>2. PICK step : step = [k \in 1..n |-> [l \in Seq(S) |->
                            IF s[k].type = "closed" THEN Append(l, s[k]) ELSE l]]
  OBVIOUS
<1>3. StepsOn(step, n, Seq(S))
  <2>1. ASSUME NEW k \in 1..n, NEW l \in Seq(S) PROVE Append(l, s[k]) \in Seq(S)
    BY <1>1, <2>1, AppendFacts
  <2>2. QED
    BY <1>2, <2>1 DEF StepsOn
<1>4. <<>> \in Seq(S)
  OBVIOUS
<1>5. PICK f : IsLoop(f, n, Seq(S), <<>>, step)
  BY <1>3, <1>4, LoopExists
<1>6. f \in [0..n -> Seq(S)] /\ \A k \in 0..n : f[k] = IF k = 0 THEN <<>> ELSE step[k][f[k - 1]]
  BY <1>5 DEF IsLoop
<1>7. ASSUME NEW k \in 0..n
      PROVE  f[k] = IF k = 0 THEN <<>>
                    ELSE IF s[k].type = "closed" THEN Append(f[k - 1], s[k]) ELSE f[k - 1]
  <2>1. CASE k = 0
    BY <1>6, <2>1
  <2>2. CASE k # 0
    <3>1. k \in 1..n /\ k - 1 \in 0..n
      BY <2>2
    <3>2. f[k - 1] \in Seq(S) /\ f[k] = step[k][f[k - 1]]
      BY <1>6, <2>2, <3>1
    <3>3. QED
      BY <1>2, <2>2, <3>1, <3>2
  <2>3. QED
    BY <2>1, <2>2
<1>8. KeptLoop(f, s, n)
  <2>1. f = [k \in 0..n |-> f[k]]
    BY <1>6
  <2>2. QED
    BY <1>7, <2>1 DEF KeptLoop
<1> DEFINE kept == CHOOSE g : KeptLoop(g, s, n)
<1>9. KeptLoop(kept, s, n)
  BY <1>8
<1>10. Closings(s) = kept[n]
  BY <1>1 DEF Closings, KeptLoop
<1> HIDE DEF kept
<1>11. \A k \in 0..n : kept[k] \in Seq(S)
  <2>1. PICK G : G = {k \in 0..n : kept[k] \in Seq(S)}
    OBVIOUS
  <2>2. 0 \in G
    BY <1>9, <2>1 DEF KeptLoop
  <2>3. ASSUME NEW k \in 1..n, k - 1 \in G PROVE k \in G
    <3>1. k \in 0..n /\ k # 0 /\ kept[k - 1] \in Seq(S) /\ s[k] \in S
      BY <1>1, <2>1, <2>3
    <3>2. kept[k] = IF s[k].type = "closed" THEN Append(kept[k - 1], s[k]) ELSE kept[k - 1]
      BY <1>9, <3>1 DEF KeptLoop
    <3>3. Append(kept[k - 1], s[k]) \in Seq(S)
      BY <3>1, AppendFacts
    <3>4. QED
      BY <2>1, <3>1, <3>2, <3>3
  <2>4. QED
    BY <2>1, <2>2, <2>3, UpTo
<1>12. QED
  BY <1>1, <1>9, <1>10, <1>11

(* Closings only leaves out, and leaves nothing of open sessions. *)
LEMMA ClosingsFacts ==
  ASSUME NEW S, NEW s \in Seq(S)
  PROVE  /\ Closings(s) \in Seq(S)
         /\ \A i \in DOMAIN Closings(s) : Closings(s)[i].type = "closed"
         /\ (\A i \in DOMAIN s : s[i].type # "closed") => Closings(s) = <<>>
<1>1. PICK kept, n : /\ KeptLoop(kept, s, n) /\ Closings(s) = kept[n] /\ n = Len(s)
                     /\ \A k \in 0..n : kept[k] \in Seq(S)
  BY ClosingsExist
<1>2. n \in Nat /\ DOMAIN s = 1..n /\ \A k \in 1..n : s[k] \in S
  BY <1>1, SeqFacts
<1>3. ASSUME NEW k \in 1..n
      PROVE  /\ kept[k] = IF s[k].type = "closed" THEN Append(kept[k - 1], s[k]) ELSE kept[k - 1]
             /\ kept[k - 1] \in Seq(S) /\ s[k] \in S
  <2>1. k \in 0..n /\ k # 0 /\ k - 1 \in 0..n
    BY <1>2
  <2>2. QED
    BY <1>1, <1>2, <2>1 DEF KeptLoop
<1>4. kept[0] = <<>>
  BY <1>1, <1>2 DEF KeptLoop
<1>5. \A k \in 0..n : \A i \in DOMAIN kept[k] : kept[k][i].type = "closed"
  <2>1. PICK G : G = {k \in 0..n : \A i \in DOMAIN kept[k] : kept[k][i].type = "closed"}
    OBVIOUS
  <2>2. 0 \in G
    BY <1>2, <1>4, <2>1
  <2>3. ASSUME NEW k \in 1..n, k - 1 \in G PROVE k \in G
    <3>1. PICK a, e : a = kept[k - 1] /\ e = s[k]
      OBVIOUS
    <3>2. a \in Seq(S) /\ e \in S /\ \A i \in DOMAIN a : a[i].type = "closed"
      BY <1>3, <2>1, <2>3, <3>1
    <3>3. CASE e.type = "closed"
      <4>1. kept[k] = Append(a, e)
        BY <1>3, <3>1, <3>3
      <4>2. \A i \in DOMAIN Append(a, e) : i \in DOMAIN a \/ i = Len(a) + 1
        BY <3>2, AppendFacts
      <4>3. /\ \A i \in DOMAIN a : Append(a, e)[i] = a[i]
            /\ Append(a, e)[Len(a) + 1] = e
        BY <3>2, AppendFacts
      <4>4. \A i \in DOMAIN Append(a, e) : Append(a, e)[i].type = "closed"
        BY <3>2, <3>3, <4>2, <4>3
      <4>5. QED
        BY <2>1, <4>1, <4>4, SMTT(30)
    <3>4. CASE e.type # "closed"
      BY <1>3, <2>1, <3>1, <3>2, <3>4
    <3>5. QED
      BY <3>3, <3>4
  <2>4. \A k \in 0..n : k \in G
    BY <1>2, <2>2, <2>3, UpTo
  <2>5. QED
    BY <2>1, <2>4
<1>6. ASSUME \A i \in DOMAIN s : s[i].type # "closed" PROVE \A k \in 0..n : kept[k] = <<>>
  <2>1. PICK G : G = {k \in 0..n : kept[k] = <<>>}
    OBVIOUS
  <2>2. 0 \in G
    BY <1>2, <1>4, <2>1
  <2>3. ASSUME NEW k \in 1..n, k - 1 \in G PROVE k \in G
    <3>1. kept[k - 1] = <<>> /\ s[k].type # "closed"
      BY <1>2, <1>6, <2>1, <2>3
    <3>2. kept[k] = <<>> /\ k \in 0..n
      BY <1>2, <1>3, <3>1
    <3>3. QED
      BY <2>1, <3>2
  <2>4. \A k \in 0..n : k \in G
    BY <1>2, <2>2, <2>3, UpTo
  <2>5. QED
    BY <2>1, <2>4
<1>7. n \in 0..n
  BY <1>2
<1>8. QED
  BY <1>1, <1>5, <1>6, <1>7

(* The two devices. *)
LEMMA PeerFacts ==
  ASSUME NEW d \in Devices
  PROVE  /\ Peer(d) \in Devices /\ Peer(d) # d /\ Peer(Peer(d)) = d
         /\ \A e \in Devices : e = d \/ e = Peer(d)
         /\ d \in Maybe /\ Peer(d) \in Maybe /\ NoDevice \in Maybe /\ NoDevice # d /\ NoDevice # Peer(d)
<1>1. PICK a, b : a \in Devices /\ b \in Devices /\ a # b /\ Devices = {a, b}
  BY TwoDevices
<1>2. ASSUME NEW e \in Devices PROVE Peer(e) \in Devices /\ Peer(e) # e
  <2>1. \E f \in Devices : f # e
    BY <1>1
  <2>2. QED
    BY <2>1 DEF Peer
<1>3. Peer(d) \in Devices /\ Peer(d) # d /\ Peer(Peer(d)) \in Devices /\ Peer(Peer(d)) # Peer(d)
  BY <1>2
<1>4. \A e \in Devices : e = d \/ e = Peer(d)
  BY <1>1, <1>3
<1>5. Peer(Peer(d)) = d
  BY <1>3, <1>4
<1>6. NoDevice \notin Devices
  BY TwoDevices
<1>7. QED
  BY <1>3, <1>4, <1>5, <1>6 DEF Maybe

(* The types of a state machine and of what the functions make of it. *)
LEMMA MachineFields ==
  ASSUME NEW v \in Machine
  PROVE  /\ v.state \in {"free", "in", "out"} /\ v.starting \in BOOLEAN /\ v.stopping \in BOOLEAN
         /\ v.src \in Maybe /\ v.mouse \in Maybe /\ v.prepared \in Maybe
         /\ v.tasks \in Seq(Tasks) /\ v.calls \in [Calls -> Owned]
BY DEF Machine

LEMMA CallFacts ==
  ASSUME NEW call \in Owned
  PROVE  /\ call.to \in Maybe /\ call.mouse \in Maybe
         /\ call.owner \in {"current", "gone", "nobody", "none"}
         /\ [call EXCEPT !.owner = "gone"] \in Owned \/ call = NoCall
         /\ [call EXCEPT !.owner = "gone"].owner = "gone"
         /\ NoCall \in Owned /\ NoCall.owner = "none"
         /\ [NoCall EXCEPT !.owner = "nobody"] \in Owned
BY DEF Owned, Callback, NoCall, Maybe

LEMMA OwnedMade ==
  ASSUME NEW to \in Maybe, NEW mouse \in Maybe
  PROVE  [to |-> to, mouse |-> mouse, owner |-> "current"] \in Owned
BY DEF Owned, Callback, Maybe

LEMMA PostTyped ==
  ASSUME NEW v \in Machine, NEW t \in Tasks
  PROVE  /\ Post(v, t) \in Machine
         /\ Post(v, t).tasks = Append(v.tasks, t)
         /\ Post(v, t) = [v EXCEPT !.tasks = Append(v.tasks, t)]
<1>1. v.tasks \in Seq(Tasks)
  BY MachineFields
<1>2. Append(v.tasks, t) \in Seq(Tasks)
  BY <1>1, AppendFacts
<1>3. PICK q \in Seq(Tasks) : q = Append(v.tasks, t)
  BY <1>2
<1>4. Post(v, t) = [v EXCEPT !.tasks = q]
  BY <1>3 DEF Post
<1>5. QED
  BY <1>3, <1>4 DEF Machine

LEMMA ReplacedTyped ==
  ASSUME NEW v \in Machine, NEW state \in {"free", "in", "out"}
  PROVE  LET w == Replaced(v, state) IN
         /\ w \in Machine /\ w.state = state /\ w.tasks = <<>>
         /\ w.starting = v.starting /\ w.stopping = v.stopping
         /\ w.src = v.src /\ w.mouse = v.mouse /\ w.prepared = v.prepared
         /\ \A c \in Calls : /\ w.calls[c].owner # "current"
                             /\ w.calls[c].owner = "nobody" => v.calls[c].owner = "nobody"
<1>1. PICK k : k = [c \in Calls |-> IF v.calls[c].owner = "current"
                                    THEN [v.calls[c] EXCEPT !.owner = "gone"] ELSE v.calls[c]]
  OBVIOUS
<1>2. ASSUME NEW c \in Calls
      PROVE  /\ k[c] \in Owned /\ k[c].owner # "current"
             /\ k[c].owner = "nobody" => v.calls[c].owner = "nobody"
  <2>1. PICK call \in Owned : call = v.calls[c]
    BY MachineFields
  <2>2. k[c] = IF call.owner = "current" THEN [call EXCEPT !.owner = "gone"] ELSE call
    BY <1>1, <2>1
  <2>3. CASE call.owner = "current"
    <3>1. call # NoCall
      BY <2>3, CallFacts
    <3>2. QED
      BY <2>1, <2>2, <2>3, <3>1, CallFacts
  <2>4. CASE call.owner # "current"
    BY <2>1, <2>2, <2>4
  <2>5. QED
    BY <2>3, <2>4
<1>3. k \in [Calls -> Owned]
  BY <1>1, <1>2
<1>4. PICK w : w = [v EXCEPT !.state = state, !.tasks = <<>>, !.calls = k]
  OBVIOUS
<1>5. Replaced(v, state) = w
  BY <1>1, <1>4 DEF Replaced
<1>6. /\ w.state = state /\ w.tasks = <<>> /\ w.calls = k
      /\ w.starting = v.starting /\ w.stopping = v.stopping
      /\ w.src = v.src /\ w.mouse = v.mouse /\ w.prepared = v.prepared
  BY <1>4 DEF Machine
<1>7. w \in Machine
  <2>0. <<>> \in Seq(Tasks)
    OBVIOUS
  <2>1. PICK q \in Seq(Tasks) : q = <<>>
    BY <2>0
  <2>2. w = [v EXCEPT !.state = state, !.tasks = q, !.calls = k]
    BY <1>4, <2>1
  <2>3. QED
    BY <1>3, <2>2 DEF Machine
<1>8. QED
  BY <1>2, <1>5, <1>6, <1>7

(* Reset gives up all that is under way. *)
WasReset(v, w) ==
  /\ w \in Machine /\ w.state = "free" /\ Rests(w)
  /\ \A c \in Calls : w.calls[c].owner = "nobody" => v.calls[c].owner = "nobody"

LEMMA ResetIs ==
  ASSUME NEW v \in Machine
  PROVE  WasReset(v, Reset(v)) /\ WasReset(v, [Reset(v) EXCEPT !.prepared = NoDevice])
<1>1. PICK r : r = Replaced(v, "free") /\ r \in Machine
  BY ReplacedTyped
<1>2. /\ r.state = "free" /\ r.tasks = <<>>
      /\ \A c \in Calls : /\ r.calls[c].owner # "current"
                          /\ r.calls[c].owner = "nobody" => v.calls[c].owner = "nobody"
  BY <1>1, ReplacedTyped
<1>3. PICK w : w = [r EXCEPT !.src = NoDevice, !.mouse = NoDevice, !.starting = FALSE, !.stopping = FALSE]
  OBVIOUS
<1>4. Reset(v) = w
  BY <1>1, <1>3 DEF Reset
<1>5. /\ w \in Machine /\ w.state = "free" /\ w.tasks = <<>> /\ w.calls = r.calls
      /\ ~w.starting /\ ~w.stopping
  BY <1>1, <1>2, <1>3 DEF Machine, Maybe
<1>6. PICK x : x = [w EXCEPT !.prepared = NoDevice]
  OBVIOUS
<1>7. /\ x \in Machine /\ x.state = "free" /\ x.tasks = <<>> /\ x.calls = r.calls
      /\ ~x.starting /\ ~x.stopping
  BY <1>5, <1>6 DEF Machine, Maybe
<1>8. Rests(w) /\ Rests(x)
  BY <1>2, <1>5, <1>7 DEF Rests, AtWork, HasTask, Awaits
<1>9. QED
  BY <1>2, <1>4, <1>5, <1>6, <1>7, <1>8 DEF WasReset

(* What becomes of a record in each function. *)
NoNew(v, w) ==
  \A c \in Calls : w.calls[c].owner = "nobody" => v.calls[c].owner = "nobody"

LEMMA ReplacedRests ==
  ASSUME NEW v \in Machine, NEW state \in {"free", "in", "out"}
  PROVE  ~AtWork(Replaced(v, state)) /\ NoNew(v, Replaced(v, state))
BY ReplacedTyped DEF AtWork, HasTask, Awaits, NoNew

LEMMA SameWork ==
  ASSUME NEW v, NEW w, w.tasks = v.tasks, w.calls = v.calls
  PROVE  (AtWork(w) <=> AtWork(v)) /\ NoNew(v, w)
BY DEF AtWork, HasTask, Awaits, NoNew

LEMMA ResetByIs ==
  ASSUME NEW v \in Machine, NEW who
  PROVE  /\ ResetBy(v, who) = v \/ WasReset(v, ResetBy(v, who))
         /\ ~(v.state = "out" /\ who # v.src) /\ ~(v.state = "in" /\ who # v.mouse)
              => WasReset(v, ResetBy(v, who))
BY ResetIs DEF ResetBy

LEMMA StartFinishedIs ==
  ASSUME NEW v \in Machine, NEW ok \in BOOLEAN, NEW mouse \in Maybe
  PROVE  LET w == StartFinished(v, ok, mouse) IN
         /\ w \in Machine /\ NoNew(v, w) /\ (~AtWork(v) => ~AtWork(w))
         /\ v.starting =>
              /\ ~w.starting /\ (~v.stopping => ~w.stopping)
              /\ ok /\ v.state = "free" => w.state = "out" /\ w.src = v.src
              /\ ok /\ v.state = "in" => w.state = "free"
              /\ ~ok => w.state = v.state /\ w.src = v.src /\ w.mouse = v.mouse
<1>1. PICK u : u = IF ok THEN [v EXCEPT !.mouse = mouse] ELSE v
  OBVIOUS
<1>2. /\ u \in Machine /\ u.state = v.state /\ u.starting = v.starting /\ u.stopping = v.stopping
      /\ u.src = v.src /\ u.tasks = v.tasks /\ u.calls = v.calls /\ (~ok => u = v)
  BY <1>1 DEF Machine
<1>3. (AtWork(u) <=> AtWork(v)) /\ NoNew(v, u)
  BY <1>2, SameWork
<1>4. PICK w : w = StartFinished(v, ok, mouse)
  OBVIOUS
<1>5. CASE ~v.starting
  <2>1. w = v
    BY <1>4, <1>5 DEF StartFinished
  <2>2. QED
    BY <1>4, <1>5, <2>1 DEF NoNew
<1>6. CASE v.starting /\ ok /\ v.state = "free"
  <2>1. PICK r : r = Replaced(u, "out") /\ r \in Machine
    BY <1>2, ReplacedTyped
  <2>2. /\ r.state = "out" /\ r.src = v.src /\ r.stopping = v.stopping
        /\ ~AtWork(r) /\ NoNew(u, r)
    BY <1>2, <2>1, ReplacedTyped, ReplacedRests
  <2>3. w = [r EXCEPT !.starting = FALSE]
    BY <1>1, <1>4, <1>6, <2>1 DEF StartFinished
  <2>4. /\ w \in Machine /\ w.tasks = r.tasks /\ w.calls = r.calls /\ w.state = "out"
        /\ w.src = v.src /\ ~w.starting /\ w.stopping = v.stopping
    BY <2>1, <2>2, <2>3 DEF Machine
  <2>5. ~AtWork(w) /\ NoNew(r, w)
    BY <2>2, <2>4, SameWork
  <2>6. NoNew(v, w)
    BY <1>3, <2>2, <2>5 DEF NoNew
  <2>7. QED
    BY <1>4, <1>6, <2>4, <2>5, <2>6
<1>7. CASE v.starting /\ ok /\ v.state = "in"
  <2>1. w = Reset(u)
    BY <1>1, <1>4, <1>7 DEF StartFinished
  <2>2. WasReset(u, w)
    BY <1>2, <2>1, ResetIs
  <2>3. w \in Machine /\ w.state = "free" /\ ~AtWork(w) /\ ~w.starting /\ ~w.stopping /\ NoNew(v, w)
    BY <1>3, <2>2 DEF WasReset, Rests, NoNew
  <2>4. QED
    BY <1>4, <1>7, <2>3
<1>8. CASE v.starting /\ ~(ok /\ v.state = "free") /\ ~(ok /\ v.state = "in")
  <2>1. w = [u EXCEPT !.starting = FALSE]
    BY <1>1, <1>4, <1>8 DEF StartFinished
  <2>2. /\ w \in Machine /\ w.tasks = u.tasks /\ w.calls = u.calls /\ w.state = u.state
        /\ w.src = u.src /\ w.mouse = u.mouse /\ ~w.starting /\ w.stopping = u.stopping
    BY <1>2, <2>1 DEF Machine
  <2>3. (AtWork(w) <=> AtWork(v)) /\ NoNew(v, w)
    BY <1>2, <2>2, SameWork
  <2>4. QED
    BY <1>2, <1>4, <1>8, <2>2, <2>3
<1>9. QED
  BY <1>5, <1>6, <1>7, <1>8

LEMMA StopFinishedIs ==
  ASSUME NEW v \in Machine, NEW ok \in BOOLEAN
  PROVE  LET w == StopFinished(v, ok) IN
         /\ w \in Machine /\ NoNew(v, w)
         /\ ok /\ v.state # "free" => WasReset(v, w)
<1>1. PICK w : w = StopFinished(v, ok)
  OBVIOUS
<1>2. CASE ok /\ v.state # "free"
  BY <1>1, <1>2, ResetIs DEF StopFinished, WasReset, NoNew
<1>3. CASE ~(ok /\ v.state # "free")
  <2>1. w = [v EXCEPT !.stopping = FALSE]
    BY <1>1, <1>3 DEF StopFinished
  <2>2. w \in Machine /\ w.tasks = v.tasks /\ w.calls = v.calls
    BY <2>1 DEF Machine
  <2>3. QED
    BY <1>1, <1>3, <2>2, SameWork
<1>4. QED
  BY <1>2, <1>3

LEMMA ToldStartIs ==
  ASSUME NEW v \in Machine, NEW ok \in BOOLEAN, NEW mouse \in Maybe
  PROVE  LET w == ToldStart(v, ok, mouse) IN
         /\ w \in Machine /\ NoNew(v, w) /\ (~AtWork(v) => ~AtWork(w))
         /\ v.starting =>
              /\ ~w.starting /\ (~v.stopping => ~w.stopping)
              /\ ok /\ v.state = "free" => w.state = "in" /\ w.mouse = mouse
              /\ ok /\ v.state = "out" => w.state = "free"
              /\ ~ok => w.state = v.state /\ w.src = v.src
<1>1. PICK u : u = [v EXCEPT !.mouse = mouse, !.starting = FALSE]
  OBVIOUS
<1>2. /\ u \in Machine /\ u.state = v.state /\ ~u.starting /\ u.stopping = v.stopping
      /\ u.src = v.src /\ u.mouse = mouse /\ u.tasks = v.tasks /\ u.calls = v.calls
  BY <1>1 DEF Machine
<1>3. (AtWork(u) <=> AtWork(v)) /\ NoNew(v, u)
  BY <1>2, SameWork
<1>4. PICK w : w = ToldStart(v, ok, mouse)
  OBVIOUS
<1>5. CASE ~v.starting
  <2>1. w = v
    BY <1>4, <1>5 DEF ToldStart
  <2>2. QED
    BY <1>4, <1>5, <2>1 DEF NoNew
<1>6. CASE v.starting /\ ok /\ v.state = "free"
  <2>1. w = Replaced(u, "in")
    BY <1>1, <1>4, <1>6 DEF ToldStart
  <2>2. /\ w \in Machine /\ w.state = "in" /\ w.mouse = mouse /\ ~w.starting
        /\ w.stopping = v.stopping /\ ~AtWork(w) /\ NoNew(u, w)
    BY <1>2, <2>1, ReplacedTyped, ReplacedRests
  <2>3. NoNew(v, w)
    BY <1>3, <2>2 DEF NoNew
  <2>4. QED
    BY <1>4, <1>6, <2>2, <2>3
<1>7. CASE v.starting /\ ok /\ v.state = "out"
  <2>1. w = Reset(u)
    BY <1>1, <1>4, <1>7 DEF ToldStart
  <2>2. WasReset(u, w)
    BY <1>2, <2>1, ResetIs
  <2>3. w \in Machine /\ w.state = "free" /\ ~AtWork(w) /\ ~w.starting /\ ~w.stopping /\ NoNew(v, w)
    BY <1>3, <2>2 DEF WasReset, Rests, NoNew
  <2>4. QED
    BY <1>4, <1>7, <2>3
<1>8. CASE v.starting /\ ~(ok /\ v.state = "free") /\ ~(ok /\ v.state = "out")
  <2>1. w = u
    BY <1>1, <1>4, <1>8 DEF ToldStart
  <2>2. QED
    BY <1>2, <1>3, <1>4, <1>8, <2>1
<1>9. QED
  BY <1>5, <1>6, <1>7, <1>8

LEMMA ToldStopIs ==
  ASSUME NEW v \in Machine, NEW ok \in BOOLEAN
  PROVE  LET w == ToldStop(v, ok) IN
         /\ w \in Machine /\ NoNew(v, w)
         /\ v.stopping /\ ok => WasReset(v, w)
<1>1. PICK w : w = ToldStop(v, ok)
  OBVIOUS
<1>2. CASE v.stopping /\ ok
  BY <1>1, <1>2, ResetIs DEF ToldStop, WasReset, NoNew
<1>3. CASE ~(v.stopping /\ ok)
  <2>1. w = [v EXCEPT !.stopping = FALSE]
    BY <1>1, <1>3 DEF ToldStop
  <2>2. w \in Machine /\ w.tasks = v.tasks /\ w.calls = v.calls
    BY <2>1 DEF Machine
  <2>3. QED
    BY <1>1, <1>3, <2>2, SameWork
<1>4. QED
  BY <1>2, <1>3

LEMMA ClosedTyped ==
  ASSUME NEW v \in Machine, NEW who, NEW isLocal
  PROVE  Closed(v, who, isLocal) \in Machine
<1>1. PICK w : w = [v EXCEPT !.prepared = NoDevice]
  OBVIOUS
<1>2. w \in Machine
  BY <1>1 DEF Machine, Maybe
<1>3. Reset(w) \in Machine
  BY <1>2, ResetIs DEF WasReset
<1>4. QED
  BY <1>1, <1>2, <1>3 DEF Closed

(* Saving a callback, and calling it, which forgets it. *)
LEMMA SavedIs ==
  ASSUME NEW v \in Machine, NEW c \in Calls, NEW to \in Maybe, NEW mouse \in Maybe
  PROVE  LET w == Saved(v, c, to, mouse) IN
         /\ w \in Machine /\ NoNew(v, w)
         /\ w.state = v.state /\ w.starting = v.starting /\ w.stopping = v.stopping
         /\ w.src = v.src /\ w.mouse = v.mouse /\ w.prepared = v.prepared /\ w.tasks = v.tasks
         /\ w.calls[c] = [to |-> to, mouse |-> mouse, owner |-> "current"]
         /\ \A b \in Calls : b # c => w.calls[b] = v.calls[b]
<1>1. PICK x \in Owned : x = [to |-> to, mouse |-> mouse, owner |-> "current"]
  BY OwnedMade
<1>2. PICK k \in [Calls -> Owned] : k = [v.calls EXCEPT ![c] = x]
  BY MachineFields
<1>3. PICK w : w = [v EXCEPT !.calls = k]
  OBVIOUS
<1>4. Saved(v, c, to, mouse) = w
  BY <1>1, <1>2, <1>3 DEF Saved
<1>5. /\ w \in Machine /\ w.calls = k
      /\ w.state = v.state /\ w.starting = v.starting /\ w.stopping = v.stopping
      /\ w.src = v.src /\ w.mouse = v.mouse /\ w.prepared = v.prepared /\ w.tasks = v.tasks
  BY <1>3 DEF Machine
<1>6. k[c] = x /\ \A b \in Calls : b # c => k[b] = v.calls[b]
  BY <1>2, MachineFields
<1>7. NoNew(v, w)
  BY <1>1, <1>5, <1>6 DEF NoNew
<1>8. QED
  BY <1>1, <1>4, <1>5, <1>6, <1>7

LEMMA ForgottenIs ==
  ASSUME NEW d \in Devices, NEW c \in Calls, dev[d] \in Machine
  PROVE  LET v == dev[d] w == Forgotten(d, c) IN
         /\ w \in Machine /\ NoNew(v, w)
         /\ w.state = v.state /\ w.starting = v.starting /\ w.stopping = v.stopping
         /\ w.src = v.src /\ w.mouse = v.mouse /\ w.prepared = v.prepared /\ w.tasks = v.tasks
         /\ ~Awaits(w, c) /\ \A b \in Calls : b # c => w.calls[b] = v.calls[b]
<1>1. PICK v \in Machine : v = dev[d]
  OBVIOUS
<1>0. NoCall \in Owned /\ NoCall.owner = "none"
  BY DEF Owned, NoCall
<1>2. PICK x \in Owned : x = NoCall /\ x.owner = "none"
  BY <1>0
<1>3. PICK k \in [Calls -> Owned] : k = [v.calls EXCEPT ![c] = x]
  BY MachineFields
<1>4. PICK w : w = [v EXCEPT !.calls = k]
  OBVIOUS
<1>5. Forgotten(d, c) = w
  BY <1>1, <1>2, <1>3, <1>4 DEF Forgotten
<1>6. /\ w \in Machine /\ w.calls = k
      /\ w.state = v.state /\ w.starting = v.starting /\ w.stopping = v.stopping
      /\ w.src = v.src /\ w.mouse = v.mouse /\ w.prepared = v.prepared /\ w.tasks = v.tasks
  BY <1>4 DEF Machine
<1>7. k[c] = x /\ \A b \in Calls : b # c => k[b] = v.calls[b]
  BY <1>3, MachineFields
<1>8. NoNew(v, w) /\ ~Awaits(w, c)
  BY <1>2, <1>6, <1>7 DEF NoNew, Awaits
<1>9. QED
  BY <1>1, <1>5, <1>6, <1>7, <1>8

-----------------------------------------------------------------------------
(* Types, whatever happens. *)
TransportOK ==
  /\ session \in [Devices -> 0..MaxSessions]
  /\ live \in 0..opened /\ opened \in 0..MaxSessions
  /\ \A d \in Devices : session[d] <= opened
  /\ inbox \in [Devices -> Seq(Message)]
DevicesOK == dev \in [Devices -> Machine]
EventsOK == events \in [Devices -> SUBSET {"start", "stop"}]
TypesOK ==
  /\ DevicesOK /\ TransportOK /\ EventsOK
  /\ asked \in [Devices -> [Calls -> Nat]] /\ off \subseteq Devices

LEMMA TypesAre == TypesOK <=> TypeOK /\ inbox \in [Devices -> Seq(Message)]
BY DEF TypesOK, TypeOK, DevicesOK, TransportOK, EventsOK, Machine, Tasks, Owned, Maybe

LEMMA MessagesTyped ==
  /\ Start \in Message /\ Stop \in Message
  /\ \A ok \in BOOLEAN : StopRes(ok) \in Message
  /\ \A ok \in BOOLEAN, mouse \in Maybe : StartRes(ok, mouse) \in Message /\ StartRes(ok, mouse) \in Results
  /\ \A id \in Nat : Lost(id) \in Message
<1>1. Start \in Message /\ Stop \in Message
  BY DEF Message, Start, Stop
<1>2. \A ok \in BOOLEAN : StopRes(ok) \in Message
  BY DEF Message, StopRes
<1>3. \A ok \in BOOLEAN, mouse \in Maybe : StartRes(ok, mouse) \in Results
  BY DEF Results, StartRes, Maybe
<1>4. \A id \in Nat : Lost(id) \in Message
  BY DEF Message, Lost
<1>5. QED
  BY <1>1, <1>2, <1>3, <1>4 DEF Message

LEMMA BecomesIs ==
  ASSUME DevicesOK, NEW d \in Devices, NEW v \in Machine, Becomes(d, v)
  PROVE  DevicesOK' /\ dev'[d] = v /\ dev'[Peer(d)] = dev[Peer(d)]
BY PeerFacts DEF Becomes, DevicesOK

LEMMA MailTyped ==
  ASSUME TransportOK, NEW d \in Devices
  PROVE  /\ inbox[d] \in Seq(Message) /\ session[d] \in Nat /\ live \in Nat /\ opened \in Nat
         /\ \A m \in Message : Append(inbox[d], m) \in Seq(Message)
         /\ Closings(inbox[d]) \in Seq(Message)
         /\ \A lost : Ending(d, lost) \in Seq(Message)
<1>1. /\ inbox[d] \in Seq(Message) /\ session[d] \in Nat /\ live \in Nat /\ opened \in Nat
  BY BoundAssumption DEF TransportOK
<1>2. \A q \in Seq(Message), m \in Message : Append(q, m) \in Seq(Message)
  BY AppendFacts
<1>3. Closings(inbox[d]) \in Seq(Message)
  BY <1>1, ClosingsFacts
<1>4. Lost(live) \in Message
  BY <1>1, MessagesTyped
<1>5. ASSUME NEW lost PROVE Ending(d, lost) \in Seq(Message)
  BY <1>1, <1>2, <1>3, <1>4 DEF Ending
<1>6. QED
  BY <1>1, <1>2, <1>3, <1>5

(* What the functions of the softbus keep, and what they do. *)
LEMMA SendTyped ==
  ASSUME TransportOK, NEW d \in Devices, NEW to, NEW message \in Message, Send(d, to, message)
  PROVE  /\ TransportOK' /\ session' = session /\ live' = live /\ opened' = opened
         /\ inbox'[d] = inbox[d]
         /\ inbox'[Peer(d)] = IF to = Peer(d) /\ session[d] # 0 /\ session[d] = live
                              THEN Append(inbox[Peer(d)], message) ELSE inbox[Peer(d)]
<1>1. PICK p \in Devices : p = Peer(d) /\ p # d
  BY PeerFacts
<1>2. inbox[p] \in Seq(Message) /\ Append(inbox[p], message) \in Seq(Message)
  BY <1>1, MailTyped
<1>3. session' = session /\ live' = live /\ opened' = opened
  BY DEF Send
<1>4. CASE to = p /\ session[d] # 0 /\ session[d] = live
  <2>1. inbox' = [inbox EXCEPT ![p] = Append(inbox[p], message)]
    BY <1>1, <1>4 DEF Send
  <2>2. inbox' \in [Devices -> Seq(Message)]
    BY <1>2, <2>1 DEF TransportOK
  <2>3. inbox'[d] = inbox[d] /\ inbox'[p] = Append(inbox[p], message)
    BY <1>1, <2>1 DEF TransportOK
  <2>4. QED
    BY <1>1, <1>3, <1>4, <2>2, <2>3 DEF TransportOK
<1>5. CASE ~(to = p /\ session[d] # 0 /\ session[d] = live)
  <2>1. inbox' = inbox
    BY <1>1, <1>5 DEF Send
  <2>2. QED
    BY <1>1, <1>3, <1>5, <2>1 DEF TransportOK
<1>6. QED
  BY <1>4, <1>5

LEMMA OpenTyped ==
  ASSUME TransportOK, NEW d \in Devices, NEW first \in Seq(Message), OpenInputSoftbus(d, first)
  PROVE  /\ TransportOK'
         /\ session[d] # 0 => UNCHANGED transport
         /\ session[d] = 0 =>
              /\ live' \in Nat \ {0} /\ (\A e \in Devices : session'[e] = live')
              /\ inbox'[d] = inbox[d] /\ inbox'[Peer(d)] = inbox[Peer(d)] \o first
<1>1. CASE session[d] # 0
  BY <1>1 DEF OpenInputSoftbus, transport, TransportOK
<1>2. CASE session[d] = 0
  <2>1. PICK p \in Devices : p = Peer(d) /\ p # d
    BY PeerFacts
  <2>2. PICK n : n = opened + 1
    OBVIOUS
  <2>3. n \in Nat /\ n # 0 /\ n \in 0..MaxSessions /\ opened < n
    BY <1>2, <2>2, BoundAssumption DEF OpenInputSoftbus, TransportOK
  <2>4. /\ opened' = n /\ live' = n /\ session' = [e \in Devices |-> n]
        /\ inbox' = [inbox EXCEPT ![p] = inbox[p] \o first]
    BY <1>2, <2>1, <2>2 DEF OpenInputSoftbus
  <2>5. inbox[p] \in Seq(Message) /\ inbox[p] \o first \in Seq(Message)
    BY <2>1, ConcatProperties DEF TransportOK
  <2>6. inbox' \in [Devices -> Seq(Message)] /\ inbox'[d] = inbox[d] /\ inbox'[p] = inbox[p] \o first
    BY <2>1, <2>4, <2>5 DEF TransportOK
  <2>7. session' \in [Devices -> 0..MaxSessions] /\ \A e \in Devices : session'[e] = n
    BY <2>3, <2>4
  <2>8. live' \in 0..opened' /\ opened' \in 0..MaxSessions /\ \A e \in Devices : session'[e] <= opened'
    BY <2>3, <2>4, <2>7
  <2>9. QED
    BY <1>2, <2>1, <2>3, <2>4, <2>6, <2>7, <2>8 DEF TransportOK
<1>3. QED
  BY <1>1, <1>2

LEMMA SendAndCloseTyped ==
  ASSUME TransportOK, NEW d \in Devices, NEW to, NEW message \in Message,
         SendAndClose(d, to, message)
  PROVE  /\ TransportOK'
         /\ to = Peer(d) /\ session[d] # 0 =>
              /\ session'[d] = 0 /\ session'[Peer(d)] = session[Peer(d)]
              /\ session[d] # live => live' = live /\ inbox' = inbox
              /\ session[d] = live =>
                   /\ live' = 0 /\ inbox'[d] = Closings(inbox[d])
                   /\ inbox'[Peer(d)] = Append(Append(inbox[Peer(d)], message), Lost(live))
<1>1. CASE to # Peer(d) \/ session[d] = 0
  <2>1. UNCHANGED transport
    BY <1>1 DEF SendAndClose
  <2>2. QED
    BY <1>1, <2>1 DEF transport, TransportOK
<1>2. CASE ~(to # Peer(d) \/ session[d] = 0)
  <2>1. PICK p \in Devices : p = Peer(d) /\ p # d
    BY PeerFacts
  <2>2. session' = [session EXCEPT ![d] = 0] /\ opened' = opened
    BY <1>2 DEF SendAndClose
  <2>3. /\ session' \in [Devices -> 0..MaxSessions] /\ \A e \in Devices : session'[e] <= opened'
        /\ session'[d] = 0 /\ session'[p] = session[p]
    <3>1. 0 \in 0..MaxSessions /\ opened \in Nat
      BY BoundAssumption DEF TransportOK
    <3>2. session' \in [Devices -> 0..MaxSessions] /\ session'[d] = 0 /\ session'[p] = session[p]
      BY <2>1, <2>2, <3>1 DEF TransportOK
    <3>3. ASSUME NEW e \in Devices PROVE session'[e] <= opened'
      BY <2>2, <3>1 DEF TransportOK
    <3>4. QED
      BY <3>2, <3>3
  <2>4. CASE session[d] # live
    <3>1. live' = live /\ inbox' = inbox
      BY <1>2, <2>4 DEF SendAndClose
    <3>2. QED
      BY <1>2, <2>1, <2>2, <2>3, <2>4, <3>1 DEF TransportOK
  <2>5. CASE session[d] = live
    <3>1. PICK q, c : q = Append(Append(inbox[p], message), Lost(live)) /\ c = Closings(inbox[d])
      OBVIOUS
    <3>2. inbox' = [inbox EXCEPT ![p] = q, ![d] = c] /\ live' = 0
      BY <1>2, <2>1, <2>5, <3>1 DEF SendAndClose
    <3>3. Lost(live) \in Message /\ Append(inbox[p], message) \in Seq(Message)
      BY <2>1, MailTyped, MessagesTyped
    <3>4. q \in Seq(Message) /\ c \in Seq(Message)
      BY <3>1, <3>3, MailTyped, AppendFacts
    <3>5. inbox' \in [Devices -> Seq(Message)] /\ inbox'[p] = q /\ inbox'[d] = c
      BY <2>1, <3>2, <3>4 DEF TransportOK
    <3>6. live' \in 0..opened'
      BY <2>2, <3>2, MailTyped
    <3>7. QED
      BY <1>2, <2>1, <2>2, <2>3, <2>5, <3>1, <3>2, <3>5, <3>6 DEF TransportOK
  <2>6. QED
    BY <2>4, <2>5
<1>3. QED
  BY <1>1, <1>2

LEMMA TaskMade ==
  ASSUME NEW what \in {"processStart", "startDinput", "relayStop", "startFinish", "processStop",
                       "stopFinish"},
         NEW ok \in BOOLEAN, NEW to \in Maybe, NEW mouse \in Maybe
  PROVE  /\ Task(what, ok, to, mouse) \in Tasks
         /\ Task(what, ok, to, mouse).what = what /\ Task(what, ok, to, mouse).ok = ok
         /\ Task(what, ok, to, mouse).to = to /\ Task(what, ok, to, mouse).mouse = mouse
BY DEF Task, Tasks

LEMMA AnswerTyped ==
  ASSUME EventsOK, NEW d \in Devices, NEW call \in {"start", "stop"}, Answer(d, call)
  PROVE  /\ EventsOK' /\ events'[d] = events[d] \ {call}
         /\ \A e \in Devices : e # d => events'[e] = events[e]
BY DEF EventsOK, Answer

LEMMA FinishStartTyped ==
  ASSUME DevicesOK, TransportOK, EventsOK, NEW d \in Devices, NEW v \in Machine,
         NEW ok \in BOOLEAN, NEW to, NEW mouse \in Maybe, FinishStart(d, v, ok, to, mouse)
  PROVE  DevicesOK' /\ TransportOK' /\ EventsOK'
<1>1. PICK w \in Machine : w = StartFinished(v, ok, mouse)
  BY StartFinishedIs
<1>2. DevicesOK'
  BY <1>1, BecomesIs DEF FinishStart
<1>3. CASE v.starting
  <2>1. StartRes(ok, mouse) \in Message /\ Send(d, to, StartRes(ok, mouse)) /\ Answer(d, "start")
    BY <1>3, MessagesTyped DEF FinishStart
  <2>2. QED
    BY <1>2, <2>1, SendTyped, AnswerTyped
<1>4. CASE ~v.starting
  <2>1. UNCHANGED <<transport, events>>
    BY <1>4 DEF FinishStart
  <2>2. QED
    BY <1>2, <2>1 DEF transport, TransportOK, EventsOK
<1>5. QED
  BY <1>3, <1>4

LEMMA FinishStopTyped ==
  ASSUME DevicesOK, TransportOK, EventsOK, NEW d \in Devices, NEW v \in Machine,
         NEW ok \in BOOLEAN, NEW to, FinishStop(d, v, ok, to)
  PROVE  DevicesOK' /\ TransportOK' /\ EventsOK'
<1>1. CASE v.stopping
  <2>1. PICK w \in Machine : w = StopFinished(v, ok)
    BY StopFinishedIs
  <2>2. /\ Becomes(d, w) /\ Answer(d, "stop") /\ SendAndClose(d, to, StopRes(ok))
        /\ StopRes(ok) \in Message
    BY <1>1, <2>1, MessagesTyped DEF FinishStop
  <2>3. QED
    BY <2>1, <2>2, BecomesIs, AnswerTyped, SendAndCloseTyped
<1>2. CASE ~v.stopping
  <2>1. Becomes(d, v) /\ UNCHANGED <<transport, events>>
    BY <1>2 DEF FinishStop
  <2>2. QED
    BY <2>1, BecomesIs DEF transport, TransportOK, EventsOK
<1>3. QED
  BY <1>1, <1>2

LEMMA AskedTyped ==
  ASSUME asked \in [Devices -> [Calls -> Nat]], NEW d \in Devices, NEW c \in Calls
  PROVE  /\ asked' = [asked EXCEPT ![d][c] = @ + 1] => asked' \in [Devices -> [Calls -> Nat]]
         /\ asked[d][c] > 0 /\ asked' = [asked EXCEPT ![d][c] = @ - 1]
              => asked' \in [Devices -> [Calls -> Nat]]
<1>1. PICK n \in Nat : n = asked[d][c]
  OBVIOUS
<1>2. n + 1 \in Nat /\ (n > 0 => n - 1 \in Nat)
  OBVIOUS
<1>3. QED
  BY <1>1, <1>2

LEMMA AskTyped ==
  ASSUME TypesOK, NEW d \in Devices, NEW v \in Machine, NEW c \in Calls, NEW to \in Maybe,
         NEW mouse \in Maybe, Ask(d, v, c, to, mouse)
  PROVE  /\ DevicesOK' /\ TransportOK' /\ EventsOK' /\ asked' \in [Devices -> [Calls -> Nat]]
         /\ transport' = transport /\ events' = events /\ odd' = odd
         /\ dev'[d] = Saved(v, c, to, mouse) /\ dev'[Peer(d)] = dev[Peer(d)]
<1>1. PICK w \in Machine : w = Saved(v, c, to, mouse)
  BY SavedIs
<1>2. DevicesOK' /\ dev'[d] = w /\ dev'[Peer(d)] = dev[Peer(d)]
  BY <1>1, BecomesIs DEF Ask, TypesOK
<1>3. asked' \in [Devices -> [Calls -> Nat]]
  BY AskedTyped DEF Ask, TypesOK
<1>4. UNCHANGED <<transport, events, odd>>
  BY DEF Ask
<1>5. QED
  BY <1>1, <1>2, <1>3, <1>4 DEF TypesOK, transport, TransportOK, EventsOK

(* A request that is refused, and what follows. *)
LEMMA RefusedTyped ==
  ASSUME TypesOK, NEW d \in Devices, NEW v \in Machine, NEW because, Refuse(because),
         NEW ok \in BOOLEAN, NEW to, NEW mouse \in Maybe,
         FinishStart(d, v, ok, to, mouse) \/ FinishStop(d, v, ok, to)
  PROVE  DevicesOK' /\ TransportOK' /\ EventsOK' /\ asked' \in [Devices -> [Calls -> Nat]]
<1>1. asked' = asked
  BY DEF Refuse
<1>2. QED
  BY <1>1, FinishStartTyped, FinishStopTyped DEF TypesOK

AskKept == DevicesOK' /\ TransportOK' /\ EventsOK' /\ asked' \in [Devices -> [Calls -> Nat]]

LEMMA AskPrepareTyped ==
  ASSUME TypesOK, NEW d \in Devices, NEW v \in Machine, NEW mouse \in Maybe, AskPrepare(d, v, mouse)
  PROVE  AskKept
<1>1. PICK w : w = [v EXCEPT !.prepared = Peer(d)]
  OBVIOUS
<1>2. w \in Machine /\ Peer(d) \in Maybe /\ d \in Maybe /\ "prepare" \in Calls
  BY <1>1, PeerFacts DEF Machine, Calls
<1>3. CASE Ask(d, w, "prepare", Peer(d), mouse)
  BY <1>2, <1>3, AskTyped DEF AskKept
<1>4. CASE /\ Refuse({"refused"})
           /\ FinishStart(d, [Saved(v, "prepare", Peer(d), mouse) EXCEPT !.prepared = NoDevice],
                          FALSE, d, mouse)
  <2>1. PICK s \in Machine : s = Saved(v, "prepare", Peer(d), mouse)
    BY <1>2, SavedIs
  <2>2. PICK u \in Machine : u = [s EXCEPT !.prepared = NoDevice]
    <3>1. [s EXCEPT !.prepared = NoDevice] \in Machine
      BY PeerFacts DEF Machine
    <3>2. QED
      BY <3>1
  <2>3. Refuse({"refused"}) /\ FinishStart(d, u, FALSE, d, mouse)
    BY <1>4, <2>1, <2>2
  <2>4. QED
    BY <2>3, RefusedTyped DEF AskKept
<1>5. QED
  BY <1>1, <1>3, <1>4 DEF AskPrepare

LEMMA AskStartTyped ==
  ASSUME TypesOK, NEW d \in Devices, NEW v \in Machine, NEW mouse \in Maybe, AskStart(d, v, mouse)
  PROVE  AskKept
<1>1. PICK p \in Maybe : p = v.prepared
  BY MachineFields
<1>2. PICK s \in Machine : s = Saved(v, "start", p, mouse)
  BY SavedIs DEF Calls
<1>3. \/ Ask(d, v, "start", p, mouse)
      \/ Refuse({"refused"}) /\ FinishStart(d, s, FALSE, p, mouse)
  BY <1>1, <1>2 DEF AskStart
<1>4. "start" \in Calls
  BY DEF Calls
<1>5. QED
  BY <1>3, <1>4, AskTyped, RefusedTyped DEF AskKept

LEMMA AskBackTyped ==
  ASSUME TypesOK, NEW d \in Devices, NEW v \in Machine, NEW to \in Maybe, NEW mouse \in Maybe,
         NEW toTell, AskBack(d, v, to, mouse, toTell)
  PROVE  AskKept
<1>1. "stopIn" \in Calls
  BY DEF Calls
<1>2. PICK s \in Machine : s = Saved(v, "stopIn", to, mouse)
  BY <1>1, SavedIs
<1>3. \/ Ask(d, v, "stopIn", to, mouse)
      \/ Refuse({"refused"}) /\ FinishStart(d, s, FALSE, toTell, mouse)
  BY <1>2 DEF AskBack
<1>4. QED
  BY <1>1, <1>3, AskTyped, RefusedTyped DEF AskKept

LEMMA AskStopTyped ==
  ASSUME TypesOK, NEW d \in Devices, NEW v \in Machine, NEW to \in Maybe, AskStop(d, v, to)
  PROVE  AskKept
<1>1. PICK c \in Calls : c = IF v.state = "in" THEN "stopIn" ELSE "stopOut"
  BY DEF Calls
<1>2. NoDevice \in Maybe
  BY DEF Maybe
<1>3. PICK s \in Machine : s = Saved(v, c, to, NoDevice)
  BY <1>2, SavedIs
<1>4. \/ Ask(d, v, c, to, NoDevice)
      \/ Refuse({"refused", "stopFailed"}) /\ FinishStop(d, s, FALSE, to)
  BY <1>1, <1>3 DEF AskStop
<1>5. QED
  BY <1>2, <1>4, AskTyped, RefusedTyped DEF AskKept

LEMMA HeadTask ==
  ASSUME DevicesOK, NEW d \in Devices, dev[d].tasks # <<>>
  PROVE  /\ Head(dev[d].tasks) \in Tasks /\ Head(dev[d].tasks) = dev[d].tasks[1]
         /\ LET v == [dev[d] EXCEPT !.tasks = Tail(@)] IN
            /\ v \in Machine /\ v.tasks = Tail(dev[d].tasks) /\ v.calls = dev[d].calls
            /\ v.state = dev[d].state /\ v.starting = dev[d].starting
            /\ v.stopping = dev[d].stopping /\ v.src = dev[d].src /\ v.mouse = dev[d].mouse
            /\ v.prepared = dev[d].prepared
<1>1. PICK m \in Machine : m = dev[d]
  BY DEF DevicesOK
<1>2. m.tasks \in Seq(Tasks) /\ m.tasks # <<>>
  BY <1>1, MachineFields
<1>3. PICK q \in Seq(Tasks) : q = Tail(m.tasks)
  BY <1>2, HeadTailProperties
<1>4. Head(m.tasks) \in Tasks /\ Head(m.tasks) = m.tasks[1]
  BY <1>2, HeadTailProperties
<1>5. PICK v : v = [m EXCEPT !.tasks = q]
  OBVIOUS
<1>6. /\ v \in Machine /\ v.tasks = q /\ v.calls = m.calls
      /\ v.state = m.state /\ v.starting = m.starting /\ v.stopping = m.stopping
      /\ v.src = m.src /\ v.mouse = m.mouse /\ v.prepared = m.prepared
  BY <1>5 DEF Machine
<1>7. v = [dev[d] EXCEPT !.tasks = Tail(@)]
  BY <1>1, <1>3, <1>5
<1>8. QED
  BY <1>1, <1>3, <1>4, <1>6, <1>7

LEMMA TaskFields ==
  ASSUME NEW t \in Tasks
  PROVE  /\ t.ok \in BOOLEAN /\ t.to \in Maybe /\ t.mouse \in Maybe
         /\ t.what \in {"processStart", "startDinput", "relayStop", "startFinish", "processStop",
                        "stopFinish"}
BY DEF Tasks

LEMMA RunTaskTyped ==
  ASSUME TypesOK, NEW d \in Devices, RunTask(d)
  PROVE  TypesOK'
<1>1. PICK t, v : /\ t = Head(dev[d].tasks) /\ v = [dev[d] EXCEPT !.tasks = Tail(@)]
                  /\ t \in Tasks /\ v \in Machine
  BY HeadTask DEF RunTask, TypesOK
<1>2. /\ t.ok \in BOOLEAN /\ t.to \in Maybe /\ t.mouse \in Maybe
  BY <1>1, TaskFields
<1>3. off' = off
  BY DEF RunTask
<1>4. \/ ProcessStart(d, v, t.mouse) \/ AskStart(d, v, t.mouse)
      \/ AskBack(d, v, t.to, t.mouse, d) \/ AskStop(d, v, t.to)
      \/ FinishStart(d, v, t.ok, t.to, t.mouse) /\ asked' = asked
      \/ FinishStop(d, v, t.ok, t.to) /\ asked' = asked
  BY <1>1 DEF RunTask
<1>5. ProcessStart(d, v, t.mouse) =>
        \/ AskBack(d, v, t.mouse, t.mouse, t.mouse)
        \/ AskStart(d, v, t.mouse) \/ AskPrepare(d, v, t.mouse)
  BY DEF ProcessStart
<1>6. CASE \/ AskBack(d, v, t.mouse, t.mouse, t.mouse) \/ AskBack(d, v, t.to, t.mouse, d)
           \/ AskStart(d, v, t.mouse) \/ AskPrepare(d, v, t.mouse) \/ AskStop(d, v, t.to)
  <2>1. AskKept
    BY <1>1, <1>2, <1>6, AskBackTyped, AskStartTyped, AskPrepareTyped, AskStopTyped
  <2>2. QED
    BY <1>3, <2>1 DEF AskKept, TypesOK
<1>7. CASE /\ FinishStart(d, v, t.ok, t.to, t.mouse) \/ FinishStop(d, v, t.ok, t.to)
           /\ asked' = asked
  BY <1>1, <1>2, <1>3, <1>7, FinishStartTyped, FinishStopTyped DEF TypesOK
<1>8. QED
  BY <1>4, <1>5, <1>6, <1>7

(* What a callback does: nothing, a task for what is next, or the end of a
   start. *)
Posted(call, what, ok) == Task(what, ok, call.to, call.mouse)

Outcome(d, v, c, ok, call) ==
  \/ /\ Becomes(d, v) /\ UNCHANGED <<transport, events>>
     /\ call.owner # "current" \/ (c = "stopIn" /\ ~v.starting /\ ~v.stopping)
  \/ /\ call.owner = "current" /\ c = "prepare" /\ ~ok
     /\ FinishStart(d, [v EXCEPT !.prepared = NoDevice], FALSE, call.to, call.mouse)
  \/ /\ call.owner = "current" /\ UNCHANGED <<transport, events>>
     /\ \E what \in {"startDinput", "relayStop", "startFinish", "stopFinish"}, isOk \in BOOLEAN :
          /\ Becomes(d, Post(v, Posted(call, what, isOk)))
          /\ \/ c = "prepare" /\ what = "startDinput"
             \/ c = "start" /\ v.state = "in" /\ what = "relayStop"
             \/ c = "start" /\ what = "startFinish"
             \/ c = "stopOut" /\ what = "stopFinish"
             \/ c = "stopIn" /\ v.starting /\ what = "startFinish"
             \/ c = "stopIn" /\ ~v.starting /\ v.stopping /\ what = "stopFinish"

LEMMA CalledIs ==
  ASSUME NEW d \in Devices, NEW v, NEW c \in Calls, NEW ok \in BOOLEAN,
         Called(d, v, c, ok)
  PROVE  Outcome(d, v, c, ok, dev[d].calls[c])
<1>1. PICK call : call = dev[d].calls[c]
  OBVIOUS
<1>2. CASE call.owner # "current"
  BY <1>1, <1>2 DEF Called, Outcome
<1>3. CASE call.owner = "current" /\ c = "prepare"
  <2>1. CASE ok
    BY <1>1, <1>3, <2>1 DEF Called, Posted, Outcome
  <2>2. CASE ~ok
    BY <1>1, <1>3, <2>2 DEF Called, Outcome
  <2>3. QED
    BY <2>1, <2>2
<1>4. CASE call.owner = "current" /\ c = "start"
  <2>1. CASE ok /\ v.state = "in"
    BY <1>1, <1>4, <2>1 DEF Called, Posted, Outcome
  <2>2. CASE ~(ok /\ v.state = "in")
    BY <1>1, <1>4, <2>2 DEF Called, Posted, Outcome
  <2>3. QED
    BY <2>1, <2>2
<1>5. CASE call.owner = "current" /\ c = "stopOut"
  BY <1>1, <1>5 DEF Called, Posted, Outcome
<1>6. CASE call.owner = "current" /\ c = "stopIn"
  BY <1>1, <1>6 DEF Called, Posted, Outcome
<1>7. QED
  BY <1>1, <1>2, <1>3, <1>4, <1>5, <1>6 DEF Calls

LEMMA CalledTyped ==
  ASSUME TypesOK, NEW d \in Devices, NEW c \in Calls, NEW ok \in BOOLEAN,
         Called(d, Forgotten(d, c), c, ok)
  PROVE  DevicesOK' /\ TransportOK' /\ EventsOK'
<1>1. PICK v \in Machine : v = Forgotten(d, c)
  BY ForgottenIs DEF TypesOK, DevicesOK
<1>2. PICK call \in Owned : call = dev[d].calls[c]
  BY MachineFields DEF TypesOK, DevicesOK
<1>3. call.to \in Maybe /\ call.mouse \in Maybe
  BY <1>2, CallFacts
<1>4. \/ Becomes(d, v) /\ UNCHANGED <<transport, events>>
      \/ FinishStart(d, [v EXCEPT !.prepared = NoDevice], FALSE, call.to, call.mouse)
      \/ /\ UNCHANGED <<transport, events>>
         /\ \E what \in {"startDinput", "relayStop", "startFinish", "stopFinish"}, isOk \in BOOLEAN :
              Becomes(d, Post(v, Posted(call, what, isOk)))
  <2>1. Called(d, v, c, ok)
    BY <1>1
  <2>2. Outcome(d, v, c, ok, call)
    BY <1>2, <2>1, CalledIs
  <2>3. QED
    BY <2>2 DEF Outcome
<1>5. CASE Becomes(d, v) /\ UNCHANGED <<transport, events>>
  BY <1>5, BecomesIs DEF TypesOK, transport, TransportOK, EventsOK
<1>6. CASE FinishStart(d, [v EXCEPT !.prepared = NoDevice], FALSE, call.to, call.mouse)
  <2>1. [v EXCEPT !.prepared = NoDevice] \in Machine
    BY DEF Machine, Maybe
  <2>2. QED
    BY <1>3, <1>6, <2>1, FinishStartTyped DEF TypesOK
<1>7. ASSUME UNCHANGED <<transport, events>>,
             NEW what \in {"startDinput", "relayStop", "startFinish", "stopFinish"}, NEW isOk \in BOOLEAN,
             Becomes(d, Post(v, Posted(call, what, isOk)))
      PROVE  DevicesOK' /\ TransportOK' /\ EventsOK'
  <2>1. Posted(call, what, isOk) \in Tasks
    BY <1>3, TaskMade DEF Posted
  <2>2. Post(v, Posted(call, what, isOk)) \in Machine
    BY <2>1, PostTyped
  <2>3. QED
    BY <1>7, <2>2, BecomesIs DEF TypesOK, transport, TransportOK, EventsOK
<1>8. QED
  BY <1>4, <1>5, <1>6, <1>7

LEMMA CallbackTyped ==
  ASSUME TypesOK, NEW d \in Devices, NEW c \in Calls, NEW ok \in BOOLEAN,
         ProcessDInputCallback(d, c, ok) \/ TimeOut(d, c)
  PROVE  TypesOK'
<1>1. CASE ProcessDInputCallback(d, c, ok)
  <2>1. DevicesOK' /\ TransportOK' /\ EventsOK' /\ off' = off
    BY <1>1, CalledTyped DEF ProcessDInputCallback
  <2>2. asked' \in [Devices -> [Calls -> Nat]]
    BY <1>1, AskedTyped DEF ProcessDInputCallback, TypesOK
  <2>3. QED
    BY <2>1, <2>2 DEF TypesOK
<1>2. CASE TimeOut(d, c)
  <2>1. DevicesOK' /\ TransportOK' /\ EventsOK' /\ off' = off /\ asked' = asked
    BY <1>2, CalledTyped DEF TimeOut
  <2>2. QED
    BY <2>1 DEF TypesOK
<1>3. QED
  BY <1>1, <1>2

LEMMA EventsTyped ==
  ASSUME EventsOK, NEW d \in Devices, NEW calls \in SUBSET {"start", "stop"},
         Register(d, calls) \/ \E call \in calls : RegisterAndRefuse(d, call)
  PROVE  EventsOK'
BY DEF EventsOK, Register, RegisterAndRefuse

LEMMA OpenAndSendTyped ==
  ASSUME TransportOK, NEW d \in Devices, OpenAndSend(d)
  PROVE  TransportOK'
<1>1. Start \in Message /\ <<Start>> \in Seq(Message)
  <2>1. Start \in Message
    BY MessagesTyped
  <2>2. QED
    BY <2>1
<1>2. QED
  BY <1>1, SendTyped, OpenTyped DEF OpenAndSend

LEMMA StartTyped ==
  ASSUME TypesOK, NEW d \in Devices, NEW mouse \in Devices, StartInputDeviceCooperate(d, mouse)
  PROVE  TypesOK'
<1>1. asked' = asked /\ off' = off
  BY DEF StartInputDeviceCooperate
<1>2. EventsOK'
  <2>1. Register(d, {"start"}) \/ RegisterAndRefuse(d, "start")
    BY DEF StartInputDeviceCooperate
  <2>2. {"start"} \in SUBSET {"start", "stop"}
    OBVIOUS
  <2>3. QED
    BY <2>1, <2>2, EventsTyped DEF TypesOK
<1>3. CASE OpenAndSend(d) /\ Becomes(d, [Post(dev[d], Task("processStart", TRUE, Peer(d), mouse)) EXCEPT
                         !.starting = TRUE,
                         !.src = IF dev[d].state = "free" THEN Peer(d) ELSE @])
  <2>1. PICK w \in Machine : w = Post(dev[d], Task("processStart", TRUE, Peer(d), mouse))
    <3>1. Task("processStart", TRUE, Peer(d), mouse) \in Tasks
      BY PeerFacts, TaskMade DEF Maybe
    <3>2. QED
      BY <3>1, PostTyped DEF TypesOK, DevicesOK
  <2>2. PICK x : x = [w EXCEPT !.starting = TRUE, !.src = IF dev[d].state = "free" THEN Peer(d) ELSE w.src]
    OBVIOUS
  <2>3. x \in Machine
    BY <2>2, PeerFacts DEF Machine
  <2>4. Becomes(d, x)
    BY <1>3, <2>1, <2>2
  <2>5. QED
    BY <1>1, <1>2, <1>3, <2>3, <2>4, BecomesIs, OpenAndSendTyped DEF TypesOK
<1>4. CASE dev' = dev /\ (UNCHANGED transport \/ OpenInputSoftbus(d, <<>>))
  <2>1. TransportOK'
    <3>1. <<>> \in Seq(Message)
      OBVIOUS
    <3>2. QED
      BY <1>4, <3>1, OpenTyped DEF TypesOK, transport, TransportOK
  <2>2. QED
    BY <1>1, <1>2, <1>4, <2>1 DEF TypesOK, DevicesOK
<1>5. QED
  BY <1>3, <1>4 DEF StartInputDeviceCooperate

LEMMA StoppingIs ==
  ASSUME DevicesOK, TransportOK, NEW d \in Devices, Stopping(d)
  PROVE  /\ DevicesOK' /\ TransportOK' /\ Send(d, Peer(d), Stop)
         /\ dev'[Peer(d)] = dev[Peer(d)]
         /\ LET v == dev[d] w == dev'[d] t == Task("processStop", TRUE, Peer(d), NoDevice) IN
            /\ t \in Tasks /\ w.tasks = Append(v.tasks, t) /\ w.calls = v.calls
            /\ w.stopping = TRUE /\ w.starting = v.starting /\ w.state = v.state
            /\ w.src = v.src /\ w.mouse = v.mouse
<1>1. PICK t \in Tasks : t = Task("processStop", TRUE, Peer(d), NoDevice)
  BY PeerFacts, TaskMade
<1>2. PICK v \in Machine : v = dev[d]
  BY DEF DevicesOK
<1>3. PICK q \in Seq(Tasks) : q = Append(v.tasks, t)
  BY MachineFields, AppendFacts
<1>4. PICK w : w = [v EXCEPT !.tasks = q, !.stopping = TRUE]
  OBVIOUS
<1>5. /\ w \in Machine /\ w.tasks = q /\ w.calls = v.calls /\ w.stopping = TRUE
      /\ w.starting = v.starting /\ w.state = v.state /\ w.src = v.src /\ w.mouse = v.mouse
  BY <1>4 DEF Machine
<1>6. Becomes(d, w)
  BY <1>1, <1>2, <1>3, <1>4 DEF Stopping, Post
<1>7. Send(d, Peer(d), Stop) /\ Stop \in Message
  BY MessagesTyped DEF Stopping
<1>8. QED
  BY <1>1, <1>2, <1>3, <1>5, <1>6, <1>7, BecomesIs, SendTyped

LEMMA StopTyped ==
  ASSUME TypesOK, NEW d \in Devices, StopInputDeviceCooperate(d) \/ CheckPointerEvent(d)
  PROVE  TypesOK'
<1>1. asked' = asked /\ off' = off
  BY DEF StopInputDeviceCooperate, CheckPointerEvent
<1>2. EventsOK'
  <2>1. Register(d, {"stop"}) \/ RegisterAndRefuse(d, "stop") \/ Register(d, {})
    BY DEF StopInputDeviceCooperate, CheckPointerEvent
  <2>2. {"stop"} \in SUBSET {"start", "stop"} /\ {} \in SUBSET {"start", "stop"}
    OBVIOUS
  <2>3. QED
    BY <2>1, <2>2, EventsTyped DEF TypesOK
<1>3. Stopping(d) \/ UNCHANGED <<dev, transport>>
  BY DEF StopInputDeviceCooperate, CheckPointerEvent
<1>4. CASE Stopping(d)
  BY <1>1, <1>2, <1>4, StoppingIs DEF TypesOK
<1>5. CASE UNCHANGED <<dev, transport>>
  BY <1>1, <1>2, <1>5 DEF TypesOK, transport, TransportOK, DevicesOK
<1>6. QED
  BY <1>3, <1>4, <1>5

LEMMA CloseTyped ==
  ASSUME TypesOK, NEW d \in Devices,
         DisableInputDeviceCooperate(d) \/ OnCooperateChanged(d)
  PROVE  TypesOK'
<1>1. PICK who, isLocal : CloseCooperation(d, who, isLocal)
  BY DEF DisableInputDeviceCooperate, OnCooperateChanged
<1>2. events' = events /\ off' \subseteq Devices
  BY PeerFacts DEF DisableInputDeviceCooperate, OnCooperateChanged, TypesOK
<1>3. PICK v \in Machine : v = Closed(dev[d], who, isLocal)
  BY ClosedTyped DEF TypesOK, DevicesOK
<1>4. PICK x \in Owned : x = [NoCall EXCEPT !.owner = "nobody"]
  BY CallFacts DEF Owned
<1>5. PICK w : w = [v EXCEPT !.calls["stopOut"] = x]
  OBVIOUS
<1>6. w \in Machine
  <2>1. PICK k \in [Calls -> Owned] : k = [v.calls EXCEPT !["stopOut"] = x]
    BY MachineFields
  <2>2. w = [v EXCEPT !.calls = k]
    BY <1>5, <2>1
  <2>3. QED
    BY <2>2 DEF Machine
<1>7. Becomes(d, w) \/ Becomes(d, v)
  BY <1>1, <1>3, <1>4, <1>5 DEF CloseCooperation
<1>8. asked' \in [Devices -> [Calls -> Nat]]
  <2>1. "stopOut" \in Calls
    BY DEF Calls
  <2>2. asked' = [asked EXCEPT ![d]["stopOut"] = @ + 1] \/ asked' = asked
    BY <1>1 DEF CloseCooperation
  <2>3. QED
    BY <2>1, <2>2, AskedTyped DEF TypesOK
<1>9. UNCHANGED transport
  BY <1>1 DEF CloseCooperation
<1>10. DevicesOK'
  BY <1>3, <1>6, <1>7, BecomesIs DEF TypesOK
<1>11. QED
  BY <1>2, <1>8, <1>9, <1>10 DEF TypesOK, transport, TransportOK, EventsOK

(* What the softbus gives. *)
ToldBy(d, m, v) ==
  CASE m.type = "start"    -> [v EXCEPT !.starting = TRUE]
    [] m.type = "stop"     -> [v EXCEPT !.stopping = TRUE]
    [] m.type = "startRes" -> ToldStart(v, m.ok, m.mouse)
    [] m.type = "stopRes"  -> ToldStop(v, m.ok)
    [] m.type = "closed"   -> ResetBy(v, IF session[d] = m.id THEN Peer(d) ELSE NoDevice)

LEMMA MessageFields ==
  ASSUME NEW m \in Message
  PROVE  /\ m.type \in {"start", "stop", "startRes", "stopRes", "closed"}
         /\ m.type = "start" => m = Start
         /\ m.type = "stop" => m = Stop
         /\ m.type = "startRes" => m \in Results /\ m.ok \in BOOLEAN /\ m.mouse \in Maybe
         /\ m.type = "stopRes" => m.ok \in BOOLEAN /\ m = StopRes(m.ok)
         /\ m.type = "closed" => m.id \in Nat /\ m = Lost(m.id)
<1>1. CASE m \in [type : {"start", "stop"}]
  BY <1>1 DEF Start, Stop
<1>2. CASE m \in Results
  BY <1>2 DEF Results, Start, Stop
<1>3. CASE m \in [type : {"stopRes"}, ok : BOOLEAN]
  BY <1>3 DEF StopRes
<1>4. CASE m \in [type : {"closed"}, id : Nat]
  BY <1>4 DEF Lost
<1>5. QED
  BY <1>1, <1>2, <1>3, <1>4 DEF Message

LEMMA ToldByTyped ==
  ASSUME NEW d \in Devices, NEW m \in Message, NEW v \in Machine
  PROVE  ToldBy(d, m, v) \in Machine /\ NoNew(v, ToldBy(d, m, v))
<1>1. CASE m.type = "start" \/ m.type = "stop"
  <2>1. PICK w : w = ToldBy(d, m, v)
    OBVIOUS
  <2>2. w \in Machine /\ w.tasks = v.tasks /\ w.calls = v.calls
    BY <1>1, <2>1 DEF ToldBy, Machine
  <2>3. QED
    BY <2>1, <2>2, SameWork
<1>2. CASE m.type = "startRes"
  BY <1>2, MessageFields, ToldStartIs DEF ToldBy
<1>3. CASE m.type = "stopRes"
  BY <1>3, MessageFields, ToldStopIs DEF ToldBy
<1>4. CASE m.type = "closed"
  <2>1. PICK who : who = IF session[d] = m.id THEN Peer(d) ELSE NoDevice
    OBVIOUS
  <2>2. ToldBy(d, m, v) = ResetBy(v, who)
    BY <1>4, <2>1 DEF ToldBy
  <2>3. QED
    BY <2>2, ResetByIs DEF WasReset, NoNew
<1>5. QED
  BY <1>1, <1>2, <1>3, <1>4, MessageFields

(* HandleSessionData, of the first message m. *)
LEMMA HandleIs ==
  ASSUME TypesOK, NEW d \in Devices, HandleSessionData(d)
  PROVE  /\ TypesOK'
         /\ inbox[d] \in Seq(Message) /\ inbox[d] # <<>> /\ Head(inbox[d]) \in Message
         /\ dev'[d] = ToldBy(d, Head(inbox[d]), dev[d]) /\ dev'[Peer(d)] = dev[Peer(d)]
         /\ inbox'[d] = Tail(inbox[d]) /\ inbox'[Peer(d)] = inbox[Peer(d)]
         /\ session'[Peer(d)] = session[Peer(d)]
         /\ session'[d] = IF /\ Head(inbox[d]).type = "closed"
                             /\ session[d] = Head(inbox[d]).id
                          THEN 0 ELSE session[d]
<1>1. inbox[d] \in Seq(Message) /\ inbox[d] # <<>>
  BY DEF HandleSessionData, TypesOK, TransportOK
<1>2. PICK m \in Message : m = Head(inbox[d])
  BY <1>1, HeadTailProperties
<1>3. PICK q \in Seq(Message) : q = Tail(inbox[d])
  BY <1>1, HeadTailProperties
<1>4. PICK w \in Machine : w = ToldBy(d, m, dev[d])
  BY ToldByTyped DEF TypesOK, DevicesOK
<1>5. Becomes(d, w)
  BY <1>2, <1>4 DEF HandleSessionData, ToldBy
<1>6. DevicesOK' /\ dev'[d] = w /\ dev'[Peer(d)] = dev[Peer(d)]
  BY <1>5, BecomesIs DEF TypesOK
<1>7. inbox' = [inbox EXCEPT ![d] = q]
  BY <1>3 DEF HandleSessionData
<1>8. inbox' \in [Devices -> Seq(Message)] /\ inbox'[d] = q /\ inbox'[Peer(d)] = inbox[Peer(d)]
  BY <1>7, PeerFacts DEF TypesOK, TransportOK
<1>9. session' = IF m.type = "closed" /\ session[d] = m.id THEN [session EXCEPT ![d] = 0] ELSE session
  BY <1>2 DEF HandleSessionData
<1>10. 0 \in 0..MaxSessions /\ opened \in Nat
  BY BoundAssumption DEF TypesOK, TransportOK
<1>11. /\ session' \in [Devices -> 0..MaxSessions] /\ \A e \in Devices : session'[e] <= opened
       /\ session'[Peer(d)] = session[Peer(d)]
       /\ session'[d] = IF m.type = "closed" /\ session[d] = m.id THEN 0 ELSE session[d]
  BY <1>9, <1>10, PeerFacts DEF TypesOK, TransportOK
<1>12. UNCHANGED <<asked, off, live, opened, events>>
  BY DEF HandleSessionData
<1>13. QED
  BY <1>1, <1>2, <1>3, <1>4, <1>6, <1>8, <1>11, <1>12 DEF TypesOK, TransportOK, EventsOK

LEMMA CutIs ==
  ASSUME TypesOK, Cut
  PROVE  /\ TypesOK' /\ live # 0 /\ live' = 0 /\ session' = session /\ dev' = dev
         /\ \A d \in Devices : \E lost \in BOOLEAN : inbox'[d] = Ending(d, lost)
<1>1. PICK lost \in [Devices -> BOOLEAN] : inbox' = [d \in Devices |-> Ending(d, lost[d])]
  BY DEF Cut
<1>2. \A d \in Devices : inbox'[d] = Ending(d, lost[d]) /\ lost[d] \in BOOLEAN
  BY <1>1
<1>3. \A d \in Devices : Ending(d, lost[d]) \in Seq(Message)
  BY MailTyped DEF TypesOK
<1>4. inbox' \in [Devices -> Seq(Message)]
  BY <1>1, <1>3
<1>5. /\ UNCHANGED <<dev, asked, session, opened, off, events>> /\ live # 0 /\ live' = 0
  BY DEF Cut
<1>6. live' \in 0..opened'
  BY <1>5, BoundAssumption DEF TypesOK, TransportOK
<1>7. QED
  BY <1>2, <1>4, <1>5, <1>6 DEF TypesOK, TransportOK, EventsOK, DevicesOK

LEMMA FreshTyped == Fresh \in Machine /\ Fresh.state = "free" /\ Rests(Fresh) /\ NoNew(Fresh, Fresh)
                    /\ \A c \in Calls : Fresh.calls[c].owner = "none"
<1>1. PICK k : k = [c \in Calls |-> NoCall]
  OBVIOUS
<1>2. k \in [Calls -> Owned] /\ \A c \in Calls : k[c].owner = "none"
  BY <1>1 DEF Owned, NoCall
<1>3. <<>> \in Seq(Tasks)
  OBVIOUS
<1>4. PICK q \in Seq(Tasks) : q = <<>>
  BY <1>3
<1>5. Fresh = [state |-> "free", starting |-> FALSE, stopping |-> FALSE, src |-> NoDevice,
               mouse |-> NoDevice, prepared |-> NoDevice, tasks |-> q, calls |-> k]
  BY <1>1, <1>4 DEF Fresh
<1>6. Fresh \in Machine /\ Fresh.state = "free" /\ ~Fresh.starting /\ ~Fresh.stopping
      /\ Fresh.tasks = q /\ Fresh.calls = k
  BY <1>2, <1>5 DEF Machine, Maybe
<1>7. QED
  BY <1>2, <1>4, <1>6 DEF Rests, AtWork, HasTask, Awaits, NoNew

LEMMA CrashIs ==
  ASSUME TypesOK, NEW d \in Devices, Crash(d)
  PROVE  /\ TypesOK' /\ dev'[d] = Fresh /\ dev'[Peer(d)] = dev[Peer(d)]
         /\ session'[d] = 0 /\ session'[Peer(d)] = session[Peer(d)]
         /\ live' = IF session[d] = live THEN 0 ELSE live
         /\ inbox'[d] = <<>>
         /\ IF live # 0 /\ session[d] = live
            THEN \E lost \in BOOLEAN : inbox'[Peer(d)] = Ending(Peer(d), lost)
            ELSE inbox'[Peer(d)] = inbox[Peer(d)]
<1>1. PICK p \in Devices : p = Peer(d) /\ p # d
  BY PeerFacts
<1>2. PICK lost \in BOOLEAN :
        inbox' = [inbox EXCEPT ![d] = <<>>, ![p] = IF live # 0 /\ session[d] = live
                                                   THEN Ending(p, lost) ELSE @]
  BY <1>1 DEF Crash
<1>3. PICK q : q = IF live # 0 /\ session[d] = live THEN Ending(p, lost) ELSE inbox[p]
  OBVIOUS
<1>4. q \in Seq(Message)
  BY <1>3, MailTyped DEF TypesOK
<1>5. <<>> \in Seq(Message)
  OBVIOUS
<1>6. inbox' = [inbox EXCEPT ![d] = <<>>, ![p] = q]
  BY <1>1, <1>2, <1>3
<1>7. inbox' \in [Devices -> Seq(Message)] /\ inbox'[d] = <<>> /\ inbox'[p] = q
  BY <1>1, <1>4, <1>5, <1>6 DEF TypesOK, TransportOK
<1>8. DevicesOK' /\ dev'[d] = Fresh /\ dev'[p] = dev[p]
  BY <1>1, FreshTyped, BecomesIs DEF Crash, TypesOK
<1>9. session' = [session EXCEPT ![d] = 0] /\ live' = IF session[d] = live THEN 0 ELSE live
  BY DEF Crash
<1>10. 0 \in 0..MaxSessions /\ opened \in Nat
  BY BoundAssumption DEF TypesOK, TransportOK
<1>11. /\ session' \in [Devices -> 0..MaxSessions] /\ \A e \in Devices : session'[e] <= opened
       /\ session'[p] = session[p] /\ session'[d] = 0 /\ live' \in 0..opened
  BY <1>1, <1>9, <1>10 DEF TypesOK, TransportOK
<1>12. asked' \in [Devices -> [Calls -> Nat]]
  <2>1. PICK a \in [Calls -> Nat] : a = [c \in Calls |-> 0]
    OBVIOUS
  <2>2. asked' = [asked EXCEPT ![d] = a]
    BY <2>1 DEF Crash
  <2>3. QED
    BY <2>2 DEF TypesOK
<1>13. EventsOK' /\ off' = off /\ opened' = opened
  BY DEF Crash, TypesOK, EventsOK
<1>14. QED
  BY <1>1, <1>3, <1>7, <1>8, <1>9, <1>11, <1>12, <1>13 DEF TypesOK, TransportOK

LEMMA InitTyped == Init => TypesOK
<1> SUFFICES ASSUME Init PROVE TypesOK
  OBVIOUS
<1>1. DevicesOK
  BY FreshTyped DEF Init, DevicesOK
<1>2. <<>> \in Seq(Message) /\ MaxSessions \in Nat
  BY BoundAssumption
<1>3. PICK q \in Seq(Message) : q = <<>>
  BY <1>2
<1>4. inbox \in [Devices -> Seq(Message)]
  BY <1>3 DEF Init
<1>5. TransportOK
  <2>1. session \in [Devices -> 0..MaxSessions] /\ \A d \in Devices : session[d] <= 0
    BY <1>2 DEF Init
  <2>2. live \in 0..opened /\ opened \in 0..MaxSessions /\ opened = 0
    BY <1>2 DEF Init
  <2>3. QED
    BY <1>4, <2>1, <2>2 DEF TransportOK
<1>6. EventsOK /\ off \subseteq Devices
  BY DEF Init, EventsOK
<1>7. asked \in [Devices -> [Calls -> Nat]]
  <2>1. PICK a \in [Calls -> Nat] : a = [c \in Calls |-> 0]
    OBVIOUS
  <2>2. asked = [d \in Devices |-> a]
    BY <2>1 DEF Init
  <2>3. QED
    BY <2>2
<1>8. QED
  BY <1>1, <1>5, <1>6, <1>7 DEF TypesOK

LEMMA NextTyped == TypesOK /\ [Next]_vars => TypesOK'
<1> SUFFICES ASSUME TypesOK, [Next]_vars PROVE TypesOK'
  OBVIOUS
<1>1. CASE UNCHANGED vars
  BY <1>1 DEF vars, transport, TypesOK, TransportOK, EventsOK, DevicesOK
<1>2. CASE Cut
  BY <1>2, CutIs
<1>3. ASSUME NEW d \in Devices,
             \/ \E mouse \in Devices : StartInputDeviceCooperate(d, mouse)
             \/ StopInputDeviceCooperate(d) \/ CheckPointerEvent(d)
             \/ DisableInputDeviceCooperate(d) \/ OnCooperateChanged(d)
             \/ RunTask(d) \/ HandleSessionData(d) \/ Crash(d)
      PROVE  TypesOK'
  BY <1>3, StartTyped, StopTyped, CloseTyped, RunTaskTyped, HandleIs, CrashIs
<1>4. ASSUME NEW d \in Devices, NEW c \in Calls, NEW ok \in BOOLEAN,
             TimeOut(d, c) \/ ProcessDInputCallback(d, c, ok)
      PROVE  TypesOK'
  BY <1>4, CallbackTyped
<1>5. QED
  BY <1>1, <1>2, <1>3, <1>4 DEF Next

-----------------------------------------------------------------------------
(* Mail. *)
LEMMA MailFacts ==
  ASSUME NEW n \in Nat, NEW a \in Message, NEW b \in Message
  PROVE  /\ Mail(<<>>, 0) = <<>>
         /\ Mail(<<a>>, n) # <<>> /\ Head(Mail(<<a>>, n)) = a /\ Tail(Mail(<<a>>, n)) = Mail(<<>>, n)
         /\ Mail(<<a, b>>, n) # <<>> /\ Head(Mail(<<a, b>>, n)) = a
         /\ Tail(Mail(<<a, b>>, n)) = Mail(<<b>>, n)
         /\ n # 0 => /\ Mail(<<>>, n) # <<>> /\ Head(Mail(<<>>, n)) = Lost(n)
                     /\ Tail(Mail(<<>>, n)) = <<>>
<1>1. PICK l \in Message : l = Lost(n)
  BY MessagesTyped
<1>2. /\ <<a>> \in Seq(Message) /\ <<a>> # <<>> /\ Head(<<a>>) = a /\ Tail(<<a>>) = <<>>
      /\ <<a, b>> \in Seq(Message) /\ <<a, b>> # <<>> /\ Head(<<a, b>>) = a /\ Tail(<<a, b>>) = <<b>>
      /\ <<>> \in Seq(Message) /\ <<b>> \in Seq(Message)
  OBVIOUS
<1>3. ASSUME NEW q \in Seq(Message)
      PROVE  /\ Append(q, l) # <<>>
             /\ Head(Append(q, l)) = IF q = <<>> THEN l ELSE Head(q)
             /\ Tail(Append(q, l)) = IF q = <<>> THEN <<>> ELSE Append(Tail(q), l)
  BY HeadTailAppend, AppendProperties
<1>4. CASE n = 0
  BY <1>2, <1>4 DEF Mail
<1>5. CASE n # 0
  BY <1>1, <1>2, <1>3, <1>5 DEF Mail
<1>6. QED
  BY <1>4, <1>5 DEF Mail

LEMMA MoreMail ==
  ASSUME NEW n \in Nat, NEW a \in Message, NEW b \in Message
  PROVE  /\ Append(Mail(<<>>, 0), a) = Mail(<<a>>, 0)
         /\ Append(Mail(<<a>>, 0), b) = Mail(<<a, b>>, 0)
         /\ n # 0 => /\ Append(Mail(<<>>, 0), Lost(n)) = Mail(<<>>, n)
                     /\ Append(Mail(<<a>>, 0), Lost(n)) = Mail(<<a>>, n)
                     /\ Append(Mail(<<a, b>>, 0), Lost(n)) = Mail(<<a, b>>, n)
<1>1. /\ <<>> \in Seq(Message) /\ <<a>> \in Seq(Message) /\ <<a, b>> \in Seq(Message)
      /\ Len(<<>>) = 0 /\ Len(<<a>>) = 1 /\ <<a>>[1] = a
      /\ Len(<<a, b>>) = 2 /\ <<a, b>>[1] = a /\ <<a, b>>[2] = b
  OBVIOUS
<1>3. Append(<<>>, a) = <<a>>
  <2>1. /\ Append(<<>>, a) \in Seq(Message) /\ Len(Append(<<>>, a)) = 1
        /\ Append(<<>>, a)[1] = a
    BY <1>1, AppendProperties
  <2>2. QED
    BY <1>1, <2>1, SeqEqual
<1>4. Append(<<a>>, b) = <<a, b>>
  <2>1. /\ Append(<<a>>, b) \in Seq(Message) /\ Len(Append(<<a>>, b)) = 2
        /\ Append(<<a>>, b)[1] = a /\ Append(<<a>>, b)[2] = b
    BY <1>1, AppendProperties
  <2>2. \A i \in 1..2 : Append(<<a>>, b)[i] = <<a, b>>[i]
    <3>1. \A i \in 1..2 : i = 1 \/ i = 2
      OBVIOUS
    <3>2. QED
      BY <1>1, <2>1, <3>1
  <2>3. PICK s, t : s = Append(<<a>>, b) /\ t = <<a, b>>
    OBVIOUS
  <2>4. s \in Seq(Message) /\ t \in Seq(Message) /\ Len(s) = Len(t) /\ \A i \in 1..Len(s) : s[i] = t[i]
    BY <1>1, <2>1, <2>2, <2>3
  <2>5. QED
    BY <2>3, <2>4, SeqEqual
<1>2. QED
  BY <1>3, <1>4 DEF Mail

(* What the session's end leaves of what is on its way. *)
LEMMA MailLost ==
  ASSUME NEW a \in Message, NEW b \in Message, a.type # "closed", b.type # "closed"
  PROVE  /\ Closings(Mail(<<>>, 0)) = <<>> /\ Closings(Mail(<<a>>, 0)) = <<>>
         /\ Closings(Mail(<<a, b>>, 0)) = <<>>
<1>1. /\ <<>> \in Seq(Message) /\ <<a>> \in Seq(Message) /\ <<a, b>> \in Seq(Message)
      /\ DOMAIN <<a>> = {1} /\ <<a>>[1] = a
      /\ DOMAIN <<a, b>> = {1, 2} /\ <<a, b>>[1] = a /\ <<a, b>>[2] = b
  <2>1. 1..2 = {1, 2} /\ 1..1 = {1}
    OBVIOUS
  <2>2. QED
    BY <2>1
<1>2. Closings(<<>>) = <<>>
  <2>1. \A i \in DOMAIN <<>> : <<>>[i].type # "closed"
    OBVIOUS
  <2>2. QED
    BY <1>1, <2>1, ClosingsFacts
<1>3. Closings(<<a>>) = <<>>
  <2>1. \A i \in DOMAIN <<a>> : <<a>>[i].type # "closed"
    BY <1>1
  <2>2. QED
    BY <1>1, <2>1, ClosingsFacts
<1>4. Closings(<<a, b>>) = <<>>
  <2>1. \A i \in DOMAIN <<a, b>> : <<a, b>>[i].type # "closed"
    BY <1>1
  <2>2. QED
    BY <1>1, <2>1, ClosingsFacts
<1>5. QED
  BY <1>2, <1>3, <1>4 DEF Mail

LEMMA ResultFacts ==
  ASSUME NEW res \in Results
  PROVE  /\ res \in Message /\ res.type = "startRes" /\ res.ok \in BOOLEAN /\ res.mouse \in Maybe
         /\ Start \in Message /\ Start.type = "start" /\ Stop \in Message /\ Stop.type = "stop"
         /\ StopRes(TRUE) \in Message /\ StopRes(TRUE).type = "stopRes" /\ StopRes(TRUE).ok = TRUE
<1>1. res \in Message /\ res.type = "startRes" /\ res.ok \in BOOLEAN /\ res.mouse \in Maybe
  BY DEF Results, Message
<1>2. QED
  BY <1>1, MessagesTyped DEF Start, Stop, StopRes

LEMMA LostFacts ==
  ASSUME NEW n \in Nat
  PROVE  Lost(n) \in Message /\ Lost(n).type = "closed" /\ Lost(n).id = n
BY MessagesTyped DEF Lost

-----------------------------------------------------------------------------
(* While all is orderly. *)
OrderlyOK ==
  /\ NoneClosed /\ (\A d \in Devices : Knows(d, dev[d]))
  /\ SidesOK(dev, inbox, session, live) /\ CallersOK

(* A device that does no more than go on with its work. *)
Alike(d, v, w) ==
  /\ w.state = v.state /\ w.starting = v.starting /\ w.stopping = v.stopping
  /\ AtWork(w) <=> AtWork(v)
  /\ Starts(d, v) => Starts(d, w)
  /\ Stops(d, v) => Stops(d, w)

LEMMA AlikeKeeps ==
  ASSUME NEW d, NEW v, NEW w, Alike(d, v, w), NEW mail, NEW news
  PROVE  /\ Rests(v) => Rests(w)
         /\ HearsStart(v, mail, news) => HearsStart(w, mail, news)
         /\ \A res : HearsStarted(d, v, mail, res, news) => HearsStarted(d, w, mail, res, news)
         /\ HearsStop(v, mail, news) => HearsStop(w, mail, news)
         /\ HearsStopped(v, mail, news) => HearsStopped(w, mail, news)
         /\ Acts(d, v, mail, news) => Acts(d, w, mail, news)
         /\ Hears(d, v, mail, news) => Hears(d, w, mail, news)
         /\ Alone(v, mail) => Alone(w, mail)
<1>1. Rests(v) => Rests(w)
  BY DEF Alike, Rests
<1>2. HearsStart(v, mail, news) => HearsStart(w, mail, news)
  BY DEF Alike, HearsStart, Told
<1>3. \A res : HearsStarted(d, v, mail, res, news) => HearsStarted(d, w, mail, res, news)
  BY DEF Alike, HearsStarted, ToldTwice
<1>4. /\ HearsStop(v, mail, news) => HearsStop(w, mail, news)
      /\ HearsStopped(v, mail, news) => HearsStopped(w, mail, news)
  BY DEF Alike, HearsStop, HearsStopped, Told, ToldTwice
<1>5. Acts(d, v, mail, news) => Acts(d, w, mail, news)
  BY <1>1 DEF Alike, Acts
<1>6. Hears(d, v, mail, news) => Hears(d, w, mail, news)
  BY <1>2, <1>3, <1>4 DEF Hears
<1>7. Alone(v, mail) => Alone(w, mail)
  BY <1>1 DEF Alike, Alone
<1>8. QED
  BY <1>1, <1>2, <1>3, <1>4, <1>5, <1>6, <1>7

LEMMA AlikeTogether ==
  ASSUME NEW d, NEW v, NEW w, NEW x, NEW y, Alike(d, v, x), Alike(Peer(d), w, y),
         NEW mine, NEW yours, Together(d, v, w, mine, yours)
  PROVE  Together(d, x, y, mine, yours)
<1>1. \A a, b : Are(v, w, a, b) => Are(x, y, a, b)
  BY DEF Alike, Are
<1>2. /\ Shared(v, w) => Shared(x, y)
      /\ Unchanged(v, w) => Unchanged(x, y)
      /\ Changed(v, w) => Changed(x, y)
  BY <1>1 DEF Shared, Unchanged, Changed
<1>3. /\ Rests(v) => Rests(x)
      /\ Rests(w) => Rests(y)
      /\ Starts(d, v) => Starts(d, x)
      /\ Stops(d, v) => Stops(d, x)
      /\ HearsStart(w, yours, 0) => HearsStart(y, yours, 0)
      /\ HearsStop(w, yours, 0) => HearsStop(y, yours, 0)
      /\ \A res : HearsStarted(Peer(d), w, yours, res, 0) => HearsStarted(Peer(d), y, yours, res, 0)
  <2>1. (Starts(d, v) => Starts(d, x)) /\ (Stops(d, v) => Stops(d, x)) /\ (Rests(v) => Rests(x))
    BY AlikeKeeps DEF Alike
  <2>2. /\ Rests(w) => Rests(y)
        /\ HearsStart(w, yours, 0) => HearsStart(y, yours, 0)
        /\ HearsStop(w, yours, 0) => HearsStop(y, yours, 0)
        /\ \A res : HearsStarted(Peer(d), w, yours, res, 0) => HearsStarted(Peer(d), y, yours, res, 0)
    BY AlikeKeeps
  <2>3. QED
    BY <2>1, <2>2
<1>4. mine = <<>>
  BY DEF Together
<1>5. \/ Rests(x) /\ Rests(y) /\ yours = <<>> /\ (Are(x, y, "free", "free") \/ Shared(x, y))
      \/ Starts(d, x) /\ HearsStart(y, yours, 0) /\ Unchanged(x, y)
      \/ \E res \in Results : /\ Rests(x) /\ HearsStarted(Peer(d), y, yours, res, 0)
                              /\ IF res.ok THEN Changed(x, y) ELSE Unchanged(x, y)
      \/ Stops(d, x) /\ HearsStop(y, yours, 0) /\ Shared(x, y)
  <2>1. CASE Rests(v) /\ Rests(w) /\ yours = <<>> /\ (Are(v, w, "free", "free") \/ Shared(v, w))
    BY <1>1, <1>2, <1>3, <2>1
  <2>2. CASE Starts(d, v) /\ HearsStart(w, yours, 0) /\ Unchanged(v, w)
    BY <1>2, <1>3, <2>2
  <2>3. ASSUME NEW res \in Results, Rests(v), HearsStarted(Peer(d), w, yours, res, 0),
               IF res.ok THEN Changed(v, w) ELSE Unchanged(v, w)
        PROVE  /\ Rests(x) /\ HearsStarted(Peer(d), y, yours, res, 0)
               /\ IF res.ok THEN Changed(x, y) ELSE Unchanged(x, y)
    BY <1>2, <1>3, <2>3
  <2>4. CASE Stops(d, v) /\ HearsStop(w, yours, 0) /\ Shared(v, w)
    BY <1>2, <1>3, <2>4
  <2>5. QED
    BY <2>1, <2>2, <2>3, <2>4 DEF Together
<1>6. QED
  BY <1>4, <1>5 DEF Together

LEMMA AlikeSides ==
  ASSUME SidesOK(dev, inbox, session, live), \A d \in Devices : Alike(d, dev[d], dev'[d]),
         inbox' = inbox, session' = session, live' = live
  PROVE  SidesOK(dev', inbox', session', live')
<1>1. CASE live # 0
  <2>1. PICK d \in Devices : Together(d, dev[d], dev[Peer(d)], inbox[d], inbox[Peer(d)])
    BY <1>1 DEF SidesOK
  <2>2. Peer(d) \in Devices
    BY PeerFacts
  <2>3. Together(d, dev'[d], dev'[Peer(d)], inbox[d], inbox[Peer(d)])
    BY <2>1, <2>2, AlikeTogether
  <2>4. QED
    BY <1>1, <2>3 DEF SidesOK
<1>2. CASE live = 0
  <2>1. ASSUME NEW d \in Devices
        PROVE  IF session[d] = 0 THEN Alone(dev'[d], inbox[d])
               ELSE Acts(d, dev'[d], inbox[d], session[d]) \/ Hears(d, dev'[d], inbox[d], session[d])
    BY <1>2, AlikeKeeps DEF SidesOK
  <2>2. QED
    BY <1>2, <2>1 DEF SidesOK
<1>3. QED
  BY <1>1, <1>2

(* A device that is at work has begun something, and the other is to hear of
   it unless the session is closed. *)
LEMMA WorkerIs ==
  ASSUME SidesOK(dev, inbox, session, live), NEW d \in Devices, AtWork(dev[d])
  PROVE  LET v == dev[d] w == dev[Peer(d)] IN
         /\ session[d] # 0 /\ (Starts(d, v) \/ Stops(d, v))
         /\ live # 0 =>
              /\ session[d] = live /\ session[Peer(d)] = live /\ inbox[d] = <<>>
              /\ \/ Starts(d, v) /\ HearsStart(w, inbox[Peer(d)], 0) /\ Unchanged(v, w)
                 \/ Stops(d, v) /\ HearsStop(w, inbox[Peer(d)], 0) /\ Shared(v, w)
         /\ live = 0 => inbox[d] = Mail(<<>>, session[d])
<1>1. CASE live # 0
  <2>1. PICK e \in Devices : Together(e, dev[e], dev[Peer(e)], inbox[e], inbox[Peer(e)])
    BY <1>1 DEF SidesOK
  <2>2. CASE e = d
    BY <1>1, <2>1, <2>2, PeerFacts DEF SidesOK, Together, Rests
  <2>3. CASE e = Peer(d)
    BY <2>1, <2>3, PeerFacts DEF Together, Rests, HearsStart, HearsStarted, HearsStop
  <2>4. QED
    BY <2>2, <2>3, PeerFacts
<1>2. CASE live = 0
  <2>1. session[d] # 0
    BY <1>2 DEF SidesOK, Alone, Rests
  <2>2. ~Hears(d, dev[d], inbox[d], session[d])
    BY DEF Hears, HearsStart, HearsStarted, HearsStop, HearsStopped
  <2>3. Acts(d, dev[d], inbox[d], session[d])
    BY <1>2, <2>1, <2>2 DEF SidesOK
  <2>4. QED
    BY <1>2, <2>1, <2>3 DEF Acts, Rests
<1>3. QED
  BY <1>1, <1>2

(* Before a call nothing is under way. *)
LEMMA QuietBefore ==
  ASSUME TypesOK, SidesOK(dev, inbox, session, live), ~Overlaps, NEW d \in Devices
  PROVE  LET p == Peer(d) v == dev[d] w == dev[p] IN
         /\ inbox[d] = <<>> /\ inbox[p] = <<>> /\ Rests(v) /\ Rests(w)
         /\ session[d] = live /\ session[p] = live
         /\ Are(v, w, "free", "free") \/ (live # 0 /\ Shared(v, w))
<1>1. \A e \in Devices : inbox[e] = <<>> /\ ~dev[e].starting /\ ~dev[e].stopping
  BY DEF Overlaps
<1>2. CASE live # 0
  <2>1. PICK e \in Devices : Together(e, dev[e], dev[Peer(e)], inbox[e], inbox[Peer(e)])
    BY <1>2 DEF SidesOK
  <2>2. Peer(e) \in Devices /\ (e = d \/ (e = Peer(d) /\ Peer(e) = d)) /\ Peer(d) \in Devices
    BY PeerFacts
  <2>3. ~Starts(e, dev[e]) /\ ~Stops(e, dev[e])
    BY <1>1 DEF Starts, Stops
  <2>4. \A res \in Results : ~HearsStarted(Peer(e), dev[Peer(e)], inbox[Peer(e)], res, 0)
    <3>1. ASSUME NEW res \in Results PROVE Mail(<<res>>, 0) # <<>> /\ Mail(<<Start, res>>, 0) # <<>>
      BY MailFacts, ResultFacts
    <3>2. QED
      BY <1>1, <2>2, <3>1 DEF HearsStarted, ToldTwice
  <2>5. /\ Rests(dev[e]) /\ Rests(dev[Peer(e)])
        /\ Are(dev[e], dev[Peer(e)], "free", "free") \/ Shared(dev[e], dev[Peer(e)])
    BY <2>1, <2>3, <2>4 DEF Together
  <2>6. \A a \in Devices : session[a] = live
    BY <1>2 DEF SidesOK
  <2>7. QED
    BY <1>1, <1>2, <2>2, <2>5, <2>6 DEF Are, Shared
<1>3. CASE live = 0
  <2>1. ASSUME NEW e \in Devices PROVE session[e] = 0 /\ Alone(dev[e], inbox[e])
    <3>1. SUFFICES ASSUME session[e] # 0 PROVE FALSE
      BY <1>3 DEF SidesOK
    <3>2. session[e] \in Nat
      BY MailTyped DEF TypesOK
    <3>3. /\ Mail(<<>>, session[e]) # <<>> /\ Mail(<<Start>>, session[e]) # <<>>
          /\ Mail(<<Stop>>, session[e]) # <<>>
          /\ Mail(<<Stop, StopRes(TRUE)>>, session[e]) # <<>> /\ Mail(<<StopRes(TRUE)>>, session[e]) # <<>>
          /\ \A res \in Results : Mail(<<Start, res>>, session[e]) # <<>> /\ Mail(<<res>>, session[e]) # <<>>
      BY <3>1, <3>2, MailFacts, ResultFacts, MessagesTyped
    <3>4. /\ ~Acts(e, dev[e], inbox[e], session[e])
          /\ ~HearsStart(dev[e], inbox[e], session[e]) /\ ~HearsStop(dev[e], inbox[e], session[e])
      BY <1>1, <3>3 DEF Acts, HearsStart, HearsStop, Told
    <3>5. /\ \A res \in Results : ~HearsStarted(e, dev[e], inbox[e], res, session[e])
          /\ ~HearsStopped(dev[e], inbox[e], session[e])
      BY <1>1, <3>3 DEF HearsStarted, HearsStopped, ToldTwice
    <3>6. QED
      BY <1>3, <3>1, <3>4, <3>5 DEF SidesOK, Hears
  <2>2. QED
    BY <1>1, <1>3, <2>1, PeerFacts DEF Alone, Are
<1>4. QED
  BY <1>2, <1>3

(* What a device has still to hear when its session ends under it. *)
LEMMA EndingOf ==
  ASSUME TypesOK, live # 0, NEW x \in Devices, NEW lost, NEW a \in Message, NEW b \in Message,
         a.type # "closed", b.type # "closed"
  PROVE  /\ inbox[x] = Mail(<<>>, 0) => Ending(x, lost) = Mail(<<>>, live)
         /\ inbox[x] = Mail(<<a>>, 0) => Ending(x, lost) \in {Mail(<<a>>, live), Mail(<<>>, live)}
         /\ inbox[x] = Mail(<<a, b>>, 0) => Ending(x, lost) \in {Mail(<<a, b>>, live), Mail(<<>>, live)}
<1>1. live \in Nat
  BY MailTyped DEF TypesOK
<1>2. /\ Closings(Mail(<<>>, 0)) = <<>> /\ Closings(Mail(<<a>>, 0)) = <<>>
      /\ Closings(Mail(<<a, b>>, 0)) = <<>>
  BY MailLost
<1>3. /\ Append(Mail(<<>>, 0), Lost(live)) = Mail(<<>>, live)
      /\ Append(Mail(<<a>>, 0), Lost(live)) = Mail(<<a>>, live)
      /\ Append(Mail(<<a, b>>, 0), Lost(live)) = Mail(<<a, b>>, live)
      /\ Mail(<<>>, 0) = <<>>
  BY <1>1, MoreMail, MailFacts
<1>4. Ending(x, lost) = IF lost THEN Append(Closings(inbox[x]), Lost(live))
                                ELSE Append(inbox[x], Lost(live))
  BY DEF Ending
<1>5. QED
  BY <1>2, <1>3, <1>4

LEMMA ToldEnds ==
  ASSUME TypesOK, live # 0, NEW x \in Devices, NEW lost, NEW a \in Message, NEW b \in Message,
         a.type # "closed", b.type # "closed", NEW flag
  PROVE  /\ Told(inbox[x], a, flag, 0) =>
              Told(Ending(x, lost), a, flag, live) \/ Ending(x, lost) = Mail(<<>>, live)
         /\ ToldTwice(inbox[x], a, b, flag, 0) =>
              ToldTwice(Ending(x, lost), a, b, flag, live) \/ Ending(x, lost) = Mail(<<>>, live)
BY EndingOf DEF Told, ToldTwice

LEMMA HearerEnds ==
  ASSUME TypesOK, live # 0, NEW x \in Devices, NEW lost, NEW v, v = dev[x],
         Hears(x, v, inbox[x], 0)
  PROVE  Acts(x, v, Ending(x, lost), live) \/ Hears(x, v, Ending(x, lost), live)
<1>0. v.starting \in BOOLEAN /\ v.stopping \in BOOLEAN
  BY MachineFields DEF TypesOK, DevicesOK
<1>1. CASE HearsStart(v, inbox[x], 0)
  <2>1. Told(Ending(x, lost), Start, v.starting, live) \/ Ending(x, lost) = Mail(<<>>, live)
    BY <1>1, ToldEnds, ResultFacts, MessagesTyped DEF HearsStart, Start
  <2>2. HearsStart(v, Ending(x, lost), live) \/ (~v.starting /\ Ending(x, lost) = Mail(<<>>, live))
    BY <1>0, <1>1, <2>1 DEF HearsStart, Told
  <2>3. QED
    BY <1>1, <2>2 DEF HearsStart, Hears, Acts, Rests
<1>2. ASSUME NEW res \in Results, HearsStarted(x, v, inbox[x], res, 0)
      PROVE  Acts(x, v, Ending(x, lost), live) \/ Hears(x, v, Ending(x, lost), live)
  <2>0. Start \in Message /\ res \in Message /\ Start.type # "closed" /\ res.type # "closed"
    BY ResultFacts
  <2>1. ToldTwice(Ending(x, lost), Start, res, v.starting, live) \/ Ending(x, lost) = Mail(<<>>, live)
    BY <1>2, <2>0, ToldEnds DEF HearsStarted
  <2>2. CASE ToldTwice(Ending(x, lost), Start, res, v.starting, live)
    <3>1. HearsStarted(x, v, Ending(x, lost), res, live)
      BY <1>2, <2>2 DEF HearsStarted
    <3>2. QED
      BY <3>1 DEF Hears
  <2>3. CASE Ending(x, lost) = Mail(<<>>, live) /\ v.starting
    <3>1. HearsStart(v, Ending(x, lost), live)
      BY <1>2, <2>3 DEF HearsStarted, HearsStart, Told
    <3>2. QED
      BY <3>1 DEF Hears
  <2>4. CASE Ending(x, lost) = Mail(<<>>, live) /\ ~v.starting
    BY <1>2, <2>4 DEF HearsStarted, Acts, Rests
  <2>5. QED
    BY <1>0, <2>1, <2>2, <2>3, <2>4
<1>3. CASE HearsStop(v, inbox[x], 0)
  <2>0. Stop \in Message /\ Stop.type # "closed"
    BY MessagesTyped DEF Stop
  <2>1. Told(Ending(x, lost), Stop, v.stopping, live) \/ Ending(x, lost) = Mail(<<>>, live)
    BY <1>3, <2>0, ToldEnds DEF HearsStop
  <2>2. HearsStop(v, Ending(x, lost), live) \/ (~v.stopping /\ Ending(x, lost) = Mail(<<>>, live))
    BY <1>0, <1>3, <2>1 DEF HearsStop, Told
  <2>3. QED
    BY <1>3, <2>2 DEF HearsStop, Hears, Acts, Rests
<1>4. CASE HearsStopped(v, inbox[x], 0)
  <2>0. Stop \in Message /\ StopRes(TRUE) \in Message /\ Stop.type # "closed" /\ StopRes(TRUE).type # "closed"
    BY MessagesTyped DEF Stop, StopRes
  <2>1. ToldTwice(Ending(x, lost), Stop, StopRes(TRUE), v.stopping, live) \/ Ending(x, lost) = Mail(<<>>, live)
    BY <1>4, <2>0, ToldEnds DEF HearsStopped
  <2>2. CASE ToldTwice(Ending(x, lost), Stop, StopRes(TRUE), v.stopping, live)
    <3>1. HearsStopped(v, Ending(x, lost), live)
      BY <1>4, <2>2 DEF HearsStopped
    <3>2. QED
      BY <3>1 DEF Hears
  <2>3. CASE Ending(x, lost) = Mail(<<>>, live) /\ v.stopping
    <3>1. HearsStop(v, Ending(x, lost), live)
      BY <1>4, <2>3 DEF HearsStopped, HearsStop, Told
    <3>2. QED
      BY <3>1 DEF Hears
  <2>4. CASE Ending(x, lost) = Mail(<<>>, live) /\ ~v.stopping
    BY <1>4, <2>4 DEF HearsStopped, Acts, Rests
  <2>5. QED
    BY <1>0, <2>1, <2>2, <2>3, <2>4
<1>5. QED
  BY <1>1, <1>2, <1>3, <1>4 DEF Hears

LEMMA EndingKeeps ==
  ASSUME TypesOK, SidesOK(dev, inbox, session, live), live # 0, NEW x \in Devices, NEW lost
  PROVE  /\ session[x] = live
         /\ Acts(x, dev[x], Ending(x, lost), live) \/ Hears(x, dev[x], Ending(x, lost), live)
<1>1. PICK e \in Devices : Together(e, dev[e], dev[Peer(e)], inbox[e], inbox[Peer(e)])
  BY DEF SidesOK
<1>2. /\ inbox[e] = <<>> /\ (Rests(dev[e]) \/ Starts(e, dev[e]) \/ Stops(e, dev[e]))
      /\ \/ Rests(dev[Peer(e)]) /\ inbox[Peer(e)] = <<>>
         \/ Hears(Peer(e), dev[Peer(e)], inbox[Peer(e)], 0)
  BY <1>1 DEF Together, Hears
<1>3. inbox[x] = <<>> => Ending(x, lost) = Mail(<<>>, live)
  <2>1. Start \in Message /\ Start.type # "closed" /\ Mail(<<>>, 0) = <<>>
    BY MessagesTyped DEF Start, Mail
  <2>2. QED
    BY <2>1, EndingOf
<1>4. x = e \/ x = Peer(e)
  BY PeerFacts
<1>5. CASE inbox[x] = <<>> /\ (Rests(dev[x]) \/ Starts(x, dev[x]) \/ Stops(x, dev[x]))
  BY <1>3, <1>5 DEF SidesOK, Acts
<1>6. CASE Hears(x, dev[x], inbox[x], 0)
  BY <1>6, HearerEnds DEF SidesOK
<1>7. QED
  BY <1>2, <1>4, <1>5, <1>6

LEMMA CutSides ==
  ASSUME TypesOK, OrderlyOK, Cut
  PROVE  SidesOK(dev', inbox', session', live')
<1>1. /\ live # 0 /\ live' = 0 /\ session' = session /\ dev' = dev
      /\ \A d \in Devices : \E lost \in BOOLEAN : inbox'[d] = Ending(d, lost)
  BY CutIs
<1>2. ASSUME NEW d \in Devices
      PROVE  session'[d] # 0 /\ (Acts(d, dev'[d], inbox'[d], session'[d]) \/ Hears(d, dev'[d], inbox'[d], session'[d]))
  <2>1. PICK lost \in BOOLEAN : inbox'[d] = Ending(d, lost)
    BY <1>1
  <2>2. QED
    BY <1>1, <2>1, EndingKeeps DEF OrderlyOK
<1>3. QED
  BY <1>1, <1>2 DEF SidesOK

LEMMA CrashSides ==
  ASSUME TypesOK, OrderlyOK, NEW d \in Devices, Crash(d)
  PROVE  SidesOK(dev', inbox', session', live')
<1>1. PICK p \in Devices : p = Peer(d) /\ p # d /\ \A e \in Devices : e = d \/ e = p
  BY PeerFacts
<1>2. /\ dev'[d] = Fresh /\ dev'[p] = dev[p] /\ session'[d] = 0 /\ session'[p] = session[p]
      /\ inbox'[d] = <<>> /\ live' = IF session[d] = live THEN 0 ELSE live
      /\ IF live # 0 /\ session[d] = live
         THEN \E lost \in BOOLEAN : inbox'[p] = Ending(p, lost)
         ELSE inbox'[p] = inbox[p]
  BY <1>1, CrashIs
<1>3. Alone(dev'[d], inbox'[d])
  <2>1. DOMAIN <<>> = {}
    OBVIOUS
  <2>2. QED
    BY <1>2, <2>1, FreshTyped DEF Alone
<1>4. CASE live # 0
  <2>1. session[d] = live /\ session[p] = live
    BY <1>4 DEF OrderlyOK, SidesOK
  <2>2. PICK lost \in BOOLEAN : inbox'[p] = Ending(p, lost)
    BY <1>2, <1>4, <2>1
  <2>3. /\ session'[p] # 0
        /\ Acts(p, dev'[p], inbox'[p], session'[p]) \/ Hears(p, dev'[p], inbox'[p], session'[p])
    BY <1>2, <1>4, <2>1, <2>2, EndingKeeps DEF OrderlyOK
  <2>4. live' = 0
    BY <1>2, <2>1
  <2>5. QED
    BY <1>1, <1>2, <1>3, <2>3, <2>4 DEF SidesOK
<1>5. CASE live = 0
  <2>1. live' = 0 /\ inbox'[p] = inbox[p]
    BY <1>2, <1>5
  <2>2. IF session[p] = 0 THEN Alone(dev[p], inbox[p])
        ELSE Acts(p, dev[p], inbox[p], session[p]) \/ Hears(p, dev[p], inbox[p], session[p])
    BY <1>5 DEF OrderlyOK, SidesOK
  <2>3. QED
    BY <1>1, <1>2, <1>3, <2>1, <2>2 DEF SidesOK
<1>6. QED
  BY <1>4, <1>5

(* What a device becomes that hears the first of its mail. *)
LEMMA ToldOfWork ==
  ASSUME NEW d \in Devices, NEW v \in Machine
  PROVE  /\ LET w == ToldBy(d, Start, v) IN
            /\ w.starting = TRUE /\ w.stopping = v.stopping /\ w.state = v.state
            /\ w.src = v.src /\ w.mouse = v.mouse /\ (AtWork(w) <=> AtWork(v))
         /\ LET w == ToldBy(d, Stop, v) IN
            /\ w.stopping = TRUE /\ w.starting = v.starting /\ w.state = v.state
            /\ w.src = v.src /\ w.mouse = v.mouse /\ (AtWork(w) <=> AtWork(v))
<1>1. PICK x, y : x = ToldBy(d, Start, v) /\ y = ToldBy(d, Stop, v)
  OBVIOUS
<1>2. x = [v EXCEPT !.starting = TRUE] /\ y = [v EXCEPT !.stopping = TRUE]
  BY <1>1 DEF ToldBy, Start, Stop
<1>3. /\ x.starting = TRUE /\ x.stopping = v.stopping /\ x.state = v.state
      /\ x.src = v.src /\ x.mouse = v.mouse /\ x.tasks = v.tasks /\ x.calls = v.calls
      /\ y.stopping = TRUE /\ y.starting = v.starting /\ y.state = v.state
      /\ y.src = v.src /\ y.mouse = v.mouse /\ y.tasks = v.tasks /\ y.calls = v.calls
  BY <1>2 DEF Machine
<1>4. QED
  BY <1>1, <1>3, SameWork

LEMMA ToldOfEnd ==
  ASSUME NEW d \in Devices, NEW v \in Machine
  PROVE  /\ \A res \in Results : ToldBy(d, res, v) = ToldStart(v, res.ok, res.mouse)
         /\ ToldBy(d, StopRes(TRUE), v) = ToldStop(v, TRUE)
         /\ \A n \in Nat : session[d] = n /\ Knows(d, v) => WasReset(v, ToldBy(d, Lost(n), v))
         /\ \A n \in Nat : v.state = "free" => WasReset(v, ToldBy(d, Lost(n), v))
<1>1. \A res \in Results : ToldBy(d, res, v) = ToldStart(v, res.ok, res.mouse)
  BY ResultFacts DEF ToldBy
<1>2. ToldBy(d, StopRes(TRUE), v) = ToldStop(v, TRUE)
  BY DEF ToldBy, StopRes
<1>3. ASSUME NEW n \in Nat
      PROVE  ToldBy(d, Lost(n), v) = ResetBy(v, IF session[d] = n THEN Peer(d) ELSE NoDevice)
  BY LostFacts DEF ToldBy
<1>4. ASSUME NEW n \in Nat, session[d] = n, Knows(d, v) PROVE WasReset(v, ToldBy(d, Lost(n), v))
  <2>1. ToldBy(d, Lost(n), v) = ResetBy(v, Peer(d))
    BY <1>3, <1>4
  <2>2. QED
    BY <1>4, <2>1, ResetByIs DEF Knows
<1>5. ASSUME NEW n \in Nat, v.state = "free" PROVE WasReset(v, ToldBy(d, Lost(n), v))
  <2>1. PICK who : who = IF session[d] = n THEN Peer(d) ELSE NoDevice
    OBVIOUS
  <2>2. QED
    BY <1>3, <1>5, <2>1, ResetByIs
<1>6. QED
  BY <1>1, <1>2, <1>4, <1>5

LEMMA HearsStartNext ==
  ASSUME NEW d \in Devices, NEW v \in Machine, NEW mail, NEW news \in Nat, mail # <<>>,
         HearsStart(v, mail, news)
  PROVE  LET w == ToldBy(d, Head(mail), v) IN
         \/ /\ Head(mail) = Start /\ HearsStart(w, Tail(mail), news)
            /\ w.state = v.state /\ w.src = v.src /\ w.mouse = v.mouse
         \/ news # 0 /\ Head(mail) = Lost(news) /\ Tail(mail) = <<>>
<1>0. Start \in Message
  BY MessagesTyped
<1>1. CASE mail = Mail(<<Start>>, news) /\ ~v.starting
  <2>1. Head(mail) = Start /\ Tail(mail) = Mail(<<>>, news)
    BY <1>0, <1>1, MailFacts
  <2>2. PICK w : w = ToldBy(d, Start, v)
    OBVIOUS
  <2>3. /\ w.starting = TRUE /\ w.stopping = v.stopping /\ w.state = v.state
        /\ w.src = v.src /\ w.mouse = v.mouse /\ (AtWork(w) <=> AtWork(v))
    BY <2>2, ToldOfWork
  <2>4. HearsStart(w, Tail(mail), news)
    BY <2>1, <2>3 DEF HearsStart, Told
  <2>5. QED
    BY <2>1, <2>2, <2>3, <2>4
<1>2. CASE mail = Mail(<<>>, news) /\ v.starting
  BY <1>0, <1>2, MailFacts
<1>3. QED
  BY <1>1, <1>2 DEF HearsStart, Told

LEMMA HearsStartedNext ==
  ASSUME NEW d \in Devices, NEW v \in Machine, NEW mail, NEW news \in Nat, NEW res \in Results,
         HearsStarted(d, v, mail, res, news)
  PROVE  LET w == ToldBy(d, Head(mail), v) IN
         \/ /\ Head(mail) = Start /\ HearsStarted(d, w, Tail(mail), res, news)
            /\ w.state = v.state /\ w.src = v.src /\ w.mouse = v.mouse
         \/ /\ Head(mail) = res /\ Tail(mail) = Mail(<<>>, news) /\ Rests(w)
            /\ res.ok /\ v.state = "free" => w.state = "in" /\ w.mouse = Peer(d)
            /\ res.ok /\ v.state = "out" => w.state = "free"
            /\ ~res.ok => w.state = v.state /\ w.src = v.src
            /\ v.state # "in"
<1>0. Start \in Message /\ res \in Message /\ res.ok \in BOOLEAN /\ res.mouse \in Maybe
  BY ResultFacts
<1>1. CASE mail = Mail(<<Start, res>>, news) /\ ~v.starting
  <2>1. Head(mail) = Start /\ Tail(mail) = Mail(<<res>>, news)
    BY <1>0, <1>1, MailFacts
  <2>2. PICK w : w = ToldBy(d, Start, v)
    OBVIOUS
  <2>3. /\ w.starting = TRUE /\ w.stopping = v.stopping /\ w.state = v.state
        /\ w.src = v.src /\ w.mouse = v.mouse /\ (AtWork(w) <=> AtWork(v))
    BY <2>2, ToldOfWork
  <2>4. HearsStarted(d, w, Tail(mail), res, news)
    BY <2>1, <2>3 DEF HearsStarted, ToldTwice
  <2>5. QED
    BY <2>1, <2>2, <2>3, <2>4
<1>2. CASE mail = Mail(<<res>>, news) /\ v.starting
  <2>1. Head(mail) = res /\ Tail(mail) = Mail(<<>>, news)
    BY <1>0, <1>2, MailFacts
  <2>2. PICK w : w = ToldStart(v, res.ok, res.mouse)
    OBVIOUS
  <2>3. w = ToldBy(d, res, v)
    BY <2>2, ToldOfEnd
  <2>4. /\ ~AtWork(v) => ~AtWork(w)
        /\ ~w.starting /\ (~v.stopping => ~w.stopping)
        /\ res.ok /\ v.state = "free" => w.state = "in" /\ w.mouse = res.mouse
        /\ res.ok /\ v.state = "out" => w.state = "free"
        /\ ~res.ok => w.state = v.state /\ w.src = v.src
    BY <1>0, <1>2, <2>2, ToldStartIs
  <2>5. /\ ~AtWork(v) /\ ~v.stopping /\ v.state # "in"
        /\ res.ok /\ v.state = "free" => res.mouse = Peer(d)
    BY DEF HearsStarted
  <2>6. Rests(w)
    BY <2>4, <2>5 DEF Rests
  <2>7. QED
    BY <2>1, <2>3, <2>4, <2>5, <2>6
<1>3. QED
  BY <1>1, <1>2 DEF HearsStarted, ToldTwice

LEMMA HearsStopNext ==
  ASSUME NEW d \in Devices, NEW v \in Machine, NEW mail, NEW news \in Nat, mail # <<>>,
         HearsStop(v, mail, news)
  PROVE  LET w == ToldBy(d, Head(mail), v) IN
         \/ /\ Head(mail) = Stop /\ HearsStop(w, Tail(mail), news)
            /\ w.state = v.state /\ w.src = v.src /\ w.mouse = v.mouse
         \/ news # 0 /\ Head(mail) = Lost(news) /\ Tail(mail) = <<>>
<1>0. Stop \in Message
  BY MessagesTyped
<1>1. CASE mail = Mail(<<Stop>>, news) /\ ~v.stopping
  <2>1. Head(mail) = Stop /\ Tail(mail) = Mail(<<>>, news)
    BY <1>0, <1>1, MailFacts
  <2>2. PICK w : w = ToldBy(d, Stop, v)
    OBVIOUS
  <2>3. /\ w.stopping = TRUE /\ w.starting = v.starting /\ w.state = v.state
        /\ w.src = v.src /\ w.mouse = v.mouse /\ (AtWork(w) <=> AtWork(v))
    BY <2>2, ToldOfWork
  <2>4. HearsStop(w, Tail(mail), news)
    BY <2>1, <2>3 DEF HearsStop, Told
  <2>5. QED
    BY <2>1, <2>2, <2>3, <2>4
<1>2. CASE mail = Mail(<<>>, news) /\ v.stopping
  BY <1>0, <1>2, MailFacts
<1>3. QED
  BY <1>1, <1>2 DEF HearsStop, Told

LEMMA HearsStoppedNext ==
  ASSUME NEW d \in Devices, NEW v \in Machine, NEW mail, NEW news \in Nat,
         HearsStopped(v, mail, news)
  PROVE  LET w == ToldBy(d, Head(mail), v) IN
         \/ /\ Head(mail) = Stop /\ HearsStopped(w, Tail(mail), news)
            /\ w.state = v.state /\ w.src = v.src /\ w.mouse = v.mouse
         \/ Head(mail) = StopRes(TRUE) /\ Tail(mail) = Mail(<<>>, news) /\ WasReset(v, w)
<1>0. Stop \in Message /\ StopRes(TRUE) \in Message
  BY MessagesTyped
<1>1. CASE mail = Mail(<<Stop, StopRes(TRUE)>>, news) /\ ~v.stopping
  <2>1. Head(mail) = Stop /\ Tail(mail) = Mail(<<StopRes(TRUE)>>, news)
    BY <1>0, <1>1, MailFacts
  <2>2. PICK w : w = ToldBy(d, Stop, v)
    OBVIOUS
  <2>3. /\ w.stopping = TRUE /\ w.starting = v.starting /\ w.state = v.state
        /\ w.src = v.src /\ w.mouse = v.mouse /\ (AtWork(w) <=> AtWork(v))
    BY <2>2, ToldOfWork
  <2>4. HearsStopped(w, Tail(mail), news)
    BY <2>1, <2>3 DEF HearsStopped, ToldTwice
  <2>5. QED
    BY <2>1, <2>2, <2>3, <2>4
<1>2. CASE mail = Mail(<<StopRes(TRUE)>>, news) /\ v.stopping
  <2>1. Head(mail) = StopRes(TRUE) /\ Tail(mail) = Mail(<<>>, news)
    BY <1>0, <1>2, MailFacts
  <2>2. WasReset(v, ToldStop(v, TRUE))
    BY <1>2, ToldStopIs
  <2>3. QED
    BY <2>1, <2>2, ToldOfEnd
<1>3. QED
  BY <1>1, <1>2 DEF HearsStopped, ToldTwice

(* HandleSessionData while the session is open: the other is told. *)
LEMMA HandleOpen ==
  ASSUME TypesOK, OrderlyOK, NEW d \in Devices, HandleSessionData(d), live # 0
  PROVE  /\ SidesOK(dev', inbox', session', live')
         /\ Knows(d, dev'[d]) /\ ~AtWork(dev[d]) /\ ~AtWork(dev'[d])
<1>1. PICK e \in Devices : Together(e, dev[e], dev[Peer(e)], inbox[e], inbox[Peer(e)])
  BY DEF OrderlyOK, SidesOK
<1>2. inbox[e] = <<>> /\ inbox[d] # <<>>
  BY <1>1, HandleIs DEF Together
<1>3. d = Peer(e) /\ e = Peer(d) /\ d # e
  BY <1>2, PeerFacts
<1>4. PICK v, mail : v = dev[d] /\ mail = inbox[d] /\ v \in Machine /\ mail \in Seq(Message)
  BY HandleIs DEF TypesOK, DevicesOK
<1>5. PICK w : w = ToldBy(d, Head(mail), v)
  OBVIOUS
<1>6. PICK u : u = dev[e]
  OBVIOUS
<1>7. /\ dev'[d] = w /\ dev'[e] = u /\ inbox'[d] = Tail(mail) /\ inbox'[e] = <<>>
      /\ session'[e] = session[e]
      /\ session'[d] = IF Head(mail).type = "closed" /\ session[d] = Head(mail).id THEN 0 ELSE session[d]
      /\ live' = live
  <2>1. live' = live
    BY DEF HandleSessionData
  <2>2. QED
    BY <1>2, <1>3, <1>4, <1>5, <1>6, <2>1, HandleIs
<1>8. \A x \in Devices : session[x] = live /\ (x = d \/ x = e)
  BY <1>3, PeerFacts DEF OrderlyOK, SidesOK
<1>9. ASSUME Head(mail).type # "closed", Together(e, u, w, <<>>, Tail(mail))
      PROVE  SidesOK(dev', inbox', session', live')
  <2>1. \A x \in Devices : session'[x] = live'
    BY <1>7, <1>8, <1>9
  <2>2. Together(e, dev'[e], dev'[Peer(e)], inbox'[e], inbox'[Peer(e)])
    BY <1>3, <1>7, <1>9
  <2>3. QED
    BY <1>7, <2>1, <2>2 DEF SidesOK
<1>10. Knows(d, v) /\ mail # <<>> /\ v.state \in {"free", "in", "out"}
  BY <1>2, <1>4, MachineFields DEF OrderlyOK
<1>11. CASE Starts(e, u) /\ HearsStart(v, mail, 0) /\ Unchanged(u, v)
  <2>1. /\ Head(mail) = Start /\ HearsStart(w, Tail(mail), 0)
        /\ w.state = v.state /\ w.src = v.src /\ w.mouse = v.mouse
    BY <1>4, <1>5, <1>10, <1>11, HearsStartNext
  <2>2. Unchanged(u, w)
    BY <1>11, <2>1 DEF Unchanged, Are
  <2>3. Together(e, u, w, <<>>, Tail(mail)) /\ Head(mail).type # "closed"
    BY <1>11, <2>1, <2>2 DEF Together, Start
  <2>4. QED
    BY <1>4, <1>7, <1>9, <1>10, <1>11, <2>1, <2>3 DEF Knows, HearsStart
<1>12. ASSUME NEW res \in Results, Rests(u), HearsStarted(d, v, mail, res, 0),
              IF res.ok THEN Changed(u, v) ELSE Unchanged(u, v)
       PROVE  /\ SidesOK(dev', inbox', session', live')
              /\ Knows(d, dev'[d]) /\ ~AtWork(dev[d]) /\ ~AtWork(dev'[d])
  <2>1. CASE /\ Head(mail) = Start /\ HearsStarted(d, w, Tail(mail), res, 0)
             /\ w.state = v.state /\ w.src = v.src /\ w.mouse = v.mouse
    <3>1. IF res.ok THEN Changed(u, w) ELSE Unchanged(u, w)
      BY <1>12, <2>1 DEF Changed, Unchanged, Are
    <3>2. Together(e, u, w, <<>>, Tail(mail)) /\ Head(mail).type # "closed"
      BY <1>3, <1>12, <2>1, <3>1 DEF Together, Start
    <3>3. QED
      BY <1>4, <1>7, <1>9, <1>10, <1>12, <2>1, <3>2 DEF Knows, HearsStarted
  <2>2. CASE /\ Head(mail) = res /\ Tail(mail) = Mail(<<>>, 0) /\ Rests(w)
             /\ res.ok /\ v.state = "free" => w.state = "in" /\ w.mouse = Peer(d)
             /\ res.ok /\ v.state = "out" => w.state = "free"
             /\ ~res.ok => w.state = v.state /\ w.src = v.src
             /\ v.state # "in"
    <3>1. Are(u, w, "free", "free") \/ Shared(u, w)
      BY <1>12, <2>2 DEF Changed, Unchanged, Shared, Are
    <3>2. Tail(mail) = <<>>
      BY <2>2 DEF Mail
    <3>3. Together(e, u, w, <<>>, Tail(mail)) /\ Head(mail).type # "closed"
      BY <1>12, <2>2, <3>1, <3>2, ResultFacts DEF Together
    <3>4. Knows(d, w)
      BY <1>10, <1>12, <2>2 DEF Knows, Changed, Unchanged, Are
    <3>5. QED
      BY <1>4, <1>7, <1>9, <1>12, <2>2, <3>3, <3>4 DEF HearsStarted, Rests
  <2>3. QED
    BY <1>4, <1>5, <1>12, <2>1, <2>2, HearsStartedNext, SMTT(30)
<1>13. CASE Stops(e, u) /\ HearsStop(v, mail, 0) /\ Shared(u, v)
  <2>1. /\ Head(mail) = Stop /\ HearsStop(w, Tail(mail), 0)
        /\ w.state = v.state /\ w.src = v.src /\ w.mouse = v.mouse
    BY <1>4, <1>5, <1>10, <1>13, HearsStopNext
  <2>2. Shared(u, w)
    BY <1>13, <2>1 DEF Shared, Are
  <2>3. Together(e, u, w, <<>>, Tail(mail)) /\ Head(mail).type # "closed"
    BY <1>13, <2>1, <2>2 DEF Together, Stop
  <2>4. QED
    BY <1>4, <1>7, <1>9, <1>10, <1>13, <2>1, <2>3 DEF Knows, HearsStop
<1>14. Together(e, u, v, <<>>, mail)
  BY <1>1, <1>2, <1>3, <1>4, <1>6
<1>15. \/ Starts(e, u) /\ HearsStart(v, mail, 0) /\ Unchanged(u, v)
       \/ \E res \in Results : /\ Rests(u) /\ HearsStarted(d, v, mail, res, 0)
                               /\ IF res.ok THEN Changed(u, v) ELSE Unchanged(u, v)
       \/ Stops(e, u) /\ HearsStop(v, mail, 0) /\ Shared(u, v)
  BY <1>3, <1>10, <1>14 DEF Together
<1>16. QED
  BY <1>11, <1>12, <1>13, <1>15

(* And once it is closed: it hears the rest, and of that in the end. *)
LEMMA HandleClosed ==
  ASSUME TypesOK, OrderlyOK, NEW d \in Devices, HandleSessionData(d), live = 0
  PROVE  /\ SidesOK(dev', inbox', session', live')
         /\ Knows(d, dev'[d]) /\ ~AtWork(dev'[d])
<1>1. PICK v, mail, s : /\ v = dev[d] /\ mail = inbox[d] /\ v \in Machine /\ mail \in Seq(Message)
                        /\ s = session[d] /\ s \in Nat
  BY HandleIs, MailTyped DEF TypesOK, DevicesOK
<1>2. PICK w : w = ToldBy(d, Head(mail), v)
  OBVIOUS
<1>3. /\ dev'[d] = w /\ dev'[Peer(d)] = dev[Peer(d)] /\ mail # <<>> /\ Head(mail) \in Message
      /\ inbox'[d] = Tail(mail) /\ inbox'[Peer(d)] = inbox[Peer(d)]
      /\ session'[Peer(d)] = session[Peer(d)]
      /\ session'[d] = IF Head(mail).type = "closed" /\ s = Head(mail).id THEN 0 ELSE s
      /\ live' = 0
  <2>1. live' = 0
    BY DEF HandleSessionData
  <2>2. QED
    BY <1>1, <1>2, <2>1, HandleIs
<1>4. ASSUME \/ session'[d] = 0 /\ Alone(w, Tail(mail))
             \/ session'[d] # 0 /\ Acts(d, w, Tail(mail), session'[d])
             \/ session'[d] # 0 /\ Hears(d, w, Tail(mail), session'[d])
      PROVE  SidesOK(dev', inbox', session', live')
  <2>1. ASSUME NEW e \in Devices
        PROVE  IF session'[e] = 0 THEN Alone(dev'[e], inbox'[e])
               ELSE Acts(e, dev'[e], inbox'[e], session'[e]) \/ Hears(e, dev'[e], inbox'[e], session'[e])
    <3>1. CASE e = d
      BY <1>3, <1>4, <3>1
    <3>2. CASE e = Peer(d)
      BY <1>3, <3>2 DEF OrderlyOK, SidesOK
    <3>3. QED
      BY <3>1, <3>2, PeerFacts
  <2>2. QED
    BY <1>3, <2>1 DEF SidesOK
<1>5. Knows(d, v) /\ v.state \in {"free", "in", "out"}
  BY <1>1, MachineFields DEF OrderlyOK
<1>6. ASSUME WasReset(v, w) PROVE Knows(d, w) /\ ~AtWork(w) /\ w.state = "free" /\ Rests(w)
  BY <1>6 DEF WasReset, Knows, Rests
<1>7. CASE s = 0
  <2>1. Alone(v, mail)
    BY <1>1, <1>7 DEF OrderlyOK, SidesOK
  <2>2. Len(mail) \in Nat /\ DOMAIN mail = 1..Len(mail) /\ Len(mail) # 0 /\ Head(mail) = mail[1]
    BY <1>1, <1>3, SeqFacts
  <2>3. Head(mail).type = "closed"
    BY <2>1, <2>2 DEF Alone
  <2>4. WasReset(v, w)
    BY <1>1, <1>2, <1>3, <2>1, <2>3, ToldOfEnd, MessageFields DEF Alone
  <2>5. \A i \in DOMAIN Tail(mail) : Tail(mail)[i].type = "closed"
    <3>1. /\ Tail(mail) \in Seq(Message) /\ Len(Tail(mail)) = Len(mail) - 1
          /\ \A i \in 1..Len(Tail(mail)) : Tail(mail)[i] = mail[i + 1]
      BY <1>1, <1>3, HeadTailProperties
    <3>2. DOMAIN Tail(mail) = 1..Len(Tail(mail))
      BY <3>1, SeqFacts
    <3>3. ASSUME NEW i \in DOMAIN Tail(mail) PROVE Tail(mail)[i].type = "closed"
      <4>1. i + 1 \in DOMAIN mail /\ Tail(mail)[i] = mail[i + 1]
        BY <2>2, <3>1, <3>2
      <4>2. QED
        BY <2>1, <4>1 DEF Alone
    <3>4. QED
      BY <3>3
  <2>6. session'[d] = 0
    BY <1>3, <1>7
  <2>7. QED
    BY <1>3, <1>4, <1>6, <2>4, <2>5, <2>6 DEF Alone
<1>8. CASE s # 0
  <2>1. Acts(d, v, mail, s) \/ Hears(d, v, mail, s)
    BY <1>1, <1>8 DEF OrderlyOK, SidesOK
  <2>2. ASSUME Head(mail) = Lost(s), Tail(mail) = <<>>
        PROVE  /\ SidesOK(dev', inbox', session', live')
               /\ Knows(d, dev'[d]) /\ ~AtWork(dev'[d])
    <3>1. WasReset(v, w)
      BY <1>1, <1>2, <1>5, <2>2, ToldOfEnd
    <3>2. session'[d] = 0
      BY <1>1, <1>3, <2>2, LostFacts
    <3>3. Alone(w, Tail(mail))
      <4>1. DOMAIN <<>> = {}
        OBVIOUS
      <4>2. QED
        BY <1>6, <2>2, <3>1, <4>1 DEF Alone
    <3>4. QED
      BY <1>3, <1>4, <1>6, <3>1, <3>2, <3>3
  <2>3. ASSUME Head(mail).type # "closed",
               Acts(d, w, Tail(mail), s) \/ Hears(d, w, Tail(mail), s), Knows(d, w), ~AtWork(w)
        PROVE  /\ SidesOK(dev', inbox', session', live')
               /\ Knows(d, dev'[d]) /\ ~AtWork(dev'[d])
    BY <1>3, <1>4, <1>8, <2>3
  <2>4. CASE Acts(d, v, mail, s)
    <3>1. Head(mail) = Lost(s) /\ Tail(mail) = <<>>
      BY <1>1, <1>8, <2>4, MailFacts, MessagesTyped DEF Acts
    <3>2. QED
      BY <2>2, <3>1
  <2>5. CASE HearsStart(v, mail, s)
    <3>1. CASE /\ Head(mail) = Start /\ HearsStart(w, Tail(mail), s)
               /\ w.state = v.state /\ w.src = v.src /\ w.mouse = v.mouse
      <4>1. Head(mail).type # "closed" /\ Hears(d, w, Tail(mail), s) /\ Knows(d, w) /\ ~AtWork(w)
        BY <1>5, <3>1 DEF Start, Hears, Knows, HearsStart
      <4>2. QED
        BY <2>3, <4>1
    <3>2. QED
      BY <1>1, <1>2, <1>3, <2>2, <2>5, <3>1, HearsStartNext
  <2>6. ASSUME NEW res \in Results, HearsStarted(d, v, mail, res, s)
        PROVE  /\ SidesOK(dev', inbox', session', live')
               /\ Knows(d, dev'[d]) /\ ~AtWork(dev'[d])
    <3> DEFINE Goes == /\ Head(mail) = Start /\ HearsStarted(d, w, Tail(mail), res, s)
                       /\ w.state = v.state /\ w.src = v.src /\ w.mouse = v.mouse
               Ends == /\ Head(mail) = res /\ Tail(mail) = Mail(<<>>, s) /\ Rests(w)
                       /\ res.ok /\ v.state = "free" => w.state = "in" /\ w.mouse = Peer(d)
                       /\ res.ok /\ v.state = "out" => w.state = "free"
                       /\ ~res.ok => w.state = v.state /\ w.src = v.src
                       /\ v.state # "in"
    <3>0. v \in Machine /\ s \in Nat
      BY <1>1
    <3>1. Goes \/ Ends
      BY <1>2, <2>6, <3>0, HearsStartedNext
    <3>2. CASE Goes
      <4>1. Head(mail).type # "closed" /\ Hears(d, w, Tail(mail), s)
        BY <3>2 DEF Start, Hears
      <4>2. Knows(d, w) /\ ~AtWork(w)
        BY <1>5, <3>2 DEF Knows, HearsStarted
      <4>3. QED
        BY <2>3, <4>1, <4>2
    <3>3. CASE Ends
      <4>1. Head(mail).type # "closed" /\ res.ok \in BOOLEAN
        BY <3>3, ResultFacts
      <4>2. Acts(d, w, Tail(mail), s) /\ ~AtWork(w)
        BY <3>3 DEF Acts, Rests
      <4>3. Knows(d, w)
        BY <1>5, <3>3, <4>1 DEF Knows
      <4>4. QED
        BY <2>3, <4>1, <4>2, <4>3
    <3> HIDE DEF Goes, Ends
    <3>4. QED
      BY <3>1, <3>2, <3>3
  <2>7. CASE HearsStop(v, mail, s)
    <3>1. CASE /\ Head(mail) = Stop /\ HearsStop(w, Tail(mail), s)
               /\ w.state = v.state /\ w.src = v.src /\ w.mouse = v.mouse
      <4>1. Head(mail).type # "closed" /\ Hears(d, w, Tail(mail), s)
        BY <3>1 DEF Stop, Hears
      <4>2. Knows(d, w) /\ ~AtWork(w)
        BY <1>5, <3>1 DEF Knows, HearsStop
      <4>3. QED
        BY <2>3, <4>1, <4>2
    <3>2. QED
      BY <1>1, <1>2, <1>3, <2>2, <2>7, <3>1, HearsStopNext
  <2>8. CASE HearsStopped(v, mail, s)
    <3> DEFINE Goes == /\ Head(mail) = Stop /\ HearsStopped(w, Tail(mail), s)
                       /\ w.state = v.state /\ w.src = v.src /\ w.mouse = v.mouse
               Ends == Head(mail) = StopRes(TRUE) /\ Tail(mail) = Mail(<<>>, s) /\ WasReset(v, w)
    <3>0. v \in Machine /\ s \in Nat
      BY <1>1
    <3>1. Goes \/ Ends
      BY <1>2, <2>8, <3>0, HearsStoppedNext
    <3>2. CASE Goes
      <4>1. Head(mail).type # "closed"
        BY <3>2 DEF Stop
      <4>2. Hears(d, w, Tail(mail), s)
        BY <3>2 DEF Hears
      <4>3. Knows(d, w) /\ ~AtWork(w)
        BY <1>5, <3>2 DEF Knows, HearsStopped
      <4>4. QED
        BY <2>3, <4>1, <4>2, <4>3
    <3>3. CASE Ends
      <4>1. Head(mail).type # "closed" /\ Acts(d, w, Tail(mail), s)
        BY <1>6, <3>3 DEF StopRes, Acts
      <4>2. QED
        BY <1>6, <2>3, <3>3, <4>1
    <3> HIDE DEF Goes, Ends
    <3>4. QED
      BY <3>1, <3>2, <3>3
  <2>9. QED
    BY <2>1, <2>4, <2>5, <2>6, <2>7, <2>8 DEF Hears
<1>9. QED
  BY <1>7, <1>8

-----------------------------------------------------------------------------
(* The work of a device: it goes on, or it ends. *)
LEMMA LocalKeeps ==
  ASSUME TypesOK, OrderlyOK, NEW d \in Devices, Alike(d, dev[d], dev'[d]), NoNew(dev[d], dev'[d]),
         dev'[d].src = dev[d].src, dev'[d].mouse = dev[d].mouse, dev'[Peer(d)] = dev[Peer(d)],
         UNCHANGED transport, events' = events, stranded' = stranded, off' = off, odd \subseteq odd'
  PROVE  OrderlyOK'
<1>1. \A e \in Devices : e = d \/ e = Peer(d)
  BY PeerFacts
<1>2. inbox' = inbox /\ session' = session /\ live' = live
  BY DEF transport
<1>3. \A e \in Devices : Alike(e, dev[e], dev'[e])
  BY <1>1 DEF Alike
<1>4. SidesOK(dev', inbox', session', live')
  BY <1>2, <1>3, AlikeSides DEF OrderlyOK
<1>5. NoneClosed'
  BY <1>1 DEF OrderlyOK, NoneClosed, NoNew
<1>6. \A e \in Devices : Knows(e, dev'[e])
  BY <1>1, <1>3 DEF OrderlyOK, Knows, Alike
<1>7. CallersOK'
  <2>1. \A e \in Devices : (AtWork(dev'[e]) <=> AtWork(dev[e])) /\ dev'[e].starting = dev[e].starting
                           /\ dev'[e].stopping = dev[e].stopping
    BY <1>3 DEF Alike
  <2>2. CallersOK
    BY DEF OrderlyOK
  <2>3. QED
    BY <1>2, <2>1, <2>2 DEF CallersOK
<1>8. QED
  BY <1>4, <1>5, <1>6, <1>7 DEF OrderlyOK

(* A device that has its state, but nothing to do. *)
Idle(v, x) ==
  /\ x \in Machine /\ NoNew(v, x) /\ ~AtWork(x)
  /\ x.state = v.state /\ x.starting = v.starting /\ x.stopping = v.stopping
  /\ x.src = v.src /\ x.mouse = v.mouse

LEMMA WorkKeeps ==
  ASSUME TypesOK, OrderlyOK, NEW d \in Devices, AtWork(dev[d]), NEW x, Idle(dev[d], x),
         NEW w, w = dev'[d], NoNew(x, w),
         w.state = x.state, w.starting = x.starting, w.stopping = x.stopping,
         w.src = x.src, w.mouse = x.mouse,
         Starts(d, dev[d]) => Starts(d, w), Stops(d, dev[d]) => Stops(d, w),
         dev'[Peer(d)] = dev[Peer(d)],
         UNCHANGED transport, events' = events, stranded' = stranded, off' = off, odd \subseteq odd'
  PROVE  OrderlyOK'
<1>1. Starts(d, dev[d]) \/ Stops(d, dev[d])
  BY WorkerIs DEF OrderlyOK
<1>2. AtWork(w)
  BY <1>1 DEF Starts, Stops
<1>3. Alike(d, dev[d], w) /\ NoNew(dev[d], w)
  BY <1>2 DEF Alike, Idle, NoNew
<1>4. QED
  BY <1>3, LocalKeeps DEF Idle

LEMMA AskingWorks ==
  ASSUME NEW x \in Machine, ~AtWork(x), NEW c \in Calls, NEW to \in Maybe, NEW mouse \in Maybe
  PROVE  LET w == Saved(x, c, to, mouse) IN
         /\ AtWork(w) /\ OneThing(w) /\ ~HasTask(w)
         /\ \A b \in Calls : Awaits(w, b) => b = c
         /\ w.calls[c].to = to /\ w.calls[c].mouse = mouse
         /\ NoNew(x, w) /\ w.state = x.state /\ w.starting = x.starting /\ w.stopping = x.stopping
         /\ w.src = x.src /\ w.mouse = x.mouse /\ w.prepared = x.prepared
<1>1. PICK w : w = Saved(x, c, to, mouse)
  OBVIOUS
<1>0. /\ NoNew(x, w) /\ w.state = x.state /\ w.starting = x.starting /\ w.stopping = x.stopping
      /\ w.src = x.src /\ w.mouse = x.mouse /\ w.prepared = x.prepared
  <2>1. NoNew(x, w)
    BY <1>1, SavedIs
  <2>2. /\ w.state = x.state /\ w.src = x.src /\ w.mouse = x.mouse /\ w.prepared = x.prepared
        /\ w.starting = x.starting /\ w.stopping = x.stopping
    BY <1>1 DEF Saved, Machine
  <2>3. QED
    BY <2>1, <2>2
<1>2. /\ w.tasks = x.tasks /\ w.calls[c] = [to |-> to, mouse |-> mouse, owner |-> "current"]
      /\ \A b \in Calls : b # c => w.calls[b] = x.calls[b]
  BY <1>1, SavedIs
<1>3. ~HasTask(w) /\ Awaits(w, c) /\ \A b \in Calls : Awaits(w, b) => b = c
  BY <1>2 DEF AtWork, HasTask, Awaits
<1>4. QED
  BY <1>0, <1>1, <1>2, <1>3 DEF AtWork, OneThing

LEMMA PostingWorks ==
  ASSUME NEW x \in Machine, ~AtWork(x), NEW t \in Tasks, NEW w \in Machine, w.tasks = Append(x.tasks, t),
         w.calls = x.calls
  PROVE  AtWork(w) /\ OneThing(w) /\ w.tasks[1] = t /\ \A c \in Calls : ~Awaits(w, c)
<1>1. x.tasks = <<>> /\ x.tasks \in Seq(Tasks)
  BY MachineFields DEF AtWork, HasTask
<1>2. w.tasks # <<>> /\ Len(w.tasks) = 1 /\ w.tasks[1] = t
  BY <1>1, AppendProperties
<1>3. \A c \in Calls : ~Awaits(w, c)
  BY DEF AtWork, Awaits
<1>4. QED
  BY <1>2, <1>3 DEF AtWork, OneThing, HasTask

(* The end of a start: the other hears how it went. *)
LEMMA StartEnds ==
  ASSUME TypesOK, OrderlyOK, NEW d \in Devices, Starts(d, dev[d]), NEW x, Idle(dev[d], x),
         NEW ok \in BOOLEAN, NEW mouse \in Maybe, x.state = "free" => mouse = d,
         FinishStart(d, x, ok, Peer(d), mouse),
         off' = off, stranded' = stranded, odd \subseteq odd'
  PROVE  OrderlyOK'
<1>1. PICK p \in Devices : p = Peer(d) /\ p # d /\ Peer(p) = d /\ \A e \in Devices : e = d \/ e = p
  BY PeerFacts
<1>2. PICK v, u, w : v = dev[d] /\ u = dev[p] /\ w = StartFinished(x, ok, mouse)
  OBVIOUS
<1>3. AtWork(v) /\ v.starting /\ ~v.stopping /\ v.state # "out" /\ (v.state = "free" => v.src = p)
  BY <1>1, <1>2 DEF Starts
<1>4. /\ x \in Machine /\ NoNew(v, x) /\ ~AtWork(x) /\ x.state = v.state /\ x.starting /\ ~x.stopping
      /\ x.src = v.src /\ x.mouse = v.mouse
  BY <1>2, <1>3 DEF Idle
<1>5. /\ w \in Machine /\ NoNew(v, w) /\ Rests(w)
      /\ ok /\ v.state = "free" => w.state = "out" /\ w.src = p
      /\ ok /\ v.state = "in" => w.state = "free"
      /\ ~ok => w.state = v.state /\ w.src = v.src /\ w.mouse = v.mouse
  <2>1. /\ w \in Machine /\ NoNew(x, w) /\ (~AtWork(x) => ~AtWork(w))
        /\ ~w.starting /\ ~w.stopping
        /\ ok /\ x.state = "free" => w.state = "out" /\ w.src = x.src
        /\ ok /\ x.state = "in" => w.state = "free"
        /\ ~ok => w.state = x.state /\ w.src = x.src /\ w.mouse = x.mouse
    BY <1>2, <1>4, StartFinishedIs
  <2>2. NoNew(v, w)
    BY <1>4, <2>1 DEF NoNew
  <2>3. QED
    BY <1>3, <1>4, <2>1, <2>2 DEF Rests
<1>6. PICK res \in Results : res = StartRes(ok, mouse) /\ res.ok = ok /\ (ok => res.mouse = mouse)
  BY MessagesTyped DEF StartRes
<1>7. Becomes(d, w) /\ Send(d, p, res) /\ Answer(d, "start")
  BY <1>1, <1>2, <1>4, <1>6 DEF FinishStart
<1>8. dev'[d] = w /\ dev'[p] = u
  BY <1>1, <1>2, <1>5, <1>7, BecomesIs DEF TypesOK
<1>9. res \in Message
  BY ResultFacts
<1>10. /\ session' = session /\ live' = live /\ inbox'[d] = inbox[d]
       /\ inbox'[p] = IF session[d] # 0 /\ session[d] = live THEN Append(inbox[p], res) ELSE inbox[p]
  BY <1>1, <1>7, <1>9, SendTyped DEF TypesOK
<1>11. /\ events'[d] = events[d] \ {"start"} /\ events'[p] = events[p]
  BY <1>1, <1>7, AnswerTyped DEF TypesOK
<1>12. /\ session[d] # 0
       /\ live # 0 => /\ session[d] = live /\ session[p] = live /\ inbox[d] = <<>>
                      /\ \/ Starts(d, v) /\ HearsStart(u, inbox[p], 0) /\ Unchanged(v, u)
                         \/ Stops(d, v) /\ HearsStop(u, inbox[p], 0) /\ Shared(v, u)
       /\ live = 0 => inbox[d] = Mail(<<>>, session[d])
  BY <1>1, <1>2, <1>3, WorkerIs DEF OrderlyOK
<1>13. NoneClosed'
  BY <1>1, <1>2, <1>5, <1>8 DEF OrderlyOK, NoneClosed, NoNew
<1>14. \A e \in Devices : Knows(e, dev'[e])
  <2>1. Knows(d, v) /\ Knows(p, u)
    BY <1>2 DEF OrderlyOK
  <2>2. Knows(d, w)
    <3>1. v.state \in {"free", "in"}
      BY <1>2, <1>3, MachineFields DEF TypesOK, DevicesOK
    <3>2. QED
      BY <1>1, <1>5, <2>1, <3>1 DEF Knows
  <2>3. QED
    BY <1>1, <1>8, <2>1, <2>2
<1>15. CASE live # 0
  <2>1. HearsStart(u, inbox[p], 0) /\ Unchanged(v, u) /\ inbox'[p] = Append(inbox[p], res)
    BY <1>3, <1>10, <1>12, <1>15 DEF Stops
  <2>2. ToldTwice(inbox'[p], Start, res, u.starting, 0)
    <3>1. Start \in Message
      BY MessagesTyped
    <3>2. /\ Append(Mail(<<>>, 0), res) = Mail(<<res>>, 0)
          /\ Append(Mail(<<Start>>, 0), res) = Mail(<<Start, res>>, 0)
      BY <1>9, <3>1, MoreMail
    <3>3. QED
      BY <2>1, <3>2 DEF HearsStart, Told, ToldTwice
  <2>3. HearsStarted(p, u, inbox'[p], res, 0)
    BY <1>1, <1>4, <1>6, <2>1, <2>2 DEF HearsStart, HearsStarted, Unchanged, Are
  <2>4. IF res.ok THEN Changed(w, u) ELSE Unchanged(w, u)
    BY <1>3, <1>5, <1>6, <2>1 DEF Changed, Unchanged, Are
  <2>5. Together(d, w, u, inbox'[d], inbox'[p])
    BY <1>1, <1>5, <1>10, <1>12, <1>15, <2>3, <2>4 DEF Together
  <2>6. SidesOK(dev', inbox', session', live')
    BY <1>1, <1>8, <1>10, <1>12, <1>15, <2>5 DEF SidesOK
  <2>7. CallersOK'
    <3>1. SUFFICES ASSUME odd = {} PROVE CallersOK'
      BY DEF CallersOK
    <3>2. /\ stranded = {} /\ ("stop" \in events[d] => v.stopping)
          /\ ("start" \in events[p] => AtWork(u) /\ u.starting)
          /\ ("stop" \in events[p] => AtWork(u) /\ u.stopping)
      BY <1>2, <3>1 DEF OrderlyOK, CallersOK
    <3>3. events'[d] \cap {"start", "stop"} = {}
      BY <1>3, <1>11, <3>2
    <3>4. QED
      BY <1>1, <1>8, <1>10, <1>11, <1>15, <3>2, <3>3 DEF CallersOK
  <2>8. QED
    BY <1>13, <1>14, <2>6, <2>7 DEF OrderlyOK
<1>16. CASE live = 0
  <2>1. inbox'[d] = inbox[d] /\ inbox'[p] = inbox[p] /\ session' = session /\ live' = 0
    BY <1>10, <1>12, <1>16
  <2>2. Acts(d, w, inbox'[d], session'[d]) /\ session'[d] # 0
    BY <1>5, <1>12, <1>16, <2>1 DEF Acts
  <2>3. SidesOK(dev', inbox', session', live')
    BY <1>1, <1>2, <1>8, <1>16, <2>1, <2>2 DEF OrderlyOK, SidesOK
  <2>4. odd # {}
    BY <1>2, <1>3, <1>16 DEF OrderlyOK, CallersOK
  <2>5. CallersOK'
    BY <2>4 DEF CallersOK
  <2>6. QED
    BY <1>13, <1>14, <2>3, <2>5 DEF OrderlyOK
<1>17. QED
  BY <1>15, <1>16

(* The end of a stop: the one that stopped closes the session. *)
LEMMA StopEnds ==
  ASSUME TypesOK, OrderlyOK, NEW d \in Devices, Stops(d, dev[d]), NEW x, Idle(dev[d], x),
         FinishStop(d, x, TRUE, Peer(d)),
         off' = off, stranded' = stranded, odd \subseteq odd'
  PROVE  OrderlyOK'
<1>1. PICK p \in Devices : p = Peer(d) /\ p # d /\ Peer(p) = d /\ \A e \in Devices : e = d \/ e = p
  BY PeerFacts
<1>2. PICK v, u, w : v = dev[d] /\ u = dev[p] /\ w = StopFinished(x, TRUE)
  OBVIOUS
<1>3. AtWork(v) /\ ~v.starting /\ v.stopping /\ v.state # "free"
  BY <1>1, <1>2 DEF Stops
<1>4. x \in Machine /\ NoNew(v, x) /\ x.state = v.state /\ x.stopping
  BY <1>2, <1>3 DEF Idle
<1>5. w \in Machine /\ NoNew(v, w) /\ Rests(w) /\ w.state = "free"
  <2>1. w \in Machine /\ NoNew(x, w) /\ WasReset(x, w)
    BY <1>2, <1>3, <1>4, StopFinishedIs
  <2>2. QED
    BY <1>4, <2>1 DEF NoNew, WasReset
<1>6. PICK m \in Message : m = StopRes(TRUE)
  BY MessagesTyped
<1>7. Becomes(d, w) /\ SendAndClose(d, p, m) /\ Answer(d, "stop")
  BY <1>1, <1>2, <1>4, <1>6 DEF FinishStop
<1>8. dev'[d] = w /\ dev'[p] = u
  BY <1>1, <1>2, <1>5, <1>7, BecomesIs DEF TypesOK
<1>9. /\ events'[d] = events[d] \ {"stop"} /\ events'[p] = events[p]
  BY <1>1, <1>7, AnswerTyped DEF TypesOK
<1>10. /\ session[d] # 0
       /\ live # 0 => /\ session[d] = live /\ session[p] = live /\ inbox[d] = <<>>
                      /\ \/ Starts(d, v) /\ HearsStart(u, inbox[p], 0) /\ Unchanged(v, u)
                         \/ Stops(d, v) /\ HearsStop(u, inbox[p], 0) /\ Shared(v, u)
       /\ live = 0 => inbox[d] = Mail(<<>>, session[d])
  BY <1>1, <1>2, <1>3, WorkerIs DEF OrderlyOK
<1>11. /\ session'[d] = 0 /\ session'[p] = session[p]
       /\ session[d] # live => live' = live /\ inbox' = inbox
       /\ session[d] = live =>
            /\ live' = 0 /\ inbox'[d] = Closings(inbox[d])
            /\ inbox'[p] = Append(Append(inbox[p], m), Lost(live))
  BY <1>1, <1>7, <1>10, SendAndCloseTyped DEF TypesOK
<1>12. NoneClosed'
  BY <1>1, <1>2, <1>5, <1>8 DEF OrderlyOK, NoneClosed, NoNew
<1>13. \A e \in Devices : Knows(e, dev'[e])
  BY <1>1, <1>2, <1>5, <1>8 DEF OrderlyOK, Knows
<1>14. ~AtWork(w)
  BY <1>5 DEF Rests
<1>15. live \in Nat /\ session[d] \in Nat
  BY MailTyped DEF TypesOK
<1>16. CASE live # 0
  <2>1. HearsStop(u, inbox[p], 0)
    BY <1>3, <1>10, <1>16 DEF Starts
  <2>2. ToldTwice(inbox'[p], Stop, m, u.stopping, live)
    <3>1. Stop \in Message
      BY MessagesTyped
    <3>2. /\ Append(Mail(<<>>, 0), m) = Mail(<<m>>, 0)
          /\ Append(Mail(<<Stop>>, 0), m) = Mail(<<Stop, m>>, 0)
          /\ Append(Mail(<<m>>, 0), Lost(live)) = Mail(<<m>>, live)
          /\ Append(Mail(<<Stop, m>>, 0), Lost(live)) = Mail(<<Stop, m>>, live)
      BY <1>15, <1>16, <3>1, MoreMail
    <3>3. QED
      BY <1>10, <1>11, <1>16, <2>1, <3>2 DEF HearsStop, Told, ToldTwice
  <2>3. HearsStopped(u, inbox'[p], session'[p]) /\ session'[p] # 0
    BY <1>6, <1>10, <1>11, <1>16, <2>1, <2>2 DEF HearsStop, HearsStopped
  <2>4. inbox'[d] = <<>>
    <3>1. Closings(Mail(<<>>, 0)) = <<>> /\ Mail(<<>>, 0) = <<>>
      BY MailLost, MessagesTyped DEF Start, Mail
    <3>2. QED
      BY <1>10, <1>11, <1>16, <3>1
  <2>5. Alone(w, inbox'[d])
    <3>1. DOMAIN <<>> = {}
      OBVIOUS
    <3>2. QED
      BY <1>5, <2>4, <3>1 DEF Alone
  <2>6. SidesOK(dev', inbox', session', live')
    BY <1>1, <1>8, <1>10, <1>11, <1>16, <2>3, <2>5 DEF SidesOK, Hears
  <2>7. CallersOK'
    <3>1. SUFFICES ASSUME odd = {} PROVE CallersOK'
      BY DEF CallersOK
    <3>2. /\ stranded = {} /\ ("start" \in events[d] => v.starting)
          /\ ("start" \in events[p] => AtWork(u)) /\ ("stop" \in events[p] => AtWork(u))
      BY <1>2, <3>1 DEF OrderlyOK, CallersOK
    <3>3. ~AtWork(u)
      BY <2>1 DEF HearsStop
    <3>4. "start" \notin events'[d] /\ "stop" \notin events'[d]
      BY <1>3, <1>9, <3>2
    <3>5. "start" \notin events'[p] /\ "stop" \notin events'[p]
      BY <1>9, <3>2, <3>3
    <3>6. QED
      BY <1>1, <1>8, <1>14, <3>2, <3>3, <3>4, <3>5 DEF CallersOK
  <2>8. QED
    BY <1>12, <1>13, <2>6, <2>7 DEF OrderlyOK
<1>17. CASE live = 0
  <2>1. inbox' = inbox /\ live' = 0
    BY <1>10, <1>11, <1>17
  <2>2. Alone(w, inbox'[d])
    <3>1. inbox[d] = Append(<<>>, Lost(session[d])) /\ Lost(session[d]) \in Message
          /\ Lost(session[d]).type = "closed"
      BY <1>10, <1>15, <1>17, LostFacts DEF Mail
    <3>2. <<>> \in Seq(Message) /\ Len(<<>>) = 0
      OBVIOUS
    <3>3. Len(inbox[d]) = 1 /\ inbox[d] \in Seq(Message) /\ inbox[d][1] = Lost(session[d])
      BY <3>1, <3>2, AppendProperties
    <3>4. \A i \in DOMAIN inbox[d] : i = 1
      BY <3>3, SeqFacts
    <3>5. \A i \in DOMAIN inbox[d] : inbox[d][i].type = "closed"
      BY <3>1, <3>3, <3>4
    <3>6. QED
      BY <1>5, <2>1, <3>5 DEF Alone
  <2>3. SidesOK(dev', inbox', session', live')
    BY <1>1, <1>2, <1>8, <1>11, <1>17, <2>1, <2>2 DEF OrderlyOK, SidesOK
  <2>4. odd # {}
    BY <1>2, <1>3, <1>17 DEF OrderlyOK, CallersOK
  <2>5. CallersOK'
    BY <2>4 DEF CallersOK
  <2>6. QED
    BY <1>12, <1>13, <2>3, <2>5 DEF OrderlyOK
<1>18. QED
  BY <1>16, <1>17

(* Requests of distributed input, whether they start or stop. *)
LEMMA AskKeeps ==
  ASSUME TypesOK, OrderlyOK, NEW d \in Devices, AtWork(dev[d]), NEW x, Idle(dev[d], x),
         NEW y \in Machine, y.state = x.state, y.starting = x.starting, y.stopping = x.stopping,
         y.src = x.src, y.mouse = x.mouse, y.tasks = x.tasks, y.calls = x.calls,
         NEW c \in Calls, NEW to \in Maybe, NEW mouse \in Maybe, Ask(d, y, c, to, mouse),
         to = Peer(d),
         \/ /\ Starts(d, dev[d]) /\ c \in {"prepare", "start", "stopIn"}
            /\ y.state = "free" => mouse = d
            /\ c = "prepare" => y.prepared = Peer(d)
            /\ c = "stopIn" => y.state = "in"
         \/ Stops(d, dev[d]) /\ c = IF y.state = "in" THEN "stopIn" ELSE "stopOut",
         off' = off, stranded' = stranded
  PROVE  OrderlyOK'
<1>1. PICK v, w : v = dev[d] /\ w = Saved(y, c, to, mouse)
  OBVIOUS
<1>2. ~AtWork(y) /\ NoNew(x, y)
  BY SameWork DEF Idle
<1>3. /\ AtWork(w) /\ OneThing(w) /\ ~HasTask(w)
      /\ \A b \in Calls : Awaits(w, b) => b = c
      /\ w.calls[c].to = to /\ w.calls[c].mouse = mouse
  BY <1>1, <1>2, AskingWorks
<1>4. /\ NoNew(y, w) /\ w.state = y.state /\ w.starting = y.starting /\ w.stopping = y.stopping
      /\ w.src = y.src /\ w.mouse = y.mouse /\ w.prepared = y.prepared
  BY <1>1, <1>2, AskingWorks
<1>5. /\ UNCHANGED transport /\ events' = events /\ odd' = odd
      /\ dev'[d] = w /\ dev'[Peer(d)] = dev[Peer(d)]
  BY <1>1, AskTyped
<1>6. /\ x.state = v.state /\ x.starting = v.starting /\ x.stopping = v.stopping
      /\ x.src = v.src /\ x.mouse = v.mouse
  BY <1>1 DEF Idle
<1>7. Starts(d, v) => ~Stops(d, v)
  BY DEF Starts, Stops
<1>8. Starts(d, v) => Starts(d, w)
  <2>1. SUFFICES ASSUME Starts(d, v) PROVE Starts(d, w)
    OBVIOUS
  <2>2. StartCall(d, w, c)
    BY <1>1, <1>3, <1>4, <1>7, <2>1 DEF StartCall
  <2>3. \A b \in Calls : Awaits(w, b) => StartCall(d, w, b)
    BY <1>3, <2>2
  <2>4. /\ w.starting /\ ~w.stopping /\ w.state # "out" /\ (w.state = "free" => w.src = Peer(d))
    BY <1>4, <1>6, <2>1 DEF Starts
  <2>5. QED
    BY <1>3, <2>3, <2>4 DEF Starts
<1>9. Stops(d, v) => Stops(d, w)
  <2>1. SUFFICES ASSUME Stops(d, v) PROVE Stops(d, w)
    OBVIOUS
  <2>2. StopCall(d, w, c)
    BY <1>1, <1>3, <1>4, <1>7, <2>1 DEF StopCall
  <2>3. \A b \in Calls : Awaits(w, b) => StopCall(d, w, b)
    BY <1>3, <2>2
  <2>4. w.stopping /\ ~w.starting /\ w.state # "free"
    BY <1>4, <1>6, <2>1 DEF Stops
  <2>5. QED
    BY <1>3, <2>3, <2>4 DEF Stops
<1>10. /\ NoNew(x, w) /\ w.state = x.state /\ w.starting = x.starting /\ w.stopping = x.stopping
       /\ w.src = x.src /\ w.mouse = x.mouse
  BY <1>2, <1>4 DEF NoNew
<1>11. QED
  BY <1>1, <1>5, <1>8, <1>9, <1>10, WorkKeeps

(* A device that works: what its task, or the callback, leaves idle. *)
LEMMA TaskTaken ==
  ASSUME TypesOK, OrderlyOK, NEW d \in Devices, dev[d].tasks # <<>>, NEW t, NEW x,
         t = Head(dev[d].tasks), x = [dev[d] EXCEPT !.tasks = Tail(@)]
  PROVE  /\ AtWork(dev[d]) /\ Idle(dev[d], x) /\ x.prepared = dev[d].prepared
         /\ t \in Tasks /\ t.ok \in BOOLEAN /\ t.to \in Maybe /\ t.mouse \in Maybe
         /\ \/ Starts(d, dev[d]) /\ StartTask(d, dev[d], t)
            \/ Stops(d, dev[d]) /\ StopTask(d, dev[d], t)
<1>1. PICK v : v = dev[d]
  OBVIOUS
<1>2. /\ t \in Tasks /\ t = v.tasks[1]
      /\ x \in Machine /\ x.tasks = Tail(v.tasks) /\ x.calls = v.calls
      /\ x.state = v.state /\ x.starting = v.starting
      /\ x.stopping = v.stopping /\ x.src = v.src /\ x.mouse = v.mouse /\ x.prepared = v.prepared
  BY <1>1, HeadTask DEF TypesOK
<1>3. AtWork(v) /\ HasTask(v)
  BY <1>1 DEF AtWork, HasTask
<1>4. Starts(d, v) \/ Stops(d, v)
  BY <1>1, <1>3, WorkerIs DEF OrderlyOK
<1>5. Len(v.tasks) = 1 /\ \A c \in Calls : ~Awaits(v, c)
  BY <1>3, <1>4 DEF Starts, Stops, OneThing
<1>6. x.tasks = <<>>
  <2>1. v.tasks \in Seq(Tasks) /\ v.tasks # <<>>
    BY <1>1, <1>3, MachineFields DEF TypesOK, DevicesOK, HasTask
  <2>2. Tail(v.tasks) \in Seq(Tasks) /\ Len(Tail(v.tasks)) = 0
    BY <1>5, <2>1, HeadTailProperties
  <2>3. QED
    BY <1>2, <2>2, EmptySeq
<1>7. Idle(v, x)
  BY <1>2, <1>5, <1>6 DEF Idle, NoNew, AtWork, HasTask, Awaits
<1>8. QED
  BY <1>1, <1>2, <1>3, <1>4, <1>7, TaskFields DEF Starts, Stops

LEMMA TaskKeeps ==
  ASSUME TypesOK, OrderlyOK, NEW d \in Devices, RunTask(d), Orderly'
  PROVE  OrderlyOK'
<1>1. PICK t, x : /\ t = Head(dev[d].tasks) /\ x = [dev[d] EXCEPT !.tasks = Tail(@)]
                  /\ dev[d].tasks # <<>>
  BY DEF RunTask
<1>2. /\ AtWork(dev[d]) /\ Idle(dev[d], x) /\ x.prepared = dev[d].prepared
      /\ t \in Tasks /\ t.ok \in BOOLEAN /\ t.to \in Maybe /\ t.mouse \in Maybe
      /\ \/ Starts(d, dev[d]) /\ StartTask(d, dev[d], t)
         \/ Stops(d, dev[d]) /\ StopTask(d, dev[d], t)
  BY <1>1, TaskTaken
<1>3. off' = off /\ stranded' = stranded
  BY DEF RunTask
<1>4. /\ x \in Machine /\ x.state = dev[d].state /\ Peer(d) \in Maybe /\ NoDevice \in Maybe
  BY <1>2, PeerFacts DEF Idle
<1>5. "refused" \notin odd' /\ "stopFailed" \notin odd'
  BY DEF Orderly
<1>6. /\ t.what = "processStart" => ProcessStart(d, x, t.mouse)
      /\ t.what = "startDinput" => AskStart(d, x, t.mouse)
      /\ t.what = "relayStop" => AskBack(d, x, t.to, t.mouse, d)
      /\ t.what = "processStop" => AskStop(d, x, t.to)
      /\ t.what = "startFinish" => FinishStart(d, x, t.ok, t.to, t.mouse) /\ odd' = odd
      /\ t.what = "stopFinish" =>
           /\ FinishStop(d, x, t.ok, t.to)
           /\ odd' = IF t.ok THEN odd ELSE odd \cup {"stopFailed"}
  <2>1. \/ t.what = "processStart" /\ ProcessStart(d, x, t.mouse)
        \/ t.what = "startDinput" /\ AskStart(d, x, t.mouse)
        \/ t.what = "relayStop" /\ AskBack(d, x, t.to, t.mouse, d)
        \/ t.what = "processStop" /\ AskStop(d, x, t.to)
        \/ /\ t.what = "startFinish" /\ FinishStart(d, x, t.ok, t.to, t.mouse)
           /\ odd' = odd
        \/ /\ t.what = "stopFinish" /\ FinishStop(d, x, t.ok, t.to)
           /\ odd' = IF t.ok THEN odd ELSE odd \cup {"stopFailed"}
    BY <1>1 DEF RunTask
  <2>2. QED
    BY <2>1
<1>7. \A because : "refused" \in because => ~Refuse(because)
  BY <1>5 DEF Refuse
<1>8. CASE Starts(d, dev[d]) /\ StartTask(d, dev[d], t)
  <2>1. /\ t.what \in {"processStart", "startDinput", "relayStop", "startFinish"}
        /\ t.to = Peer(d) /\ (x.state = "free" => t.mouse = d)
        /\ t.what = "startDinput" => x.prepared = Peer(d)
        /\ t.what = "relayStop" => x.state = "in"
    BY <1>2, <1>4, <1>8 DEF StartTask
  <2>2. ASSUME AskStart(d, x, t.mouse), x.prepared = Peer(d) PROVE OrderlyOK'
    <3>1. Ask(d, x, "start", Peer(d), t.mouse)
      BY <1>7, <2>2 DEF AskStart
    <3>2. "start" \in Calls
      BY DEF Calls
    <3>3. QED
      BY <1>2, <1>3, <1>4, <1>8, <2>1, <3>1, <3>2, AskKeeps
  <2>3. ASSUME NEW tell, AskBack(d, x, Peer(d), t.mouse, tell), x.state = "in" PROVE OrderlyOK'
    <3>1. Ask(d, x, "stopIn", Peer(d), t.mouse)
      BY <1>7, <2>3 DEF AskBack
    <3>2. "stopIn" \in Calls
      BY DEF Calls
    <3>3. QED
      BY <1>2, <1>3, <1>4, <1>8, <2>1, <2>3, <3>1, <3>2, AskKeeps
  <2>4. ASSUME AskPrepare(d, x, t.mouse) PROVE OrderlyOK'
    <3>1. PICK y : y = [x EXCEPT !.prepared = Peer(d)]
      OBVIOUS
    <3>2. Ask(d, y, "prepare", Peer(d), t.mouse)
      BY <1>7, <2>4, <3>1 DEF AskPrepare
    <3>3. "prepare" \in Calls
      BY DEF Calls
    <3>4. /\ y \in Machine /\ y.state = x.state /\ y.starting = x.starting /\ y.stopping = x.stopping
          /\ y.src = x.src /\ y.mouse = x.mouse /\ y.tasks = x.tasks /\ y.calls = x.calls
          /\ y.prepared = Peer(d)
      BY <1>4, <3>1 DEF Machine
    <3>5. QED
      BY <1>2, <1>3, <1>4, <1>8, <2>1, <3>2, <3>3, <3>4, AskKeeps
  <2>5. CASE t.what = "processStart"
    <3>1. \/ x.state = "in" /\ t.mouse = Peer(d) /\ AskBack(d, x, Peer(d), t.mouse, t.mouse)
          \/ x.prepared = Peer(d) /\ AskStart(d, x, t.mouse)
          \/ AskPrepare(d, x, t.mouse)
      BY <1>6, <2>5 DEF ProcessStart
    <3>2. QED
      BY <2>2, <2>3, <2>4, <3>1
  <2>6. CASE t.what = "startDinput"
    BY <1>6, <2>1, <2>2, <2>6
  <2>7. CASE t.what = "relayStop"
    BY <1>6, <2>1, <2>3, <2>7
  <2>8. CASE t.what = "startFinish"
    <3>1. FinishStart(d, x, t.ok, Peer(d), t.mouse) /\ odd' = odd
      BY <1>6, <2>1, <2>8
    <3>2. QED
      BY <1>2, <1>3, <1>8, <2>1, <3>1, StartEnds
  <2>9. QED
    BY <2>1, <2>5, <2>6, <2>7, <2>8
<1>9. CASE Stops(d, dev[d]) /\ StopTask(d, dev[d], t)
  <2>1. t.what \in {"processStop", "stopFinish"} /\ t.to = Peer(d)
    BY <1>9 DEF StopTask
  <2>2. CASE t.what = "processStop"
    <3>1. PICK c : c = IF x.state = "in" THEN "stopIn" ELSE "stopOut"
      OBVIOUS
    <3>2. Ask(d, x, c, Peer(d), NoDevice) /\ c \in Calls
      BY <1>6, <1>7, <2>1, <2>2, <3>1 DEF AskStop, Calls
    <3>3. QED
      BY <1>2, <1>3, <1>4, <1>9, <3>1, <3>2, AskKeeps
  <2>3. CASE t.what = "stopFinish"
    <3>1. FinishStop(d, x, TRUE, Peer(d)) /\ odd' = odd
      BY <1>2, <1>5, <1>6, <2>1, <2>3
    <3>2. QED
      BY <1>2, <1>3, <1>9, <3>1, StopEnds
  <2>4. QED
    BY <2>1, <2>2, <2>3
<1>10. QED
  BY <1>2, <1>8, <1>9

(* An answer of distributed input, to the callback that is saved. *)
LEMMA PostKeeps ==
  ASSUME TypesOK, OrderlyOK, NEW d \in Devices, AtWork(dev[d]), NEW x, Idle(dev[d], x),
         NEW t \in Tasks, Becomes(d, Post(x, t)),
         \/ Starts(d, dev[d]) /\ StartTask(d, x, t)
         \/ Stops(d, dev[d]) /\ StopTask(d, x, t),
         UNCHANGED <<transport, events>>, off' = off, stranded' = stranded, odd \subseteq odd'
  PROVE  OrderlyOK'
<1>1. PICK v, w : v = dev[d] /\ w = Post(x, t)
  OBVIOUS
<1>2. x \in Machine /\ ~AtWork(x)
  BY DEF Idle
<1>3. w \in Machine /\ w.tasks = Append(x.tasks, t) /\ w = [x EXCEPT !.tasks = Append(x.tasks, t)]
  BY <1>1, <1>2, PostTyped
<1>4. PICK q : q = Append(x.tasks, t)
  OBVIOUS
<1>5. /\ w.state = x.state /\ w.starting = x.starting /\ w.stopping = x.stopping
      /\ w.src = x.src /\ w.mouse = x.mouse /\ w.prepared = x.prepared /\ w.calls = x.calls
  <2>1. w = [x EXCEPT !.tasks = q]
    BY <1>3, <1>4
  <2>2. QED
    BY <1>2, <2>1 DEF Machine
<1>6. AtWork(w) /\ OneThing(w) /\ w.tasks[1] = t /\ \A c \in Calls : ~Awaits(w, c)
  BY <1>2, <1>3, <1>5, PostingWorks
<1>7. NoNew(x, w)
  BY <1>5 DEF NoNew
<1>8. dev'[d] = w /\ dev'[Peer(d)] = dev[Peer(d)]
  BY <1>1, <1>3, BecomesIs DEF TypesOK
<1>9. /\ x.state = v.state /\ x.starting = v.starting /\ x.stopping = v.stopping
      /\ x.src = v.src /\ x.mouse = v.mouse
  BY <1>1 DEF Idle
<1>10. Starts(d, v) => ~Stops(d, v)
  BY DEF Starts, Stops
<1>11. Starts(d, v) => Starts(d, w)
  <2>1. SUFFICES ASSUME Starts(d, v) PROVE Starts(d, w)
    OBVIOUS
  <2>2. StartTask(d, w, t)
    BY <1>1, <1>5, <1>10, <2>1 DEF StartTask
  <2>3. /\ w.starting /\ ~w.stopping /\ w.state # "out" /\ (w.state = "free" => w.src = Peer(d))
    BY <1>5, <1>9, <2>1 DEF Starts
  <2>4. QED
    BY <1>6, <2>2, <2>3 DEF Starts
<1>12. Stops(d, v) => Stops(d, w)
  <2>1. SUFFICES ASSUME Stops(d, v) PROVE Stops(d, w)
    OBVIOUS
  <2>2. StopTask(d, w, t)
    BY <1>1, <1>10, <2>1 DEF StopTask
  <2>3. w.stopping /\ ~w.starting /\ w.state # "free"
    BY <1>5, <1>9, <2>1 DEF Stops
  <2>4. QED
    BY <1>6, <2>2, <2>3 DEF Stops
<1>13. QED
  BY <1>1, <1>5, <1>7, <1>8, <1>11, <1>12, WorkKeeps

LEMMA CallIdle ==
  ASSUME TypesOK, OrderlyOK, NEW d \in Devices, NEW c \in Calls, dev[d].calls[c].owner = "current"
  PROVE  LET v == dev[d] x == Forgotten(d, c) IN
         /\ AtWork(v) /\ Idle(v, x) /\ x.prepared = v.prepared
         /\ \/ Starts(d, v) /\ StartCall(d, v, c)
            \/ Stops(d, v) /\ StopCall(d, v, c)
<1>1. PICK v, x : v = dev[d] /\ x = Forgotten(d, c)
  OBVIOUS
<1>2. Awaits(v, c) /\ AtWork(v)
  BY <1>1 DEF Awaits, AtWork
<1>3. Starts(d, v) \/ Stops(d, v)
  BY <1>1, <1>2, WorkerIs DEF OrderlyOK
<1>4. ~HasTask(v) /\ \A b \in Calls : Awaits(v, b) => b = c
  BY <1>2, <1>3 DEF Starts, Stops, OneThing
<1>5. /\ x \in Machine /\ NoNew(v, x)
      /\ x.state = v.state /\ x.starting = v.starting /\ x.stopping = v.stopping
      /\ x.src = v.src /\ x.mouse = v.mouse /\ x.prepared = v.prepared /\ x.tasks = v.tasks
      /\ ~Awaits(x, c) /\ \A b \in Calls : b # c => x.calls[b] = v.calls[b]
  <2>1. dev[d] \in Machine
    BY DEF TypesOK, DevicesOK
  <2>2. QED
    BY <1>1, <2>1, ForgottenIs
<1>6. ~AtWork(x)
  BY <1>4, <1>5 DEF AtWork, HasTask, Awaits
<1>7. Idle(v, x)
  BY <1>5, <1>6 DEF Idle
<1>8. QED
  BY <1>1, <1>2, <1>3, <1>5, <1>7 DEF Starts, Stops

(* One that names an object which is gone, or nothing at all. *)
LEMMA GoneKeeps ==
  ASSUME TypesOK, OrderlyOK, NEW d \in Devices, NEW c \in Calls, dev[d].calls[c].owner # "current",
         Becomes(d, Forgotten(d, c)), UNCHANGED <<transport, events>>,
         off' = off, stranded' = stranded, odd \subseteq odd'
  PROVE  OrderlyOK'
<1>1. PICK v, x : v = dev[d] /\ x = Forgotten(d, c)
  OBVIOUS
<1>2. /\ x \in Machine /\ NoNew(v, x)
      /\ x.state = v.state /\ x.starting = v.starting /\ x.stopping = v.stopping
      /\ x.src = v.src /\ x.mouse = v.mouse /\ x.prepared = v.prepared /\ x.tasks = v.tasks
      /\ ~Awaits(x, c) /\ \A b \in Calls : b # c => x.calls[b] = v.calls[b]
  <2>1. dev[d] \in Machine
    BY DEF TypesOK, DevicesOK
  <2>2. QED
    BY <1>1, <2>1, ForgottenIs
<1>3. dev'[d] = x /\ dev'[Peer(d)] = dev[Peer(d)]
  BY <1>1, <1>2, BecomesIs DEF TypesOK
<1>4. \A b \in Calls : Awaits(x, b) <=> Awaits(v, b)
  BY <1>1, <1>2 DEF Awaits
<1>5. (AtWork(x) <=> AtWork(v)) /\ (OneThing(v) => OneThing(x)) /\ (HasTask(x) <=> HasTask(v))
  BY <1>2, <1>4 DEF AtWork, OneThing, HasTask
<1>6. Starts(d, v) => Starts(d, x)
  <2>1. SUFFICES ASSUME Starts(d, v) PROVE Starts(d, x)
    OBVIOUS
  <2>2. HasTask(x) => StartTask(d, x, x.tasks[1])
    BY <1>2, <1>5, <2>1 DEF Starts, StartTask
  <2>3. ASSUME NEW b \in Calls, Awaits(x, b) PROVE StartCall(d, x, b)
    <3>1. Awaits(v, b) /\ b # c
      BY <1>2, <1>4, <2>3
    <3>2. StartCall(d, v, b) /\ x.calls[b] = v.calls[b]
      BY <1>2, <2>1, <3>1 DEF Starts
    <3>3. QED
      BY <1>2, <3>2 DEF StartCall
  <2>4. x.starting /\ ~x.stopping /\ x.state # "out" /\ (x.state = "free" => x.src = Peer(d))
    BY <1>2, <2>1 DEF Starts
  <2>5. AtWork(x) /\ OneThing(x)
    BY <1>5, <2>1 DEF Starts
  <2>6. QED
    BY <2>2, <2>3, <2>4, <2>5 DEF Starts
<1>7. Stops(d, v) => Stops(d, x)
  <2>1. SUFFICES ASSUME Stops(d, v) PROVE Stops(d, x)
    OBVIOUS
  <2>2. HasTask(x) => StopTask(d, x, x.tasks[1])
    BY <1>2, <1>5, <2>1 DEF Stops, StopTask
  <2>3. ASSUME NEW b \in Calls, Awaits(x, b) PROVE StopCall(d, x, b)
    <3>1. Awaits(v, b) /\ b # c
      BY <1>2, <1>4, <2>3
    <3>2. StopCall(d, v, b) /\ x.calls[b] = v.calls[b]
      BY <1>2, <2>1, <3>1 DEF Stops
    <3>3. QED
      BY <1>2, <3>2 DEF StopCall
  <2>4. x.stopping /\ ~x.starting /\ x.state # "free"
    BY <1>2, <2>1 DEF Stops
  <2>5. AtWork(x) /\ OneThing(x)
    BY <1>5, <2>1 DEF Stops
  <2>6. QED
    BY <2>2, <2>3, <2>4, <2>5 DEF Stops
<1>8. Alike(d, v, x)
  BY <1>2, <1>5, <1>6, <1>7 DEF Alike
<1>9. QED
  BY <1>1, <1>2, <1>3, <1>8, LocalKeeps

LEMMA CallbackKeeps ==
  ASSUME TypesOK, OrderlyOK, NEW d \in Devices, NEW c \in Calls, NEW ok \in BOOLEAN,
         ProcessDInputCallback(d, c, ok) \/ (ok = FALSE /\ TimeOut(d, c))
  PROVE  OrderlyOK'
<1>1. Called(d, Forgotten(d, c), c, ok) /\ off' = off /\ odd' = odd /\ stranded' = stranded
  BY DEF ProcessDInputCallback, TimeOut, history
<1>2. PICK call, x : call = dev[d].calls[c] /\ x = Forgotten(d, c)
  OBVIOUS
<1>3. Outcome(d, x, c, ok, call)
  BY <1>1, <1>2, CalledIs
<1>4. CASE call.owner # "current"
  <2>1. Becomes(d, x) /\ UNCHANGED <<transport, events>>
    BY <1>3, <1>4 DEF Outcome
  <2>2. QED
    BY <1>1, <1>2, <1>4, <2>1, GoneKeeps
<1>5. CASE call.owner = "current"
  <2>1. /\ AtWork(dev[d]) /\ Idle(dev[d], x) /\ x.prepared = dev[d].prepared
        /\ \/ Starts(d, dev[d]) /\ StartCall(d, dev[d], c)
           \/ Stops(d, dev[d]) /\ StopCall(d, dev[d], c)
    BY <1>2, <1>5, CallIdle
  <2>2. /\ x \in Machine /\ x.state = dev[d].state /\ x.starting = dev[d].starting
        /\ x.stopping = dev[d].stopping
    BY <2>1 DEF Idle
  <2>3. call.to \in Maybe /\ call.mouse \in Maybe
    <3>1. call \in Owned
      BY <1>2, MachineFields DEF TypesOK, DevicesOK
    <3>2. QED
      BY <3>1, CallFacts
  <2>4. Starts(d, dev[d]) =>
          /\ c \in {"prepare", "start", "stopIn"} /\ call.to = Peer(d)
          /\ x.state = "free" => call.mouse = d
          /\ c = "prepare" => x.prepared = Peer(d)
          /\ c = "stopIn" => x.state = "in"
          /\ x.starting /\ ~x.stopping
    BY <1>2, <2>1, <2>2 DEF StartCall, Starts, Stops
  <2>5. Stops(d, dev[d]) =>
          c \in {"stopIn", "stopOut"} /\ call.to = Peer(d) /\ ~x.starting /\ x.stopping
    BY <1>2, <2>1, <2>2 DEF StopCall, Starts, Stops
  <2>6. Starts(d, dev[d]) \/ Stops(d, dev[d])
    BY <2>1
  <2>7. CASE /\ c = "prepare" /\ ~ok
             /\ FinishStart(d, [x EXCEPT !.prepared = NoDevice], FALSE, call.to, call.mouse)
    <3>1. PICK y : y = [x EXCEPT !.prepared = NoDevice]
      OBVIOUS
    <3>2. /\ y \in Machine /\ y.state = x.state /\ y.starting = x.starting /\ y.stopping = x.stopping
          /\ y.src = x.src /\ y.mouse = x.mouse /\ y.tasks = x.tasks /\ y.calls = x.calls
      BY <2>2, <3>1 DEF Machine, Maybe
    <3>3. (AtWork(y) <=> AtWork(x)) /\ NoNew(x, y)
      BY <3>2, SameWork
    <3>4. Idle(dev[d], y)
      BY <2>1, <3>2, <3>3 DEF Idle, NoNew
    <3>5. Starts(d, dev[d])
      BY <2>5, <2>6, <2>7
    <3>6. FinishStart(d, y, FALSE, Peer(d), call.mouse) /\ (y.state = "free" => call.mouse = d)
      BY <2>4, <2>7, <3>1, <3>2, <3>5
    <3>7. QED
      BY <1>1, <2>3, <3>4, <3>5, <3>6, StartEnds
  <2>8. ASSUME UNCHANGED <<transport, events>>,
               NEW what \in {"startDinput", "relayStop", "startFinish", "stopFinish"}, NEW isOk \in BOOLEAN,
               Becomes(d, Post(x, Posted(call, what, isOk))),
               \/ c = "prepare" /\ what = "startDinput"
               \/ c = "start" /\ x.state = "in" /\ what = "relayStop"
               \/ c = "start" /\ what = "startFinish"
               \/ c = "stopOut" /\ what = "stopFinish"
               \/ c = "stopIn" /\ x.starting /\ what = "startFinish"
               \/ c = "stopIn" /\ ~x.starting /\ x.stopping /\ what = "stopFinish"
        PROVE  OrderlyOK'
    <3>1. PICK t : t = Posted(call, what, isOk)
      OBVIOUS
    <3>2. t \in Tasks /\ t.what = what /\ t.to = call.to /\ t.mouse = call.mouse
      BY <2>3, <3>1, TaskMade DEF Posted
    <3>3. \/ Starts(d, dev[d]) /\ StartTask(d, x, t)
          \/ Stops(d, dev[d]) /\ StopTask(d, x, t)
      <4>1. CASE Starts(d, dev[d])
        <5>1. what \in {"startDinput", "relayStop", "startFinish"}
          BY <2>4, <2>8, <4>1
        <5>2. what = "startDinput" => x.prepared = Peer(d)
          BY <2>4, <2>8, <4>1
        <5>3. what = "relayStop" => x.state = "in"
          BY <2>8
        <5>4. QED
          BY <2>4, <3>2, <4>1, <5>1, <5>2, <5>3 DEF StartTask
      <4>2. CASE Stops(d, dev[d])
        <5>1. what = "stopFinish"
          BY <2>5, <2>8, <4>2
        <5>2. QED
          BY <2>5, <3>2, <4>2, <5>1 DEF StopTask
      <4>3. QED
        BY <2>6, <4>1, <4>2
    <3>4. QED
      BY <1>1, <2>1, <2>8, <3>1, <3>2, <3>3, PostKeeps
  <2>9. ~(c = "stopIn" /\ ~x.starting /\ ~x.stopping)
    BY <2>4, <2>5, <2>6
  <2>10. QED
    BY <1>3, <1>5, <2>7, <2>8, <2>9 DEF Outcome
<1>6. QED
  BY <1>4, <1>5

-----------------------------------------------------------------------------
(* Calls of applications: while all is orderly they begin when nothing is
   under way. *)
LEMMA NotOverlapping ==
  ASSUME NoteOverlap, Orderly'
  PROVE  ~Overlaps /\ odd' = odd
BY DEF NoteOverlap, Orderly

(* What was there is there; a caller is refused, and answered. *)
LEMMA RefusedKeeps ==
  ASSUME TypesOK, OrderlyOK, NEW d \in Devices, NEW call \in {"start", "stop"},
         ~Overlaps, RegisterAndRefuse(d, call), dev' = dev, UNCHANGED transport, off' = off, odd' = odd
  PROVE  OrderlyOK'
<1>1. session' = session /\ live' = live /\ inbox' = inbox
  BY DEF transport
<1>2. NoneClosed' /\ (\A e \in Devices : Knows(e, dev'[e]))
  BY DEF OrderlyOK, NoneClosed
<1>3. SidesOK(dev', inbox', session', live')
  BY <1>1 DEF OrderlyOK
<1>4. CallersOK'
  <2>1. SUFFICES ASSUME odd = {} PROVE CallersOK'
    BY DEF CallersOK
  <2>2. CallersOK /\ ~dev[d].starting /\ ~dev[d].stopping
    BY DEF OrderlyOK, Overlaps
  <2>3. call \notin events[d] /\ stranded = {}
    BY <2>1, <2>2 DEF CallersOK
  <2>4. stranded' = {} /\ \A e \in Devices : events'[e] \subseteq events[e]
    BY <2>3 DEF RegisterAndRefuse, TypesOK, EventsOK
  <2>5. QED
    BY <1>1, <2>1, <2>2, <2>4 DEF CallersOK
<1>5. QED
  BY <1>2, <1>3, <1>4 DEF OrderlyOK

(* A call that begins something. *)
LEMMA CallBegins ==
  ASSUME TypesOK, OrderlyOK, NEW d \in Devices, ~Overlaps, NEW w, w = dev'[d],
         NoNew(dev[d], w), Knows(d, w), dev'[Peer(d)] = dev[Peer(d)],
         NEW calls, calls \in {{"start"}, {"stop"}, {}}, Register(d, calls), AtWork(w),
         "start" \in calls => w.starting, "stop" \in calls => w.stopping,
         live' # 0, session'[d] = live', session'[Peer(d)] = live',
         Together(d, w, dev[Peer(d)], inbox'[d], inbox'[Peer(d)]), off' = off, odd' = odd
  PROVE  OrderlyOK'
<1>1. PICK p \in Devices : p = Peer(d) /\ p # d /\ \A e \in Devices : e = d \/ e = p
  BY PeerFacts
<1>2. NoneClosed'
  BY <1>1 DEF OrderlyOK, NoneClosed, NoNew
<1>3. \A e \in Devices : Knows(e, dev'[e])
  BY <1>1 DEF OrderlyOK
<1>4. SidesOK(dev', inbox', session', live')
  BY <1>1 DEF SidesOK
<1>5. CallersOK'
  <2>1. SUFFICES ASSUME odd = {} PROVE CallersOK'
    BY DEF CallersOK
  <2>2. CallersOK /\ \A e \in Devices : ~dev[e].starting /\ ~dev[e].stopping
    BY DEF OrderlyOK, Overlaps
  <2>3. stranded = {} /\ \A e \in Devices : "start" \notin events[e] /\ "stop" \notin events[e]
    BY <2>1, <2>2 DEF CallersOK
  <2>4. events[d] \cap calls = {}
    BY <2>3
  <2>5. stranded' = {} /\ events'[d] = events[d] \cup calls /\ events'[p] = events[p]
    BY <1>1, <2>3, <2>4 DEF Register, TypesOK, EventsOK
  <2>6. /\ "start" \in events'[d] => w.starting
        /\ "stop" \in events'[d] => w.stopping
        /\ "start" \notin events'[p] /\ "stop" \notin events'[p]
    BY <1>1, <2>3, <2>5
  <2>7. QED
    BY <1>1, <2>5, <2>6 DEF CallersOK
<1>6. QED
  BY <1>2, <1>3, <1>4, <1>5 DEF OrderlyOK

(* What StartInputDeviceCooperate makes of the device. *)
Begun(d, v, mouse, w) ==
  /\ w \in Machine /\ w.calls = v.calls
  /\ w.tasks = Append(v.tasks, Task("processStart", TRUE, Peer(d), mouse))
  /\ w.state = v.state /\ w.starting = TRUE /\ w.stopping = v.stopping /\ w.mouse = v.mouse
  /\ w.src = IF v.state = "free" THEN Peer(d) ELSE v.src

LEMMA BegunIs ==
  ASSUME NEW d \in Devices, NEW v \in Machine, NEW mouse \in Devices
  PROVE  Begun(d, v, mouse, [Post(v, Task("processStart", TRUE, Peer(d), mouse)) EXCEPT
                               !.starting = TRUE, !.src = IF v.state = "free" THEN Peer(d) ELSE @])
<1>1. PICK t \in Tasks : t = Task("processStart", TRUE, Peer(d), mouse)
  BY PeerFacts, TaskMade DEF Maybe
<1>2. PICK q \in Seq(Tasks) : q = Append(v.tasks, t)
  BY MachineFields, AppendFacts
<1>3. Post(v, t) = [v EXCEPT !.tasks = q]
  BY <1>2 DEF Post
<1>4. PICK x : x = [v EXCEPT !.tasks = q]
  OBVIOUS
<1>5. /\ x \in Machine /\ x.tasks = q /\ x.calls = v.calls /\ x.state = v.state
      /\ x.stopping = v.stopping /\ x.mouse = v.mouse /\ x.src = v.src
  BY <1>4 DEF Machine
<1>6. PICK s \in Maybe : s = IF v.state = "free" THEN Peer(d) ELSE x.src
  BY <1>5, PeerFacts, MachineFields
<1>7. PICK w : w = [x EXCEPT !.starting = TRUE, !.src = s]
  OBVIOUS
<1>8. /\ w \in Machine /\ w.tasks = q /\ w.calls = v.calls /\ w.state = v.state /\ w.starting = TRUE
      /\ w.stopping = v.stopping /\ w.mouse = v.mouse /\ w.src = s
  BY <1>5, <1>7 DEF Machine
<1>9. Begun(d, v, mouse, w)
  BY <1>1, <1>2, <1>5, <1>6, <1>8 DEF Begun
<1>10. w = [Post(v, t) EXCEPT !.starting = TRUE, !.src = IF v.state = "free" THEN Peer(d) ELSE @]
  BY <1>3, <1>4, <1>6, <1>7
<1>11. QED
  BY <1>1, <1>9, <1>10

LEMMA FirstSent ==
  ASSUME TransportOK, NEW d \in Devices, NEW m \in Message, Send(d, Peer(d), m),
         session[d] = live, session[Peer(d)] = live, live # 0,
         inbox[d] = <<>>, inbox[Peer(d)] = <<>>
  PROVE  /\ live' # 0 /\ session'[d] = live' /\ session'[Peer(d)] = live'
         /\ inbox'[d] = <<>> /\ inbox'[Peer(d)] = <<m>>
<1>1. Append(<<>>, m) = <<m>>
  <2>1. Append(Mail(<<>>, 0), m) = Mail(<<m>>, 0)
    BY MoreMail
  <2>2. QED
    BY <2>1 DEF Mail
<1>2. /\ session' = session /\ live' = live /\ inbox'[d] = inbox[d]
      /\ inbox'[Peer(d)] = IF session[d] # 0 /\ session[d] = live
                           THEN Append(inbox[Peer(d)], m) ELSE inbox[Peer(d)]
  BY SendTyped
<1>3. QED
  BY <1>1, <1>2

LEMMA StartKeeps ==
  ASSUME TypesOK, OrderlyOK, NEW d \in Devices, NEW mouse \in Devices,
         StartInputDeviceCooperate(d, mouse), Orderly'
  PROVE  OrderlyOK'
<1>1. ~Overlaps /\ odd' = odd /\ off' = off
  BY NotOverlapping DEF StartInputDeviceCooperate
<1>2. PICK p \in Devices : p = Peer(d) /\ p # d /\ Peer(p) = d /\ \A e \in Devices : e = d \/ e = p
  BY PeerFacts
<1>3. PICK v, u : v = dev[d] /\ u = dev[p] /\ v \in Machine /\ u \in Machine
  BY DEF TypesOK, DevicesOK
<1>4. /\ inbox[d] = <<>> /\ inbox[p] = <<>> /\ Rests(v) /\ Rests(u)
      /\ session[d] = live /\ session[p] = live
      /\ Are(v, u, "free", "free") \/ (live # 0 /\ Shared(v, u))
  <2>1. SidesOK(dev, inbox, session, live)
    BY DEF OrderlyOK
  <2>2. QED
    BY <1>1, <1>2, <1>3, <2>1, QuietBefore
<1>5. CASE /\ (v.state = "free" /\ mouse = d) \/ v.state = "in"
           /\ OpenAndSend(d) /\ Register(d, {"start"})
           /\ Becomes(d, [Post(v, Task("processStart", TRUE, Peer(d), mouse)) EXCEPT
                            !.starting = TRUE, !.src = IF v.state = "free" THEN Peer(d) ELSE @])
  <2>1. PICK w : w = [Post(v, Task("processStart", TRUE, Peer(d), mouse)) EXCEPT
                            !.starting = TRUE, !.src = IF v.state = "free" THEN Peer(d) ELSE @]
    OBVIOUS
  <2>2. Begun(d, v, mouse, w)
    BY <1>3, <2>1, BegunIs
  <2>3. /\ w \in Machine /\ w.calls = v.calls
        /\ w.tasks = Append(v.tasks, Task("processStart", TRUE, p, mouse))
        /\ w.state = v.state /\ w.starting = TRUE /\ w.stopping = v.stopping /\ w.mouse = v.mouse
        /\ w.src = IF v.state = "free" THEN p ELSE v.src
    BY <1>2, <2>2 DEF Begun
  <2>4. dev'[d] = w /\ dev'[p] = u
    BY <1>2, <1>3, <1>5, <2>1, <2>3, BecomesIs DEF TypesOK
  <2>0. PICK t : t = Task("processStart", TRUE, p, mouse)
    OBVIOUS
  <2>5. /\ t \in Tasks /\ t = Task("processStart", TRUE, p, mouse) /\ t.what = "processStart"
        /\ t.to = p /\ t.mouse = mouse
    <3>1. p \in Maybe /\ mouse \in Maybe
      BY <1>2 DEF Maybe
    <3>2. t \in Tasks
      BY <2>0, <3>1 DEF Task, Tasks
    <3>3. QED
      BY <2>0, <3>2 DEF Task
  <2>6. AtWork(w) /\ OneThing(w) /\ w.tasks[1] = t /\ \A c \in Calls : ~Awaits(w, c)
    <3>1. ~AtWork(v) /\ w \in Machine /\ w.tasks = Append(v.tasks, t) /\ w.calls = v.calls
      BY <1>4, <2>3, <2>5 DEF Rests
    <3>2. t \in Tasks
      BY <2>5
    <3>3. QED
      BY <1>3, <3>1, <3>2, PostingWorks
  <2>7. Starts(d, w)
    <3>1. StartTask(d, w, t)
      BY <1>2, <1>5, <2>3, <2>5 DEF StartTask
    <3>2. w.starting /\ ~w.stopping /\ w.state # "out" /\ (w.state = "free" => w.src = Peer(d))
      BY <1>2, <1>4, <1>5, <2>3 DEF Rests
    <3>3. QED
      BY <2>6, <3>1, <3>2 DEF Starts
  <2>8. /\ live' # 0 /\ session'[d] = live' /\ session'[p] = live'
        /\ inbox'[d] = <<>> /\ inbox'[p] = <<Start>>
    <3>0. Start \in Message
      BY MessagesTyped
    <3>1. CASE live # 0
      <4>1. Send(d, p, Start)
        BY <1>2, <1>4, <1>5, <3>1 DEF OpenAndSend
      <4>2. QED
        BY <1>2, <1>4, <3>0, <3>1, <4>1, FirstSent DEF TypesOK
    <3>2. CASE live = 0
      <4>1. OpenInputSoftbus(d, <<Start>>)
        BY <1>4, <1>5, <3>2 DEF OpenAndSend
      <4>2. <<Start>> \in Seq(Message) /\ <<>> \o <<Start>> = <<Start>>
        BY <3>0, ConcatEmptySeq
      <4>3. QED
        BY <1>2, <1>4, <3>2, <4>1, <4>2, OpenTyped DEF TypesOK
    <3>3. QED
      BY <3>1, <3>2
  <2>9. Together(d, w, u, inbox'[d], inbox'[p])
    <3>1. Unchanged(w, u)
      BY <1>4, <1>5, <2>3 DEF Are, Shared, Unchanged
    <3>2. HearsStart(u, inbox'[p], 0)
      BY <1>4, <1>5, <2>8 DEF HearsStart, Told, Mail, Rests, Are, Shared
    <3>3. QED
      BY <2>7, <2>8, <3>1, <3>2 DEF Together
  <2>10. NoNew(v, w)
    BY <2>3 DEF NoNew
  <2>11. Knows(d, w)
    BY <1>3, <1>5, <2>3 DEF OrderlyOK, Knows
  <2>12. QED
    BY <1>1, <1>2, <1>3, <1>5, <2>3, <2>4, <2>6, <2>8, <2>9, <2>10, <2>11, CallBegins
<1>6. CASE v.starting
  BY <1>4, <1>6 DEF Rests
<1>7. CASE /\ v.state = "out" /\ RegisterAndRefuse(d, "start")
           /\ OpenInputSoftbus(d, <<>>) /\ dev' = dev
  <2>1. session[d] # 0
    BY <1>4, <1>7 DEF Are, Shared
  <2>2. UNCHANGED transport
    BY <1>7, <2>1 DEF OpenInputSoftbus
  <2>3. QED
    BY <1>1, <1>7, <2>2, RefusedKeeps
<1>8. CASE RegisterAndRefuse(d, "start") /\ dev' = dev /\ UNCHANGED transport
  BY <1>1, <1>8, RefusedKeeps
<1>9. QED
  BY <1>3, <1>5, <1>6, <1>7, <1>8 DEF StartInputDeviceCooperate

LEMMA StopKeeps ==
  ASSUME TypesOK, OrderlyOK, NEW d \in Devices,
         StopInputDeviceCooperate(d) \/ CheckPointerEvent(d), Orderly'
  PROVE  OrderlyOK'
<1>1. ~Overlaps /\ odd' = odd /\ off' = off
  BY NotOverlapping DEF StopInputDeviceCooperate, CheckPointerEvent
<1>2. PICK p \in Devices : p = Peer(d) /\ p # d /\ Peer(p) = d /\ \A e \in Devices : e = d \/ e = p
  BY PeerFacts
<1>3. PICK v, u : v = dev[d] /\ u = dev[p] /\ v \in Machine /\ u \in Machine
  BY DEF TypesOK, DevicesOK
<1>4. /\ inbox[d] = <<>> /\ inbox[p] = <<>> /\ Rests(v) /\ Rests(u)
      /\ session[d] = live /\ session[p] = live
      /\ Are(v, u, "free", "free") \/ (live # 0 /\ Shared(v, u))
  <2>1. SidesOK(dev, inbox, session, live)
    BY DEF OrderlyOK
  <2>2. QED
    BY <1>1, <1>2, <1>3, <2>1, QuietBefore
<1>5. ASSUME CanStop(d), Stopping(d), NEW calls, calls \in {{"stop"}, {}}, Register(d, calls)
      PROVE  OrderlyOK'
  <2>1. v.state # "free" /\ live # 0 /\ Shared(v, u)
    BY <1>3, <1>4, <1>5 DEF CanStop, Are
  <2>2. PICK w, t : /\ w = dev'[d] /\ t = Task("processStop", TRUE, p, NoDevice) /\ t \in Tasks
                    /\ w.tasks = Append(v.tasks, t) /\ w.calls = v.calls
                    /\ w.stopping = TRUE /\ w.starting = v.starting /\ w.state = v.state
                    /\ w.src = v.src /\ w.mouse = v.mouse
                    /\ Send(d, p, Stop) /\ dev'[p] = u /\ w \in Machine
    <3>1. DevicesOK'
      BY <1>5, StoppingIs DEF TypesOK
    <3>2. dev'[d] \in Machine
      BY <3>1 DEF DevicesOK
    <3>3. QED
      BY <1>2, <1>3, <1>5, <3>2, StoppingIs DEF TypesOK
  <2>3. t.what = "processStop" /\ t.to = p
    BY <2>2 DEF Task
  <2>4. AtWork(w) /\ OneThing(w) /\ w.tasks[1] = t /\ \A c \in Calls : ~Awaits(w, c)
    <3>1. ~AtWork(v) /\ w \in Machine /\ w.tasks = Append(v.tasks, t) /\ w.calls = v.calls
      BY <1>4, <2>2 DEF Rests
    <3>2. t \in Tasks
      BY <2>2
    <3>3. QED
      BY <1>3, <3>1, <3>2, PostingWorks
  <2>5. Stops(d, w)
    <3>1. StopTask(d, w, t)
      BY <1>2, <2>3 DEF StopTask
    <3>2. w.stopping /\ ~w.starting /\ w.state # "free"
      BY <1>4, <2>1, <2>2 DEF Rests
    <3>3. QED
      BY <2>4, <3>1, <3>2 DEF Stops
  <2>6. /\ live' # 0 /\ session'[d] = live' /\ session'[p] = live'
        /\ inbox'[d] = <<>> /\ inbox'[p] = <<Stop>>
    <3>1. Stop \in Message
      BY MessagesTyped
    <3>2. QED
      BY <1>2, <1>4, <2>1, <2>2, <3>1, FirstSent DEF TypesOK
  <2>7. Together(d, w, u, inbox'[d], inbox'[p])
    <3>1. Shared(w, u)
      BY <2>1, <2>2 DEF Are, Shared
    <3>2. HearsStop(u, inbox'[p], 0)
      BY <1>4, <2>6 DEF HearsStop, Told, Mail, Rests
    <3>3. QED
      BY <2>5, <2>6, <3>1, <3>2 DEF Together
  <2>8. NoNew(v, w)
    BY <2>2 DEF NoNew
  <2>9. Knows(d, w)
    BY <1>3, <2>2 DEF OrderlyOK, Knows
  <2>10. QED
    BY <1>1, <1>2, <1>3, <1>5, <2>2, <2>4, <2>6, <2>7, <2>8, <2>9, CallBegins
<1>6. CASE RegisterAndRefuse(d, "stop") /\ dev' = dev /\ UNCHANGED transport
  BY <1>1, <1>6, RefusedKeeps
<1>7. QED
  BY <1>5, <1>6 DEF StopInputDeviceCooperate, CheckPointerEvent

-----------------------------------------------------------------------------
(* The steps, together. *)
LEMMA OtherKeeps ==
  ASSUME TypesOK, OrderlyOK, Orderly',
         Cut \/ \E d \in Devices : \/ Crash(d) \/ DisableInputDeviceCooperate(d)
                                   \/ OnCooperateChanged(d)
  PROVE  OrderlyOK'
<1>1. CASE Cut
  <2>1. SidesOK(dev', inbox', session', live')
    BY <1>1, CutSides
  <2>2. dev' = dev /\ off' = off /\ "cut" \in odd'
    BY <1>1 DEF Cut
  <2>3. QED
    BY <2>1, <2>2 DEF OrderlyOK, NoneClosed, CallersOK
<1>2. ASSUME NEW d \in Devices, Crash(d) PROVE OrderlyOK'
  <2>1. SidesOK(dev', inbox', session', live')
    BY <1>2, CrashSides
  <2>2. dev'[d] = Fresh /\ dev'[Peer(d)] = dev[Peer(d)] /\ \A e \in Devices : e = d \/ e = Peer(d)
    BY <1>2, CrashIs, PeerFacts
  <2>3. off' = off /\ "crashed" \in odd'
    BY <1>2 DEF Crash
  <2>4. NoneClosed'
    BY <2>2, <2>3, FreshTyped DEF OrderlyOK, NoneClosed
  <2>5. \A e \in Devices : Knows(e, dev'[e])
    BY <2>2, FreshTyped DEF OrderlyOK, Knows
  <2>6. CallersOK'
    BY <2>3 DEF CallersOK
  <2>7. QED
    BY <2>1, <2>4, <2>5, <2>6 DEF OrderlyOK
<1>3. ASSUME NEW d \in Devices PROVE ~DisableInputDeviceCooperate(d)
  <2>1. SUFFICES ASSUME DisableInputDeviceCooperate(d) PROVE FALSE
    OBVIOUS
  <2>2. "disabled" \in odd'
    BY <2>1 DEF DisableInputDeviceCooperate
  <2>3. QED
    BY <2>2 DEF Orderly
<1>4. ASSUME NEW d \in Devices PROVE ~OnCooperateChanged(d)
  BY DEF OnCooperateChanged, OrderlyOK, NoneClosed
<1>5. QED
  BY <1>1, <1>2, <1>3, <1>4

LEMMA HandleKeeps ==
  ASSUME TypesOK, OrderlyOK, NEW d \in Devices, HandleSessionData(d)
  PROVE  OrderlyOK'
<1>1. PICK p \in Devices : p = Peer(d) /\ \A e \in Devices : e = d \/ e = p
  BY PeerFacts
<1>2. /\ SidesOK(dev', inbox', session', live')
      /\ Knows(d, dev'[d]) /\ ~AtWork(dev'[d]) /\ (live # 0 => ~AtWork(dev[d]))
  BY HandleOpen, HandleClosed
<1>3. /\ dev'[d] = ToldBy(d, Head(inbox[d]), dev[d]) /\ dev'[p] = dev[p] /\ Head(inbox[d]) \in Message
  BY <1>1, HandleIs
<1>4. NoNew(dev[d], dev'[d])
  BY <1>3, ToldByTyped DEF TypesOK, DevicesOK
<1>5. off' = off /\ odd' = odd /\ stranded' = stranded /\ events' = events /\ live' = live
  BY DEF HandleSessionData, history
<1>6. NoneClosed'
  BY <1>1, <1>3, <1>4, <1>5 DEF OrderlyOK, NoneClosed, NoNew
<1>7. \A e \in Devices : Knows(e, dev'[e])
  BY <1>1, <1>2, <1>3 DEF OrderlyOK
<1>8. CallersOK'
  <2>1. SUFFICES ASSUME odd = {} PROVE CallersOK'
    BY <1>5 DEF CallersOK
  <2>2. CallersOK
    BY DEF OrderlyOK
  <2>3. ~AtWork(dev[d])
    BY <1>2, <2>1, <2>2 DEF CallersOK
  <2>4. "start" \notin events[d] /\ "stop" \notin events[d]
    BY <2>1, <2>2, <2>3 DEF CallersOK
  <2>5. QED
    BY <1>1, <1>2, <1>3, <1>5, <2>1, <2>2, <2>4 DEF CallersOK
<1>9. QED
  BY <1>2, <1>6, <1>7, <1>8 DEF OrderlyOK

(* Nothing that went wrong is forgotten. *)
LEMMA OrderlyBefore == [Next]_vars /\ Orderly' => Orderly
<1> SUFFICES ASSUME [Next]_vars PROVE odd \subseteq odd'
  BY DEF Orderly
<1>1. CASE UNCHANGED vars
  BY <1>1 DEF vars, history
<1>2. CASE Cut
  BY <1>2 DEF Cut
<1>3. ASSUME NEW d \in Devices,
             \/ \E mouse \in Devices : StartInputDeviceCooperate(d, mouse)
             \/ StopInputDeviceCooperate(d) \/ CheckPointerEvent(d)
             \/ DisableInputDeviceCooperate(d) \/ OnCooperateChanged(d)
             \/ HandleSessionData(d) \/ Crash(d)
      PROVE  odd \subseteq odd'
  BY <1>3 DEF StartInputDeviceCooperate, StopInputDeviceCooperate, CheckPointerEvent, NoteOverlap,
              DisableInputDeviceCooperate, OnCooperateChanged, HandleSessionData, Crash, history
<1>4. ASSUME NEW d \in Devices, RunTask(d) PROVE odd \subseteq odd'
  <2>1. PICK t, v : \/ ProcessStart(d, v, t.mouse) \/ AskStart(d, v, t.mouse)
                    \/ AskBack(d, v, t.to, t.mouse, d) \/ AskStop(d, v, t.to)
                    \/ odd' = odd \/ odd' = odd \cup {"stopFailed"}
    BY <1>4 DEF RunTask
  <2>2. \A w, c, to, mouse : Ask(d, w, c, to, mouse) => odd' = odd
    BY DEF Ask
  <2>3. \A because : Refuse(because) => odd \subseteq odd'
    BY DEF Refuse
  <2>4. /\ \A mouse : AskStart(d, v, mouse) => odd \subseteq odd'
        /\ \A mouse : AskPrepare(d, v, mouse) => odd \subseteq odd'
        /\ \A to, mouse, tell : AskBack(d, v, to, mouse, tell) => odd \subseteq odd'
        /\ \A to : AskStop(d, v, to) => odd \subseteq odd'
    BY <2>2, <2>3 DEF AskStart, AskPrepare, AskBack, AskStop
  <2>5. ProcessStart(d, v, t.mouse) => odd \subseteq odd'
    BY <2>4 DEF ProcessStart
  <2>6. QED
    BY <2>1, <2>4, <2>5
<1>5. ASSUME NEW d \in Devices, NEW c \in Calls, NEW ok \in BOOLEAN,
             TimeOut(d, c) \/ ProcessDInputCallback(d, c, ok)
      PROVE  odd \subseteq odd'
  BY <1>5 DEF TimeOut, ProcessDInputCallback, history
<1>6. QED
  BY <1>1, <1>2, <1>3, <1>4, <1>5 DEF Next

LEMMA InitOrderly == Init => OrderlyOK
<1> SUFFICES ASSUME Init PROVE OrderlyOK
  OBVIOUS
<1>1. \A d \in Devices : dev[d] = Fresh /\ session[d] = 0 /\ inbox[d] = <<>> /\ events[d] = {}
  BY DEF Init
<1>2. live = 0 /\ off = {} /\ stranded = {} /\ odd = {}
  BY DEF Init
<1>3. \A d \in Devices : Alone(dev[d], inbox[d]) /\ ~AtWork(dev[d])
  <2>1. DOMAIN <<>> = {}
    OBVIOUS
  <2>2. QED
    BY <1>1, <2>1, FreshTyped DEF Alone, Rests
<1>4. SidesOK(dev, inbox, session, live)
  BY <1>1, <1>2, <1>3 DEF SidesOK
<1>5. NoneClosed /\ \A d \in Devices : Knows(d, dev[d])
  BY <1>1, <1>2, FreshTyped DEF NoneClosed, Knows
<1>6. CallersOK
  BY <1>1, <1>2, <1>3 DEF CallersOK
<1>7. QED
  BY <1>4, <1>5, <1>6 DEF OrderlyOK

LEMMA NextOrderly ==
  ASSUME TypesOK, Orderly => OrderlyOK, [Next]_vars, Orderly'
  PROVE  OrderlyOK'
<1>0. OrderlyOK
  BY OrderlyBefore
<1>1. CASE UNCHANGED vars
  BY <1>0, <1>1 DEF vars, transport, history, OrderlyOK, NoneClosed, CallersOK
<1>2. CASE Cut
  BY <1>0, <1>2, OtherKeeps
<1>3. ASSUME NEW d \in Devices, Crash(d) \/ DisableInputDeviceCooperate(d) \/ OnCooperateChanged(d)
      PROVE  OrderlyOK'
  BY <1>0, <1>3, OtherKeeps
<1>4. ASSUME NEW d \in Devices, NEW mouse \in Devices, StartInputDeviceCooperate(d, mouse)
      PROVE  OrderlyOK'
  BY <1>0, <1>4, StartKeeps
<1>5. ASSUME NEW d \in Devices, StopInputDeviceCooperate(d) \/ CheckPointerEvent(d)
      PROVE  OrderlyOK'
  BY <1>0, <1>5, StopKeeps
<1>6. ASSUME NEW d \in Devices, RunTask(d) PROVE OrderlyOK'
  BY <1>0, <1>6, TaskKeeps
<1>7. ASSUME NEW d \in Devices, HandleSessionData(d) PROVE OrderlyOK'
  BY <1>0, <1>7, HandleKeeps
<1>8. ASSUME NEW d \in Devices, NEW c \in Calls, NEW ok \in BOOLEAN, ProcessDInputCallback(d, c, ok)
      PROVE  OrderlyOK'
  BY <1>0, <1>8, CallbackKeeps
<1>9. ASSUME NEW d \in Devices, NEW c \in Calls, TimeOut(d, c) PROVE OrderlyOK'
  <2>1. PICK ok \in BOOLEAN : ok = FALSE
    OBVIOUS
  <2>2. QED
    BY <1>0, <1>9, <2>1, CallbackKeeps
<1>10. QED
  BY <1>1, <1>2, <1>3, <1>4, <1>5, <1>6, <1>7, <1>8, <1>9 DEF Next

-----------------------------------------------------------------------------
(* The theorems. *)
CooperateInv == TypesOK /\ (Orderly => OrderlyOK)

(* The types hold whatever happens; and while all is orderly, so does what
   each device is about and what the other has still to hear (StartRemote..,
   StartRemoteCooperateResult, StopRemote.., OnSessionClosed). *)
THEOREM CooperateInvariant == Spec => []CooperateInv
<1>1. Init => CooperateInv
  BY InitTyped, InitOrderly DEF CooperateInv
<1>2. CooperateInv /\ [Next]_vars => CooperateInv'
  BY NextTyped, NextOrderly DEF CooperateInv
<1>3. QED
  BY <1>1, <1>2, PTL DEF Spec

(* The records of the state machines, the session maps and the events have
   their types whatever is cut, restarted, refused, late or called twice. *)
THEOREM DevicesAreTyped == Spec => []TypeOK
<1>1. CooperateInv => TypeOK
  BY TypesAre DEF CooperateInv
<1>2. QED
  BY <1>1, CooperateInvariant, PTL

(* StopInputDeviceCooperate finds the session and the other device, on each
   device that shares a mouse, for any number of starts, stops, cut sessions
   and restarts. *)
THEOREM SharingCanBeStopped == Spec => []CanBeStopped
<1>1. CooperateInv => CanBeStopped
  <2>1. SUFFICES ASSUME TypesOK, OrderlyOK, NEW d \in Devices, dev[d].state # "free"
                 PROVE  /\ session[d] # 0
                        /\ Peer(d) = IF dev[d].state = "in" THEN dev[d].mouse ELSE dev[d].src
    BY DEF CooperateInv, CanBeStopped
  <2>2. session[d] # 0
    BY <2>1 DEF OrderlyOK, SidesOK, Alone
  <2>3. dev[d].state \in {"in", "out"}
    BY <2>1, MachineFields DEF TypesOK, DevicesOK
  <2>4. QED
    BY <2>1, <2>2, <2>3 DEF OrderlyOK, Knows
<1>2. QED
  BY <1>1, CooperateInvariant, PTL

LEMMA QuietSides ==
  ASSUME TypesOK, OrderlyOK, Quiet, NEW d \in Devices
  PROVE  /\ ~AtWork(dev[d]) /\ Rests(dev[d])
         /\ dev[d].state = "out" <=> dev[Peer(d)].state = "in"
<1>1. PICK p \in Devices : p = Peer(d) /\ p # d /\ Peer(p) = d
  BY PeerFacts
<1>2. \A e \in Devices : inbox[e] = <<>> /\ ~AtWork(dev[e])
  BY DEF Quiet, AtWork, HasTask, Awaits, NoCall
<1>3. CASE live = 0
  <2>1. ASSUME NEW e \in Devices PROVE Alone(dev[e], inbox[e])
    <3>1. SUFFICES ASSUME session[e] # 0 PROVE FALSE
      BY <1>3 DEF OrderlyOK, SidesOK
    <3>2. session[e] \in Nat
      BY MailTyped DEF TypesOK
    <3>3. /\ Mail(<<>>, session[e]) # <<>> /\ Mail(<<Start>>, session[e]) # <<>>
          /\ Mail(<<Stop>>, session[e]) # <<>>
          /\ Mail(<<Stop, StopRes(TRUE)>>, session[e]) # <<>> /\ Mail(<<StopRes(TRUE)>>, session[e]) # <<>>
          /\ \A res \in Results : Mail(<<Start, res>>, session[e]) # <<>> /\ Mail(<<res>>, session[e]) # <<>>
      BY <3>1, <3>2, MailFacts, ResultFacts, MessagesTyped
    <3>4. /\ ~Acts(e, dev[e], inbox[e], session[e])
          /\ ~HearsStart(dev[e], inbox[e], session[e]) /\ ~HearsStop(dev[e], inbox[e], session[e])
      BY <1>2, <3>3 DEF Acts, HearsStart, HearsStop, Told
    <3>5. /\ \A res \in Results : ~HearsStarted(e, dev[e], inbox[e], res, session[e])
          /\ ~HearsStopped(dev[e], inbox[e], session[e])
      BY <1>2, <3>3 DEF HearsStarted, HearsStopped, ToldTwice
    <3>6. QED
      BY <1>3, <3>1, <3>4, <3>5 DEF OrderlyOK, SidesOK, Hears
  <2>2. QED
    BY <1>1, <1>2, <2>1 DEF Alone
<1>4. CASE live # 0
  <2>1. PICK e \in Devices : Together(e, dev[e], dev[Peer(e)], inbox[e], inbox[Peer(e)])
    BY <1>4 DEF OrderlyOK, SidesOK
  <2>2. Peer(e) \in Devices /\ ((e = d /\ Peer(e) = p) \/ (e = p /\ Peer(e) = d))
    BY <1>1, PeerFacts
  <2>3. ~Starts(e, dev[e]) /\ ~Stops(e, dev[e])
    BY <1>2 DEF Starts, Stops
  <2>4. \A res \in Results : ~HearsStarted(Peer(e), dev[Peer(e)], inbox[Peer(e)], res, 0)
    <3>1. ASSUME NEW res \in Results PROVE Mail(<<res>>, 0) # <<>> /\ Mail(<<Start, res>>, 0) # <<>>
      BY MailFacts, ResultFacts
    <3>2. QED
      BY <1>2, <2>2, <3>1 DEF HearsStarted, ToldTwice
  <2>5. /\ Rests(dev[e]) /\ Rests(dev[Peer(e)])
        /\ Are(dev[e], dev[Peer(e)], "free", "free") \/ Shared(dev[e], dev[Peer(e)])
    BY <2>1, <2>3, <2>4 DEF Together
  <2>6. QED
    BY <1>1, <1>2, <2>2, <2>5 DEF Are, Shared
<1>5. QED
  BY <1>3, <1>4

(* When all is done one device is Out exactly when the other is In, whatever
   was cut or restarted on the way (StartRemoteCooperateResult and
   StopRemoteCooperateResult, or OnSessionClosed and Reset when they are lost). *)
THEOREM TwoSidesAgree == Spec => []SidesAgree
<1>1. CooperateInv => SidesAgree
  BY QuietSides DEF CooperateInv, SidesAgree
<1>2. QED
  BY <1>1, CooperateInvariant, PTL

(* When all is done no device is left in transition; and each caller of a
   start or a stop has been told, if nothing but distributed input failed
   (OnStartFinish, OnStopFinish and the events of CooperateEventManager). *)
THEOREM NobodyIsLeftWaiting == Spec => []NobodyLeftWaiting
<1>1. CooperateInv => NobodyLeftWaiting
  <2>1. SUFFICES ASSUME CooperateInv, Quiet, Orderly
                 PROVE  /\ \A d \in Devices : ~dev[d].starting /\ ~dev[d].stopping
                        /\ odd = {} => stranded = {} /\ \A d \in Devices : events[d] = {}
    BY DEF NobodyLeftWaiting, CallersAreTold, Orderly
  <2>2. TypesOK /\ OrderlyOK
    BY <2>1 DEF CooperateInv
  <2>3. \A d \in Devices : ~AtWork(dev[d]) /\ Rests(dev[d])
    BY <2>1, <2>2, QuietSides
  <2>4. \A d \in Devices : ~dev[d].starting /\ ~dev[d].stopping
    BY <2>3 DEF Rests
  <2>5. ASSUME odd = {} PROVE stranded = {} /\ \A d \in Devices : events[d] = {}
    <3>1. stranded = {} /\ \A d \in Devices : "start" \notin events[d] /\ "stop" \notin events[d]
      BY <2>2, <2>3, <2>5 DEF OrderlyOK, CallersOK
    <3>2. \A d \in Devices : events[d] \subseteq {"start", "stop"}
      BY <2>2 DEF TypesOK, EventsOK
    <3>3. QED
      BY <3>1, <3>2
  <2>6. QED
    BY <2>4, <2>5
<1>2. QED
  BY <1>1, CooperateInvariant, PTL

=============================================================================
