------------------------- MODULE KeySubscriberProofs -------------------------
(***************************************************************************)
(* Theorems about KeySubscriber for any applications, keys, subscriptions  *)
(* and any number of timers: the ids that subscribers hold name their own  *)
(* timers, and a subscription waits with the event that matched it.        *)
(***************************************************************************)
EXTENDS KeySubscriber, FiniteSetTheorems, SequenceTheorems, WellFoundedInduction, TLAPS

Owners == {OtherTimer} \cup [kind : {"key"}, sess : Sessions, id : Nat]
Timer == [id : TimerId, owner : Owners]
Subscriber == [sess : Sessions, id : Nat, option : Option, timerId : TimerId \cup {NoTimer},
               event : KeyEvent \cup {NoEvent}]
TurnType == [subs : Seq(Subscriber), table : Seq(Timer), executing : BOOLEAN]

(* A table of timers is a set of timers, told apart by their ids. *)
Has(table, timer) == \E i \in DOMAIN table : table[i] = timer
TableOK(table) == table \in Seq(Timer) /\ DistinctIds(table)

TimerFor(sub) == [id |-> sub.timerId, owner |-> KeyTimer(sub)]
Waits(sub) == sub.timerId # NoTimer

(* Subscriptions differ in their session or their id. *)
Apart(subs) == \A j, k \in DOMAIN subs : KeyTimer(subs[j]) = KeyTimer(subs[k]) => j = k

(* The timer that a subscriber names is in the table, and the timers in the
   table are named by the subscribers they are for. *)
Named(subs, table) == \A k \in DOMAIN subs : Waits(subs[k]) => Has(table, TimerFor(subs[k]))
Owned(subs, table) ==
  \A x \in Timer : Has(table, x) /\ x.owner # OtherTimer =>
    \E k \in DOMAIN subs : x = TimerFor(subs[k])

(* A subscriber that waits keeps the event it has matched. *)
Kept(sub) ==
  IF ~Waits(sub) THEN sub.event = NoEvent
  ELSE /\ sub.event.action = IF sub.option.isFinalKeyDown THEN "down" ELSE "up"
       /\ Matches(sub.option, sub.event)

(* One that waits for a key to be held is matched by event, too. *)
Holds(sub, event) ==
  Waits(sub) /\ sub.option.isFinalKeyDown => event.action = "down" /\ Matches(sub.option, event)

(* A turn begins, goes on and ends with subscribers and a table that agree. *)
Agree(subs, table) ==
  /\ subs \in Seq(Subscriber) /\ TableOK(table)
  /\ Apart(subs) /\ Named(subs, table) /\ Owned(subs, table)
  /\ \A k \in DOMAIN subs : Kept(subs[k])

TurnOK(turn) == turn \in TurnType /\ Agree(turn.subs, turn.table)

SubscriberInv ==
  /\ live \subseteq Sessions
  /\ TurnOK(Turn) /\ \A k \in DOMAIN subscribers : subscribers[k].sess \in live
  /\ keyEvent \in KeyEvent \cup {NoEvent}
  /\ \A k \in DOMAIN subscribers : Holds(subscribers[k], keyEvent)
  /\ pressed \subseteq Keys /\ repeating \subseteq pressed

-----------------------------------------------------------------------------
(* Induction up to a number, with the set of the numbers it is done for. *)

LEMMA Least ==
  ASSUME NEW n \in Nat, NEW T, T \subseteq 1..n, T # {}
  PROVE  \E k \in T : \A j \in T : k <= j
<1> DEFINE R == StrictSubsetOrdering(Nat)
           I == {1..k : k \in T}
<1>1. IsWellFoundedOn(R, FiniteSubsetsOf(Nat))
  BY FS_StrictSubsetOrderingWellFounded
<1>2. \A k \in T : k \in Nat /\ 1 <= k
  OBVIOUS
<1>3. ASSUME NEW k \in T PROVE 1..k \in FiniteSubsetsOf(Nat)
  BY <1>2, FS_Interval DEF FiniteSubsetsOf
<1>4. I \subseteq FiniteSubsetsOf(Nat) /\ I # {}
  BY <1>3
<1> HIDE DEF R, I
<1>5. PICK x \in I : \A y \in I : ~(<<y, x>> \in R)
  BY <1>1, <1>4, WFMin
<1> USE DEF I
<1>6. PICK k \in T : x = 1..k
  OBVIOUS
<1>7. ASSUME NEW j \in T, ~(k <= j) PROVE FALSE
  <2>1. /\ 1..j \in I /\ 1..j \subseteq 1..k /\ 1..j # 1..k
        /\ 1..j \in SUBSET Nat /\ 1..k \in SUBSET Nat
    BY <1>2, <1>7
  <2>2. <<1..j, 1..k>> \in R
    BY <2>1 DEF R, StrictSubsetOrdering
  <2>3. QED
    BY <1>5, <1>6, <2>1, <2>2
<1>8. QED
  BY <1>7

LEMMA UpTo ==
  ASSUME NEW n \in Nat, NEW G, 0 \in G, \A k \in 1..n : k - 1 \in G => k \in G
  PROVE  \A k \in 0..n : k \in G
<1>1. SUFFICES ASSUME NEW k \in 1..n, k \notin G PROVE FALSE
  OBVIOUS
<1>2. PICK T : T = {j \in 1..n : j \notin G}
  OBVIOUS
<1>3. PICK j \in T : \A i \in T : j <= i
  BY <1>1, <1>2, Least
<1>4. j \in 1..n /\ j \notin G
  BY <1>2
<1>5. j - 1 \in G
  <2>1. j - 1 = 0 \/ j - 1 \in 1..n
    BY <1>4
  <2>2. j - 1 \notin T
    BY <1>3, <1>4
  <2>3. QED
    BY <1>2, <2>1, <2>2
<1>6. QED
  BY <1>4, <1>5

-----------------------------------------------------------------------------
(* Sequences *)

LEMMA SeqFacts ==
  ASSUME NEW S, NEW s \in Seq(S)
  PROVE  /\ Len(s) \in Nat /\ DOMAIN s = 1..Len(s) /\ (s = <<>> <=> Len(s) = 0)
         /\ \A i \in DOMAIN s : i \in Nat /\ 1 <= i /\ i <= Len(s) /\ s[i] \in S
BY LenProperties, EmptySeq, ElementOfSeq

LEMMA AppendFacts ==
  ASSUME NEW S, NEW s \in Seq(S), NEW e \in S
  PROVE  /\ Append(s, e) \in Seq(S) /\ Len(Append(s, e)) = Len(s) + 1
         /\ DOMAIN Append(s, e) = 1..Len(s) + 1
         /\ \A i \in DOMAIN s : i \in DOMAIN Append(s, e) /\ Append(s, e)[i] = s[i]
         /\ Append(s, e)[Len(s) + 1] = e
         /\ \A i \in DOMAIN Append(s, e) : i \in DOMAIN s \/ i = Len(s) + 1
<1>1. /\ Append(s, e) \in Seq(S) /\ Len(Append(s, e)) = Len(s) + 1
      /\ \A i \in 1..Len(s) : Append(s, e)[i] = s[i]
      /\ Append(s, e)[Len(s) + 1] = e
  BY AppendProperties
<1>2. Len(s) \in Nat /\ DOMAIN s = 1..Len(s) /\ DOMAIN Append(s, e) = 1..Len(Append(s, e))
  BY <1>1, LenProperties
<1>3. QED
  BY <1>1, <1>2

LEMMA RemoveAtIs ==
  ASSUME NEW S, NEW s \in Seq(S), NEW k \in DOMAIN s
  PROVE  /\ RemoveAt(s, k) \in Seq(S) /\ DOMAIN RemoveAt(s, k) = 1..Len(s) - 1
         /\ \A i \in 1..Len(s) - 1 : RemoveAt(s, k)[i] = IF i < k THEN s[i] ELSE s[i + 1]
<1>1. /\ Len(s) \in Nat /\ DOMAIN s = 1..Len(s) /\ k \in Nat /\ 1 <= k /\ k <= Len(s)
      /\ \A i \in 1..Len(s) : s[i] \in S
  BY SeqFacts
<1>2. PICK a, b : a = SubSeq(s, 1, k - 1) /\ b = SubSeq(s, k + 1, Len(s))
  OBVIOUS
<1>3. a \in Seq(S) /\ Len(a) = k - 1 /\ \A i \in 1..k - 1 : a[i] = s[i]
  <2>1. \A i \in 1..k - 1 : s[i] \in S
    BY <1>1
  <2>2. k - 1 \in Int /\ 1 \in Int
    BY <1>1
  <2>3. /\ a \in Seq(S) /\ Len(a) = IF 1 <= k - 1 THEN (k - 1) - 1 + 1 ELSE 0
        /\ \A i \in 1..(k - 1) - 1 + 1 : a[i] = s[1 + i - 1]
    BY <1>2, <2>1, <2>2, SubSeqProperties
  <2>4. QED
    BY <1>1, <2>3
<1>4. b \in Seq(S) /\ Len(b) = Len(s) - k /\ \A i \in 1..Len(s) - k : b[i] = s[k + i]
  <2>1. \A i \in k + 1..Len(s) : s[i] \in S
    BY <1>1
  <2>2. k + 1 \in Int /\ Len(s) \in Int
    BY <1>1
  <2>3. /\ b \in Seq(S) /\ Len(b) = IF k + 1 <= Len(s) THEN Len(s) - (k + 1) + 1 ELSE 0
        /\ \A i \in 1..Len(s) - (k + 1) + 1 : b[i] = s[(k + 1) + i - 1]
    BY <1>2, <2>1, <2>2, SubSeqProperties
  <2>4. Len(b) = Len(s) - k
    <3>1. Len(s) \in Nat /\ k \in Nat /\ k <= Len(s) /\ Len(b) = IF k + 1 <= Len(s) THEN Len(s) - (k + 1) + 1 ELSE 0
      BY <1>1, <2>3
    <3>2. CASE k + 1 <= Len(s)
      BY <3>1, <3>2
    <3>3. CASE ~(k + 1 <= Len(s))
      <4>1. k = Len(s) /\ Len(b) = 0
        BY <3>1, <3>3
      <4>2. QED
        BY <3>1, <4>1
    <3>4. QED
      BY <3>2, <3>3
  <2>5. ASSUME NEW i \in 1..Len(s) - k PROVE b[i] = s[k + i]
    <3>1. i \in 1..Len(s) - (k + 1) + 1 /\ (k + 1) + i - 1 = k + i
      BY <1>1
    <3>2. QED
      BY <2>3, <3>1
  <2>6. QED
    BY <2>3, <2>4, <2>5
<1>5. PICK r : r = RemoveAt(s, k)
  OBVIOUS
<1>6. /\ r \in Seq(S) /\ DOMAIN r = 1..Len(s) - 1
      /\ \A i \in 1..Len(s) - 1 : r[i] = IF i < k THEN s[i] ELSE s[i + 1]
  <2>1. /\ r \in Seq(S) /\ Len(r) = Len(a) + Len(b)
        /\ \A i \in 1..Len(a) + Len(b) : r[i] = IF i <= Len(a) THEN a[i] ELSE b[i - Len(a)]
    <3>1. a \in Seq(S) /\ b \in Seq(S)
      BY <1>3, <1>4
    <3>2. r = a \o b
      BY <1>2, <1>5 DEF RemoveAt
    <3>3. QED
      BY <3>1, <3>2, ConcatProperties
  <2>2. Len(a) + Len(b) = Len(s) - 1 /\ Len(r) = Len(s) - 1
    BY <1>1, <1>3, <1>4, <2>1
  <2>3. DOMAIN r = 1..Len(s) - 1
    BY <2>1, <2>2, LenProperties
  <2>4. ASSUME NEW i \in 1..Len(s) - 1 PROVE r[i] = IF i < k THEN s[i] ELSE s[i + 1]
    <3>1. r[i] = IF i <= Len(a) THEN a[i] ELSE b[i - Len(a)]
      BY <2>1, <2>2
    <3>2. CASE i < k
      <4>1. i \in 1..k - 1 /\ i <= Len(a)
        BY <1>1, <1>3, <3>2
      <4>2. QED
        BY <1>3, <3>1, <3>2, <4>1
    <3>3. CASE ~(i < k)
      <4>1. i - Len(a) \in 1..Len(s) - k /\ ~(i <= Len(a)) /\ k + (i - Len(a)) = i + 1
        BY <1>1, <1>3, <3>3
      <4>2. QED
        BY <1>4, <3>1, <3>3, <4>1
    <3>4. QED
      BY <3>2, <3>3
  <2>5. QED
    BY <2>1, <2>3, <2>4
<1>7. QED
  BY <1>5, <1>6

(* r has the elements of s at the positions of J, each once. *)
Picks(r, s, J) ==
  \E at \in [DOMAIN r -> DOMAIN s] :
    /\ \A i \in DOMAIN r : r[i] = s[at[i]] /\ at[i] \in J
    /\ \A i, j \in DOMAIN r : at[i] = at[j] => i = j
    /\ \A j \in J : \E i \in DOMAIN r : at[i] = j

LEMMA RemoveAtPicks ==
  ASSUME NEW S, NEW s \in Seq(S), NEW k \in DOMAIN s
  PROVE  RemoveAt(s, k) \in Seq(S) /\ Picks(RemoveAt(s, k), s, DOMAIN s \ {k})
<1>1. Len(s) \in Nat /\ DOMAIN s = 1..Len(s) /\ k \in Nat /\ 1 <= k /\ k <= Len(s)
  BY SeqFacts
<1>2. PICK r, n : r = RemoveAt(s, k) /\ n = Len(s)
  OBVIOUS
<1>3. /\ r \in Seq(S) /\ DOMAIN r = 1..n - 1
      /\ \A i \in 1..n - 1 : r[i] = IF i < k THEN s[i] ELSE s[i + 1]
  BY <1>2, RemoveAtIs
<1>4. PICK at : at = [i \in 1..n - 1 |-> IF i < k THEN i ELSE i + 1]
  OBVIOUS
<1>5. ASSUME NEW i \in 1..n - 1
      PROVE  at[i] \in 1..n /\ at[i] # k /\ r[i] = s[at[i]] /\ at[i] = IF i < k THEN i ELSE i + 1
  <2>1. at[i] = IF i < k THEN i ELSE i + 1
    BY <1>4
  <2>2. r[i] = IF i < k THEN s[i] ELSE s[i + 1]
    BY <1>3
  <2>3. i \in Nat /\ 1 <= i /\ i <= n - 1 /\ n \in Nat /\ k \in Nat
    BY <1>1, <1>2
  <2>4. CASE i < k
    BY <2>1, <2>2, <2>3, <2>4
  <2>5. CASE ~(i < k)
    BY <2>1, <2>2, <2>3, <2>5
  <2>6. QED
    BY <2>4, <2>5
<1>6. ASSUME NEW i \in 1..n - 1, NEW j \in 1..n - 1, at[i] = at[j] PROVE i = j
  <2>1. at[i] = IF i < k THEN i ELSE i + 1
    BY <1>5
  <2>2. at[j] = IF j < k THEN j ELSE j + 1
    BY <1>5
  <2>3. i \in Int /\ j \in Int /\ k \in Int
    BY <1>1
  <2>4. CASE i < k
    <3>1. at[j] = i
      BY <1>6, <2>1, <2>4
    <3>2. QED
      BY <2>2, <2>3, <2>4, <3>1
  <2>5. CASE ~(i < k)
    <3>1. at[j] = i + 1
      BY <1>6, <2>1, <2>5
    <3>2. QED
      BY <2>2, <2>3, <2>5, <3>1
  <2>6. QED
    BY <2>4, <2>5
<1>7. ASSUME NEW j \in 1..n, j # k PROVE \E i \in 1..n - 1 : at[i] = j
  <2>1. n \in Nat /\ k \in Nat /\ 1 <= k /\ k <= n
    BY <1>1, <1>2
  <2>2. CASE j < k
    <3>1. j \in 1..n - 1
      BY <2>1, <2>2
    <3>2. at[j] = j
      BY <1>5, <2>2, <3>1
    <3>3. QED
      BY <3>1, <3>2
  <2>3. CASE ~(j < k)
    <3>1. j - 1 \in 1..n - 1 /\ ~(j - 1 < k) /\ (j - 1) + 1 = j
      BY <1>7, <2>1, <2>3
    <3>2. at[j - 1] = j
      BY <1>5, <3>1
    <3>3. QED
      BY <3>1, <3>2
  <2>4. QED
    BY <2>2, <2>3
<1>8. at \in [1..n - 1 -> 1..n]
  BY <1>4, <1>5
<1>9. Picks(r, s, DOMAIN s \ {k})
  <2>1. DOMAIN r = 1..n - 1 /\ DOMAIN s = 1..n
    BY <1>1, <1>2, <1>3
  <2>2. at \in [DOMAIN r -> DOMAIN s]
    BY <1>8, <2>1
  <2>3. \A i \in DOMAIN r : r[i] = s[at[i]] /\ at[i] \in DOMAIN s \ {k}
    BY <1>5, <2>1
  <2>4. \A i, j \in DOMAIN r : at[i] = at[j] => i = j
    BY <1>6, <2>1
  <2>5. \A j \in DOMAIN s \ {k} : \E i \in DOMAIN r : at[i] = j
    BY <1>7, <2>1
  <2>6. QED
    BY <2>2, <2>3, <2>4, <2>5 DEF Picks
<1>10. QED
  BY <1>2, <1>3, <1>9

-----------------------------------------------------------------------------
(* Tables *)

LEMMA HasTimer ==
  ASSUME NEW table, TableOK(table), NEW x, Has(table, x)
  PROVE  x \in Timer /\ x.id \in UsedIds(table)
<1>1. PICK i \in DOMAIN table : table[i] = x
  BY DEF Has
<1>2. QED
  BY <1>1, SeqFacts DEF TableOK, UsedIds

LEMMA IdsTellApart ==
  ASSUME NEW table, TableOK(table), NEW x, NEW y, Has(table, x), Has(table, y), x.id = y.id
  PROVE  x = y
BY DEF TableOK, DistinctIds, Has

LEMMA TableRemove ==
  ASSUME NEW table, TableOK(table), NEW k \in DOMAIN table
  PROVE  /\ TableOK(RemoveAt(table, k))
         /\ \A x : Has(RemoveAt(table, k), x) <=> (Has(table, x) /\ x # table[k])
         /\ Has(table, table[k]) /\ table[k] \in Timer
<1>1. PICK r : r = RemoveAt(table, k)
  OBVIOUS
<1>2. r \in Seq(Timer) /\ Picks(r, table, DOMAIN table \ {k})
  BY <1>1, RemoveAtPicks DEF TableOK
<1>3. PICK at \in [DOMAIN r -> DOMAIN table] :
        /\ \A i \in DOMAIN r : r[i] = table[at[i]] /\ at[i] \in DOMAIN table \ {k}
        /\ \A i, j \in DOMAIN r : at[i] = at[j] => i = j
        /\ \A j \in DOMAIN table \ {k} : \E i \in DOMAIN r : at[i] = j
  BY <1>2 DEF Picks
<1>4. DistinctIds(r)
  BY <1>3 DEF TableOK, DistinctIds
<1>5. \A j \in DOMAIN table : j # k => table[j] # table[k]
  BY DEF TableOK, DistinctIds
<1>6. ASSUME NEW x PROVE Has(r, x) <=> (Has(table, x) /\ x # table[k])
  <2>1. ASSUME Has(r, x) PROVE Has(table, x) /\ x # table[k]
    BY <1>3, <1>5, <2>1 DEF Has
  <2>2. ASSUME Has(table, x), x # table[k] PROVE Has(r, x)
    <3>1. PICK j \in DOMAIN table : table[j] = x
      BY <2>2 DEF Has
    <3>2. PICK i \in DOMAIN r : at[i] = j
      BY <1>3, <2>2, <3>1
    <3>3. QED
      BY <1>3, <3>1, <3>2 DEF Has
  <2>3. QED
    BY <2>1, <2>2
<1>7. Has(table, table[k])
  BY DEF Has
<1>8. QED
  BY <1>1, <1>2, <1>4, <1>6, <1>7, HasTimer DEF TableOK

LEMMA RemovedIs ==
  ASSUME NEW table, TableOK(table), NEW t, Has(table, t)
  PROVE  /\ TableOK(Removed(table, t.id))
         /\ \A x : Has(Removed(table, t.id), x) <=> (Has(table, x) /\ x # t)
<1>1. PICK k \in DOMAIN table : table[k] = t
  BY DEF Has
<1>2. \A j \in DOMAIN table : table[j].id = t.id => j = k
  BY <1>1 DEF TableOK, DistinctIds
<1>3. Len(table) \in Nat /\ DOMAIN table = 1..Len(table) /\ k \in Nat
  BY <1>1, SeqFacts DEF TableOK
<1>4. PositionsOf(table, t.id) = {k}
  <2>1. \A j \in 1..(k - 1) : table[j].id # t.id
    BY <1>1, <1>2, <1>3
  <2>2. QED
    BY <1>1, <1>2, <2>1 DEF PositionsOf
<1>5. Removed(table, t.id) = RemoveAt(table, k)
  BY <1>4 DEF Removed
<1>6. QED
  BY <1>1, <1>5, TableRemove

LEMMA TableAppend ==
  ASSUME NEW table, TableOK(table), NEW e \in Timer, e.id \notin UsedIds(table)
  PROVE  /\ TableOK(Append(table, e))
         /\ \A x : Has(Append(table, e), x) <=> (Has(table, x) \/ x = e)
<1>1. PICK a : a = Append(table, e)
  OBVIOUS
<1>2. /\ a \in Seq(Timer) /\ DOMAIN a = 1..Len(table) + 1
      /\ \A i \in DOMAIN table : i \in DOMAIN a /\ a[i] = table[i]
      /\ a[Len(table) + 1] = e
      /\ \A i \in DOMAIN a : i \in DOMAIN table \/ i = Len(table) + 1
      /\ Len(table) \in Nat
  BY <1>1, AppendFacts, SeqFacts DEF TableOK
<1>3. Len(table) + 1 \in DOMAIN a
  BY <1>2
<1>4. DistinctIds(a)
  <2>1. \A i \in DOMAIN table : table[i].id # e.id
    BY DEF UsedIds
  <2>2. \A i, j \in DOMAIN table : i # j => table[i].id # table[j].id
    BY DEF TableOK, DistinctIds
  <2>3. QED
    BY <1>2, <2>1, <2>2 DEF DistinctIds
<1>5. ASSUME NEW x PROVE Has(a, x) <=> (Has(table, x) \/ x = e)
  <2>1. ASSUME Has(a, x) PROVE Has(table, x) \/ x = e
    BY <1>2, <2>1 DEF Has
  <2>2. ASSUME Has(table, x) PROVE Has(a, x)
    BY <1>2, <2>2 DEF Has
  <2>3. Has(a, e)
    BY <1>2, <1>3 DEF Has
  <2>4. QED
    BY <2>1, <2>2, <2>3
<1>6. QED
  BY <1>1, <1>2, <1>4, <1>5 DEF TableOK

LEMMA FreshTimerId ==
  ASSUME NEW table
  PROVE  /\ NewTimerId(table) \in TimerId \cup {NoTimer}
         /\ NewTimerId(table) # NoTimer =>
              NewTimerId(table) \in TimerId /\ NewTimerId(table) \notin UsedIds(table)
<1>1. CASE NextTimerIds(table) = {}
  BY <1>1 DEF NewTimerId
<1>2. CASE NextTimerIds(table) # {}
  <2>1. NewTimerId(table) \in NextTimerIds(table)
    BY <1>2 DEF NewTimerId
  <2>2. NewTimerId(table) \in TimerId /\ NewTimerId(table) \notin UsedIds(table)
    BY <2>1 DEF NextTimerIds
  <2>3. QED
    BY <2>2
<1>3. QED
  BY <1>1, <1>2

LEMMA NoTimerIsNone == NoTimer \notin TimerId
BY TimerAssumption DEF NoTimer, TimerId

-----------------------------------------------------------------------------
(* Loops.  A loop whose steps are functions on a set has a result. *)

StepsOn(step, n, S) == step \in [1..n -> [S -> S]]
IsLoop(f, n, S, base, step) ==
  f \in [0..n -> S] /\ \A k \in 0..n : f[k] = IF k = 0 THEN base ELSE step[k][f[k - 1]]

LEMMA LoopExists ==
  ASSUME NEW n \in Nat, NEW S, NEW base \in S, NEW step, StepsOn(step, n, S)
  PROVE  \E f : IsLoop(f, n, S, base, step)
<1>0. step \in [1..n -> [S -> S]]
  BY DEF StepsOn
<1>1. PICK G : G = {m \in 0..n : \E f \in [0..m -> S] :
                      \A k \in 0..m : f[k] = IF k = 0 THEN base ELSE step[k][f[k - 1]]}
  OBVIOUS
<1>2. 0 \in G
  <2>1. PICK f : f = [k \in 0..0 |-> base]
    OBVIOUS
  <2>2. f \in [0..0 -> S] /\ \A k \in 0..0 : k = 0 /\ f[k] = base
    BY <2>1
  <2>3. QED
    BY <1>1, <2>2
<1>3. ASSUME NEW m \in 1..n, m - 1 \in G PROVE m \in G
  <2>1. PICK f \in [0..m - 1 -> S] :
          \A k \in 0..m - 1 : f[k] = IF k = 0 THEN base ELSE step[k][f[k - 1]]
    BY <1>1, <1>3
  <2>2. f[m - 1] \in S
    BY <2>1
  <2>3. step[m][f[m - 1]] \in S
    BY <1>0, <2>2
  <2>4. PICK g : g = [k \in 0..m |-> IF k = m THEN step[m][f[m - 1]] ELSE f[k]]
    OBVIOUS
  <2>5. g \in [0..m -> S]
    <3>1. ASSUME NEW k \in 0..m, k # m PROVE f[k] \in S
      <4>1. k \in 0..m - 1
        BY <3>1
      <4>2. QED
        BY <2>1, <4>1
    <3>2. QED
      BY <2>3, <2>4, <3>1
  <2>6. ASSUME NEW k \in 0..m PROVE g[k] = IF k = 0 THEN base ELSE step[k][g[k - 1]]
    <3>1. CASE k = m
      <4>1. m - 1 \in 0..m /\ m - 1 # m /\ m # 0
        OBVIOUS
      <4>2. g[m - 1] = f[m - 1]
        BY <2>4, <4>1
      <4>3. QED
        BY <2>4, <3>1, <4>1, <4>2
    <3>2. CASE k # m /\ k # 0
      <4>1. k \in 0..m - 1 /\ k - 1 \in 0..m /\ k - 1 # m
        BY <3>2
      <4>2. g[k] = f[k] /\ g[k - 1] = f[k - 1]
        BY <2>4, <3>2, <4>1
      <4>3. QED
        BY <2>1, <3>2, <4>1, <4>2
    <3>3. CASE k # m /\ k = 0
      <4>1. 0 \in 0..m - 1 /\ g[0] = f[0]
        BY <2>4, <3>3
      <4>2. QED
        BY <2>1, <3>3, <4>1
    <3>4. QED
      BY <3>1, <3>2, <3>3
  <2>7. m \in 0..n
    OBVIOUS
  <2>8. QED
    BY <1>1, <2>5, <2>6, <2>7
<1>4. n \in G
  <2>1. \A m \in 1..n : m - 1 \in G => m \in G
    BY <1>3
  <2>2. \A m \in 0..n : m \in G
    BY <1>2, <2>1, UpTo
  <2>3. QED
    BY <2>2
<1>5. PICK f \in [0..n -> S] : \A k \in 0..n : f[k] = IF k = 0 THEN base ELSE step[k][f[k - 1]]
  BY <1>1, <1>4
<1>6. QED
  BY <1>5 DEF IsLoop

(* The subscribers of the other sessions. *)
OthersLoop(left, subs, s, n) ==
  left = [k \in 0..n |->
            IF k = 0 THEN <<>>
            ELSE IF subs[k].sess = s THEN left[k - 1] ELSE Append(left[k - 1], subs[k])]

LEMMA OthersExist ==
  ASSUME NEW S, NEW subs \in Seq(S), NEW s
  PROVE  \E left : OthersLoop(left, subs, s, Len(subs)) /\ OfOthers(subs, s) = left[Len(subs)]
<1>1. PICK n \in Nat : n = Len(subs) /\ \A k \in 1..n : subs[k] \in S
  BY SeqFacts
<1>2. PICK step : step = [k \in 1..n |-> [l \in Seq(S) |->
                            IF subs[k].sess = s THEN l ELSE Append(l, subs[k])]]
  OBVIOUS
<1>3. step \in [1..n -> [Seq(S) -> Seq(S)]]
  <2>1. ASSUME NEW k \in 1..n, NEW l \in Seq(S) PROVE Append(l, subs[k]) \in Seq(S)
    BY <1>1, <2>1, AppendFacts
  <2>2. QED
    BY <1>2, <2>1
<1>4. <<>> \in Seq(S)
  OBVIOUS
<1>5. PICK f \in [0..n -> Seq(S)] :
        \A k \in 0..n : f[k] = IF k = 0 THEN <<>> ELSE step[k][f[k - 1]]
  <2>1. StepsOn(step, n, Seq(S))
    BY <1>3 DEF StepsOn
  <2>2. PICK f : IsLoop(f, n, Seq(S), <<>>, step)
    BY <1>4, <2>1, LoopExists
  <2>3. QED
    BY <2>2 DEF IsLoop
<1>6. ASSUME NEW k \in 0..n
      PROVE  f[k] = IF k = 0 THEN <<>>
                    ELSE IF subs[k].sess = s THEN f[k - 1] ELSE Append(f[k - 1], subs[k])
  <2>1. CASE k = 0
    BY <1>5, <2>1
  <2>2. CASE k # 0
    <3>1. k \in 1..n /\ k - 1 \in 0..n
      BY <2>2
    <3>2. f[k - 1] \in Seq(S)
      BY <3>1
    <3>3. step[k][f[k - 1]] = IF subs[k].sess = s THEN f[k - 1] ELSE Append(f[k - 1], subs[k])
      BY <1>2, <3>1, <3>2
    <3>4. QED
      BY <1>5, <2>2, <3>3
  <2>3. QED
    BY <2>1, <2>2
<1>7. OthersLoop(f, subs, s, n)
  BY <1>6 DEF OthersLoop
<1> DEFINE left == CHOOSE g : OthersLoop(g, subs, s, n)
<1>8. OthersLoop(left, subs, s, n)
  BY <1>7
<1>9. OfOthers(subs, s) = left[n]
  BY <1>1 DEF OfOthers, OthersLoop
<1>10. QED
  BY <1>1, <1>8, <1>9

LEMMA OfOthersPicks ==
  ASSUME NEW S, NEW subs \in Seq(S), NEW s
  PROVE  /\ OfOthers(subs, s) \in Seq(S)
         /\ Picks(OfOthers(subs, s), subs, {k \in DOMAIN subs : subs[k].sess # s})
<1>1. PICK n \in Nat : n = Len(subs) /\ DOMAIN subs = 1..n /\ \A k \in 1..n : subs[k] \in S
  BY SeqFacts
<1>2. PICK left : OthersLoop(left, subs, s, n) /\ OfOthers(subs, s) = left[n]
  BY <1>1, OthersExist
<1> DEFINE Good(m) == left[m] \in Seq(S) /\ Picks(left[m], subs, {j \in 1..m : subs[j].sess # s})
<1>3. PICK G : G = {m \in 0..n : Good(m)}
  OBVIOUS
<1>4. 0 \in G
  <2>1. left[0] = <<>>
    BY <1>1, <1>2 DEF OthersLoop
  <2>2. <<>> \in Seq(S) /\ DOMAIN <<>> = {}
    OBVIOUS
  <2>3. PICK at : at = [i \in {} |-> i]
    OBVIOUS
  <2>4. at \in [DOMAIN <<>> -> DOMAIN subs] /\ {j \in 1..0 : subs[j].sess # s} = {}
    BY <2>2, <2>3
  <2>5. Picks(<<>>, subs, {})
    BY <2>2, <2>4 DEF Picks
  <2>6. Good(0)
    BY <2>1, <2>2, <2>4, <2>5
  <2>7. QED
    BY <1>1, <1>3, <2>6
<1>5. ASSUME NEW m \in 1..n, m - 1 \in G PROVE m \in G
  <2>1. Good(m - 1) /\ m \in 0..n /\ m # 0 /\ m \in Nat
    BY <1>1, <1>3, <1>5
  <2>2. left[m] = IF subs[m].sess = s THEN left[m - 1] ELSE Append(left[m - 1], subs[m])
    BY <1>2, <2>1 DEF OthersLoop
  <2>3. PICK l, k, I, J : /\ l = left[m - 1] /\ k = left[m]
                          /\ I = {j \in 1..m - 1 : subs[j].sess # s}
                          /\ J = {j \in 1..m : subs[j].sess # s}
    OBVIOUS
  <2>4. l \in Seq(S) /\ Picks(l, subs, I)
    BY <2>1, <2>3
  <2>5. m \in 1..m /\ m \notin I /\ \A j : j \in 1..m <=> (j \in 1..m - 1 \/ j = m)
    BY <2>1, <2>3
  <2>6. CASE subs[m].sess = s
    <3>1. k = l /\ J = I
      BY <2>2, <2>3, <2>5, <2>6
    <3>2. QED
      BY <1>3, <2>1, <2>3, <2>4, <3>1
  <2>7. CASE subs[m].sess # s
    <3>1. /\ k \in Seq(S) /\ DOMAIN k = 1..Len(l) + 1 /\ Len(l) \in Nat /\ DOMAIN l = 1..Len(l)
          /\ \A i \in DOMAIN l : i \in DOMAIN k /\ k[i] = l[i]
          /\ k[Len(l) + 1] = subs[m]
          /\ \A i \in DOMAIN k : i \in DOMAIN l \/ i = Len(l) + 1
      <4>1. subs[m] \in S /\ k = Append(l, subs[m]) /\ Len(l) \in Nat /\ DOMAIN l = 1..Len(l)
        BY <1>1, <2>2, <2>3, <2>4, <2>7, SeqFacts
      <4>2. QED
        BY <2>4, <4>1, AppendFacts
    <3>2. J = I \cup {m} /\ m \in DOMAIN subs
      BY <1>1, <2>3, <2>5, <2>7
    <3>3. PICK at \in [DOMAIN l -> DOMAIN subs] :
            /\ \A i \in DOMAIN l : l[i] = subs[at[i]] /\ at[i] \in I
            /\ \A i, j \in DOMAIN l : at[i] = at[j] => i = j
            /\ \A j \in I : \E i \in DOMAIN l : at[i] = j
      BY <2>4 DEF Picks
    <3>4. PICK at2 : at2 = [i \in DOMAIN k |-> IF i = Len(l) + 1 THEN m ELSE at[i]]
      OBVIOUS
    <3>5. Len(l) + 1 \in DOMAIN k /\ Len(l) + 1 \notin DOMAIN l
      BY <3>1
    <3>6. /\ \A i \in DOMAIN l : at2[i] = at[i] /\ at2[i] \in I
          /\ at2[Len(l) + 1] = m
      BY <3>1, <3>3, <3>4, <3>5
    <3>7. at2 \in [DOMAIN k -> DOMAIN subs]
      BY <3>1, <3>2, <3>3, <3>4
    <3>8. \A i \in DOMAIN k : k[i] = subs[at2[i]] /\ at2[i] \in J
      BY <3>1, <3>2, <3>3, <3>6
    <3>9. \A i, j \in DOMAIN k : at2[i] = at2[j] => i = j
      <4>1. \A i \in DOMAIN l : at2[i] # m
        BY <2>5, <3>6
      <4>2. \A i, j \in DOMAIN l : at2[i] = at2[j] => i = j
        BY <3>3, <3>6
      <4>3. at2[Len(l) + 1] = m /\ \A i \in DOMAIN k : i \in DOMAIN l \/ i = Len(l) + 1
        BY <3>1, <3>6
      <4>4. ASSUME NEW i \in DOMAIN k, NEW j \in DOMAIN k, at2[i] = at2[j] PROVE i = j
        <5>1. CASE i \in DOMAIN l
          <6>1. j \in DOMAIN l
            BY <4>1, <4>3, <4>4, <5>1
          <6>2. QED
            BY <4>2, <4>4, <5>1, <6>1
        <5>2. CASE i \notin DOMAIN l
          <6>1. i = Len(l) + 1 /\ at2[j] = m
            BY <4>3, <4>4, <5>2
          <6>2. j \notin DOMAIN l
            BY <4>1, <6>1
          <6>3. QED
            BY <4>3, <6>1, <6>2
        <5>3. QED
          BY <5>1, <5>2
      <4>5. QED
        BY <4>4
    <3>10. ASSUME NEW j \in J PROVE \E i \in DOMAIN k : at2[i] = j
      <4>1. CASE j = m
        BY <3>5, <3>6, <4>1
      <4>2. CASE j # m
        <5>1. PICK i \in DOMAIN l : at[i] = j
          BY <3>2, <3>3, <4>2
        <5>2. i \in DOMAIN k /\ at2[i] = j
          BY <3>1, <3>6, <5>1
        <5>3. QED
          BY <5>2
      <4>3. QED
        BY <4>1, <4>2
    <3>11. Picks(k, subs, J)
      BY <3>7, <3>8, <3>9, <3>10 DEF Picks
    <3>12. QED
      BY <1>3, <2>1, <2>3, <3>1, <3>11
  <2>8. QED
    BY <2>6, <2>7
<1>6. n \in G
  <2>1. \A m \in 1..n : m - 1 \in G => m \in G
    BY <1>5
  <2>2. \A m \in 0..n : m \in G
    BY <1>4, <2>1, UpTo
  <2>3. QED
    BY <2>2
<1>7. Good(n)
  BY <1>3, <1>6
<1>8. QED
  BY <1>1, <1>2, <1>7

-----------------------------------------------------------------------------
(* What a turn does to one subscriber *)

Same(subs, after) ==
  /\ DOMAIN after = DOMAIN subs
  /\ \A k \in DOMAIN subs : /\ after[k].sess = subs[k].sess /\ after[k].id = subs[k].id
                            /\ after[k].option = subs[k].option

(* Only that of subscriber k. *)
Changes(turn, after, k) ==
  /\ Same(turn.subs, after.subs)
  /\ \A j \in DOMAIN turn.subs : j # k => after.subs[j] = turn.subs[j]

LEMMA SubscriberIs ==
  ASSUME NEW sub \in Subscriber
  PROVE  /\ sub.sess \in Sessions /\ sub.id \in Nat /\ sub.option \in Option
         /\ sub.timerId \in TimerId \cup {NoTimer} /\ sub.event \in KeyEvent \cup {NoEvent}
         /\ KeyTimer(sub) \in Owners /\ KeyTimer(sub) # OtherTimer
         /\ TimerFor(sub).id = sub.timerId /\ TimerFor(sub).owner = KeyTimer(sub)
         /\ Waits(sub) => TimerFor(sub) \in Timer
         /\ ~Waits(sub) => TimerFor(sub) \notin Timer
<1>1. /\ sub.sess \in Sessions /\ sub.id \in Nat /\ sub.option \in Option
      /\ sub.timerId \in TimerId \cup {NoTimer} /\ sub.event \in KeyEvent \cup {NoEvent}
  BY DEF Subscriber
<1>2. KeyTimer(sub) \in [kind : {"key"}, sess : Sessions, id : Nat] /\ KeyTimer(sub).kind = "key"
  BY <1>1 DEF KeyTimer
<1>3. OtherTimer.kind = "other"
  BY DEF OtherTimer
<1>4. KeyTimer(sub) \in Owners /\ KeyTimer(sub) # OtherTimer
  BY <1>2, <1>3 DEF Owners
<1>5. TimerFor(sub).id = sub.timerId /\ TimerFor(sub).owner = KeyTimer(sub)
  BY DEF TimerFor
<1>6. Waits(sub) => TimerFor(sub) \in Timer
  BY <1>1, <1>4 DEF TimerFor, Timer, Waits
<1>7. ~Waits(sub) => TimerFor(sub) \notin Timer
  BY <1>5, NoTimerIsNone DEF Timer, Waits
<1>8. QED
  BY <1>1, <1>4, <1>5, <1>6, <1>7

(* r is subs, with another timer and event for k. *)
WaitIs(r, subs, k, a, b) ==
  /\ r \in Seq(Subscriber) /\ DOMAIN r = DOMAIN subs
  /\ \A j \in DOMAIN subs : j # k => r[j] = subs[j]
  /\ r[k].timerId = a /\ r[k].event = b
  /\ r[k].sess = subs[k].sess /\ r[k].id = subs[k].id /\ r[k].option = subs[k].option

LEMMA SetWait ==
  ASSUME NEW subs \in Seq(Subscriber), NEW k \in DOMAIN subs,
         NEW a \in TimerId \cup {NoTimer}, NEW b \in KeyEvent \cup {NoEvent}
  PROVE  WaitIs([subs EXCEPT ![k].timerId = a, ![k].event = b], subs, k, a, b)
<1>0. PICK r : r = [subs EXCEPT ![k].timerId = a, ![k].event = b]
  OBVIOUS
<1>1. Len(subs) \in Nat /\ DOMAIN subs = 1..Len(subs) /\ \A j \in 1..Len(subs) : subs[j] \in Subscriber
  BY SeqFacts
<1>2. PICK v : v = [subs[k] EXCEPT !.timerId = a, !.event = b]
  OBVIOUS
<1>3. /\ v \in Subscriber /\ v.timerId = a /\ v.event = b
      /\ v.sess = subs[k].sess /\ v.id = subs[k].id /\ v.option = subs[k].option
  <2>1. PICK w : w = subs[k]
    OBVIOUS
  <2>2. w \in Subscriber
    BY <1>1, <2>1
  <2>3. v = [sess |-> w.sess, id |-> w.id, option |-> w.option, timerId |-> a, event |-> b]
    BY <1>2, <2>1, <2>2 DEF Subscriber
  <2>4. QED
    BY <2>1, <2>2, <2>3 DEF Subscriber
<1>4. r = [subs EXCEPT ![k] = v]
  <2>1. r = [[subs EXCEPT ![k] = [subs[k] EXCEPT !.timerId = a]]
               EXCEPT ![k] = [[subs EXCEPT ![k] = [subs[k] EXCEPT !.timerId = a]][k] EXCEPT !.event = b]]
    BY <1>0
  <2>2. PICK u : u = [subs[k] EXCEPT !.timerId = a]
    OBVIOUS
  <2>3. [subs EXCEPT ![k] = u][k] = u
    OBVIOUS
  <2>4. v = [u EXCEPT !.event = b]
    BY <1>2, <2>2
  <2>5. r = [[subs EXCEPT ![k] = u] EXCEPT ![k] = v]
    BY <2>1, <2>2, <2>3, <2>4
  <2>6. QED
    BY <2>5
<1>5. DOMAIN r = DOMAIN subs /\ r[k] = v /\ \A j \in DOMAIN subs : j # k => r[j] = subs[j]
  BY <1>4
<1>6. r \in Seq(Subscriber)
  <2>1. k \in 1..Len(subs)
    BY <1>1
  <2>2. [subs EXCEPT ![k] = v] \in Seq(Subscriber)
    BY <1>3, <2>1, ExceptSeq
  <2>3. QED
    BY <1>4, <2>2
<1>7. WaitIs(r, subs, k, a, b)
  BY <1>3, <1>5, <1>6 DEF WaitIs
<1>8. QED
  BY <1>0, <1>7

LEMMA TurnIs ==
  ASSUME NEW turn, TurnOK(turn)
  PROVE  /\ turn.subs \in Seq(Subscriber) /\ TableOK(turn.table) /\ turn.executing \in BOOLEAN
         /\ turn = [subs |-> turn.subs, table |-> turn.table, executing |-> turn.executing]
         /\ \A k \in DOMAIN turn.subs : turn.subs[k] \in Subscriber /\ Kept(turn.subs[k])
<1>1. /\ turn.subs \in Seq(Subscriber) /\ turn.table \in Seq(Timer) /\ turn.executing \in BOOLEAN
      /\ turn = [subs |-> turn.subs, table |-> turn.table, executing |-> turn.executing]
  BY DEF TurnOK, TurnType
<1>2. TableOK(turn.table) /\ \A k \in DOMAIN turn.subs : Kept(turn.subs[k])
  BY DEF TurnOK, Agree
<1>3. \A k \in DOMAIN turn.subs : turn.subs[k] \in Subscriber
  BY <1>1, SeqFacts
<1>4. QED
  BY <1>1, <1>2, <1>3

(* Subscribers and a table that agree make a turn. *)
Made(turn, subs, table, x) ==
  TurnOK(turn) /\ turn.subs = subs /\ turn.table = table /\ turn.executing = x

LEMMA MakeTurn ==
  ASSUME NEW subs, NEW table, NEW x \in BOOLEAN, Agree(subs, table)
  PROVE  Made([subs |-> subs, table |-> table, executing |-> x], subs, table, x)
<1>1. PICK turn : turn = [subs |-> subs, table |-> table, executing |-> x]
  OBVIOUS
<1>2. turn.subs = subs /\ turn.table = table /\ turn.executing = x
  BY <1>1
<1>3. turn \in TurnType
  <2>1. subs \in Seq(Subscriber) /\ table \in Seq(Timer)
    BY DEF Agree, TableOK
  <2>2. QED
    BY <1>1, <2>1 DEF TurnType
<1>4. QED
  BY <1>1, <1>2, <1>3 DEF TurnOK, Made

LEMMA SameIsApart ==
  ASSUME NEW subs, NEW after, Same(subs, after)
  PROVE  /\ \A k \in DOMAIN subs : KeyTimer(after[k]) = KeyTimer(subs[k])
         /\ Apart(subs) => Apart(after)
<1>1. \A k \in DOMAIN subs : KeyTimer(after[k]) = KeyTimer(subs[k])
  BY DEF Same, KeyTimer
<1>2. QED
  BY <1>1 DEF Apart, Same

(* A subscriber stops waiting and its timer is gone. *)
LEMMA ReleaseKeeps ==
  ASSUME NEW turn, TurnOK(turn), NEW k \in DOMAIN turn.subs, Waits(turn.subs[k]),
         NEW r, r = [turn.subs EXCEPT ![k].timerId = NoTimer, ![k].event = NoEvent],
         NEW rest, TableOK(rest),
         \A x : Has(rest, x) <=> (Has(turn.table, x) /\ x # TimerFor(turn.subs[k])),
         NEW y \in BOOLEAN, NEW c, c = [subs |-> r, table |-> rest, executing |-> y]
  PROVE  TurnOK(c) /\ Changes(turn, c, k) /\ ~Waits(c.subs[k])
<1>1. PICK subs, table, t : subs = turn.subs /\ table = turn.table /\ t = TimerFor(subs[k])
  OBVIOUS
<1>2. /\ subs \in Seq(Subscriber) /\ TableOK(table) /\ k \in DOMAIN subs
      /\ \A j \in DOMAIN subs : subs[j] \in Subscriber /\ Kept(subs[j])
      /\ Apart(subs) /\ Named(subs, table) /\ Owned(subs, table)
  BY <1>1, TurnIs DEF TurnOK, Agree
<1>3. /\ r \in Seq(Subscriber) /\ DOMAIN r = DOMAIN subs
      /\ \A j \in DOMAIN subs : j # k => r[j] = subs[j]
      /\ r[k].timerId = NoTimer /\ r[k].event = NoEvent
      /\ r[k].sess = subs[k].sess /\ r[k].id = subs[k].id /\ r[k].option = subs[k].option
  <2>1. WaitIs([subs EXCEPT ![k].timerId = NoTimer, ![k].event = NoEvent], subs, k, NoTimer, NoEvent)
    BY <1>2, SetWait
  <2>2. WaitIs(r, subs, k, NoTimer, NoEvent)
    BY <1>1, <2>1
  <2>3. QED
    BY <2>2 DEF WaitIs
<1>4. Same(subs, r)
  BY <1>2, <1>3 DEF Same
<1>5. ~Waits(r[k])
  BY <1>3 DEF Waits
<1>6. \A x : Has(rest, x) <=> (Has(table, x) /\ x # t)
  BY <1>1
<1>7. ASSUME NEW j \in DOMAIN r, Waits(r[j]) PROVE Has(rest, TimerFor(r[j]))
  <2>1. j # k /\ r[j] = subs[j] /\ j \in DOMAIN subs
    BY <1>3, <1>5, <1>7
  <2>2. Has(table, TimerFor(subs[j]))
    BY <1>2, <1>7, <2>1 DEF Named
  <2>3. TimerFor(subs[j]) # t
    <3>1. KeyTimer(subs[j]) # KeyTimer(subs[k])
      BY <1>2, <2>1 DEF Apart
    <3>2. TimerFor(subs[j]).owner = KeyTimer(subs[j]) /\ t.owner = KeyTimer(subs[k])
      BY <1>1, <1>2, <2>1, SubscriberIs
    <3>3. QED
      BY <3>1, <3>2
  <2>4. QED
    BY <1>6, <2>1, <2>2, <2>3
<1>8. ASSUME NEW x \in Timer, Has(rest, x), x.owner # OtherTimer
      PROVE  \E j \in DOMAIN r : x = TimerFor(r[j])
  <2>1. PICK j \in DOMAIN subs : x = TimerFor(subs[j])
    BY <1>2, <1>6, <1>8 DEF Owned
  <2>2. j # k
    BY <1>1, <1>6, <1>8, <2>1
  <2>3. QED
    BY <1>3, <2>1, <2>2
<1>9. \A j \in DOMAIN r : Kept(r[j])
  BY <1>2, <1>3, <1>5 DEF Kept
<1>10. Apart(r)
  BY <1>2, <1>4, SameIsApart
<1>11. Named(r, rest) /\ Owned(r, rest)
  BY <1>7, <1>8 DEF Named, Owned
<1>12. Agree(r, rest)
  BY <1>3, <1>9, <1>10, <1>11 DEF Agree
<1>13. TurnOK(c) /\ c.subs = r
  BY <1>12, MakeTurn DEF Made
<1>14. QED
  BY <1>1, <1>3, <1>4, <1>5, <1>13 DEF Changes

LEMMA ClearTimerKeeps ==
  ASSUME NEW turn, TurnOK(turn), NEW k \in DOMAIN turn.subs, NEW c, c = ClearTimer(turn, k)
  PROVE  TurnOK(c) /\ Changes(turn, c, k) /\ ~Waits(c.subs[k])
<1>1. PICK sub, t : sub = turn.subs[k] /\ t = TimerFor(sub)
  OBVIOUS
<1>2. CASE ~Waits(sub)
  <2>1. c = turn
    BY <1>1, <1>2 DEF ClearTimer, Waits
  <2>2. QED
    BY <1>1, <1>2, <2>1 DEF Changes, Same
<1>3. CASE Waits(sub)
  <2>1. PICK r, rest :
          /\ r = [turn.subs EXCEPT ![k].timerId = NoTimer, ![k].event = NoEvent]
          /\ rest = Removed(turn.table, sub.timerId)
    OBVIOUS
  <2>2. c = [subs |-> r, table |-> rest, executing |-> FALSE]
    BY <1>1, <1>3, <2>1 DEF ClearTimer, Waits
  <2>3. TableOK(turn.table) /\ sub \in Subscriber
    BY <1>1, TurnIs
  <2>4. Has(turn.table, t) /\ t.id = sub.timerId
    BY <1>1, <1>3, <2>3, SubscriberIs DEF TurnOK, Agree, Named
  <2>5. TableOK(rest) /\ \A x : Has(rest, x) <=> (Has(turn.table, x) /\ x # t)
    BY <2>1, <2>3, <2>4, RemovedIs
  <2>6. Waits(turn.subs[k])
    BY <1>1, <1>3
  <2>7. \A x : Has(rest, x) <=> (Has(turn.table, x) /\ x # TimerFor(turn.subs[k]))
    BY <1>1, <2>5
  <2>8. QED
    BY <2>1, <2>2, <2>5, <2>6, <2>7, ReleaseKeeps
<1>4. QED
  BY <1>2, <1>3

LEMMA AddTimerKeeps ==
  ASSUME NEW turn, TurnOK(turn), NEW k \in DOMAIN turn.subs, NEW event \in KeyEvent,
         event.action = IF turn.subs[k].option.isFinalKeyDown THEN "down" ELSE "up",
         Matches(turn.subs[k].option, event), NEW c, c = AddTimer(turn, k, event)
  PROVE  TurnOK(c) /\ Changes(turn, c, k)
<1>1. PICK subs, table, sub, id :
        subs = turn.subs /\ table = turn.table /\ sub = subs[k] /\ id = NewTimerId(table)
  OBVIOUS
<1>2. /\ subs \in Seq(Subscriber) /\ TableOK(table) /\ k \in DOMAIN subs
      /\ \A j \in DOMAIN subs : subs[j] \in Subscriber /\ Kept(subs[j])
      /\ Apart(subs) /\ Named(subs, table) /\ Owned(subs, table)
  BY <1>1, TurnIs DEF TurnOK, Agree
<1>3. CASE Waits(sub) \/ id = NoTimer
  <2>1. c = turn
    BY <1>1, <1>3 DEF AddTimer, Waits
  <2>2. QED
    BY <2>1 DEF Changes, Same
<1>4. CASE ~Waits(sub) /\ id # NoTimer
  <2>1. PICK r, e, more :
          /\ r = [subs EXCEPT ![k].timerId = id, ![k].event = event]
          /\ e = [id |-> id, owner |-> KeyTimer(sub)]
          /\ more = Append(table, e)
    OBVIOUS
  <2>2. c = [subs |-> r, table |-> more, executing |-> TRUE]
    BY <1>1, <1>4, <2>1 DEF AddTimer, Waits
  <2>3. id \in TimerId /\ id \notin UsedIds(table)
    BY <1>1, <1>4, FreshTimerId
  <2>4. /\ r \in Seq(Subscriber) /\ DOMAIN r = DOMAIN subs
        /\ \A j \in DOMAIN subs : j # k => r[j] = subs[j]
        /\ r[k].timerId = id /\ r[k].event = event
        /\ r[k].sess = subs[k].sess /\ r[k].id = subs[k].id /\ r[k].option = subs[k].option
    <3>1. WaitIs([subs EXCEPT ![k].timerId = id, ![k].event = event], subs, k, id, event)
      BY <1>2, <2>3, SetWait
    <3>2. WaitIs(r, subs, k, id, event)
      BY <2>1, <3>1
    <3>3. QED
      BY <3>2 DEF WaitIs
  <2>5. Same(subs, r)
    BY <1>2, <2>4 DEF Same
  <2>6. e \in Timer /\ e.id \notin UsedIds(table)
    BY <1>1, <1>2, <2>1, <2>3, SubscriberIs DEF Timer
  <2>7. TableOK(more) /\ \A x : Has(more, x) <=> (Has(table, x) \/ x = e)
    BY <1>2, <2>1, <2>6, TableAppend
  <2>8. e = TimerFor(r[k])
    BY <1>1, <2>1, <2>4, <2>5 DEF TimerFor, KeyTimer
  <2>9. ASSUME NEW j \in DOMAIN r, Waits(r[j]) PROVE Has(more, TimerFor(r[j]))
    <3>1. CASE j = k
      BY <2>7, <2>8, <3>1
    <3>2. CASE j # k
      BY <1>2, <2>4, <2>7, <2>9, <3>2 DEF Named
    <3>3. QED
      BY <3>1, <3>2
  <2>10. ASSUME NEW x \in Timer, Has(more, x), x.owner # OtherTimer
         PROVE  \E j \in DOMAIN r : x = TimerFor(r[j])
    <3>1. CASE x = e
      BY <1>2, <2>4, <2>8, <3>1
    <3>2. CASE x # e
      <4>1. PICK j \in DOMAIN subs : x = TimerFor(subs[j])
        BY <1>2, <2>7, <2>10, <3>2 DEF Owned
      <4>2. Waits(subs[j])
        BY <1>2, <4>1, SubscriberIs
      <4>3. j # k
        BY <1>1, <1>4, <4>2
      <4>4. QED
        BY <2>4, <4>1, <4>3
    <3>3. QED
      BY <3>1, <3>2
  <2>11. Kept(r[k])
    <3>1. r[k].option = turn.subs[k].option
      BY <1>1, <2>4
    <3>2. QED
      BY <1>4, <2>4, <3>1 DEF Kept, Waits
  <2>12. \A j \in DOMAIN r : Kept(r[j])
    BY <1>2, <2>4, <2>11
  <2>13. Apart(r)
    BY <1>2, <2>5, SameIsApart
  <2>14. Named(r, more) /\ Owned(r, more)
    BY <2>9, <2>10 DEF Named, Owned
  <2>15. Agree(r, more)
    BY <2>4, <2>7, <2>12, <2>13, <2>14 DEF Agree
  <2>16. TurnOK(c) /\ c.subs = r
    <3>1. PICK y \in BOOLEAN : y = TRUE
      OBVIOUS
    <3>2. Made([subs |-> r, table |-> more, executing |-> y], r, more, y)
      BY <2>15, MakeTurn
    <3>3. c = [subs |-> r, table |-> more, executing |-> y]
      BY <2>2, <3>1
    <3>4. QED
      BY <3>2, <3>3 DEF Made
  <2>17. QED
    BY <1>1, <2>4, <2>5, <2>16 DEF Changes
<1>5. QED
  BY <1>3, <1>4

LEMMA HandleOneKeeps ==
  ASSUME NEW turn, TurnOK(turn), NEW k \in DOMAIN turn.subs, NEW event \in KeyEvent,
         NEW quick \in BOOLEAN, NEW c, c = HandleOne(turn, k, event, quick)
  PROVE  TurnOK(c) /\ Changes(turn, c, k) /\ Holds(c.subs[k], event)
<1>1. PICK option : option = turn.subs[k].option /\ option.isFinalKeyDown \in BOOLEAN
  BY TurnIs, SubscriberIs DEF Option
<1>2. event.action \in {"down", "up", "cancel"}
  BY DEF KeyEvent
<1>3. Changes(turn, turn, k)
  BY DEF Changes, Same
<1>4. PICK cleared : cleared = ClearTimer(turn, k)
  OBVIOUS
<1>5. TurnOK(cleared) /\ Changes(turn, cleared, k) /\ Holds(cleared.subs[k], event)
  BY <1>4, ClearTimerKeeps DEF Holds
<1>6. PICK added : added = AddTimer(turn, k, event)
  OBVIOUS
<1>7. ASSUME event.action = IF option.isFinalKeyDown THEN "down" ELSE "up", Matches(option, event)
      PROVE  TurnOK(added) /\ Changes(turn, added, k) /\ Holds(added.subs[k], event)
  <2>1. TurnOK(added) /\ Changes(turn, added, k)
    BY <1>1, <1>6, <1>7, AddTimerKeeps
  <2>2. added.subs[k].option = option
    BY <1>1, <2>1 DEF Changes, Same
  <2>3. QED
    BY <1>7, <2>1, <2>2 DEF Holds
<1>8. CASE event.action = "down"
  <2>1. c = HandleKeyDown(turn, k, event)
    BY <1>8 DEF HandleOne
  <2>2. c = IF ~option.isFinalKeyDown THEN turn
            ELSE IF ~Matches(option, event) THEN cleared
            ELSE IF option.lasting THEN added ELSE turn
    BY <1>1, <1>4, <1>6, <2>1 DEF HandleKeyDown
  <2>3. CASE ~option.isFinalKeyDown
    BY <1>1, <1>3, <2>2, <2>3 DEF Holds
  <2>4. CASE option.isFinalKeyDown /\ ~Matches(option, event)
    BY <1>5, <2>2, <2>4
  <2>5. CASE option.isFinalKeyDown /\ Matches(option, event)
    <3>1. c = added \/ c = turn
      BY <2>2, <2>5
    <3>2. Holds(turn.subs[k], event)
      BY <1>1, <1>8, <2>5 DEF Holds
    <3>3. QED
      BY <1>3, <1>7, <1>8, <2>5, <3>1, <3>2
  <2>6. QED
    BY <2>3, <2>4, <2>5
<1>9. CASE event.action = "up"
  <2>1. c = HandleKeyUp(turn, k, event, quick)
    BY <1>9 DEF HandleOne
  <2>2. CASE option.isFinalKeyDown
    <3>1. c = cleared
      BY <1>1, <1>4, <2>1, <2>2 DEF HandleKeyUp
    <3>2. QED
      BY <1>5, <3>1
  <2>3. CASE ~option.isFinalKeyDown
    <3>1. (c = added /\ Matches(option, event)) \/ c = turn
      BY <1>1, <1>6, <2>1, <2>3 DEF HandleKeyUp
    <3>2. Holds(turn.subs[k], event)
      BY <1>1, <2>3 DEF Holds
    <3>3. QED
      BY <1>3, <1>7, <1>9, <2>3, <3>1, <3>2
  <2>4. QED
    BY <2>2, <2>3
<1>10. CASE event.action = "cancel"
  <2>1. c = cleared
    BY <1>4, <1>10 DEF HandleOne
  <2>2. QED
    BY <1>5, <2>1
<1>11. QED
  BY <1>2, <1>8, <1>9, <1>10

-----------------------------------------------------------------------------
(* A turn goes over all subscribers *)

LEMMA SameTrans ==
  ASSUME NEW a, NEW b, NEW c, Same(a, b), Same(b, c)
  PROVE  Same(a, c)
BY DEF Same

KeyLoop(after, before, n, event, quick) ==
  after = [k \in 0..n |-> IF k = 0 THEN before ELSE HandleOne(after[k - 1], k, event, quick)]

LEMMA KeyLoopExists ==
  ASSUME NEW before, TurnOK(before), NEW n \in Nat, DOMAIN before.subs = 1..n,
         NEW event \in KeyEvent, NEW quick \in BOOLEAN
  PROVE  \E after : KeyLoop(after, before, n, event, quick)
<1>1. PICK S : S = {t \in TurnType : TurnOK(t) /\ DOMAIN t.subs = 1..n}
  OBVIOUS
<1>2. before \in S
  BY <1>1 DEF TurnOK
<1>3. ASSUME NEW k \in 1..n, NEW t \in S PROVE HandleOne(t, k, event, quick) \in S
  <2>1. TurnOK(t) /\ DOMAIN t.subs = 1..n /\ k \in DOMAIN t.subs
    BY <1>1
  <2>2. PICK c : c = HandleOne(t, k, event, quick)
    OBVIOUS
  <2>3. TurnOK(c) /\ Changes(t, c, k)
    BY <2>1, <2>2, HandleOneKeeps
  <2>4. c \in TurnType /\ DOMAIN c.subs = 1..n
    BY <2>1, <2>3 DEF TurnOK, Changes, Same
  <2>5. QED
    BY <1>1, <2>2, <2>3, <2>4
<1>4. PICK step : step = [k \in 1..n |-> [t \in S |-> HandleOne(t, k, event, quick)]]
  OBVIOUS
<1>5. step \in [1..n -> [S -> S]]
  BY <1>3, <1>4
<1>6. PICK f \in [0..n -> S] :
        \A k \in 0..n : f[k] = IF k = 0 THEN before ELSE step[k][f[k - 1]]
  <2>1. StepsOn(step, n, S)
    BY <1>5 DEF StepsOn
  <2>2. PICK f : IsLoop(f, n, S, before, step)
    BY <1>2, <2>1, LoopExists
  <2>3. QED
    BY <2>2 DEF IsLoop
<1>7. ASSUME NEW k \in 0..n
      PROVE  f[k] = IF k = 0 THEN before ELSE HandleOne(f[k - 1], k, event, quick)
  <2>1. CASE k = 0
    BY <1>6, <2>1
  <2>2. CASE k # 0
    <3>1. k \in 1..n /\ k - 1 \in 0..n
      BY <2>2
    <3>2. f[k - 1] \in S
      BY <3>1
    <3>3. step[k][f[k - 1]] = HandleOne(f[k - 1], k, event, quick)
      BY <1>4, <3>1, <3>2
    <3>4. QED
      BY <1>6, <2>2, <3>3
  <2>3. QED
    BY <2>1, <2>2
<1>8. f = [k \in 0..n |-> IF k = 0 THEN before ELSE HandleOne(f[k - 1], k, event, quick)]
  BY <1>7
<1>9. QED
  BY <1>8 DEF KeyLoop

LEMMA HandleKeyKeeps ==
  ASSUME NEW turn, TurnOK(turn), NEW event \in KeyEvent, NEW quick \in BOOLEAN,
         NEW c, c = HandleKey(turn, event, quick)
  PROVE  /\ TurnOK(c) /\ Same(turn.subs, c.subs)
         /\ \A k \in DOMAIN turn.subs : Holds(c.subs[k], event)
<1>1. PICK subs, n, before :
        /\ subs = turn.subs /\ n = Len(subs)
        /\ before = IF event.action = "down" THEN turn ELSE [turn EXCEPT !.executing = FALSE]
  OBVIOUS
<1>2. n \in Nat /\ DOMAIN subs = 1..n
  BY <1>1, TurnIs, SeqFacts
<1>3. TurnOK(before) /\ before.subs = subs
  <2>1. CASE event.action = "down"
    BY <1>1, <2>1
  <2>2. CASE event.action # "down"
    <3>1. /\ turn.subs \in Seq(Subscriber) /\ TableOK(turn.table)
          /\ turn = [subs |-> turn.subs, table |-> turn.table, executing |-> turn.executing]
          /\ \A k \in DOMAIN turn.subs : Kept(turn.subs[k])
      BY TurnIs
    <3>2. Agree(turn.subs, turn.table)
      BY DEF TurnOK
    <3>3. before = [subs |-> turn.subs, table |-> turn.table, executing |-> FALSE]
      BY <1>1, <2>2, <3>1
    <3>4. PICK y \in BOOLEAN : y = FALSE
      OBVIOUS
    <3>5. Made([subs |-> turn.subs, table |-> turn.table, executing |-> y], turn.subs, turn.table, y)
      BY <3>2, MakeTurn
    <3>6. before = [subs |-> turn.subs, table |-> turn.table, executing |-> y]
      BY <3>3, <3>4
    <3>7. QED
      BY <1>1, <3>5, <3>6 DEF Made
  <2>3. QED
    BY <2>1, <2>2
<1> DEFINE after == CHOOSE g : KeyLoop(g, before, n, event, quick)
<1>4. KeyLoop(after, before, n, event, quick)
  BY <1>2, <1>3, KeyLoopExists
<1>5. c = after[n]
  BY <1>1 DEF HandleKey, KeyLoop
<1> HIDE DEF after
<1> DEFINE Good(m) == /\ TurnOK(after[m]) /\ Same(subs, after[m].subs)
                      /\ \A k \in 1..m : Holds(after[m].subs[k], event)
<1>6. PICK G : G = {m \in 0..n : Good(m)}
  OBVIOUS
<1>7. 0 \in G
  <2>1. after[0] = before
    BY <1>2, <1>4 DEF KeyLoop
  <2>2. Same(subs, subs)
    BY DEF Same
  <2>3. Good(0)
    BY <1>3, <2>1, <2>2
  <2>4. QED
    BY <1>2, <1>6, <2>3
<1>8. ASSUME NEW m \in 1..n, m - 1 \in G PROVE m \in G
  <2>1. Good(m - 1) /\ m \in 0..n /\ m # 0 /\ m \in Nat
    BY <1>2, <1>6, <1>8
  <2>2. after[m] = HandleOne(after[m - 1], m, event, quick)
    BY <1>4, <2>1 DEF KeyLoop
  <2>3. PICK t, d : t = after[m - 1] /\ d = after[m]
    OBVIOUS
  <2>4. TurnOK(t) /\ Same(subs, t.subs) /\ \A k \in 1..m - 1 : Holds(t.subs[k], event)
    BY <2>1, <2>3
  <2>5. m \in DOMAIN t.subs
    BY <1>2, <2>4 DEF Same
  <2>6. TurnOK(d) /\ Changes(t, d, m) /\ Holds(d.subs[m], event)
    BY <2>2, <2>3, <2>4, <2>5, HandleOneKeeps
  <2>7. Same(subs, d.subs)
    BY <2>4, <2>6, SameTrans DEF Changes
  <2>8. ASSUME NEW k \in 1..m PROVE Holds(d.subs[k], event)
    <3>1. CASE k = m
      BY <2>6, <3>1
    <3>2. CASE k # m
      <4>1. k \in 1..m - 1 /\ k \in DOMAIN subs
        BY <1>2, <2>1, <3>2
      <4>2. k \in DOMAIN t.subs
        BY <2>4, <4>1 DEF Same
      <4>3. d.subs[k] = t.subs[k]
        BY <2>6, <3>2, <4>2 DEF Changes
      <4>4. QED
        BY <2>4, <4>1, <4>3
    <3>3. QED
      BY <3>1, <3>2
  <2>9. Good(m)
    BY <2>3, <2>6, <2>7, <2>8
  <2>10. QED
    BY <1>6, <2>1, <2>9
<1>9. n \in G
  <2>1. \A m \in 1..n : m - 1 \in G => m \in G
    BY <1>8
  <2>2. \A m \in 0..n : m \in G
    BY <1>2, <1>7, <2>1, UpTo
  <2>3. QED
    BY <1>2, <2>2
<1>10. Good(n)
  BY <1>6, <1>9
<1>11. QED
  BY <1>1, <1>2, <1>5, <1>10

ClearLoop(after, turn, n, ks) ==
  after = [k \in 0..n |-> IF k = 0 THEN turn
                          ELSE IF k \in ks THEN ClearTimer(after[k - 1], k) ELSE after[k - 1]]

LEMMA ClearLoopExists ==
  ASSUME NEW turn, TurnOK(turn), NEW n \in Nat, DOMAIN turn.subs = 1..n, NEW ks
  PROVE  \E after : ClearLoop(after, turn, n, ks)
<1>1. PICK S : S = {t \in TurnType : TurnOK(t) /\ DOMAIN t.subs = 1..n}
  OBVIOUS
<1>2. turn \in S
  BY <1>1 DEF TurnOK
<1>3. ASSUME NEW k \in 1..n, NEW t \in S PROVE ClearTimer(t, k) \in S
  <2>1. TurnOK(t) /\ DOMAIN t.subs = 1..n /\ k \in DOMAIN t.subs
    BY <1>1
  <2>2. PICK c : c = ClearTimer(t, k)
    OBVIOUS
  <2>3. TurnOK(c) /\ Changes(t, c, k)
    BY <2>1, <2>2, ClearTimerKeeps
  <2>4. c \in TurnType /\ DOMAIN c.subs = 1..n
    BY <2>1, <2>3 DEF TurnOK, Changes, Same
  <2>5. QED
    BY <1>1, <2>2, <2>3, <2>4
<1>4. PICK step : step = [k \in 1..n |-> [t \in S |-> IF k \in ks THEN ClearTimer(t, k) ELSE t]]
  OBVIOUS
<1>5. step \in [1..n -> [S -> S]]
  BY <1>3, <1>4
<1>6. PICK f \in [0..n -> S] :
        \A k \in 0..n : f[k] = IF k = 0 THEN turn ELSE step[k][f[k - 1]]
  <2>1. StepsOn(step, n, S)
    BY <1>5 DEF StepsOn
  <2>2. PICK f : IsLoop(f, n, S, turn, step)
    BY <1>2, <2>1, LoopExists
  <2>3. QED
    BY <2>2 DEF IsLoop
<1>7. ASSUME NEW k \in 0..n
      PROVE  f[k] = IF k = 0 THEN turn
                    ELSE IF k \in ks THEN ClearTimer(f[k - 1], k) ELSE f[k - 1]
  <2>1. CASE k = 0
    BY <1>6, <2>1
  <2>2. CASE k # 0
    <3>1. k \in 1..n /\ k - 1 \in 0..n
      BY <2>2
    <3>2. f[k - 1] \in S
      BY <3>1
    <3>3. step[k][f[k - 1]] = IF k \in ks THEN ClearTimer(f[k - 1], k) ELSE f[k - 1]
      BY <1>4, <3>1, <3>2
    <3>4. QED
      BY <1>6, <2>2, <3>3
  <2>3. QED
    BY <2>1, <2>2
<1>8. f = [k \in 0..n |-> IF k = 0 THEN turn
                          ELSE IF k \in ks THEN ClearTimer(f[k - 1], k) ELSE f[k - 1]]
  BY <1>7
<1>9. QED
  BY <1>8 DEF ClearLoop

(* Those that are cleared no longer wait, the others are as before. *)
LEMMA ClearTimersKeep ==
  ASSUME NEW turn, TurnOK(turn), NEW ks, NEW c, c = ClearTimers(turn, ks)
  PROVE  /\ TurnOK(c) /\ Same(turn.subs, c.subs)
         /\ \A k \in DOMAIN turn.subs : k \in ks => ~Waits(c.subs[k])
         /\ \A k \in DOMAIN turn.subs : c.subs[k] = turn.subs[k] \/ ~Waits(c.subs[k])
<1>1. PICK subs, n : subs = turn.subs /\ n = Len(subs)
  OBVIOUS
<1>2. n \in Nat /\ DOMAIN subs = 1..n
  BY <1>1, TurnIs, SeqFacts
<1> DEFINE after == CHOOSE g : ClearLoop(g, turn, n, ks)
<1>3. ClearLoop(after, turn, n, ks)
  BY <1>1, <1>2, ClearLoopExists
<1>4. c = after[n]
  BY <1>1 DEF ClearTimers, ClearLoop
<1> HIDE DEF after
<1> DEFINE Good(m) == /\ TurnOK(after[m]) /\ Same(subs, after[m].subs)
                      /\ \A k \in 1..m : k \in ks => ~Waits(after[m].subs[k])
                      /\ \A k \in 1..n : after[m].subs[k] = subs[k] \/ ~Waits(after[m].subs[k])
<1>5. PICK G : G = {m \in 0..n : Good(m)}
  OBVIOUS
<1>6. 0 \in G
  <2>1. after[0] = turn
    BY <1>2, <1>3 DEF ClearLoop
  <2>2. Same(subs, subs)
    BY DEF Same
  <2>3. Good(0)
    BY <1>1, <2>1, <2>2
  <2>4. QED
    BY <1>2, <1>5, <2>3
<1>7. ASSUME NEW m \in 1..n, m - 1 \in G PROVE m \in G
  <2>1. Good(m - 1) /\ m \in 0..n /\ m # 0 /\ m \in Nat
    BY <1>2, <1>5, <1>7
  <2>2. after[m] = IF m \in ks THEN ClearTimer(after[m - 1], m) ELSE after[m - 1]
    BY <1>3, <2>1 DEF ClearLoop
  <2>3. PICK t, d : t = after[m - 1] /\ d = after[m]
    OBVIOUS
  <2>4. /\ TurnOK(t) /\ Same(subs, t.subs)
        /\ \A k \in 1..m - 1 : k \in ks => ~Waits(t.subs[k])
        /\ \A k \in 1..n : t.subs[k] = subs[k] \/ ~Waits(t.subs[k])
    BY <2>1, <2>3
  <2>5. m \in DOMAIN t.subs /\ DOMAIN t.subs = 1..n
    BY <1>2, <2>4 DEF Same
  <2>6. \A k \in 1..m : k \in 1..m - 1 \/ k = m
    BY <2>1
  <2>7. CASE m \notin ks
    <3>1. d = t
      BY <2>2, <2>3, <2>7
    <3>2. Good(m)
      BY <2>3, <2>4, <2>6, <2>7, <3>1
    <3>3. QED
      BY <1>5, <2>1, <3>2
  <2>8. CASE m \in ks
    <3>1. TurnOK(d) /\ Changes(t, d, m) /\ ~Waits(d.subs[m])
      BY <2>2, <2>3, <2>4, <2>5, <2>8, ClearTimerKeeps
    <3>2. Same(subs, d.subs)
      BY <2>4, <3>1, SameTrans DEF Changes
    <3>3. \A k \in 1..n : k # m => d.subs[k] = t.subs[k]
      BY <2>5, <3>1 DEF Changes
    <3>4. \A k \in 1..n : d.subs[k] = subs[k] \/ ~Waits(d.subs[k])
      BY <2>4, <3>1, <3>3
    <3>5. ASSUME NEW k \in 1..m, k \in ks PROVE ~Waits(d.subs[k])
      <4>1. CASE k = m
        BY <3>1, <4>1
      <4>2. CASE k # m
        <5>1. k \in 1..m - 1 /\ k \in 1..n
          BY <1>2, <2>1, <4>2
        <5>2. QED
          BY <2>4, <3>3, <3>5, <4>2, <5>1
      <4>3. QED
        BY <4>1, <4>2
    <3>6. Good(m)
      BY <2>3, <3>1, <3>2, <3>4, <3>5
    <3>7. QED
      BY <1>5, <2>1, <3>6
  <2>9. QED
    BY <2>7, <2>8
<1>8. n \in G
  <2>1. \A m \in 1..n : m - 1 \in G => m \in G
    BY <1>7
  <2>2. \A m \in 0..n : m \in G
    BY <1>2, <1>6, <2>1, UpTo
  <2>3. QED
    BY <1>2, <2>2
<1>9. Good(n)
  BY <1>5, <1>8
<1>10. QED
  BY <1>1, <1>2, <1>4, <1>9

(* Subscribers that do not wait may go. *)
NoneWaits(subs, J) == \A k \in DOMAIN subs : k \notin J => ~Waits(subs[k])
IsPicked(c, turn, r, J) ==
  /\ TurnOK(c) /\ c.subs = r
  /\ \A i \in DOMAIN r : \E j \in DOMAIN turn.subs : j \in J /\ r[i] = turn.subs[j]

LEMMA PickKeeps ==
  ASSUME NEW turn, TurnOK(turn), NEW r \in Seq(Subscriber), NEW J, Picks(r, turn.subs, J),
         NoneWaits(turn.subs, J)
  PROVE  IsPicked([turn EXCEPT !.subs = r], turn, r, J)
<1>1. PICK subs, table : subs = turn.subs /\ table = turn.table
  OBVIOUS
<1>2. /\ subs \in Seq(Subscriber) /\ TableOK(table) /\ turn.executing \in BOOLEAN
      /\ \A j \in DOMAIN subs : subs[j] \in Subscriber /\ Kept(subs[j])
      /\ Apart(subs) /\ Named(subs, table) /\ Owned(subs, table)
      /\ turn = [subs |-> subs, table |-> table, executing |-> turn.executing]
  BY <1>1, TurnIs DEF TurnOK, Agree
<1>3. PICK at \in [DOMAIN r -> DOMAIN subs] :
        /\ \A i \in DOMAIN r : r[i] = subs[at[i]] /\ at[i] \in J
        /\ \A i, j \in DOMAIN r : at[i] = at[j] => i = j
        /\ \A j \in J : \E i \in DOMAIN r : at[i] = j
  BY <1>1 DEF Picks
<1>4. \A i \in DOMAIN r : at[i] \in DOMAIN subs
  BY <1>3
<1>5. Apart(r)
  BY <1>2, <1>3, <1>4 DEF Apart
<1>6. Named(r, table)
  BY <1>2, <1>3, <1>4 DEF Named
<1>7. ASSUME NEW x \in Timer, Has(table, x), x.owner # OtherTimer
      PROVE  \E i \in DOMAIN r : x = TimerFor(r[i])
  <2>1. PICK j \in DOMAIN subs : x = TimerFor(subs[j])
    BY <1>2, <1>7 DEF Owned
  <2>2. Waits(subs[j])
    BY <1>2, <2>1, SubscriberIs
  <2>3. j \in J
    BY <1>1, <2>2 DEF NoneWaits
  <2>4. PICK i \in DOMAIN r : at[i] = j
    BY <1>3, <2>3
  <2>5. QED
    BY <1>3, <2>1, <2>4
<1>8. \A i \in DOMAIN r : Kept(r[i])
  BY <1>2, <1>3, <1>4
<1>9. Owned(r, table)
  BY <1>7 DEF Owned
<1>10. Agree(r, table)
  BY <1>2, <1>5, <1>6, <1>8, <1>9 DEF Agree
<1>11. PICK c : c = [turn EXCEPT !.subs = r]
  OBVIOUS
<1>12. TurnOK(c) /\ c.subs = r
  <2>1. PICK x \in BOOLEAN : x = turn.executing
    BY <1>2
  <2>2. c = [subs |-> r, table |-> table, executing |-> x]
    BY <1>2, <1>11, <2>1
  <2>3. QED
    BY <1>10, <2>2, MakeTurn DEF Made
<1>13. \A i \in DOMAIN r : \E j \in DOMAIN turn.subs : j \in J /\ r[i] = turn.subs[j]
  BY <1>1, <1>3, <1>4
<1>14. QED
  BY <1>11, <1>12, <1>13 DEF IsPicked

-----------------------------------------------------------------------------
(* The steps *)

(* A step that ends a turn. *)
LEMMA TurnKeeps ==
  ASSUME NEW t, TurnOK(t), EndTurn(t), live' \subseteq Sessions,
         keyEvent' \in KeyEvent \cup {NoEvent}, pressed' \subseteq Keys, repeating' \subseteq pressed',
         \A k \in DOMAIN t.subs : t.subs[k].sess \in live' /\ Holds(t.subs[k], keyEvent')
  PROVE  SubscriberInv'
<1>1. t = [subs |-> t.subs, table |-> t.table, executing |-> t.executing]
  BY TurnIs
<1>2. subscribers' = t.subs /\ timers' = t.table /\ hasEventExecuting' = t.executing
  BY DEF EndTurn
<1>3. Turn' = t
  BY <1>1, <1>2 DEF Turn
<1>4. TurnOK(Turn')
  BY <1>3
<1>5. \A k \in DOMAIN subscribers' : subscribers'[k].sess \in live' /\ Holds(subscribers'[k], keyEvent')
  BY <1>2
<1>6. QED
  BY <1>4, <1>5 DEF SubscriberInv

LEMMA InvIs ==
  ASSUME SubscriberInv
  PROVE  /\ TurnOK(Turn) /\ Turn.subs = subscribers /\ Turn.table = timers
         /\ Turn.executing = hasEventExecuting
         /\ live \subseteq Sessions /\ keyEvent \in KeyEvent \cup {NoEvent}
         /\ pressed \subseteq Keys /\ repeating \subseteq pressed
         /\ \A k \in DOMAIN subscribers : subscribers[k].sess \in live /\ Holds(subscribers[k], keyEvent)
BY DEF SubscriberInv, Turn

(* Nothing of the handler changes. *)
LEMMA IdleKeeps ==
  ASSUME SubscriberInv, UNCHANGED handlerVars, live \subseteq live', live' \subseteq Sessions,
         pressed' \subseteq Keys, repeating' \subseteq pressed'
  PROVE  SubscriberInv'
<1>1. /\ subscribers' = subscribers /\ hasEventExecuting' = hasEventExecuting
      /\ keyEvent' = keyEvent /\ timers' = timers
  BY DEF handlerVars
<1>2. EndTurn(Turn)
  BY <1>1, InvIs DEF EndTurn
<1>3. \A k \in DOMAIN Turn.subs : Turn.subs[k].sess \in live' /\ Holds(Turn.subs[k], keyEvent')
  BY <1>1, InvIs
<1>4. TurnOK(Turn) /\ keyEvent' \in KeyEvent \cup {NoEvent}
  BY <1>1, InvIs
<1>5. QED
  BY <1>2, <1>3, <1>4, TurnKeeps

LEMMA OnSubscribeKeyEventKeeps ==
  ASSUME SubscriberInv, NEW event \in KeyEvent, NEW quick \in BOOLEAN,
         OnSubscribeKeyEvent(event, quick),
         live' = live, pressed' \subseteq Keys, repeating' \subseteq pressed'
  PROVE  SubscriberInv'
<1>1. CASE IsRepeatedKeyEvent(event)
  <2>1. UNCHANGED handlerVars
    BY <1>1 DEF OnSubscribeKeyEvent
  <2>2. QED
    BY <2>1, InvIs, IdleKeeps
<1>2. CASE ~IsRepeatedKeyEvent(event)
  <2>1. PICK c : c = HandleKey(Turn, event, quick)
    OBVIOUS
  <2>2. keyEvent' = event /\ EndTurn(c)
    BY <1>2, <2>1 DEF OnSubscribeKeyEvent
  <2>3. TurnOK(Turn)
    BY InvIs
  <2>4. /\ TurnOK(c) /\ Same(Turn.subs, c.subs)
        /\ \A k \in DOMAIN Turn.subs : Holds(c.subs[k], event)
    BY <2>1, <2>3, HandleKeyKeeps
  <2>5. \A k \in DOMAIN c.subs : c.subs[k].sess \in live' /\ Holds(c.subs[k], keyEvent')
    BY <2>2, <2>4, InvIs DEF Same
  <2>6. live' \subseteq Sessions
    BY InvIs
  <2>7. QED
    BY <2>2, <2>4, <2>5, <2>6, TurnKeeps
<1>3. QED
  BY <1>1, <1>2

LEMMA KeyKeeps ==
  ASSUME SubscriberInv, NEW event \in KeyEvent, NEW quick \in BOOLEAN,
         Chain(event, quick) \/ CompletesSequence(event),
         live' = live, pressed' \subseteq Keys, repeating' \subseteq pressed'
  PROVE  SubscriberInv'
<1>1. CASE OnSubscribeKeyEvent(event, quick)
  BY <1>1, OnSubscribeKeyEventKeeps
<1>2. CASE UNCHANGED handlerVars
  BY <1>2, InvIs, IdleKeeps
<1>3. CASE CompletesSequence(event)
  <2>1. PICK keys \in SUBSET Keys : RemoveSubscriberKeyUpTimer(keys)
    BY <1>3 DEF CompletesSequence
  <2>2. keyEvent' = keyEvent
    BY <1>3 DEF CompletesSequence
  <2>3. PICK ks, c : c = ClearTimers(Turn, ks) /\ EndTurn(c)
    BY <2>1 DEF RemoveSubscriberKeyUpTimer
  <2>4. TurnOK(Turn)
    BY InvIs
  <2>5. /\ TurnOK(c) /\ Same(Turn.subs, c.subs)
        /\ \A k \in DOMAIN Turn.subs : c.subs[k] = Turn.subs[k] \/ ~Waits(c.subs[k])
    BY <2>3, <2>4, ClearTimersKeep
  <2>6. \A k \in DOMAIN c.subs : c.subs[k].sess \in live' /\ Holds(c.subs[k], keyEvent')
    BY <2>2, <2>5, InvIs DEF Same, Holds
  <2>7. live' \subseteq Sessions /\ keyEvent' \in KeyEvent \cup {NoEvent}
    BY <2>2, InvIs
  <2>8. QED
    BY <2>3, <2>5, <2>6, <2>7, TurnKeeps
<1>4. QED
  BY <1>1, <1>2, <1>3 DEF Chain

LEMMA TimerRunsKeeps ==
  ASSUME SubscriberInv, NEW i \in DOMAIN timers, TimerRuns(i)
  PROVE  SubscriberInv'
<1>1. /\ TurnOK(Turn) /\ Turn.subs = subscribers /\ Turn.table = timers
      /\ hasEventExecuting \in BOOLEAN
  BY InvIs, TurnIs
<1>2. /\ TableOK(timers) /\ Apart(subscribers) /\ Owned(subscribers, timers)
      /\ \A k \in DOMAIN subscribers : subscribers[k] \in Subscriber
  BY <1>1, TurnIs DEF TurnOK, Agree
<1>3. PICK t, rest : t = timers[i] /\ rest = RemoveAt(timers, i)
  OBVIOUS
<1>4. /\ t.owner # OtherTimer /\ timers' = rest
      /\ subscribers' \in IF SubscribersOf(t) = {} THEN {subscribers}
                          ELSE {OnTimer(k) : k \in SubscribersOf(t)}
      /\ live' = live /\ hasEventExecuting' = hasEventExecuting /\ keyEvent' = keyEvent
      /\ pressed' = pressed /\ repeating' = repeating
  BY <1>3 DEF TimerRuns
<1>5. /\ TableOK(rest) /\ Has(timers, t) /\ t \in Timer
      /\ \A x : Has(rest, x) <=> (Has(timers, x) /\ x # t)
  BY <1>2, <1>3, TableRemove
<1>6. PICK k \in DOMAIN subscribers : t = TimerFor(subscribers[k])
  BY <1>2, <1>4, <1>5 DEF Owned
<1>7. t.owner = KeyTimer(subscribers[k]) /\ Waits(subscribers[k])
  BY <1>2, <1>5, <1>6, SubscriberIs
<1>8. SubscribersOf(t) = {k}
  BY <1>2, <1>7 DEF SubscribersOf, Apart
<1>9. subscribers' = OnTimer(k)
  BY <1>4, <1>8
<1>10. PICK c : c = [subs |-> subscribers', table |-> rest, executing |-> hasEventExecuting]
  OBVIOUS
<1>11. TurnOK(c) /\ Changes(Turn, c, k) /\ ~Waits(c.subs[k])
  <2>1. subscribers' = [Turn.subs EXCEPT ![k].timerId = NoTimer, ![k].event = NoEvent]
    BY <1>1, <1>9 DEF OnTimer
  <2>2. k \in DOMAIN Turn.subs /\ Waits(Turn.subs[k])
    BY <1>1, <1>7
  <2>3. \A x : Has(rest, x) <=> (Has(Turn.table, x) /\ x # TimerFor(Turn.subs[k]))
    BY <1>1, <1>5, <1>6
  <2>4. QED
    BY <1>1, <1>5, <1>10, <2>1, <2>2, <2>3, ReleaseKeeps
<1>12. EndTurn(c) /\ c.subs = subscribers'
  BY <1>4, <1>10 DEF EndTurn
<1>13. \A j \in DOMAIN c.subs : c.subs[j].sess \in live' /\ Holds(c.subs[j], keyEvent')
  BY <1>1, <1>4, <1>11, InvIs DEF Changes, Same, Holds
<1>14. QED
  BY <1>4, <1>11, <1>12, <1>13, InvIs, TurnKeeps

(* The other users of the table. *)
LEMMA OtherKeeps ==
  ASSUME SubscriberInv, NEW rest, TableOK(rest), timers' = rest,
         \A x \in Timer : x.owner # OtherTimer => (Has(rest, x) <=> Has(timers, x)),
         UNCHANGED <<live, subscribers, hasEventExecuting, keyEvent, pressed, repeating>>
  PROVE  SubscriberInv'
<1>1. /\ TurnOK(Turn) /\ Turn.subs = subscribers /\ Turn.table = timers
      /\ Turn.executing = hasEventExecuting
  BY InvIs
<1>2. /\ subscribers \in Seq(Subscriber) /\ TableOK(timers) /\ hasEventExecuting \in BOOLEAN
      /\ Apart(subscribers) /\ Named(subscribers, timers) /\ Owned(subscribers, timers)
      /\ \A k \in DOMAIN subscribers : subscribers[k] \in Subscriber /\ Kept(subscribers[k])
  BY <1>1, TurnIs DEF TurnOK, Agree
<1>3. Named(subscribers, rest)
  <2>1. ASSUME NEW k \in DOMAIN subscribers, Waits(subscribers[k])
        PROVE  Has(rest, TimerFor(subscribers[k]))
    <3>1. Has(timers, TimerFor(subscribers[k]))
      BY <1>2, <2>1 DEF Named
    <3>2. TimerFor(subscribers[k]) \in Timer /\ TimerFor(subscribers[k]).owner # OtherTimer
      BY <1>2, <2>1, SubscriberIs
    <3>3. QED
      BY <3>1, <3>2
  <2>2. QED
    BY <2>1 DEF Named
<1>4. Owned(subscribers, rest)
  BY <1>2 DEF Owned
<1>5. PICK c : c = [subs |-> subscribers, table |-> rest, executing |-> hasEventExecuting]
  OBVIOUS
<1>6. TurnOK(c) /\ c.subs = subscribers /\ c.table = rest /\ c.executing = hasEventExecuting
  <2>1. Agree(subscribers, rest)
    BY <1>2, <1>3, <1>4 DEF Agree
  <2>2. QED
    BY <1>2, <1>5, <2>1, MakeTurn DEF Made
<1>7. EndTurn(c)
  BY <1>6 DEF EndTurn
<1>8. QED
  BY <1>6, <1>7, InvIs, TurnKeeps

LEMMA OtherAddsKeeps ==
  ASSUME SubscriberInv, OtherAdds
  PROVE  SubscriberInv'
<1>1. TableOK(timers)
  BY InvIs, TurnIs
<1>2. PICK e : e = [id |-> NewTimerId(timers), owner |-> OtherTimer]
  OBVIOUS
<1>3. /\ NewTimerId(timers) # NoTimer /\ timers' = Append(timers, e)
      /\ UNCHANGED <<live, subscribers, hasEventExecuting, keyEvent, pressed, repeating>>
  BY <1>2 DEF OtherAdds
<1>4. e \in Timer /\ e.id \notin UsedIds(timers) /\ e.owner = OtherTimer
  BY <1>2, <1>3, FreshTimerId DEF Timer, Owners
<1>5. /\ TableOK(Append(timers, e))
      /\ \A x : Has(Append(timers, e), x) <=> (Has(timers, x) \/ x = e)
  BY <1>1, <1>4, TableAppend
<1>6. \A x \in Timer : x.owner # OtherTimer => (Has(Append(timers, e), x) <=> Has(timers, x))
  BY <1>4, <1>5
<1>7. QED
  BY <1>3, <1>5, <1>6, OtherKeeps

LEMMA OtherEndsKeeps ==
  ASSUME SubscriberInv, NEW i \in DOMAIN timers, OtherEnds(i)
  PROVE  SubscriberInv'
<1>1. TableOK(timers)
  BY InvIs, TurnIs
<1>2. /\ timers[i].owner = OtherTimer /\ timers' = RemoveAt(timers, i)
      /\ UNCHANGED <<live, subscribers, hasEventExecuting, keyEvent, pressed, repeating>>
  BY DEF OtherEnds
<1>3. /\ TableOK(RemoveAt(timers, i))
      /\ \A x : Has(RemoveAt(timers, i), x) <=> (Has(timers, x) /\ x # timers[i])
  BY <1>1, TableRemove
<1>4. \A x \in Timer : x.owner # OtherTimer => (Has(RemoveAt(timers, i), x) <=> Has(timers, x))
  BY <1>2, <1>3
<1>5. QED
  BY <1>2, <1>3, <1>4, OtherKeeps

LEMMA SubscribeKeeps ==
  ASSUME SubscriberInv, NEW subscription \in Subscriptions, SubscribeKeyEvent(subscription)
  PROVE  SubscriberInv'
<1>1. /\ TurnOK(Turn) /\ Turn.subs = subscribers /\ Turn.table = timers
      /\ Turn.executing = hasEventExecuting
  BY InvIs
<1>2. /\ subscribers \in Seq(Subscriber) /\ TableOK(timers) /\ hasEventExecuting \in BOOLEAN
      /\ Apart(subscribers) /\ Named(subscribers, timers) /\ Owned(subscribers, timers)
      /\ \A k \in DOMAIN subscribers : subscribers[k] \in Subscriber /\ Kept(subscribers[k])
  BY <1>1, TurnIs DEF TurnOK, Agree
<1>3. PICK new, r :
        /\ new = [sess |-> subscription.sess, id |-> subscription.id,
                  option |-> subscription.option, timerId |-> NoTimer, event |-> NoEvent]
        /\ r = Append(subscribers, new)
  OBVIOUS
<1>4. /\ subscription.sess \in live /\ ~Registered(subscription) /\ subscribers' = r
      /\ live' = live /\ hasEventExecuting' = hasEventExecuting /\ keyEvent' = keyEvent
      /\ timers' = timers /\ pressed' = pressed /\ repeating' = repeating
  BY <1>3 DEF SubscribeKeyEvent, Inserts
<1>5. new \in Subscriber /\ new.sess \in live /\ ~Waits(new) /\ new.event = NoEvent
  <2>1. subscription \in [sess : Sessions, id : Nat, option : Option]
    BY SubscriberAssumption
  <2>2. subscription.sess \in Sessions /\ subscription.id \in Nat /\ subscription.option \in Option
    BY <2>1
  <2>3. new \in Subscriber
    BY <1>3, <2>2 DEF Subscriber
  <2>4. new.sess \in live /\ ~Waits(new) /\ new.event = NoEvent
    BY <1>3, <1>4 DEF Waits
  <2>5. QED
    BY <2>3, <2>4
<1>6. PICK n \in Nat : n = Len(subscribers) /\ DOMAIN subscribers = 1..n
  BY <1>2, SeqFacts
<1>7. /\ r \in Seq(Subscriber) /\ DOMAIN r = 1..n + 1
      /\ \A i \in DOMAIN subscribers : i \in DOMAIN r /\ r[i] = subscribers[i]
      /\ r[n + 1] = new
      /\ \A i \in DOMAIN r : i \in DOMAIN subscribers \/ i = n + 1
  BY <1>2, <1>3, <1>5, <1>6, AppendFacts
<1>8. Apart(r)
  <2>1. ASSUME NEW k \in DOMAIN subscribers PROVE KeyTimer(subscribers[k]) # KeyTimer(new)
    <3>1. new.sess = subscription.sess /\ new.id = subscription.id
      BY <1>3
    <3>2. ~(subscribers[k].sess = new.sess /\ subscribers[k].id = new.id)
      BY <1>4, <3>1 DEF Registered
    <3>3. KeyTimer(subscribers[k]) = KeyTimer(new) =>
            subscribers[k].sess = new.sess /\ subscribers[k].id = new.id
      BY DEF KeyTimer
    <3>4. QED
      BY <3>2, <3>3
  <2>2. QED
    BY <1>2, <1>7, <2>1 DEF Apart
<1>9. Named(r, timers)
  BY <1>2, <1>5, <1>7 DEF Named
<1>10. Owned(r, timers)
  <2>1. ASSUME NEW x \in Timer, Has(timers, x), x.owner # OtherTimer
        PROVE  \E k \in DOMAIN r : x = TimerFor(r[k])
    <3>1. PICK k \in DOMAIN subscribers : x = TimerFor(subscribers[k])
      BY <1>2, <2>1 DEF Owned
    <3>2. QED
      BY <1>7, <3>1
  <2>2. QED
    BY <2>1 DEF Owned
<1>11. \A k \in DOMAIN r : Kept(r[k])
  <2>1. Kept(new)
    BY <1>5 DEF Kept
  <2>2. QED
    BY <1>2, <1>7, <2>1
<1>12. PICK c : c = [subs |-> r, table |-> timers, executing |-> hasEventExecuting]
  OBVIOUS
<1>13. TurnOK(c) /\ c.subs = r /\ c.table = timers /\ c.executing = hasEventExecuting
  <2>1. Agree(r, timers)
    BY <1>2, <1>7, <1>8, <1>9, <1>10, <1>11 DEF Agree
  <2>2. QED
    BY <1>2, <1>12, <2>1, MakeTurn DEF Made
<1>14. EndTurn(c)
  BY <1>4, <1>13 DEF EndTurn
<1>15. \A k \in DOMAIN c.subs : c.subs[k].sess \in live' /\ Holds(c.subs[k], keyEvent')
  <2>1. Holds(new, keyEvent)
    BY <1>5 DEF Holds
  <2>2. \A k \in DOMAIN r : r[k].sess \in live /\ Holds(r[k], keyEvent)
    BY <1>5, <1>7, <2>1, InvIs
  <2>3. QED
    BY <1>4, <1>13, <2>2
<1>16. QED
  BY <1>4, <1>13, <1>14, <1>15, InvIs, TurnKeeps

LEMMA UnsubscribeKeeps ==
  ASSUME SubscriberInv, NEW k \in DOMAIN subscribers, UnsubscribeKeyEvent(k)
  PROVE  SubscriberInv'
<1>1. TurnOK(Turn) /\ Turn.subs = subscribers
  BY InvIs
<1>2. PICK c, r, d : c = ClearTimer(Turn, k) /\ r = RemoveAt(c.subs, k) /\ d = [c EXCEPT !.subs = r]
  OBVIOUS
<1>3. TurnOK(c) /\ Changes(Turn, c, k) /\ ~Waits(c.subs[k])
  BY <1>1, <1>2, ClearTimerKeeps
<1>4. k \in DOMAIN c.subs /\ c.subs \in Seq(Subscriber)
  BY <1>1, <1>3, TurnIs DEF Changes, Same
<1>5. r \in Seq(Subscriber) /\ Picks(r, c.subs, DOMAIN c.subs \ {k})
  BY <1>2, <1>4, RemoveAtPicks
<1>6. PICK J : J = DOMAIN c.subs \ {k}
  OBVIOUS
<1>7. \A j \in DOMAIN c.subs : j \notin J => ~Waits(c.subs[j])
  BY <1>3, <1>6
<1>8. /\ TurnOK(d) /\ d.subs = r
      /\ \A i \in DOMAIN r : \E j \in DOMAIN c.subs : j \in J /\ r[i] = c.subs[j]
  <2>1. NoneWaits(c.subs, J)
    BY <1>7 DEF NoneWaits
  <2>2. IsPicked([c EXCEPT !.subs = r], c, r, J)
    BY <1>3, <1>5, <1>6, <2>1, PickKeeps
  <2>3. QED
    BY <1>2, <2>2 DEF IsPicked
<1>9. EndTurn(d) /\ live' = live /\ keyEvent' = keyEvent /\ pressed' = pressed /\ repeating' = repeating
  BY <1>2 DEF UnsubscribeKeyEvent
<1>10. \A j \in DOMAIN c.subs : j \in J => c.subs[j] = subscribers[j] /\ j \in DOMAIN subscribers
  BY <1>1, <1>3, <1>6 DEF Changes, Same
<1>11. \A i \in DOMAIN d.subs : d.subs[i].sess \in live' /\ Holds(d.subs[i], keyEvent')
  BY <1>8, <1>9, <1>10, InvIs
<1>12. QED
  BY <1>8, <1>9, <1>11, InvIs, TurnKeeps

LEMMA SessionDeleteKeeps ==
  ASSUME SubscriberInv, NEW s \in Sessions, OnSessionDelete(s)
  PROVE  SubscriberInv'
<1>1. TurnOK(Turn) /\ Turn.subs = subscribers
  BY InvIs
<1>2. PICK ks, c, r, d :
        /\ ks = {k \in DOMAIN subscribers : subscribers[k].sess = s}
        /\ c = ClearTimers(Turn, ks) /\ r = OfOthers(c.subs, s) /\ d = [c EXCEPT !.subs = r]
  OBVIOUS
<1>3. /\ TurnOK(c) /\ Same(Turn.subs, c.subs)
      /\ \A k \in DOMAIN Turn.subs : k \in ks => ~Waits(c.subs[k])
      /\ \A k \in DOMAIN Turn.subs : c.subs[k] = Turn.subs[k] \/ ~Waits(c.subs[k])
  BY <1>1, <1>2, ClearTimersKeep
<1>4. c.subs \in Seq(Subscriber)
  BY <1>3, TurnIs
<1>5. PICK J : J = {k \in DOMAIN c.subs : c.subs[k].sess # s}
  OBVIOUS
<1>6. r \in Seq(Subscriber) /\ Picks(r, c.subs, J)
  BY <1>2, <1>4, <1>5, OfOthersPicks
<1>7. \A k \in DOMAIN c.subs : k \notin J => ~Waits(c.subs[k])
  BY <1>1, <1>2, <1>3, <1>5 DEF Same
<1>8. /\ TurnOK(d) /\ d.subs = r
      /\ \A i \in DOMAIN r : \E j \in DOMAIN c.subs : j \in J /\ r[i] = c.subs[j]
  <2>1. NoneWaits(c.subs, J)
    BY <1>7 DEF NoneWaits
  <2>2. IsPicked([c EXCEPT !.subs = r], c, r, J)
    BY <1>3, <1>6, <2>1, PickKeeps
  <2>3. QED
    BY <1>2, <2>2 DEF IsPicked
<1>9. /\ EndTurn(d) /\ live' = live \ {s}
      /\ keyEvent' = keyEvent /\ pressed' = pressed /\ repeating' = repeating
  BY <1>2 DEF OnSessionDelete, AfterSession
<1>10. \A j \in DOMAIN c.subs : j \in J => c.subs[j].sess \in live' /\ Holds(c.subs[j], keyEvent')
  BY <1>1, <1>3, <1>5, <1>9, InvIs DEF Same, Holds
<1>11. \A i \in DOMAIN d.subs : d.subs[i].sess \in live' /\ Holds(d.subs[i], keyEvent')
  BY <1>8, <1>10
<1>12. QED
  BY <1>8, <1>9, <1>11, InvIs, TurnKeeps

LEMMA SubscriberInvInit == Init => SubscriberInv
<1>1. SUFFICES ASSUME Init PROVE SubscriberInv
  OBVIOUS
<1>2. PICK none : none = <<>>
  OBVIOUS
<1>3. none \in Seq(Subscriber) /\ none \in Seq(Timer) /\ DOMAIN none = {}
  BY <1>2
<1>4. TableOK(none)
  BY <1>3 DEF TableOK, DistinctIds
<1>5. Apart(none) /\ Named(none, none) /\ \A k \in DOMAIN none : Kept(none[k])
  BY <1>3 DEF Apart, Named
<1>6. Owned(none, none)
  BY <1>3 DEF Owned, Has
<1>7. Turn = [subs |-> none, table |-> none, executing |-> FALSE]
  BY <1>1, <1>2 DEF Init, Turn
<1>8. TurnOK(Turn)
  <2>1. Agree(none, none)
    BY <1>3, <1>4, <1>5, <1>6 DEF Agree
  <2>2. QED
    BY <1>7, <2>1, MakeTurn DEF Made
<1>9. QED
  BY <1>1, <1>2, <1>3, <1>8 DEF Init, SubscriberInv

LEMMA SubscriberInvNext == SubscriberInv /\ [Next]_vars => SubscriberInv'
<1>1. SUFFICES ASSUME SubscriberInv, [Next]_vars PROVE SubscriberInv'
  OBVIOUS
<1>2. ASSUME NEW key \in Keys, KeyDown(key) PROVE SubscriberInv'
  <2>1. PICK event : event = [action |-> "down", key |-> key, pressed |-> pressed \cup {key}]
    OBVIOUS
  <2>2. /\ pressed' = pressed \cup {key} /\ repeating' = {key} /\ live' = live
        /\ Chain(event, FALSE) \/ CompletesSequence(event)
    BY <1>2, <2>1 DEF KeyDown
  <2>3. event \in KeyEvent /\ pressed' \subseteq Keys /\ repeating' \subseteq pressed'
    BY <1>1, <2>1, <2>2, InvIs DEF KeyEvent
  <2>4. QED
    BY <1>1, <2>2, <2>3, KeyKeeps
<1>3. ASSUME NEW key \in Keys, NEW quick \in BOOLEAN, KeyUp(key, quick) PROVE SubscriberInv'
  <2>1. PICK event : event = [action |-> "up", key |-> key, pressed |-> pressed \ {key}]
    OBVIOUS
  <2>2. /\ pressed' = pressed \ {key} /\ repeating' = repeating \ {key} /\ live' = live
        /\ Chain(event, quick) \/ CompletesSequence(event)
    BY <1>3, <2>1 DEF KeyUp
  <2>3. event \in KeyEvent /\ pressed' \subseteq Keys /\ repeating' \subseteq pressed'
    BY <1>1, <2>1, <2>2, InvIs DEF KeyEvent
  <2>4. QED
    BY <1>1, <2>2, <2>3, KeyKeeps
<1>4. ASSUME NEW key \in Keys, KeyRepeats(key) PROVE SubscriberInv'
  <2>1. PICK event : event = [action |-> "down", key |-> key, pressed |-> pressed]
    OBVIOUS
  <2>2. pressed' = pressed /\ repeating' = repeating /\ live' = live /\ Chain(event, FALSE)
    BY <1>4, <2>1 DEF KeyRepeats
  <2>3. event \in KeyEvent /\ pressed' \subseteq Keys /\ repeating' \subseteq pressed'
    BY <1>1, <2>1, <2>2, InvIs DEF KeyEvent
  <2>4. QED
    BY <1>1, <2>2, <2>3, KeyKeeps
<1>5. ASSUME NEW event \in KeyEvent, NEW quick \in BOOLEAN, InjectKeyEvent(event, quick)
      PROVE  SubscriberInv'
  <2>1. /\ OnSubscribeKeyEvent(event, quick)
        /\ live' = live /\ pressed' = pressed /\ repeating' = repeating
    BY <1>5 DEF InjectKeyEvent
  <2>2. pressed' \subseteq Keys /\ repeating' \subseteq pressed'
    BY <1>1, <2>1, InvIs
  <2>3. QED
    BY <1>1, <2>1, <2>2, OnSubscribeKeyEventKeeps
<1>6. ASSUME NEW i \in DOMAIN timers, TimerRuns(i) PROVE SubscriberInv'
  BY <1>1, <1>6, TimerRunsKeeps
<1>7. ASSUME NEW i \in DOMAIN timers, OtherEnds(i) PROVE SubscriberInv'
  BY <1>1, <1>7, OtherEndsKeeps
<1>8. ASSUME OtherAdds PROVE SubscriberInv'
  BY <1>1, <1>8, OtherAddsKeeps
<1>9. ASSUME NEW s \in Sessions, Connect(s) PROVE SubscriberInv'
  <2>1. /\ UNCHANGED handlerVars /\ live' = live \cup {s}
        /\ pressed' = pressed /\ repeating' = repeating
    BY <1>9 DEF Connect
  <2>2. live' \subseteq Sessions /\ live \subseteq live' /\ pressed' \subseteq Keys /\ repeating' \subseteq pressed'
    BY <1>1, <2>1, InvIs
  <2>3. QED
    BY <1>1, <2>1, <2>2, IdleKeeps
<1>10. ASSUME NEW s \in Sessions, OnSessionDelete(s) PROVE SubscriberInv'
  BY <1>1, <1>10, SessionDeleteKeeps
<1>11. ASSUME NEW subscription \in Subscriptions, SubscribeKeyEvent(subscription) PROVE SubscriberInv'
  BY <1>1, <1>11, SubscribeKeeps
<1>12. ASSUME NEW k \in DOMAIN subscribers, UnsubscribeKeyEvent(k) PROVE SubscriberInv'
  BY <1>1, <1>12, UnsubscribeKeeps
<1>13. ASSUME UNCHANGED vars PROVE SubscriberInv'
  <2>1. /\ UNCHANGED handlerVars /\ live' = live /\ pressed' = pressed /\ repeating' = repeating
    BY <1>13 DEF vars, handlerVars
  <2>2. QED
    BY <1>1, <2>1, InvIs, IdleKeeps
<1>14. QED
  BY <1>1, <1>2, <1>3, <1>4, <1>5, <1>6, <1>7, <1>8, <1>9, <1>10, <1>11, <1>12, <1>13 DEF Next

-----------------------------------------------------------------------------

(* In every state of the handler, SubscriberInv holds. *)
THEOREM SubscriberInvHolds == Spec => []SubscriberInv
<1>1. Init => SubscriberInv
  BY SubscriberInvInit
<1>2. SubscriberInv /\ [Next]_vars => SubscriberInv'
  BY SubscriberInvNext
<1>3. QED
  BY <1>1, <1>2, PTL DEF Spec

(* No subscription is registered twice and none outlives its session. *)
THEOREM SubscribersAreTyped == Spec => []TypeOK
<1>1. SubscriberInv => TypeOK
  <2>1. SUFFICES ASSUME SubscriberInv PROVE TypeOK
    OBVIOUS
  <2>2. /\ TurnOK(Turn) /\ Turn.subs = subscribers /\ Turn.table = timers
        /\ hasEventExecuting \in BOOLEAN
    BY <2>1, InvIs, TurnIs
  <2>3. /\ Apart(subscribers) /\ TableOK(timers)
        /\ \A k \in DOMAIN subscribers : subscribers[k] \in Subscriber
    BY <2>2, TurnIs DEF TurnOK, Agree
  <2>4. \A i \in DOMAIN timers : timers[i].id \in TimerId
    <3>1. \A i \in DOMAIN timers : timers[i] \in Timer
      BY <2>3, SeqFacts DEF TableOK
    <3>2. QED
      BY <3>1 DEF Timer
  <2>5. \A k \in DOMAIN subscribers :
          /\ subscribers[k].sess \in live
          /\ subscribers[k].option \in Option
          /\ subscribers[k].timerId \in TimerId \cup {NoTimer}
          /\ subscribers[k].event \in KeyEvent \cup {NoEvent}
    BY <2>1, <2>3, SubscriberIs, InvIs
  <2>6. QED
    BY <2>1, <2>2, <2>3, <2>4, <2>5, InvIs DEF TypeOK, Apart
<1>2. QED
  BY <1>1, SubscriberInvHolds, PTL

(* ClearTimer removes no other user's timer, since the ids that subscribers
   hold name their own timers, and no timer outlives its subscription. *)
THEOREM TimersAreSubscribers == Spec => []TimersMatchSubscribers
<1>1. SubscriberInv => TimersMatchSubscribers
  <2>1. SUFFICES ASSUME SubscriberInv PROVE TimersMatchSubscribers
    OBVIOUS
  <2>2. TurnOK(Turn) /\ Turn.subs = subscribers /\ Turn.table = timers
    BY <2>1, InvIs
  <2>3. /\ TableOK(timers) /\ Named(subscribers, timers) /\ Owned(subscribers, timers)
        /\ \A k \in DOMAIN subscribers : subscribers[k] \in Subscriber
    BY <2>2, TurnIs DEF TurnOK, Agree
  <2>4. ASSUME NEW k \in DOMAIN subscribers, subscribers[k].timerId # NoTimer
        PROVE  \E i \in DOMAIN timers : /\ timers[i].id = subscribers[k].timerId
                                        /\ timers[i].owner = KeyTimer(subscribers[k])
    <3>1. PICK i \in DOMAIN timers : timers[i] = TimerFor(subscribers[k])
      BY <2>3, <2>4 DEF Named, Waits, Has
    <3>2. QED
      BY <3>1 DEF TimerFor
  <2>5. ASSUME NEW i \in DOMAIN timers, timers[i].owner # OtherTimer
        PROVE  \E k \in SubscribersOf(timers[i]) : subscribers[k].timerId = timers[i].id
    <3>1. timers[i] \in Timer /\ Has(timers, timers[i])
      BY <2>3, HasTimer DEF Has
    <3>2. PICK k \in DOMAIN subscribers : timers[i] = TimerFor(subscribers[k])
      BY <2>3, <2>5, <3>1 DEF Owned
    <3>3. KeyTimer(subscribers[k]) = timers[i].owner /\ subscribers[k].timerId = timers[i].id
      BY <3>2 DEF TimerFor
    <3>4. QED
      BY <3>3 DEF SubscribersOf
  <2>6. DistinctIds(timers)
    BY <2>3 DEF TableOK
  <2>7. QED
    BY <2>4, <2>5, <2>6 DEF TimersMatchSubscribers
<1>2. QED
  BY <1>1, SubscriberInvHolds, PTL

(* A subscription waits with the event it has matched, and one that waits for
   a key to be held is matched by the last event of the handler, too. *)
THEOREM WaitersAreHeld == Spec => []WaitsWhileHeld
<1>1. SubscriberInv => WaitsWhileHeld
  <2>1. SUFFICES ASSUME SubscriberInv PROVE WaitsWhileHeld
    OBVIOUS
  <2>2. \A k \in DOMAIN subscribers : Kept(subscribers[k])
    BY <2>1, InvIs, TurnIs
  <2>3. \A k \in DOMAIN subscribers : Holds(subscribers[k], keyEvent)
    BY <2>1, InvIs
  <2>4. PendingEventMatches
    BY <2>2 DEF PendingEventMatches, Kept, Waits
  <2>5. QED
    BY <2>3, <2>4 DEF WaitsWhileHeld, Holds, Waits
<1>2. QED
  BY <1>1, SubscriberInvHolds, PTL

=============================================================================
