-------------------------- MODULE EventTimersProofs --------------------------
(***************************************************************************)
(* Theorems about EventTimers for any applications, any number of timers,  *)
(* of watched events and of event ids: the counter of ANR timers, the      *)
(* lists of events and the table of timers stay in step.                   *)
(***************************************************************************)
EXTENDS EventTimers, FiniteSetTheorems, SequenceTheorems, WellFoundedInduction, TLAPS

(* A table of timers is a set of timers, told apart by their ids. *)
Timer == [id : TimerId, owner : Owners]
TimerOf(id, s, t) == [id |-> id, owner |-> AnrTimer(s, t)]
RepeatTimer(id) == [id |-> id, owner |-> [kind |-> "repeat"]]

Has(table, timer) == \E i \in DOMAIN table : table[i] = timer
TableOK(table) == table \in Seq(Timer) /\ DistinctIds(table)

(* The types again, as far as a proof needs them to look into sequences. *)
KeyOK ==
  /\ timerId \in TimerId \cup {NoTimer}
  /\ keyEventId \in EventId \cup {0}
  /\ timerId # NoTimer => keyEventId \in EventId
  /\ stale \in BOOLEAN /\ strayed \in BOOLEAN

AnrOK ==
  /\ live \subseteq Process
  /\ events \in [App -> [AnrType -> Seq(Entry)]]
  /\ unprocessed \in [App -> [AnrType -> Seq(EventId)]]
  /\ isAnrProcess \in [App -> [AnrType -> BOOLEAN]]
  /\ anrTimerCount \in 0..MaxAnrTimers
  /\ anrNoticedPid \in Process \cup {NoPid}
  /\ unreliable \subseteq App
  /\ unsent \in BOOLEAN

-----------------------------------------------------------------------------
(* The events that name a timer, over all sessions. *)
WatchedIn(ev) == UNION {{s} \X {t} \X Watched(ev[s][t]) : s \in App, t \in AnrType}

CountOK == IsFiniteSet(WatchedIn(events)) /\ anrTimerCount = Cardinality(WatchedIn(events))

(* An event of the list that the application has still to mark, and whose id
   is as large as all those in the list up to the k-th. *)
Covers(entries, ids, k, j, n) ==
  /\ j \in 1..k /\ n \in DOMAIN ids /\ entries[j].id = ids[n]
  /\ \A i \in 1..k : entries[i].id <= ids[n]

(* Every event will be removed by a mark that the application has still to
   make, that of the event itself or of one before it. *)
Covered(entries, ids) == \A k \in DOMAIN entries : \E j, n : Covers(entries, ids, k, j, n)

MarksRemoveEvents ==
  \A s \in App \ unreliable, t \in AnrType : Covered(events[s][t], unprocessed[s][t])

AnrPart == AnrOK /\ CountOK /\ MarksRemoveEvents

(* What a table has to do with the lists ev of the processes lv. *)
Watch(table, lv, ev) ==
  \A s \in App, t \in AnrType, id \in TimerId :
    Has(table, TimerOf(id, s, t)) => s \in lv /\ id \in TimersOf(ev[s][t])

(* A timer that a list names is in the table, and it is the list's own; no two
   events of a list name the same. *)
NamedOnce(entries) ==
  \A j, k \in DOMAIN entries :
    entries[j].timer = entries[k].timer /\ entries[j].timer # NoTimer => j = k

Names(table, ev) ==
  \A s \in App, t \in AnrType :
    /\ \A id \in TimersOf(ev[s][t]) : Has(table, TimerOf(id, s, t))
    /\ NamedOnce(ev[s][t])

(* A repetition's timer is the one that timerId_ names, and timerId_ names
   one, or none. *)
RepeatIs(table, id) == \A i \in TimerId : Has(table, RepeatTimer(i)) => i = id
RepeatNamed(table, id) == id # NoTimer => Has(table, RepeatTimer(id))

(* The id in timerId_, unless RemoveTimer left it there. *)
OwnTimer == IF stale THEN NoTimer ELSE timerId

(* An id may name a timer that is not its holder's: the callback of an ANR
   timer has returned early, or a key removed another user's timer. *)
Lax == unsent \/ strayed

TimersInv ==
  /\ TableOK(timers) /\ KeyOK /\ nextEventId \in 1..(MaxEvents + 1) /\ AnrPart
  /\ Watch(timers, live, events) /\ RepeatIs(timers, timerId)
  /\ Lax \/ (Names(timers, events) /\ RepeatNamed(timers, OwnTimer))

-----------------------------------------------------------------------------
(* Induction up to a number, with the set of the numbers it is done for. *)

LEMMA Least ==
  ASSUME NEW n \in Nat, NEW T, T \subseteq 1..n, T # {}
  PROVE  \E k \in T : \A j \in T : k <= j
<1> DEFINE R == StrictSubsetOrdering(Nat)
           I == {1..k : k \in T}
<1>1. IsWellFoundedOn(R, FiniteSubsetsOf(Nat))
  BY FS_StrictSubsetOrderingWellFounded
<1>2. \A k \in T : k \in Nat /\ 1 <= k
  OBVIOUS
<1>3. ASSUME NEW k \in T PROVE 1..k \in FiniteSubsetsOf(Nat)
  BY <1>2, FS_Interval DEF FiniteSubsetsOf
<1>4. I \subseteq FiniteSubsetsOf(Nat) /\ I # {}
  BY <1>3
<1> HIDE DEF R, I
<1>5. PICK x \in I : \A y \in I : ~(<<y, x>> \in R)
  BY <1>1, <1>4, WFMin
<1> USE DEF I
<1>6. PICK k \in T : x = 1..k
  OBVIOUS
<1>7. ASSUME NEW j \in T, ~(k <= j) PROVE FALSE
  <2>1. /\ 1..j \in I /\ 1..j \subseteq 1..k /\ 1..j # 1..k
        /\ 1..j \in SUBSET Nat /\ 1..k \in SUBSET Nat
    BY <1>2, <1>7
  <2>2. <<1..j, 1..k>> \in R
    BY <2>1 DEF R, StrictSubsetOrdering
  <2>3. QED
    BY <1>5, <1>6, <2>1, <2>2
<1>8. QED
  BY <1>7

LEMMA UpTo ==
  ASSUME NEW n \in Nat, NEW G, 0 \in G, \A k \in 1..n : k - 1 \in G => k \in G
  PROVE  \A k \in 0..n : k \in G
<1>1. SUFFICES ASSUME NEW k \in 1..n, k \notin G PROVE FALSE
  OBVIOUS
<1>2. PICK T : T = {j \in 1..n : j \notin G}
  OBVIOUS
<1>3. PICK j \in T : \A i \in T : j <= i
  BY <1>1, <1>2, Least
<1>4. j \in 1..n /\ j \notin G
  BY <1>2
<1>5. j - 1 \in G
  <2>1. j - 1 = 0 \/ j - 1 \in 1..n
    BY <1>4
  <2>2. j - 1 \notin T
    BY <1>3, <1>4
  <2>3. QED
    BY <1>2, <2>1, <2>2
<1>6. QED
  BY <1>4, <1>5

-----------------------------------------------------------------------------
(* What is left of a sequence *)

LEMMA SeqFacts ==
  ASSUME NEW S, NEW s \in Seq(S)
  PROVE  /\ Len(s) \in Nat /\ DOMAIN s = 1..Len(s) /\ (s = <<>> <=> Len(s) = 0)
         /\ \A i \in DOMAIN s : i \in Nat /\ 1 <= i /\ i <= Len(s) /\ s[i] \in S
BY LenProperties, EmptySeq, ElementOfSeq

LEMMA AppendFacts ==
  ASSUME NEW S, NEW s \in Seq(S), NEW e \in S
  PROVE  /\ Append(s, e) \in Seq(S) /\ Len(Append(s, e)) = Len(s) + 1
         /\ DOMAIN Append(s, e) = 1..Len(s) + 1
         /\ \A i \in DOMAIN s : i \in DOMAIN Append(s, e) /\ Append(s, e)[i] = s[i]
         /\ Append(s, e)[Len(s) + 1] = e
         /\ \A i \in DOMAIN Append(s, e) : i \in DOMAIN s \/ i = Len(s) + 1
<1>1. /\ Append(s, e) \in Seq(S) /\ Len(Append(s, e)) = Len(s) + 1
      /\ \A i \in 1..Len(s) : Append(s, e)[i] = s[i]
      /\ Append(s, e)[Len(s) + 1] = e
  BY AppendProperties
<1>2. Len(s) \in Nat /\ DOMAIN s = 1..Len(s) /\ DOMAIN Append(s, e) = 1..Len(Append(s, e))
  BY <1>1, LenProperties
<1>3. QED
  BY <1>1, <1>2

(* The function that Without is defined with exists. *)
WithoutUpTo(left, s, ids, n) ==
  left = [k \in 0..n |->
            IF k = 0 THEN <<>>
            ELSE IF s[k].id \in ids THEN left[k - 1]
            ELSE Append(left[k - 1], s[k])]

LEMMA WithoutExists ==
  ASSUME NEW S, NEW s \in Seq(S), NEW ids
  PROVE  \E left : WithoutUpTo(left, s, ids, Len(s)) /\ Without(s, ids) = left[Len(s)]
<1>1. PICK n \in Nat : n = Len(s)
  BY SeqFacts
<1>2. PICK G : G = {m \in 0..n : \E f : WithoutUpTo(f, s, ids, m)}
  OBVIOUS
<1>3. 0 \in G
  <2>1. WithoutUpTo([k \in 0..0 |-> <<>>], s, ids, 0)
    BY DEF WithoutUpTo
  <2>2. QED
    BY <1>2, <2>1
<1>4. ASSUME NEW m \in 1..n, m - 1 \in G PROVE m \in G
  <2>1. PICK f : WithoutUpTo(f, s, ids, m - 1)
    BY <1>2, <1>4
  <2>2. PICK g : g = [k \in 0..m |->
                        IF k = m THEN IF s[m].id \in ids THEN f[m - 1] ELSE Append(f[m - 1], s[m])
                        ELSE f[k]]
    OBVIOUS
  <2>3. ASSUME NEW k \in 0..m
        PROVE  g[k] = IF k = 0 THEN <<>>
                      ELSE IF s[k].id \in ids THEN g[k - 1]
                      ELSE Append(g[k - 1], s[k])
    <3>1. CASE k = m
      <4>1. m - 1 \in 0..m /\ m - 1 # m /\ m # 0
        OBVIOUS
      <4>2. g[m - 1] = f[m - 1]
        BY <2>2, <4>1
      <4>3. QED
        BY <2>2, <3>1, <4>1, <4>2
    <3>2. CASE k # m /\ k # 0
      <4>1. k \in 0..m - 1 /\ k - 1 \in 0..m /\ k - 1 # m
        BY <3>2
      <4>2. g[k] = f[k] /\ g[k - 1] = f[k - 1]
        BY <2>2, <3>2, <4>1
      <4>3. f[k] = IF s[k].id \in ids THEN f[k - 1] ELSE Append(f[k - 1], s[k])
        BY <2>1, <3>2, <4>1 DEF WithoutUpTo
      <4>4. QED
        BY <3>2, <4>2, <4>3
    <3>3. CASE k # m /\ k = 0
      <4>1. 0 \in 0..m - 1
        OBVIOUS
      <4>2. f[0] = <<>>
        BY <2>1, <4>1 DEF WithoutUpTo
      <4>3. QED
        BY <2>2, <3>3, <4>2
    <3>4. QED
      BY <3>1, <3>2, <3>3
  <2>4. WithoutUpTo(g, s, ids, m)
    BY <2>2, <2>3 DEF WithoutUpTo
  <2>5. QED
    BY <1>2, <2>4
<1>5. n \in G
  <2>1. \A m \in 1..n : m - 1 \in G => m \in G
    BY <1>4
  <2>2. \A m \in 0..n : m \in G
    BY <1>3, <2>1, UpTo
  <2>3. QED
    BY <2>2
<1>6. PICK f : WithoutUpTo(f, s, ids, n)
  BY <1>2, <1>5
<1> DEFINE left == CHOOSE g : WithoutUpTo(g, s, ids, n)
<1>7. WithoutUpTo(left, s, ids, n)
  BY <1>6
<1>8. Without(s, ids) = left[n]
  BY <1>1 DEF Without, WithoutUpTo
<1>9. QED
  BY <1>1, <1>7, <1>8

(* What a table, or a list of ids, holds after some are taken out. *)
LEMMA WithoutElements ==
  ASSUME NEW S, NEW s \in Seq(S), NEW ids
  PROVE  LET w == Without(s, ids) IN
         /\ w \in Seq(S)
         /\ \A i \in DOMAIN w : \E j \in DOMAIN s : w[i] = s[j] /\ s[j].id \notin ids
         /\ \A j \in DOMAIN s : s[j].id \notin ids => \E i \in DOMAIN w : w[i] = s[j]
         /\ DistinctIds(s) => DistinctIds(w)
<1>1. PICK n \in Nat : n = Len(s)
  BY SeqFacts
<1>2. PICK left : WithoutUpTo(left, s, ids, n) /\ Without(s, ids) = left[n]
  BY <1>1, WithoutExists
<1>3. DOMAIN s = 1..n /\ \A j \in 1..n : s[j] \in S
  BY <1>1, SeqFacts
<1> DEFINE Good(m) ==
      /\ left[m] \in Seq(S)
      /\ \A i \in DOMAIN left[m] : \E j \in 1..m : left[m][i] = s[j] /\ s[j].id \notin ids
      /\ \A j \in 1..m : s[j].id \notin ids => \E i \in DOMAIN left[m] : left[m][i] = s[j]
      /\ DistinctIds(s) => DistinctIds(left[m])
<1>4. PICK G : G = {m \in 0..n : Good(m)}
  OBVIOUS
<1>5. 0 \in G
  <2>1. left[0] = <<>>
    BY <1>1, <1>2 DEF WithoutUpTo
  <2>2. <<>> \in Seq(S) /\ DOMAIN <<>> = {}
    OBVIOUS
  <2>3. Good(0)
    BY <2>1, <2>2 DEF DistinctIds
  <2>4. QED
    BY <1>1, <1>4, <2>3
<1>6. ASSUME NEW m \in 1..n, m - 1 \in G PROVE m \in G
  <2>1. Good(m - 1) /\ m \in 0..n /\ m # 0 /\ m \in 1..m
    BY <1>1, <1>4, <1>6
  <2>2. left[m] = IF s[m].id \in ids THEN left[m - 1] ELSE Append(left[m - 1], s[m])
    BY <1>2, <2>1 DEF WithoutUpTo
  <2>3. PICK l, k : l = left[m - 1] /\ k = left[m]
    OBVIOUS
  <2>4. /\ l \in Seq(S)
        /\ \A i \in DOMAIN l : \E j \in 1..m - 1 : l[i] = s[j] /\ s[j].id \notin ids
        /\ \A j \in 1..m - 1 : s[j].id \notin ids => \E i \in DOMAIN l : l[i] = s[j]
        /\ DistinctIds(s) => DistinctIds(l)
    BY <2>1, <2>3
  <2>5. \A j \in 1..m : j # m => j \in 1..m - 1
    BY <1>1
  <2>6. \A j \in 1..m - 1 : j \in 1..m /\ j # m /\ j \in DOMAIN s
    BY <1>1, <1>3
  <2>7. m \in DOMAIN s
    BY <1>3
  <2>8. CASE s[m].id \in ids
    <3>1. k = l
      BY <2>2, <2>3, <2>8
    <3>2. Good(m)
      BY <2>3, <2>4, <2>5, <2>6, <2>8, <3>1
    <3>3. QED
      BY <1>4, <2>1, <3>2
  <2>9. CASE s[m].id \notin ids
    <3>1. /\ k \in Seq(S)
          /\ \A i \in DOMAIN l : i \in DOMAIN k /\ k[i] = l[i]
          /\ Len(l) + 1 \in DOMAIN k /\ k[Len(l) + 1] = s[m]
          /\ \A i \in DOMAIN k : i \in DOMAIN l \/ i = Len(l) + 1
      <4>1. s[m] \in S /\ k = Append(l, s[m]) /\ Len(l) \in Nat
        BY <1>3, <2>2, <2>3, <2>4, <2>9, SeqFacts
      <4>2. DOMAIN k = 1..Len(l) + 1 /\ Len(l) + 1 \in 1..Len(l) + 1
        BY <2>4, <4>1, AppendFacts
      <4>3. QED
        BY <2>4, <4>1, <4>2, AppendFacts
    <3>2. ASSUME NEW i \in DOMAIN k PROVE \E j \in 1..m : k[i] = s[j] /\ s[j].id \notin ids
      <4>1. CASE i \in DOMAIN l
        BY <2>4, <2>6, <3>1, <4>1
      <4>2. CASE i = Len(l) + 1
        BY <2>1, <2>9, <3>1, <4>2
      <4>3. QED
        BY <3>1, <4>1, <4>2
    <3>3. ASSUME NEW j \in 1..m, s[j].id \notin ids PROVE \E i \in DOMAIN k : k[i] = s[j]
      <4>1. CASE j = m
        BY <3>1, <4>1
      <4>2. CASE j # m
        BY <2>4, <2>5, <3>1, <3>3, <4>2
      <4>3. QED
        BY <4>1, <4>2
    <3>4. ASSUME DistinctIds(s) PROVE DistinctIds(k)
      <4>1. \A i \in DOMAIN l : l[i].id # s[m].id
        BY <2>4, <2>6, <2>7, <3>4 DEF DistinctIds
      <4>2. \A i, j \in DOMAIN l : i # j => l[i].id # l[j].id
        BY <2>4, <3>4 DEF DistinctIds
      <4>3. QED
        BY <3>1, <4>1, <4>2 DEF DistinctIds
    <3>5. Good(m)
      BY <2>3, <3>1, <3>2, <3>3, <3>4
    <3>6. QED
      BY <1>4, <2>1, <3>5
  <2>10. QED
    BY <2>8, <2>9
<1>7. n \in G
  <2>1. \A m \in 1..n : m - 1 \in G => m \in G
    BY <1>6
  <2>2. \A m \in 0..n : m \in G
    BY <1>5, <2>1, UpTo
  <2>3. QED
    BY <2>2
<1>8. Good(n)
  BY <1>4, <1>7
<1>9. PICK w : w = left[n]
  OBVIOUS
<1>10. /\ w \in Seq(S)
       /\ \A i \in DOMAIN w : \E j \in DOMAIN s : w[i] = s[j] /\ s[j].id \notin ids
       /\ \A j \in DOMAIN s : s[j].id \notin ids => \E i \in DOMAIN w : w[i] = s[j]
       /\ DistinctIds(s) => DistinctIds(w)
  BY <1>3, <1>8, <1>9
<1>11. QED
  BY <1>2, <1>9, <1>10

LEMMA RemoveAtElements ==
  ASSUME NEW S, NEW s \in Seq(S), NEW k \in DOMAIN s
  PROVE  LET r == RemoveAt(s, k) IN
         /\ r \in Seq(S)
         /\ \A i \in DOMAIN r : \E j \in DOMAIN s : j # k /\ r[i] = s[j]
         /\ \A j \in DOMAIN s : j # k => \E i \in DOMAIN r : r[i] = s[j]
         /\ DistinctIds(s) => DistinctIds(r)
<1>1. /\ Len(s) \in Nat /\ DOMAIN s = 1..Len(s) /\ k \in Nat /\ 1 <= k /\ k <= Len(s)
      /\ \A i \in 1..Len(s) : s[i] \in S
  BY SeqFacts
<1>2. PICK a, b : a = SubSeq(s, 1, k - 1) /\ b = SubSeq(s, k + 1, Len(s))
  OBVIOUS
<1>3. a \in Seq(S) /\ Len(a) = k - 1 /\ \A i \in 1..k - 1 : a[i] = s[i]
  <2>1. \A i \in 1..k - 1 : s[i] \in S
    BY <1>1
  <2>2. k - 1 \in Int /\ 1 \in Int
    BY <1>1
  <2>3. /\ a \in Seq(S) /\ Len(a) = IF 1 <= k - 1 THEN (k - 1) - 1 + 1 ELSE 0
        /\ \A i \in 1..(k - 1) - 1 + 1 : a[i] = s[1 + i - 1]
    BY <1>2, <2>1, <2>2, SubSeqProperties
  <2>4. QED
    BY <1>1, <2>3
<1>4. b \in Seq(S) /\ Len(b) = Len(s) - k /\ \A i \in 1..Len(s) - k : b[i] = s[k + i]
  <2>1. \A i \in k + 1..Len(s) : s[i] \in S
    BY <1>1
  <2>2. k + 1 \in Int /\ Len(s) \in Int
    BY <1>1
  <2>3. /\ b \in Seq(S) /\ Len(b) = IF k + 1 <= Len(s) THEN Len(s) - (k + 1) + 1 ELSE 0
        /\ \A i \in 1..Len(s) - (k + 1) + 1 : b[i] = s[(k + 1) + i - 1]
    BY <1>2, <2>1, <2>2, SubSeqProperties
  <2>4. Len(b) = Len(s) - k
    <3>1. Len(s) \in Nat /\ k \in Nat /\ k <= Len(s) /\ Len(b) = IF k + 1 <= Len(s) THEN Len(s) - (k + 1) + 1 ELSE 0
      BY <1>1, <2>3
    <3>2. CASE k + 1 <= Len(s)
      BY <3>1, <3>2
    <3>3. CASE ~(k + 1 <= Len(s))
      <4>1. k = Len(s) /\ Len(b) = 0
        BY <3>1, <3>3
      <4>2. QED
        BY <3>1, <4>1
    <3>4. QED
      BY <3>2, <3>3
  <2>5. ASSUME NEW i \in 1..Len(s) - k PROVE b[i] = s[k + i]
    <3>1. i \in 1..Len(s) - (k + 1) + 1 /\ (k + 1) + i - 1 = k + i
      BY <1>1
    <3>2. QED
      BY <2>3, <3>1
  <2>6. QED
    BY <2>3, <2>4, <2>5
<1>5. PICK r : r = RemoveAt(s, k)
  OBVIOUS
<1>6. /\ r \in Seq(S) /\ DOMAIN r = 1..Len(s) - 1
      /\ \A i \in 1..Len(s) - 1 : r[i] = IF i < k THEN s[i] ELSE s[i + 1]
  <2>1. /\ r \in Seq(S) /\ Len(r) = Len(a) + Len(b)
        /\ \A i \in 1..Len(a) + Len(b) : r[i] = IF i <= Len(a) THEN a[i] ELSE b[i - Len(a)]
    <3>1. a \in Seq(S) /\ b \in Seq(S)
      BY <1>3, <1>4
    <3>2. r = a \o b
      BY <1>2, <1>5 DEF RemoveAt
    <3>3. QED
      BY <3>1, <3>2, ConcatProperties
  <2>2. Len(a) + Len(b) = Len(s) - 1 /\ Len(r) = Len(s) - 1
    BY <1>1, <1>3, <1>4, <2>1
  <2>3. DOMAIN r = 1..Len(s) - 1
    BY <2>1, <2>2, LenProperties
  <2>4. ASSUME NEW i \in 1..Len(s) - 1 PROVE r[i] = IF i < k THEN s[i] ELSE s[i + 1]
    <3>1. r[i] = IF i <= Len(a) THEN a[i] ELSE b[i - Len(a)]
      BY <2>1, <2>2
    <3>2. CASE i < k
      <4>1. i \in 1..k - 1 /\ i <= Len(a)
        BY <1>1, <1>3, <3>2
      <4>2. QED
        BY <1>3, <3>1, <3>2, <4>1
    <3>3. CASE ~(i < k)
      <4>1. i - Len(a) \in 1..Len(s) - k /\ ~(i <= Len(a)) /\ k + (i - Len(a)) = i + 1
        BY <1>1, <1>3, <3>3
      <4>2. QED
        BY <1>4, <3>1, <3>3, <4>1
    <3>4. QED
      BY <3>2, <3>3
  <2>5. QED
    BY <2>1, <2>3, <2>4
<1>7. ASSUME NEW i \in DOMAIN r
      PROVE  \E j \in DOMAIN s : j # k /\ r[i] = s[j] /\ j = IF i < k THEN i ELSE i + 1
  <2>1. i \in 1..Len(s) - 1
    BY <1>6
  <2>2. CASE i < k
    BY <1>1, <1>6, <2>1, <2>2
  <2>3. CASE ~(i < k)
    <3>1. i + 1 \in DOMAIN s /\ i + 1 # k
      BY <1>1, <2>1, <2>3
    <3>2. QED
      BY <1>6, <2>1, <2>3, <3>1
  <2>4. QED
    BY <2>2, <2>3
<1>8. ASSUME NEW j \in DOMAIN s, j # k PROVE \E i \in DOMAIN r : r[i] = s[j]
  <2>1. CASE j < k
    <3>1. j \in DOMAIN r
      BY <1>1, <1>6, <2>1
    <3>2. QED
      BY <1>6, <2>1, <3>1
  <2>2. CASE ~(j < k)
    <3>1. j - 1 \in 1..Len(s) - 1 /\ ~(j - 1 < k) /\ (j - 1) + 1 = j
      BY <1>1, <1>8, <2>2
    <3>2. r[j - 1] = s[j]
      BY <1>6, <3>1
    <3>3. QED
      BY <1>6, <3>1, <3>2
  <2>3. QED
    BY <2>1, <2>2
<1>9. ASSUME DistinctIds(s) PROVE DistinctIds(r)
  <2>1. SUFFICES ASSUME NEW i \in DOMAIN r, NEW j \in DOMAIN r, i # j PROVE r[i].id # r[j].id
    BY DEF DistinctIds
  <2>2. PICK i1 \in DOMAIN s : r[i] = s[i1] /\ i1 = IF i < k THEN i ELSE i + 1
    BY <1>7
  <2>3. PICK j1 \in DOMAIN s : r[j] = s[j1] /\ j1 = IF j < k THEN j ELSE j + 1
    BY <1>7
  <2>4. i1 # j1
    <3>1. i \in Nat /\ j \in Nat /\ k \in Nat
      BY <1>1, <1>6
    <3>2. QED
      BY <2>1, <2>2, <2>3, <3>1
  <2>5. QED
    BY <1>9, <2>2, <2>3, <2>4 DEF DistinctIds
<1>10. QED
  BY <1>5, <1>6, <1>7, <1>8, <1>9

-----------------------------------------------------------------------------
(* Tables *)

LEMMA TimerShapes ==
  /\ \A id \in TimerId, s \in App, t \in AnrType :
       /\ TimerOf(id, s, t) \in Timer /\ TimerOf(id, s, t).id = id
       /\ TimerOf(id, s, t).owner = AnrTimer(s, t)
       /\ TimerOf(id, s, t).owner.kind = "anr"
       /\ TimerOf(id, s, t).owner.app = s /\ TimerOf(id, s, t).owner.type = t
  /\ \A id \in TimerId :
       /\ RepeatTimer(id) \in Timer /\ RepeatTimer(id).id = id
       /\ RepeatTimer(id).owner.kind = "repeat"
<1>1. ASSUME NEW id \in TimerId, NEW s \in App, NEW t \in AnrType
      PROVE  /\ TimerOf(id, s, t) \in Timer /\ TimerOf(id, s, t).id = id
             /\ TimerOf(id, s, t).owner = AnrTimer(s, t)
             /\ TimerOf(id, s, t).owner.kind = "anr"
             /\ TimerOf(id, s, t).owner.app = s /\ TimerOf(id, s, t).owner.type = t
  <2>1. AnrTimer(s, t) \in Owners /\ AnrTimer(s, t).kind = "anr" /\ AnrTimer(s, t).app = s /\ AnrTimer(s, t).type = t
    BY DEF AnrTimer, Owners
  <2>2. QED
    BY <2>1 DEF TimerOf, Timer
<1>2. ASSUME NEW id \in TimerId
      PROVE  /\ RepeatTimer(id) \in Timer /\ RepeatTimer(id).id = id
             /\ RepeatTimer(id).owner.kind = "repeat"
  <2>1. [kind |-> "repeat"] \in Owners
    BY DEF Owners
  <2>2. QED
    BY <2>1 DEF RepeatTimer, Timer
<1>3. QED
  BY <1>1, <1>2

(* A timer is ANRManager's or KeyAutoRepeat's. *)
LEMMA TimerKinds ==
  ASSUME NEW x \in Timer
  PROVE  /\ x.id \in TimerId
         /\ x.owner.kind = "anr" =>
              /\ x.owner.app \in App /\ x.owner.type \in AnrType
              /\ x = TimerOf(x.id, x.owner.app, x.owner.type)
              /\ x.owner = AnrTimer(x.owner.app, x.owner.type)
         /\ x.owner.kind # "anr" => x = RepeatTimer(x.id)
<1>1. x.id \in TimerId /\ x.owner \in Owners /\ x = [id |-> x.id, owner |-> x.owner]
  BY DEF Timer
<1>2. PICK o : o = x.owner
  OBVIOUS
<1>3. \/ o \in [kind : {"anr"}, app : App, type : AnrType]
      \/ o \in [kind : {"repeat"}]
  BY <1>1, <1>2 DEF Owners
<1>4. CASE o \in [kind : {"anr"}, app : App, type : AnrType]
  <2>1. o.kind = "anr" /\ o.app \in App /\ o.type \in AnrType /\ o = [kind |-> o.kind, app |-> o.app, type |-> o.type]
    BY <1>4
  <2>2. o = AnrTimer(o.app, o.type)
    BY <2>1 DEF AnrTimer
  <2>3. QED
    BY <1>1, <1>2, <2>1, <2>2 DEF TimerOf
<1>5. CASE o \in [kind : {"repeat"}]
  <2>1. o.kind = "repeat" /\ o = [kind |-> "repeat"]
    BY <1>5
  <2>2. QED
    BY <1>1, <1>2, <2>1 DEF RepeatTimer
<1>6. QED
  BY <1>3, <1>4, <1>5

LEMMA HasTimer ==
  ASSUME NEW table, TableOK(table), NEW x, Has(table, x)
  PROVE  x \in Timer /\ x.id \in UsedIds(table)
<1>1. PICK i \in DOMAIN table : table[i] = x
  BY DEF Has
<1>2. QED
  BY <1>1, SeqFacts DEF TableOK, UsedIds

LEMMA IdsTellApart ==
  ASSUME NEW table, TableOK(table), NEW x, NEW y, Has(table, x), Has(table, y), x.id = y.id
  PROVE  x = y
BY DEF TableOK, DistinctIds, Has

LEMMA TableWithout ==
  ASSUME NEW table, TableOK(table), NEW ids
  PROVE  /\ TableOK(Without(table, ids))
         /\ \A x : Has(Without(table, ids), x) <=> (Has(table, x) /\ x.id \notin ids)
<1>1. PICK w : w = Without(table, ids)
  OBVIOUS
<1>2. /\ w \in Seq(Timer)
      /\ \A i \in DOMAIN w : \E j \in DOMAIN table : w[i] = table[j] /\ table[j].id \notin ids
      /\ \A j \in DOMAIN table : table[j].id \notin ids => \E i \in DOMAIN w : w[i] = table[j]
      /\ DistinctIds(table) => DistinctIds(w)
  BY <1>1, WithoutElements DEF TableOK
<1>3. TableOK(w)
  BY <1>2 DEF TableOK
<1>4. ASSUME NEW x PROVE Has(w, x) <=> (Has(table, x) /\ x.id \notin ids)
  <2>1. ASSUME Has(w, x) PROVE Has(table, x) /\ x.id \notin ids
    BY <1>2, <2>1 DEF Has
  <2>2. ASSUME Has(table, x), x.id \notin ids PROVE Has(w, x)
    BY <1>2, <2>2 DEF Has
  <2>3. QED
    BY <2>1, <2>2
<1>5. QED
  BY <1>1, <1>3, <1>4

LEMMA TableRemove ==
  ASSUME NEW table, TableOK(table), NEW k \in DOMAIN table
  PROVE  /\ TableOK(RemoveAt(table, k))
         /\ \A x : Has(RemoveAt(table, k), x) <=> (Has(table, x) /\ x # table[k])
         /\ Has(table, table[k]) /\ table[k] \in Timer
<1>1. PICK r : r = RemoveAt(table, k)
  OBVIOUS
<1>2. /\ r \in Seq(Timer)
      /\ \A i \in DOMAIN r : \E j \in DOMAIN table : j # k /\ r[i] = table[j]
      /\ \A j \in DOMAIN table : j # k => \E i \in DOMAIN r : r[i] = table[j]
      /\ DistinctIds(table) => DistinctIds(r)
  BY <1>1, RemoveAtElements DEF TableOK
<1>3. TableOK(r)
  BY <1>2 DEF TableOK
<1>4. \A j \in DOMAIN table : j # k => table[j] # table[k]
  BY DEF TableOK, DistinctIds
<1>5. ASSUME NEW x PROVE Has(r, x) <=> (Has(table, x) /\ x # table[k])
  <2>1. ASSUME Has(r, x) PROVE Has(table, x) /\ x # table[k]
    BY <1>2, <1>4, <2>1 DEF Has
  <2>2. ASSUME Has(table, x), x # table[k] PROVE Has(r, x)
    BY <1>2, <2>2 DEF Has
  <2>3. QED
    BY <2>1, <2>2
<1>6. Has(table, table[k])
  BY DEF Has
<1>7. QED
  BY <1>1, <1>3, <1>5, <1>6, HasTimer

LEMMA TableAppend ==
  ASSUME NEW table, TableOK(table), NEW e \in Timer, e.id \notin UsedIds(table)
  PROVE  /\ TableOK(Append(table, e))
         /\ \A x : Has(Append(table, e), x) <=> (Has(table, x) \/ x = e)
<1>1. PICK a : a = Append(table, e)
  OBVIOUS
<1>2. /\ a \in Seq(Timer) /\ DOMAIN a = 1..Len(table) + 1
      /\ \A i \in DOMAIN table : i \in DOMAIN a /\ a[i] = table[i]
      /\ a[Len(table) + 1] = e
      /\ \A i \in DOMAIN a : i \in DOMAIN table \/ i = Len(table) + 1
      /\ Len(table) \in Nat
  BY <1>1, AppendFacts, SeqFacts DEF TableOK
<1>3. Len(table) + 1 \in DOMAIN a
  BY <1>2
<1>4. DistinctIds(a)
  <2>1. \A i \in DOMAIN table : table[i].id # e.id
    BY DEF UsedIds
  <2>2. \A i, j \in DOMAIN table : i # j => table[i].id # table[j].id
    BY DEF TableOK, DistinctIds
  <2>3. QED
    BY <1>2, <2>1, <2>2 DEF DistinctIds
<1>5. ASSUME NEW x PROVE Has(a, x) <=> (Has(table, x) \/ x = e)
  <2>1. ASSUME Has(a, x) PROVE Has(table, x) \/ x = e
    BY <1>2, <2>1 DEF Has
  <2>2. ASSUME Has(table, x) PROVE Has(a, x)
    BY <1>2, <2>2 DEF Has
  <2>3. Has(a, e)
    BY <1>2, <1>3 DEF Has
  <2>4. QED
    BY <2>1, <2>2, <2>3
<1>6. QED
  BY <1>1, <1>2, <1>4, <1>5 DEF TableOK

LEMMA FreshTimerId ==
  ASSUME NEW table
  PROVE  /\ NewTimerId(table) \in TimerId \cup {NoTimer}
         /\ NewTimerId(table) # NoTimer =>
              NewTimerId(table) \in TimerId /\ NewTimerId(table) \notin UsedIds(table)
<1>1. CASE NextTimerIds(table) = {}
  BY <1>1 DEF NewTimerId
<1>2. CASE NextTimerIds(table) # {}
  <2>1. NewTimerId(table) \in NextTimerIds(table)
    BY <1>2 DEF NewTimerId
  <2>2. NewTimerId(table) \in TimerId /\ NewTimerId(table) \notin UsedIds(table)
    BY <2>1 DEF NextTimerIds
  <2>3. QED
    BY <2>2
<1>3. QED
  BY <1>1, <1>2

LEMMA NoTimerIsNone == NoTimer \notin TimerId
BY TimerAssumption DEF NoTimer, TimerId

-----------------------------------------------------------------------------
(* Counting the events that name a timer *)

LEMMA OneToOne ==
  ASSUME NEW S, NEW T, NEW f \in [S -> T],
         \A x, y \in S : f[x] = f[y] => x = y, \A z \in T : \E x \in S : f[x] = z,
         IsFiniteSet(S)
  PROVE  IsFiniteSet(T) /\ Cardinality(T) = Cardinality(S)
<1>1. f \in Bijection(S, T)
  BY DEF Bijection, Injection, Surjection, IsInjective
<1>2. ExistsBijection(S, T)
  BY <1>1 DEF ExistsBijection
<1>3. QED
  BY <1>2, FS_Bijection

LEMMA WatchedIsFinite ==
  ASSUME NEW e \in Seq(Entry)
  PROVE  /\ IsFiniteSet(Watched(e)) /\ Cardinality(Watched(e)) \in Nat
         /\ Watched(e) \subseteq 1..Len(e) /\ Watched(e) \subseteq Nat
<1>1. Len(e) \in Nat /\ DOMAIN e = 1..Len(e)
  BY SeqFacts
<1>2. Watched(e) \in SUBSET (1..Len(e))
  BY <1>1 DEF Watched
<1>3. IsFiniteSet(1..Len(e))
  BY <1>1, FS_Interval
<1>4. IsFiniteSet(Watched(e))
  BY <1>2, <1>3, FS_Subset
<1>5. QED
  BY <1>1, <1>2, <1>4, FS_CardinalityType

(* The events of one list among those of all. *)
Own(s, t, watched) == {s} \X {t} \X watched

LEMMA OwnCount ==
  ASSUME NEW s, NEW t, NEW W, IsFiniteSet(W)
  PROVE  IsFiniteSet(Own(s, t, W)) /\ Cardinality(Own(s, t, W)) = Cardinality(W)
<1>1. PICK f : f = [k \in W |-> <<s, t, k>>]
  OBVIOUS
<1>2. f \in [W -> Own(s, t, W)]
  BY <1>1 DEF Own
<1>3. \A x, y \in W : f[x] = f[y] => x = y
  BY <1>1
<1>4. \A z \in Own(s, t, W) : \E x \in W : f[x] = z
  BY <1>1 DEF Own
<1>5. QED
  BY <1>2, <1>3, <1>4, OneToOne

LEMMA InWatched ==
  ASSUME NEW ev, NEW e
  PROVE  e \in WatchedIn(ev) <=> \E x \in App, y \in AnrType : e \in Own(x, y, Watched(ev[x][y]))
<1>1. WatchedIn(ev) = UNION {Own(x, y, Watched(ev[x][y])) : x \in App, y \in AnrType}
  BY DEF WatchedIn, Own
<1>2. QED
  BY <1>1

(* What a change of one list does to the count. *)
LEMMA ChangedCount ==
  ASSUME NEW ev \in [App -> [AnrType -> Seq(Entry)]], IsFiniteSet(WatchedIn(ev)),
         NEW s \in App, NEW t \in AnrType, NEW new \in Seq(Entry)
  PROVE  LET after == [ev EXCEPT ![s][t] = new] IN
         /\ IsFiniteSet(WatchedIn(after))
         /\ Cardinality(WatchedIn(after)) =
              Cardinality(WatchedIn(ev)) - Cardinality(Watched(ev[s][t])) + Cardinality(Watched(new))
         /\ Cardinality(Watched(ev[s][t])) <= Cardinality(WatchedIn(ev))
<1>1. PICK after : after = [ev EXCEPT ![s][t] = new]
  OBVIOUS
<1>2. PICK A, B, C, W : /\ W = WatchedIn(ev)
                        /\ B = Own(s, t, Watched(ev[s][t]))
                        /\ C = Own(s, t, Watched(new))
                        /\ A = W \ B
  OBVIOUS
<1>3. /\ after[s][t] = new
      /\ \A x \in App, y \in AnrType : x # s \/ y # t => after[x][y] = ev[x][y]
  BY <1>1
<1>4. ASSUME NEW e PROVE e \in W <=> \E x \in App, y \in AnrType : e \in Own(x, y, Watched(ev[x][y]))
  BY <1>2, InWatched
<1>5. ASSUME NEW e
      PROVE  e \in WatchedIn(after) <=> \E x \in App, y \in AnrType : e \in Own(x, y, Watched(after[x][y]))
  BY InWatched
<1>6. ASSUME NEW e, NEW x, NEW y, NEW U, NEW V, e \in Own(x, y, U), e \in Own(s, t, V)
      PROVE  x = s /\ y = t
  BY <1>6 DEF Own
<1>7. B \subseteq W
  BY <1>2, <1>4
<1>8. WatchedIn(after) = A \cup C
  <2>1. ASSUME NEW e \in WatchedIn(after) PROVE e \in A \cup C
    <3>1. PICK x \in App, y \in AnrType : e \in Own(x, y, Watched(after[x][y]))
      BY <1>5, <2>1
    <3>2. CASE x = s /\ y = t
      BY <1>2, <1>3, <3>1, <3>2
    <3>3. CASE x # s \/ y # t
      <4>1. e \in W
        BY <1>3, <1>4, <3>1, <3>3
      <4>2. e \notin B
        BY <1>2, <1>6, <3>1, <3>3
      <4>3. QED
        BY <1>2, <4>1, <4>2
    <3>4. QED
      BY <3>2, <3>3
  <2>2. ASSUME NEW e \in C PROVE e \in WatchedIn(after)
    BY <1>2, <1>3, <1>5, <2>2
  <2>3. ASSUME NEW e \in A PROVE e \in WatchedIn(after)
    <3>1. PICK x \in App, y \in AnrType : e \in Own(x, y, Watched(ev[x][y]))
      BY <1>2, <1>4, <2>3
    <3>2. x # s \/ y # t
      BY <1>2, <2>3, <3>1
    <3>3. QED
      BY <1>3, <1>5, <3>1, <3>2
  <2>4. QED
    BY <2>1, <2>2, <2>3
<1>9. A \cap C = {}
  <2>1. SUFFICES ASSUME NEW e \in A, e \in C PROVE FALSE
    OBVIOUS
  <2>2. PICK x \in App, y \in AnrType : e \in Own(x, y, Watched(ev[x][y]))
    BY <1>2, <1>4, <2>1
  <2>3. x = s /\ y = t
    BY <1>2, <1>6, <2>1, <2>2
  <2>4. QED
    BY <1>2, <2>1, <2>2, <2>3
<1>10. ev[s][t] \in Seq(Entry)
  OBVIOUS
<1>11. /\ IsFiniteSet(B) /\ Cardinality(B) = Cardinality(Watched(ev[s][t]))
       /\ IsFiniteSet(C) /\ Cardinality(C) = Cardinality(Watched(new))
  BY <1>2, <1>10, WatchedIsFinite, OwnCount
<1>12. IsFiniteSet(A) /\ Cardinality(A) = Cardinality(W) - Cardinality(B) /\ Cardinality(B) <= Cardinality(W)
  <2>1. W \cap B = B
    BY <1>7
  <2>2. IsFiniteSet(W)
    BY <1>2
  <2>3. IsFiniteSet(W \ B) /\ Cardinality(W \ B) = Cardinality(W) - Cardinality(W \cap B)
    BY <2>2, FS_Difference
  <2>4. Cardinality(B) <= Cardinality(W)
    BY <1>7, <2>2, FS_Subset
  <2>5. QED
    BY <1>2, <2>1, <2>3, <2>4
<1>13. IsFiniteSet(A \cup C) /\ Cardinality(A \cup C) = Cardinality(A) + Cardinality(C)
  <2>1. /\ IsFiniteSet(A \cup C)
        /\ Cardinality(A \cup C) = Cardinality(A) + Cardinality(C) - Cardinality(A \cap C)
    BY <1>11, <1>12, FS_Union
  <2>2. Cardinality(A \cap C) = 0
    BY <1>9, FS_EmptySet
  <2>3. Cardinality(A) \in Nat /\ Cardinality(C) \in Nat
    BY <1>11, <1>12, FS_CardinalityType
  <2>4. QED
    BY <2>1, <2>2, <2>3
<1>14. QED
  BY <1>1, <1>2, <1>8, <1>11, <1>12, <1>13

LEMMA WatchedAfter ==
  ASSUME NEW e \in Seq(Entry)
  PROVE  /\ \A x \in Entry :
              x.timer # NoTimer => Cardinality(Watched(Append(e, x))) = Cardinality(Watched(e)) + 1
         /\ Watched(<<>>) = {} /\ TimersOf(<<>>) = {}
<1>1. Len(e) \in Nat /\ DOMAIN e = 1..Len(e)
  BY SeqFacts
<1>2. ASSUME NEW x \in Entry, x.timer # NoTimer
      PROVE  Cardinality(Watched(Append(e, x))) = Cardinality(Watched(e)) + 1
  <2>1. Watched(Append(e, x)) = Watched(e) \cup {Len(e) + 1}
    <3>1. PICK a : a = Append(e, x)
      OBVIOUS
    <3>2. /\ DOMAIN a = 1..Len(e) + 1 /\ a[Len(e) + 1] = x
          /\ \A i \in DOMAIN e : i \in DOMAIN a /\ a[i] = e[i]
          /\ \A i \in DOMAIN a : i \in DOMAIN e \/ i = Len(e) + 1
      BY <3>1, AppendFacts
    <3>3. Len(e) + 1 \in DOMAIN a
      BY <1>1, <3>2
    <3>4. Watched(a) = Watched(e) \cup {Len(e) + 1}
      BY <1>2, <3>2, <3>3 DEF Watched
    <3>5. QED
      BY <3>1, <3>4
  <2>2. IsFiniteSet(Watched(e)) /\ Len(e) + 1 \notin Watched(e)
    BY <1>1, WatchedIsFinite
  <2>3. QED
    BY <2>1, <2>2, FS_AddElement
<1>3. Watched(<<>>) = {} /\ TimersOf(<<>>) = {}
  BY DEF Watched, TimersOf
<1>4. QED
  BY <1>2, <1>3

-----------------------------------------------------------------------------
(* Lists of events *)

LEMMA EntryFields ==
  ASSUME NEW e \in Seq(Entry), NEW k \in DOMAIN e
  PROVE  /\ e[k] \in Entry /\ e[k].id \in EventId /\ e[k].id \in Nat
         /\ e[k].timer \in TimerId \cup {NoTimer} /\ e[k].overdue \in BOOLEAN
<1>1. e[k] \in Entry
  BY SeqFacts
<1>2. /\ e[k].id \in EventId /\ e[k].timer \in TimerId \cup {NoTimer}
      /\ e[k].overdue \in BOOLEAN
  BY <1>1 DEF Entry
<1>3. EventId \subseteq Nat
  BY AnrAssumption DEF EventId
<1>4. QED
  BY <1>1, <1>2, <1>3

LEMMA IdsOf ==
  ASSUME NEW ids \in Seq(EventId), NEW j \in DOMAIN ids
  PROVE  ids[j] \in EventId /\ ids[j] \in Nat
BY SeqFacts, AnrAssumption DEF EventId

(* A sequence that is cut after n. *)
LEMMA CutAfter ==
  ASSUME NEW S, NEW s \in Seq(S), NEW n \in 0..Len(s)
  PROVE  /\ SubSeq(s, 1, n) \in Seq(S) /\ DOMAIN SubSeq(s, 1, n) = 1..n
         /\ \A i \in 1..n : i \in DOMAIN s /\ SubSeq(s, 1, n)[i] = s[i]
         /\ SubSeq(s, n + 1, Len(s)) \in Seq(S)
         /\ DOMAIN SubSeq(s, n + 1, Len(s)) = 1..Len(s) - n
         /\ \A i \in 1..Len(s) - n : n + i \in DOMAIN s /\ SubSeq(s, n + 1, Len(s))[i] = s[n + i]
<1>1. /\ Len(s) \in Nat /\ DOMAIN s = 1..Len(s) /\ n \in Nat /\ n <= Len(s)
      /\ \A i \in 1..Len(s) : s[i] \in S
  BY SeqFacts
<1>2. PICK a, b : a = SubSeq(s, 1, n) /\ b = SubSeq(s, n + 1, Len(s))
  OBVIOUS
<1>3. a \in Seq(S) /\ DOMAIN a = 1..n /\ \A i \in 1..n : a[i] = s[i]
  <2>1. \A i \in 1..n : s[i] \in S
    BY <1>1
  <2>2. n \in Int /\ 1 \in Int
    BY <1>1
  <2>3. /\ a \in Seq(S) /\ Len(a) = IF 1 <= n THEN n - 1 + 1 ELSE 0
        /\ \A i \in 1..n - 1 + 1 : a[i] = s[1 + i - 1]
    BY <1>2, <2>1, <2>2, SubSeqProperties
  <2>4. Len(a) = n
    BY <1>1, <2>3
  <2>5. \A i \in 1..n : a[i] = s[i]
    BY <1>1, <2>3
  <2>6. QED
    BY <2>3, <2>4, <2>5, LenProperties
<1>4. b \in Seq(S) /\ DOMAIN b = 1..Len(s) - n /\ \A i \in 1..Len(s) - n : b[i] = s[n + i]
  <2>1. \A i \in n + 1..Len(s) : s[i] \in S
    BY <1>1
  <2>2. n + 1 \in Int /\ Len(s) \in Int
    BY <1>1
  <2>3. /\ b \in Seq(S) /\ Len(b) = IF n + 1 <= Len(s) THEN Len(s) - (n + 1) + 1 ELSE 0
        /\ \A i \in 1..Len(s) - (n + 1) + 1 : b[i] = s[(n + 1) + i - 1]
    BY <1>2, <2>1, <2>2, SubSeqProperties
  <2>4. Len(b) = Len(s) - n
    <3>1. Len(s) \in Nat /\ n \in Nat /\ n <= Len(s) /\ Len(b) = IF n + 1 <= Len(s) THEN Len(s) - (n + 1) + 1 ELSE 0
      BY <1>1, <2>3
    <3>2. CASE n + 1 <= Len(s)
      BY <3>1, <3>2
    <3>3. CASE ~(n + 1 <= Len(s))
      <4>1. n = Len(s) /\ Len(b) = 0
        BY <3>1, <3>3
      <4>2. QED
        BY <3>1, <4>1
    <3>4. QED
      BY <3>2, <3>3
  <2>5. ASSUME NEW i \in 1..Len(s) - n PROVE b[i] = s[n + i]
    <3>1. i \in 1..Len(s) - (n + 1) + 1 /\ (n + 1) + i - 1 = n + i
      BY <1>1
    <3>2. QED
      BY <2>3, <3>1
  <2>6. QED
    BY <2>3, <2>4, <2>5, LenProperties
<1>5. (\A i \in 1..n : i \in DOMAIN s) /\ (\A i \in 1..Len(s) - n : n + i \in DOMAIN s)
  BY <1>1
<1>6. QED
  BY <1>2, <1>3, <1>4, <1>5

(* DelEvents finds where to stop. *)
LEMMA HeadLengthIs ==
  ASSUME NEW e \in Seq(Entry), NEW id \in Nat
  PROVE  /\ HeadLength(e, id) \in 0..Len(e)
         /\ \A k \in 1..HeadLength(e, id) : e[k].id <= id
         /\ HeadLength(e, id) < Len(e) => e[HeadLength(e, id) + 1].id > id
<1>1. /\ Len(e) \in Nat /\ DOMAIN e = 1..Len(e)
      /\ \A k \in 1..Len(e) : e[k].id \in Nat
  BY SeqFacts, EntryFields
<1>2. PICK T : T = {k \in 1..Len(e) : e[k].id > id}
  OBVIOUS
<1>3. \E n \in 0..Len(e) :
        /\ \A k \in 1..n : e[k].id <= id
        /\ n < Len(e) => e[n + 1].id > id
  <2>1. CASE T = {}
    <3>1. \A k \in 1..Len(e) : e[k].id <= id
      BY <1>1, <1>2, <2>1
    <3>2. Len(e) \in 0..Len(e) /\ ~(Len(e) < Len(e))
      BY <1>1
    <3>3. QED
      BY <3>1, <3>2
  <2>2. CASE T # {}
    <3>1. PICK m \in T : \A j \in T : m <= j
      BY <1>1, <1>2, <2>2, Least
    <3>2. m \in 1..Len(e) /\ e[m].id > id
      BY <1>2
    <3>3. m - 1 \in 0..Len(e) /\ (m - 1) + 1 = m
      BY <1>1, <3>2
    <3>4. ASSUME NEW k \in 1..m - 1 PROVE e[k].id <= id
      <4>1. k \in 1..Len(e) /\ ~(m <= k)
        BY <1>1, <3>2
      <4>2. k \notin T
        BY <3>1, <4>1
      <4>3. QED
        BY <1>1, <1>2, <4>1, <4>2
    <3>5. QED
      BY <3>2, <3>3, <3>4
  <2>3. QED
    BY <2>1, <2>2
<1>4. QED
  BY <1>3 DEF HeadLength

(* Lists whose events have the same ids and name the same timers. *)
LEMMA SameEvents ==
  ASSUME NEW e, NEW f, DOMAIN e = DOMAIN f, \A k \in DOMAIN e : e[k].timer = f[k].timer
  PROVE  /\ Watched(e) = Watched(f) /\ TimersOf(e) = TimersOf(f) /\ NamedOnce(e) <=> NamedOnce(f)
BY DEF Watched, TimersOf, NamedOnce

LEMMA CoveredAfterSend ==
  ASSUME NEW e \in Seq(Entry), NEW ids \in Seq(EventId), Covered(e, ids), NEW id \in EventId,
         NEW x \in Entry, x.id = id
  PROVE  /\ Covered(e, Append(ids, id))
         /\ Covered(Append(e, x), Append(ids, id))
<1>1. PICK a, f, l : a = Append(ids, id) /\ f = Append(e, x) /\ l = Len(ids) + 1
  OBVIOUS
<1>2. /\ \A n \in DOMAIN ids : n \in DOMAIN a /\ a[n] = ids[n]
      /\ l \in DOMAIN a /\ a[l] = id
  <2>1. DOMAIN a = 1..Len(ids) + 1 /\ Len(ids) \in Nat
    BY <1>1, AppendFacts, SeqFacts
  <2>2. QED
    BY <1>1, <2>1, AppendFacts
<1>3. ASSUME NEW k, NEW j, NEW n, Covers(e, ids, k, j, n) PROVE Covers(e, a, k, j, n)
  BY <1>2, <1>3 DEF Covers
<1>4. Covered(e, a)
  BY <1>3 DEF Covered
<1>5. /\ Len(e) \in Nat /\ DOMAIN e = 1..Len(e)
      /\ \A k \in DOMAIN e : f[k] = e[k] /\ e[k].id \in Nat
      /\ f[Len(e) + 1] = x
      /\ \A k \in DOMAIN f : k \in DOMAIN e \/ k = Len(e) + 1
      /\ id \in Nat
  BY <1>1, AppendFacts, SeqFacts, EntryFields, AnrAssumption DEF EventId
<1>6. ASSUME NEW k \in DOMAIN e PROVE \E j, n : Covers(f, a, k, j, n)
  <2>1. PICK j, n : Covers(e, a, k, j, n)
    BY <1>4 DEF Covered
  <2>2. \A i \in 1..k : f[i] = e[i]
    BY <1>5
  <2>3. Covers(f, a, k, j, n)
    BY <2>1, <2>2 DEF Covers
  <2>4. QED
    BY <2>3
<1>7. \E j, n : Covers(f, a, Len(e) + 1, j, n)
  <2>1. PICK m : m = Len(e) + 1
    OBVIOUS
  <2>2. m \in 1..m /\ \A i \in 1..m : i \in DOMAIN e \/ i = m
    BY <1>5, <2>1
  <2>3. CASE \A i \in DOMAIN e : e[i].id <= id
    <3>1. \A i \in 1..m : f[i].id <= id
      BY <1>5, <2>1, <2>2, <2>3
    <3>2. Covers(f, a, m, m, l)
      BY <1>2, <1>5, <2>1, <2>2, <3>1 DEF Covers
    <3>3. QED
      BY <2>1, <3>2
  <2>4. CASE ~(\A i \in DOMAIN e : e[i].id <= id)
    <3>1. PICK i \in DOMAIN e : ~(e[i].id <= id)
      BY <2>4
    <3>2. Len(e) \in DOMAIN e
      BY <1>5
    <3>3. PICK j, n : Covers(e, a, Len(e), j, n)
      BY <1>4, <3>2 DEF Covered
    <3>4. /\ j \in DOMAIN e /\ n \in DOMAIN a /\ e[j].id = a[n]
          /\ \A h \in DOMAIN e : e[h].id <= a[n]
      BY <1>5, <3>3 DEF Covers
    <3>5. id <= a[n] /\ j \in 1..m
      <4>1. e[i].id <= a[n] /\ e[i].id \in Nat /\ a[n] \in Nat /\ id \in Nat
        BY <1>5, <3>4
      <4>2. id <= a[n]
        BY <3>1, <4>1
      <4>3. QED
        BY <1>5, <2>1, <3>4, <4>2
    <3>6. \A h \in 1..m : f[h].id <= a[n]
      BY <1>5, <2>1, <2>2, <3>4, <3>5
    <3>7. Covers(f, a, m, j, n)
      BY <1>5, <3>4, <3>5, <3>6 DEF Covers
    <3>8. QED
      BY <2>1, <3>7
  <2>5. QED
    BY <2>3, <2>4
<1>8. Covered(f, a)
  BY <1>5, <1>6, <1>7 DEF Covered
<1>9. QED
  BY <1>1, <1>4, <1>8

(* The event that covers one of the rest has a larger id than the mark, so that
   it is of the rest itself and has still to be marked. *)
LEMMA CoveredAfterMark ==
  ASSUME NEW e \in Seq(Entry), NEW ids \in Seq(EventId), Covered(e, ids), NEW m \in DOMAIN ids
  PROVE  Covered(SubSeq(e, HeadLength(e, ids[m]) + 1, Len(e)), RemoveAt(ids, m))
<1>1. PICK n : n = HeadLength(e, ids[m])
  OBVIOUS
<1>2. /\ ids[m] \in Nat /\ n \in 0..Len(e) /\ (n < Len(e) => e[n + 1].id > ids[m])
      /\ \A i \in 1..n : e[i].id <= ids[m]
  BY <1>1, IdsOf, HeadLengthIs
<1>3. PICK r, a : r = SubSeq(e, n + 1, Len(e)) /\ a = RemoveAt(ids, m)
  OBVIOUS
<1>4. /\ DOMAIN r = 1..Len(e) - n
      /\ \A i \in 1..Len(e) - n : n + i \in DOMAIN e /\ r[i] = e[n + i]
      /\ Len(e) \in Nat /\ n \in Nat
  <2>1. n \in 0..Len(e)
    BY <1>2
  <2>2. /\ DOMAIN r = 1..Len(e) - n
        /\ \A i \in 1..Len(e) - n : n + i \in DOMAIN e /\ r[i] = e[n + i]
    BY <1>3, <2>1, CutAfter
  <2>3. Len(e) \in Nat
    BY SeqFacts
  <2>4. QED
    BY <2>1, <2>2, <2>3
<1>5. \A j \in DOMAIN ids : j # m => \E i \in DOMAIN a : a[i] = ids[j]
  BY <1>3, RemoveAtElements
<1>6. ASSUME NEW k \in DOMAIN r PROVE \E j, l : Covers(r, a, k, j, l)
  <2>1. k \in Nat /\ 1 <= k /\ k <= Len(e) - n /\ n + k \in DOMAIN e
    BY <1>4
  <2>2. PICK j, l : Covers(e, ids, n + k, j, l)
    BY <2>1 DEF Covered
  <2>3. /\ j \in 1..n + k /\ l \in DOMAIN ids /\ e[j].id = ids[l] /\ ids[l] \in Nat
        /\ \A i \in 1..n + k : e[i].id <= ids[l]
    BY <2>2, IdsOf DEF Covers
  <2>4. ids[m] < ids[l]
    <3>1. n + 1 \in DOMAIN e /\ n < Len(e) /\ n + 1 \in 1..n + k
      BY <1>4, <2>1
    <3>2. e[n + 1].id \in Nat /\ e[n + 1].id > ids[m] /\ e[n + 1].id <= ids[l]
      BY <1>2, <2>3, <3>1, EntryFields
    <3>3. QED
      BY <1>2, <2>3, <3>2
  <2>5. PICK h \in DOMAIN a : a[h] = ids[l]
    BY <1>2, <1>5, <2>3, <2>4
  <2>6. j - n \in 1..k /\ n + (j - n) = j
    <3>1. j \notin 1..n
      BY <1>2, <2>3, <2>4
    <3>2. QED
      BY <1>4, <2>1, <2>3, <3>1
  <2>7. ASSUME NEW i \in 1..k PROVE r[i] = e[n + i] /\ n + i \in 1..n + k
    BY <1>4, <2>1
  <2>8. r[j - n].id = a[h]
    BY <2>3, <2>5, <2>6, <2>7
  <2>9. \A i \in 1..k : r[i].id <= a[h]
    BY <2>3, <2>5, <2>7
  <2>10. Covers(r, a, k, j - n, h)
    BY <2>5, <2>6, <2>8, <2>9 DEF Covers
  <2>11. QED
    BY <2>10
<1>7. QED
  BY <1>1, <1>3, <1>6 DEF Covered

(* The list after an event has been added to it, with a timer. *)
LEMMA TimersAfter ==
  ASSUME NEW e \in Seq(Entry), NEW x \in Entry, x.timer # NoTimer
  PROVE  /\ TimersOf(Append(e, x)) = TimersOf(e) \cup {x.timer}
         /\ x.timer \notin TimersOf(e) /\ NamedOnce(e) => NamedOnce(Append(e, x))
<1>1. PICK a, n : a = Append(e, x) /\ n = Len(e) + 1
  OBVIOUS
<1>2. /\ n \in DOMAIN a /\ a[n] = x
      /\ \A i \in DOMAIN e : i \in DOMAIN a /\ a[i] = e[i]
      /\ \A i \in DOMAIN a : i \in DOMAIN e \/ i = n
  <2>1. DOMAIN a = 1..n /\ Len(e) \in Nat
    BY <1>1, AppendFacts, SeqFacts
  <2>2. n \in DOMAIN a
    BY <1>1, <2>1
  <2>3. QED
    BY <1>1, <2>2, AppendFacts
<1>3. TimersOf(a) = TimersOf(e) \cup {x.timer}
  <2>1. ASSUME NEW y \in TimersOf(a) PROVE y \in TimersOf(e) \cup {x.timer}
    BY <1>2 DEF TimersOf
  <2>2. ASSUME NEW y \in TimersOf(e) PROVE y \in TimersOf(a)
    BY <1>2 DEF TimersOf
  <2>3. x.timer \in TimersOf(a)
    BY <1>2 DEF TimersOf
  <2>4. QED
    BY <2>1, <2>2, <2>3
<1>4. ASSUME x.timer \notin TimersOf(e), NamedOnce(e) PROVE NamedOnce(a)
  <2>1. \A i \in DOMAIN e : e[i].timer # x.timer
    BY <1>4 DEF TimersOf
  <2>2. \A j, k \in DOMAIN e : e[j].timer = e[k].timer /\ e[j].timer # NoTimer => j = k
    BY <1>4 DEF NamedOnce
  <2>3. QED
    BY <1>2, <2>1, <2>2 DEF NamedOnce
<1>5. QED
  BY <1>1, <1>3, <1>4

LEMMA Except2 ==
  ASSUME NEW S, NEW f \in [App -> [AnrType -> S]], NEW s \in App, NEW t \in AnrType, NEW v \in S
  PROVE  LET g == [f EXCEPT ![s][t] = v] IN
         /\ g \in [App -> [AnrType -> S]] /\ g[s][t] = v
         /\ \A x \in App, y \in AnrType : x # s \/ y # t => g[x][y] = f[x][y]
OBVIOUS

-----------------------------------------------------------------------------
(* The actions *)

LEMMA SendKeeps ==
  ASSUME NEW table, TableOK(table), AnrPart, Watch(table, live, events),
         NEW s \in App, NEW t \in AnrType, NEW id \in EventId, Send(table, s, t, id)
  PROVE  LET after == TableAfterSend(table, s, t) IN
         /\ TableOK(after) /\ AnrPart' /\ live' = live /\ unsent' = unsent
         /\ Watch(after, live, events') /\ (Names(table, events) => Names(after, events'))
         /\ \A i \in TimerId : Has(after, RepeatTimer(i)) <=> Has(table, RepeatTimer(i))
<1>1. PICK after, n, x, e, ids :
        /\ after = TableAfterSend(table, s, t) /\ n = NewTimerId(table)
        /\ x = [id |-> id, timer |-> n, overdue |-> FALSE]
        /\ e = events[s][t] /\ ids = unprocessed[s][t]
  OBVIOUS
<1>2. /\ events \in [App -> [AnrType -> Seq(Entry)]] /\ e \in Seq(Entry)
      /\ unprocessed \in [App -> [AnrType -> Seq(EventId)]] /\ ids \in Seq(EventId)
  BY <1>1 DEF AnrPart, AnrOK
<1>3. /\ unprocessed' = [unprocessed EXCEPT ![s][t] = Append(ids, id)]
      /\ s \in live /\ live' = live /\ isAnrProcess' = isAnrProcess
      /\ anrNoticedPid' = anrNoticedPid /\ unreliable' = unreliable /\ unsent' = unsent
  BY <1>1 DEF Send, MaySend
<1>4. Append(ids, id) \in Seq(EventId)
  BY <1>2, AppendFacts
<1>5. /\ unprocessed' \in [App -> [AnrType -> Seq(EventId)]]
      /\ unprocessed'[s][t] = Append(ids, id)
      /\ \A z \in App, y \in AnrType : z # s \/ y # t => unprocessed'[z][y] = unprocessed[z][y]
  BY <1>2, <1>3, <1>4, Except2
<1>6. CASE ~Watches(table)
  <2>1. after = table /\ events' = events /\ anrTimerCount' = anrTimerCount
    BY <1>1, <1>6 DEF TableAfterSend, Send
  <2>2. AnrOK' /\ CountOK'
    BY <1>3, <1>5, <2>1 DEF AnrPart, AnrOK, CountOK
  <2>3. ASSUME NEW z \in App \ unreliable, NEW y \in AnrType
        PROVE  Covered(events[z][y], unprocessed'[z][y])
    <3>1. Covered(events[z][y], unprocessed[z][y])
      BY DEF AnrPart, MarksRemoveEvents
    <3>2. CASE z = s /\ y = t
      <4>1. PICK w : w = [id |-> id, timer |-> NoTimer, overdue |-> FALSE]
        OBVIOUS
      <4>2. w \in Entry /\ w.id = id
        BY <4>1 DEF Entry
      <4>3. Covered(e, ids)
        BY <1>1, <3>1, <3>2
      <4>4. Covered(e, Append(ids, id))
        BY <1>2, <4>2, <4>3, CoveredAfterSend
      <4>5. QED
        BY <1>1, <1>5, <3>2, <4>4
    <3>3. QED
      BY <1>5, <3>1, <3>2
  <2>4. MarksRemoveEvents'
    BY <1>3, <2>1, <2>3 DEF MarksRemoveEvents
  <2>5. QED
    BY <1>1, <1>3, <2>1, <2>2, <2>4 DEF AnrPart
<1>7. CASE Watches(table)
  <2>1. /\ n \in TimerId /\ n # NoTimer /\ n \notin UsedIds(table)
        /\ anrTimerCount < MaxAnrTimers /\ x \in Entry /\ x.id = id /\ x.timer = n
    <3>1. n # NoTimer /\ anrTimerCount < MaxAnrTimers
      BY <1>1, <1>7 DEF Watches
    <3>2. n \in TimerId /\ n \notin UsedIds(table)
      BY <1>1, <3>1, FreshTimerId
    <3>3. x \in Entry /\ x.id = id /\ x.timer = n
      BY <1>1, <3>2 DEF Entry
    <3>4. QED
      BY <3>1, <3>2, <3>3
  <2>2. after = Append(table, TimerOf(n, s, t))
    BY <1>1, <1>7 DEF TableAfterSend, TimerOf
  <2>3. /\ anrTimerCount' = anrTimerCount + 1
        /\ events' = [events EXCEPT ![s][t] = Append(e, x)]
    BY <1>1, <1>7 DEF Send
  <2>4. Append(e, x) \in Seq(Entry)
    BY <1>2, <2>1, AppendFacts
  <2>5. /\ events' \in [App -> [AnrType -> Seq(Entry)]] /\ events'[s][t] = Append(e, x)
        /\ \A z \in App, y \in AnrType : z # s \/ y # t => events'[z][y] = events[z][y]
    BY <1>2, <2>3, <2>4, Except2
  <2>6. TableOK(after) /\ \A z : Has(after, z) <=> (Has(table, z) \/ z = TimerOf(n, s, t))
    <3>1. TimerOf(n, s, t) \in Timer /\ TimerOf(n, s, t).id = n
      BY <2>1, TimerShapes
    <3>2. QED
      BY <2>1, <2>2, <3>1, TableAppend
  <2>7. /\ TimersOf(Append(e, x)) = TimersOf(e) \cup {n}
        /\ n \notin TimersOf(e) /\ NamedOnce(e) => NamedOnce(Append(e, x))
    BY <1>2, <2>1, TimersAfter
  <2>8. CountOK'
    <3>1. /\ IsFiniteSet(WatchedIn(events))
          /\ anrTimerCount = Cardinality(WatchedIn(events))
      BY DEF AnrPart, CountOK
    <3>2. /\ IsFiniteSet(WatchedIn(events'))
          /\ Cardinality(WatchedIn(events')) = Cardinality(WatchedIn(events))
               - Cardinality(Watched(e)) + Cardinality(Watched(Append(e, x)))
      BY <1>1, <1>2, <2>3, <2>4, <3>1, ChangedCount
    <3>3. Cardinality(Watched(Append(e, x))) = Cardinality(Watched(e)) + 1
      BY <1>2, <2>1, WatchedAfter
    <3>4. Cardinality(Watched(e)) \in Nat /\ Cardinality(WatchedIn(events)) \in Nat
      BY <1>2, <3>1, WatchedIsFinite, FS_CardinalityType
    <3>5. Cardinality(WatchedIn(events')) = anrTimerCount'
      BY <2>3, <3>1, <3>2, <3>3, <3>4
    <3>6. QED
      BY <3>2, <3>5 DEF CountOK
  <2>9. AnrOK'
    <3>1. anrTimerCount' \in 0..MaxAnrTimers
      BY <2>1, <2>3, AnrAssumption DEF AnrPart, AnrOK
    <3>2. QED
      BY <1>3, <1>5, <2>5, <3>1 DEF AnrPart, AnrOK
  <2>10. ASSUME NEW z \in App \ unreliable, NEW y \in AnrType
         PROVE  Covered(events'[z][y], unprocessed'[z][y])
    <3>1. Covered(events[z][y], unprocessed[z][y])
      BY DEF AnrPart, MarksRemoveEvents
    <3>2. CASE z = s /\ y = t
      <4>1. Covered(e, ids)
        BY <1>1, <3>1, <3>2
      <4>2. Covered(Append(e, x), Append(ids, id))
        BY <1>2, <2>1, <4>1, CoveredAfterSend
      <4>3. QED
        BY <1>5, <2>5, <3>2, <4>2
    <3>3. QED
      BY <1>5, <2>5, <3>1, <3>2
  <2>11. MarksRemoveEvents'
    BY <1>3, <2>10 DEF MarksRemoveEvents
  <2>12. Watch(after, live, events')
    <3>1. SUFFICES ASSUME NEW z \in App, NEW y \in AnrType, NEW i \in TimerId,
                          Has(after, TimerOf(i, z, y))
                   PROVE  z \in live /\ i \in TimersOf(events'[z][y])
      BY DEF Watch
    <3>2. CASE Has(table, TimerOf(i, z, y))
      <4>1. z \in live /\ i \in TimersOf(events[z][y])
        BY <3>2 DEF Watch
      <4>2. QED
        BY <1>1, <2>5, <2>7, <4>1
    <3>3. CASE TimerOf(i, z, y) = TimerOf(n, s, t)
      <4>1. i = n /\ z = s /\ y = t
        BY <2>1, <3>3, TimerShapes
      <4>2. QED
        BY <1>3, <2>5, <2>7, <4>1
    <3>4. QED
      BY <2>6, <3>1, <3>2, <3>3
  <2>13. ASSUME Names(table, events) PROVE Names(after, events')
    <3>1. n \notin TimersOf(e) /\ NamedOnce(e)
      <4>1. \A i \in TimersOf(e) : Has(table, TimerOf(i, s, t))
        BY <1>1, <2>13 DEF Names
      <4>2. ASSUME n \in TimersOf(e) PROVE FALSE
        <5>1. Has(table, TimerOf(n, s, t)) /\ TimerOf(n, s, t).id = n
          BY <2>1, <4>1, <4>2, TimerShapes
        <5>2. QED
          BY <2>1, <5>1, HasTimer
      <4>3. QED
        BY <1>1, <2>13, <4>2 DEF Names
    <3>2. ASSUME NEW z \in App, NEW y \in AnrType
          PROVE  /\ \A i \in TimersOf(events'[z][y]) : Has(after, TimerOf(i, z, y))
                 /\ NamedOnce(events'[z][y])
      <4>1. /\ \A i \in TimersOf(events[z][y]) : Has(table, TimerOf(i, z, y))
            /\ NamedOnce(events[z][y])
        BY <2>13 DEF Names
      <4>2. CASE z = s /\ y = t
        BY <1>1, <2>5, <2>6, <2>7, <3>1, <4>1, <4>2
      <4>3. CASE z # s \/ y # t
        BY <2>5, <2>6, <4>1, <4>3
      <4>4. QED
        BY <4>2, <4>3
    <3>3. QED
      BY <3>2 DEF Names
  <2>14. ASSUME NEW i \in TimerId PROVE Has(after, RepeatTimer(i)) <=> Has(table, RepeatTimer(i))
    <3>1. RepeatTimer(i) # TimerOf(n, s, t)
      BY <2>1, TimerShapes
    <3>2. QED
      BY <2>6, <3>1
  <2>15. QED
    BY <1>1, <1>3, <2>6, <2>8, <2>9, <2>11, <2>12, <2>13, <2>14 DEF AnrPart
<1>8. QED
  BY <1>6, <1>7

(* What SendKey leaves of the table, and of what it is about. *)
KeyTable(table, after) ==
  /\ TableOK(after) /\ AnrPart' /\ live' = live /\ unsent' = unsent
  /\ Watch(after, live, events') /\ (Names(table, events) => Names(after, events'))
  /\ \A i \in TimerId : Has(after, RepeatTimer(i)) <=> Has(table, RepeatTimer(i))

LEMMA SendKeyKeeps ==
  ASSUME NEW table, TableOK(table), AnrPart, Watch(table, live, events),
         NEW id \in EventId, NEW after, SendKey(table, id, after)
  PROVE  KeyTable(table, after)
<1>1. CASE \E s \in App : /\ Send(table, s, "ANR_DISPATCH", id)
                          /\ after = TableAfterSend(table, s, "ANR_DISPATCH")
  <2>1. PICK s \in App : /\ Send(table, s, "ANR_DISPATCH", id)
                         /\ after = TableAfterSend(table, s, "ANR_DISPATCH")
    BY <1>1
  <2>2. PICK t \in AnrType : t = "ANR_DISPATCH"
    BY DEF AnrType
  <2>3. Send(table, s, t, id) /\ after = TableAfterSend(table, s, t)
    BY <2>1, <2>2
  <2>4. QED
    BY <2>3, SendKeeps DEF KeyTable
<1>2. CASE UNCHANGED anrVars /\ after = table
  BY <1>2 DEF anrVars, KeyTable, AnrPart, AnrOK, CountOK, MarksRemoveEvents
<1>3. QED
  BY <1>1, <1>2 DEF SendKey

(* A timer id that is named is at most one timer's. *)
LEMMA OnlyRepeat ==
  ASSUME NEW table, TableOK(table), NEW i \in TimerId, Has(table, RepeatTimer(i)),
         NEW s \in App, NEW t \in AnrType
  PROVE  ~Has(table, TimerOf(i, s, t))
<1>1. RepeatTimer(i).id = TimerOf(i, s, t).id /\ RepeatTimer(i) # TimerOf(i, s, t)
  BY TimerShapes
<1>2. QED
  BY <1>1, IdsTellApart

(* AddHandleTimer, when the table holds no timer of a repetition. *)
LEMMA AddKeeps ==
  ASSUME NEW table, TableOK(table), \A i \in TimerId : ~Has(table, RepeatTimer(i)),
         NEW lv, NEW ev, Watch(table, lv, ev), NEW after, AddHandleTimer(table, after)
  PROVE  /\ TableOK(after) /\ Watch(after, lv, ev)
         /\ Names(table, ev) => Names(after, ev)
         /\ timerId' \in TimerId \cup {NoTimer}
         /\ RepeatIs(after, timerId') /\ RepeatNamed(after, timerId')
<1>1. PICK n : n = NewTimerId(table)
  OBVIOUS
<1>2. timerId' = n /\ n \in TimerId \cup {NoTimer}
  BY <1>1, FreshTimerId DEF AddHandleTimer
<1>3. CASE n = NoTimer
  <2>1. after = table
    BY <1>1, <1>3 DEF AddHandleTimer
  <2>2. QED
    BY <1>2, <1>3, <2>1 DEF RepeatIs, RepeatNamed
<1>4. CASE n # NoTimer
  <2>1. after = Append(table, RepeatTimer(n))
    BY <1>1, <1>4 DEF AddHandleTimer, RepeatTimer
  <2>2. n \in TimerId /\ n \notin UsedIds(table)
    BY <1>1, <1>4, FreshTimerId
  <2>3. TableOK(after) /\ \A z : Has(after, z) <=> (Has(table, z) \/ z = RepeatTimer(n))
    <3>1. RepeatTimer(n) \in Timer /\ RepeatTimer(n).id = n
      BY <2>2, TimerShapes
    <3>2. QED
      BY <2>1, <2>2, <3>1, TableAppend
  <2>4. ASSUME NEW s \in App, NEW t \in AnrType, NEW i \in TimerId
        PROVE  Has(after, TimerOf(i, s, t)) <=> Has(table, TimerOf(i, s, t))
    <3>1. RepeatTimer(n) # TimerOf(i, s, t)
      BY <2>2, TimerShapes
    <3>2. QED
      BY <2>3, <3>1
  <2>5. Watch(after, lv, ev)
    BY <2>4 DEF Watch
  <2>6. ASSUME Names(table, ev) PROVE Names(after, ev)
    BY <2>3, <2>6 DEF Names
  <2>7. RepeatIs(after, n) /\ RepeatNamed(after, n)
    <3>1. ASSUME NEW i \in TimerId, Has(after, RepeatTimer(i)) PROVE i = n
      <4>1. RepeatTimer(i) = RepeatTimer(n)
        BY <2>3, <3>1
      <4>2. QED
        BY <2>2, <4>1, TimerShapes
    <3>2. QED
      BY <2>3, <3>1 DEF RepeatIs, RepeatNamed
  <2>8. QED
    BY <1>2, <2>3, <2>5, <2>6, <2>7
<1>5. QED
  BY <1>3, <1>4

(* The timer that timerId_ names is removed, if there is one. *)
LEMMA StopKeeps ==
  ASSUME NEW table, TableOK(table), RepeatIs(table, timerId),
         NEW lv, NEW ev, Watch(table, lv, ev), NEW after, after = WithoutTimer(table)
  PROVE  /\ TableOK(after) /\ Watch(after, lv, ev)
         /\ /\ Names(table, ev) /\ RepeatNamed(table, OwnTimer) /\ ~Strays(table)
            /\ ev \in [App -> [AnrType -> Seq(Entry)]]
            => Names(after, ev)
         /\ \A i \in TimerId : ~Has(after, RepeatTimer(i))
<1>1. TableOK(after) /\ \A z : Has(after, z) <=> (Has(table, z) /\ z.id # timerId)
  BY TableWithout DEF WithoutTimer
<1>2. Watch(after, lv, ev)
  BY <1>1 DEF Watch
<1>3. ASSUME NEW i \in TimerId PROVE ~Has(after, RepeatTimer(i))
  <2>1. RepeatTimer(i).id = i
    BY TimerShapes
  <2>2. QED
    BY <1>1, <2>1 DEF RepeatIs
<1>4. ASSUME Names(table, ev), RepeatNamed(table, OwnTimer), ~Strays(table),
             ev \in [App -> [AnrType -> Seq(Entry)]]
      PROVE  Names(after, ev)
  <2>1. ASSUME NEW s \in App, NEW t \in AnrType, NEW i \in TimersOf(ev[s][t])
        PROVE  Has(after, TimerOf(i, s, t))
    <3>1. Has(table, TimerOf(i, s, t))
      BY <1>4, <2>1 DEF Names
    <3>2. i \in TimerId
      <4>1. ev[s][t] \in Seq(Entry)
        BY <1>4
      <4>2. QED
        BY <2>1, <4>1, EntryFields DEF TimersOf
    <3>3. i # timerId
      <4>1. SUFFICES ASSUME i = timerId PROVE FALSE
        OBVIOUS
      <4>2. i \in UsedIds(table)
        BY <3>1, <3>2, HasTimer, TimerShapes
      <4>3. OwnTimer = i
        BY <1>4, <4>1, <4>2 DEF Strays, IsExist, OwnTimer
      <4>4. Has(table, RepeatTimer(i))
        BY <1>4, <3>2, <4>3, NoTimerIsNone DEF RepeatNamed
      <4>5. QED
        BY <3>1, <3>2, <4>4, OnlyRepeat
    <3>4. TimerOf(i, s, t).id = i
      BY <3>2, TimerShapes
    <3>5. QED
      BY <1>1, <3>1, <3>3, <3>4
  <2>2. \A s \in App, t \in AnrType : NamedOnce(ev[s][t])
    BY <1>4 DEF Names
  <2>3. QED
    BY <2>1, <2>2 DEF Names
<1>5. QED
  BY <1>1, <1>2, <1>3, <1>4

LEMMA EventIdIs ==
  ASSUME TimersInv, FreshEventId
  PROVE  nextEventId \in EventId /\ nextEventId' \in 1..(MaxEvents + 1)
BY AnrAssumption DEF TimersInv, FreshEventId, EventId

(* What every action comes down to, once the table is what it will be. *)
LEMMA InvAfter ==
  ASSUME NEW after, timers' = after, TableOK(after), KeyOK', nextEventId' \in 1..(MaxEvents + 1),
         AnrPart', Watch(after, live', events'), RepeatIs(after, timerId'),
         Lax' \/ (Names(after, events') /\ RepeatNamed(after, OwnTimer'))
  PROVE  TimersInv'
BY DEF TimersInv

LEMMA SendEventKeeps ==
  ASSUME TimersInv, NEW s \in App, NEW t \in AnrType, SendEvent(s, t)
  PROVE  TimersInv'
<1>1. nextEventId \in EventId /\ nextEventId' \in 1..(MaxEvents + 1)
  BY EventIdIs DEF SendEvent
<1>2. PICK after : after = TableAfterSend(timers, s, t)
  OBVIOUS
<1>3. TableOK(timers) /\ AnrPart /\ Watch(timers, live, events) /\ (Lax \/ Names(timers, events))
  BY DEF TimersInv
<1>4. Send(timers, s, t, nextEventId) /\ timers' = after
  BY <1>2 DEF SendEvent
<1>5. /\ TableOK(after) /\ AnrPart' /\ live' = live /\ unsent' = unsent
      /\ Watch(after, live, events') /\ (Names(timers, events) => Names(after, events'))
      /\ \A i \in TimerId : Has(after, RepeatTimer(i)) <=> Has(timers, RepeatTimer(i))
  BY <1>1, <1>2, <1>3, <1>4, SendKeeps
<1>6. /\ timerId' = timerId /\ keyEventId' = keyEventId /\ stale' = stale /\ strayed' = strayed
      /\ OwnTimer' = OwnTimer /\ Lax' = Lax
  BY <1>5 DEF SendEvent, keyVars, OwnTimer, Lax
<1>7. KeyOK' /\ RepeatIs(after, timerId')
  BY <1>5, <1>6 DEF TimersInv, KeyOK, RepeatIs
<1>8. Lax \/ RepeatNamed(after, OwnTimer)
  BY <1>5 DEF TimersInv, KeyOK, OwnTimer, RepeatNamed
<1>9. QED
  BY <1>1, <1>3, <1>4, <1>5, <1>6, <1>7, <1>8, InvAfter

(* The table from which the timer of the repetition has been taken. *)
LEMMA StartsAnew ==
  ASSUME TimersInv, NEW table, KeyTable(timers, table), NEW old, TableOK(old),
         \A i \in TimerId : ~Has(old, RepeatTimer(i)),
         Watch(old, live, events'), Lax' \/ Names(old, events'), strayed' \in BOOLEAN,
         NEW after, AddHandleTimer(old, after), timers' = after,
         keyEventId' \in EventId, nextEventId' \in 1..(MaxEvents + 1)
  PROVE  TimersInv'
<1>1. AnrPart' /\ live' = live /\ unsent' = unsent
  BY DEF KeyTable
<1>2. PICK ev : ev = events'
  OBVIOUS
<1>3. /\ TableOK(after) /\ Watch(after, live, ev)
      /\ Names(old, ev) => Names(after, ev)
      /\ timerId' \in TimerId \cup {NoTimer}
      /\ RepeatIs(after, timerId') /\ RepeatNamed(after, timerId')
  BY <1>2, AddKeeps
<1>4. stale' = FALSE /\ OwnTimer' = timerId'
  BY DEF AddHandleTimer, OwnTimer
<1>5. KeyOK'
  BY <1>3, <1>4 DEF KeyOK
<1>6. QED
  BY <1>1, <1>2, <1>3, <1>4, <1>5, InvAfter

LEMMA KeyTableFacts ==
  ASSUME TimersInv, NEW table, KeyTable(timers, table)
  PROVE  /\ RepeatIs(table, timerId) /\ (Lax \/ RepeatNamed(table, OwnTimer))
         /\ Lax \/ Names(table, events')
         /\ events' \in [App -> [AnrType -> Seq(Entry)]]
<1>1. RepeatIs(table, timerId)
  BY DEF TimersInv, KeyTable, RepeatIs
<1>2. Lax \/ RepeatNamed(table, OwnTimer)
  BY DEF TimersInv, KeyOK, KeyTable, OwnTimer, RepeatNamed
<1>3. Lax \/ Names(table, events')
  BY DEF TimersInv, KeyTable
<1>4. events' \in [App -> [AnrType -> Seq(Entry)]]
  BY DEF KeyTable, AnrPart, AnrOK
<1>5. QED
  BY <1>1, <1>2, <1>3, <1>4

LEMMA KeyDownKeeps ==
  ASSUME TimersInv, KeyDown
  PROVE  TimersInv'
<1>1. nextEventId \in EventId /\ nextEventId' \in 1..(MaxEvents + 1)
  BY EventIdIs DEF KeyDown
<1>2. PICK table, after : /\ SendKey(timers, nextEventId, table)
                          /\ SelectAutoRepeatDown(table, after) /\ after = timers'
  BY DEF KeyDown
<1>3. KeyTable(timers, table)
  BY <1>1, <1>2, SendKeyKeeps DEF TimersInv
<1>4. PICK ev : ev = events'
  OBVIOUS
<1>5. /\ RepeatIs(table, timerId) /\ (Lax \/ RepeatNamed(table, OwnTimer))
      /\ ev \in [App -> [AnrType -> Seq(Entry)]]
      /\ TableOK(table) /\ Watch(table, live, ev) /\ (Lax \/ Names(table, ev))
  BY <1>3, <1>4, KeyTableFacts DEF KeyTable
<1>6. PICK old : old = IF IsExist(table, timerId) THEN WithoutTimer(table) ELSE table
  OBVIOUS
<1> DEFINE laxAfter == Lax \/ Strays(table)
<1>7. /\ TableOK(old) /\ Watch(old, live, ev) /\ (laxAfter \/ Names(old, ev))
      /\ \A i \in TimerId : ~Has(old, RepeatTimer(i))
  <2>1. CASE IsExist(table, timerId)
    BY <1>5, <1>6, <2>1, StopKeeps
  <2>2. CASE ~IsExist(table, timerId)
    <3>1. ASSUME NEW i \in TimerId PROVE ~Has(table, RepeatTimer(i))
      <4>1. SUFFICES ASSUME Has(table, RepeatTimer(i)) PROVE FALSE
        OBVIOUS
      <4>2. i = timerId /\ RepeatTimer(i).id = i
        BY <1>5, <4>1, TimerShapes DEF RepeatIs
      <4>3. i \in UsedIds(table)
        BY <1>5, <4>1, <4>2, HasTimer
      <4>4. QED
        BY <2>2, <4>2, <4>3 DEF IsExist
    <3>2. QED
      BY <1>5, <1>6, <2>2, <3>1
  <2>3. QED
    BY <2>1, <2>2
<1>8. AddHandleTimer(old, after) /\ strayed' = (strayed \/ Strays(table))
  BY <1>2, <1>6 DEF SelectAutoRepeatDown
<1>9. laxAfter = Lax' /\ strayed' \in BOOLEAN
  BY <1>3, <1>8 DEF KeyTable, Lax
<1>10. keyEventId' \in EventId
  BY <1>1 DEF KeyDown
<1>11. QED
  BY <1>1, <1>2, <1>3, <1>4, <1>7, <1>8, <1>9, <1>10, StartsAnew

LEMMA KeyUpKeeps ==
  ASSUME TimersInv, NEW isRepeatKey \in BOOLEAN, KeyUp(isRepeatKey)
  PROVE  TimersInv'
<1>1. nextEventId \in EventId /\ nextEventId' \in 1..(MaxEvents + 1)
  BY EventIdIs DEF KeyUp
<1>2. PICK table, after : /\ SendKey(timers, nextEventId, table)
                          /\ SelectAutoRepeatUp(table, after, isRepeatKey) /\ after = timers'
  BY DEF KeyUp
<1>3. KeyTable(timers, table)
  BY <1>1, <1>2, SendKeyKeeps DEF TimersInv
<1>4. PICK ev : ev = events'
  OBVIOUS
<1>5. /\ RepeatIs(table, timerId) /\ (Lax \/ RepeatNamed(table, OwnTimer))
      /\ ev \in [App -> [AnrType -> Seq(Entry)]]
      /\ TableOK(table) /\ Watch(table, live, ev) /\ (Lax \/ Names(table, ev))
  BY <1>3, <1>4, KeyTableFacts DEF KeyTable
<1>6. AnrPart' /\ live' = live /\ unsent' = unsent
  BY <1>3 DEF KeyTable
<1>7. keyEventId' \in EventId /\ strayed' = (strayed \/ Strays(table))
  BY <1>1, <1>2 DEF KeyUp, SelectAutoRepeatUp
<1>8. Lax' = (Lax \/ Strays(table)) /\ strayed' \in BOOLEAN
  BY <1>6, <1>7 DEF Lax
<1>9. CASE ~IsExist(table, timerId)
  <2>1. after = table /\ timerId' = timerId /\ stale' = stale /\ OwnTimer' = OwnTimer
    BY <1>2, <1>9 DEF SelectAutoRepeatUp, OwnTimer
  <2>2. KeyOK'
    BY <1>7, <1>8, <2>1 DEF TimersInv, KeyOK
  <2>3. QED
    BY <1>1, <1>2, <1>4, <1>5, <1>6, <1>8, <2>1, <2>2, InvAfter
<1>10. CASE IsExist(table, timerId)
  <2>1. PICK old : old = WithoutTimer(table)
    OBVIOUS
  <2>2. /\ TableOK(old) /\ Watch(old, live, ev) /\ (Lax' \/ Names(old, ev))
        /\ \A i \in TimerId : ~Has(old, RepeatTimer(i))
    BY <1>5, <1>8, <2>1, StopKeeps
  <2>3. CASE isRepeatKey
    <3>1. timerId' = NoTimer /\ stale' = FALSE /\ OwnTimer' = NoTimer /\ after = old
      BY <1>2, <1>10, <2>1, <2>3 DEF SelectAutoRepeatUp, OwnTimer
    <3>2. KeyOK' /\ RepeatIs(after, timerId') /\ RepeatNamed(after, OwnTimer')
      BY <1>7, <1>8, <2>2, <3>1 DEF KeyOK, RepeatIs, RepeatNamed
    <3>3. QED
      BY <1>1, <1>2, <1>4, <1>6, <2>2, <3>1, <3>2, InvAfter
  <2>4. CASE ~isRepeatKey
    <3>1. AddHandleTimer(old, after)
      BY <1>2, <1>10, <2>1, <2>4 DEF SelectAutoRepeatUp
    <3>2. QED
      BY <1>1, <1>2, <1>3, <1>4, <1>7, <1>8, <2>2, <3>1, StartsAnew
  <2>5. QED
    BY <2>3, <2>4
<1>11. QED
  BY <1>9, <1>10

LEMMA RepeatKeeps ==
  ASSUME TimersInv, NEW i \in DOMAIN timers, Repeat(i)
  PROVE  TimersInv'
<1>1. /\ TableOK(timers) /\ AnrPart /\ Watch(timers, live, events) /\ KeyOK
      /\ RepeatIs(timers, timerId) /\ (Lax \/ Names(timers, events))
  BY DEF TimersInv
<1>2. PICK rest, x : rest = RemoveAt(timers, i) /\ x = timers[i]
  OBVIOUS
<1>3. /\ TableOK(rest) /\ \A z : Has(rest, z) <=> (Has(timers, z) /\ z # x)
      /\ Has(timers, x) /\ x \in Timer
  BY <1>1, <1>2, TableRemove
<1>4. x = RepeatTimer(x.id) /\ x.id \in TimerId /\ x.id = timerId
  <2>1. x.owner.kind # "anr"
    BY <1>2 DEF Repeat, IsAnr
  <2>2. x = RepeatTimer(x.id) /\ x.id \in TimerId
    BY <1>3, <2>1, TimerKinds
  <2>3. QED
    BY <1>1, <1>3, <2>2 DEF RepeatIs
<1>5. keyEventId \in EventId
  BY <1>1, <1>4, NoTimerIsNone DEF KeyOK
<1>6. ASSUME NEW s \in App, NEW t \in AnrType, NEW id \in TimerId
      PROVE  Has(rest, TimerOf(id, s, t)) <=> Has(timers, TimerOf(id, s, t))
  <2>1. TimerOf(id, s, t) # x
    BY <1>4, TimerShapes
  <2>2. QED
    BY <1>3, <2>1
<1>7. Watch(rest, live, events)
  BY <1>1, <1>6 DEF Watch
<1>8. ASSUME Names(timers, events) PROVE Names(rest, events)
  <2>1. ASSUME NEW s \in App, NEW t \in AnrType, NEW id \in TimersOf(events[s][t])
        PROVE  Has(rest, TimerOf(id, s, t))
    <3>1. events[s][t] \in Seq(Entry)
      BY <1>1 DEF AnrPart, AnrOK
    <3>2. id \in TimerId
      BY <2>1, <3>1, EntryFields DEF TimersOf
    <3>3. QED
      BY <1>6, <1>8, <3>2 DEF Names
  <2>2. QED
    BY <1>8, <2>1 DEF Names
<1>9. ASSUME NEW id \in TimerId PROVE ~Has(rest, RepeatTimer(id))
  <2>1. SUFFICES ASSUME Has(rest, RepeatTimer(id)) PROVE FALSE
    OBVIOUS
  <2>2. Has(timers, RepeatTimer(id)) /\ RepeatTimer(id) # x
    BY <1>3, <2>1
  <2>3. QED
    BY <1>1, <1>4, <2>2 DEF RepeatIs
<1>10. nextEventId \in EventId /\ nextEventId' \in 1..(MaxEvents + 1)
  BY EventIdIs DEF Repeat
<1>11. PICK table, after : /\ SendKey(rest, keyEventId, table)
                           /\ AddHandleTimer(table, after) /\ after = timers'
  BY <1>2 DEF Repeat
<1>12. KeyTable(rest, table)
  BY <1>1, <1>3, <1>5, <1>7, <1>8, <1>11, SendKeyKeeps
<1>13. PICK ev : ev = events'
  OBVIOUS
<1>14. /\ TableOK(table) /\ Watch(table, live, ev) /\ (Lax \/ Names(table, ev))
       /\ AnrPart' /\ live' = live /\ unsent' = unsent
       /\ \A id \in TimerId : ~Has(table, RepeatTimer(id))
  BY <1>1, <1>8, <1>9, <1>12, <1>13 DEF KeyTable
<1>15. /\ TableOK(after) /\ Watch(after, live, ev)
       /\ Names(table, ev) => Names(after, ev)
       /\ timerId' \in TimerId \cup {NoTimer}
       /\ RepeatIs(after, timerId') /\ RepeatNamed(after, timerId')
  BY <1>11, <1>14, AddKeeps
<1>16. keyEventId' \in EventId
  BY <1>10 DEF Repeat
<1>17. stale' = FALSE /\ strayed' = strayed /\ OwnTimer' = timerId' /\ Lax' = Lax
  BY <1>11, <1>14 DEF Repeat, AddHandleTimer, OwnTimer, Lax
<1>18. KeyOK'
  BY <1>1, <1>15, <1>16, <1>17 DEF KeyOK
<1>19. QED
  BY <1>10, <1>11, <1>13, <1>14, <1>15, <1>17, <1>18, InvAfter

(* The cooperation has the repetition's timer removed, or what timerId_ names
   instead. *)
LEMMA CooperationEndsKeeps ==
  ASSUME TimersInv, CooperationEnds
  PROVE  TimersInv'
<1>1. /\ TableOK(timers) /\ AnrPart /\ Watch(timers, live, events) /\ KeyOK
      /\ RepeatIs(timers, timerId) /\ nextEventId \in 1..(MaxEvents + 1)
      /\ Lax \/ (Names(timers, events) /\ RepeatNamed(timers, OwnTimer))
  BY DEF TimersInv
<1>2. PICK after : after = timers'
  OBVIOUS
<1>3. /\ after = WithoutTimer(timers) /\ timerId' = timerId /\ keyEventId' = keyEventId
      /\ strayed' = (strayed \/ Strays(timers)) /\ stale' = (timerId # NoTimer)
      /\ nextEventId' = nextEventId /\ live' = live /\ events' = events
      /\ isAnrProcess' = isAnrProcess /\ anrTimerCount' = anrTimerCount
      /\ anrNoticedPid' = anrNoticedPid /\ unprocessed' = unprocessed
      /\ unreliable' = unreliable /\ unsent' = unsent
  BY <1>2 DEF CooperationEnds, RemoveTimer, anrVars
<1>4. AnrPart'
  BY <1>1, <1>3 DEF AnrPart, AnrOK, CountOK, MarksRemoveEvents
<1>5. KeyOK'
  BY <1>1, <1>3 DEF KeyOK
<1>6. OwnTimer' = NoTimer /\ Lax' = (Lax \/ Strays(timers))
  BY <1>3 DEF OwnTimer, Lax
<1>7. PICK ev : ev = events
  OBVIOUS
<1>8. ev \in [App -> [AnrType -> Seq(Entry)]]
  BY <1>1, <1>7 DEF AnrPart, AnrOK
<1>9. /\ TableOK(after) /\ Watch(after, live, ev)
      /\ Lax' \/ Names(after, ev)
      /\ \A i \in TimerId : ~Has(after, RepeatTimer(i))
  BY <1>1, <1>3, <1>6, <1>7, <1>8, StopKeeps
<1>10. RepeatIs(after, timerId') /\ RepeatNamed(after, OwnTimer')
  BY <1>6, <1>9 DEF RepeatIs, RepeatNamed
<1>11. QED
  BY <1>1, <1>2, <1>3, <1>4, <1>5, <1>7, <1>9, <1>10, InvAfter

(* MarkProcessed takes the events at the head of a list, and their timers. *)
LEMMA CutCount ==
  ASSUME NEW e \in Seq(Entry), NEW n \in 0..Len(e)
  PROVE  Cardinality(Watched(e)) =
           Cardinality(Watched(SubSeq(e, 1, n))) + Cardinality(Watched(SubSeq(e, n + 1, Len(e))))
<1>1. PICK a, b : a = SubSeq(e, 1, n) /\ b = SubSeq(e, n + 1, Len(e))
  OBVIOUS
<1>2. /\ a \in Seq(Entry) /\ DOMAIN a = 1..n
      /\ \A i \in 1..n : i \in DOMAIN e /\ a[i] = e[i]
      /\ b \in Seq(Entry) /\ DOMAIN b = 1..Len(e) - n
      /\ \A i \in 1..Len(e) - n : n + i \in DOMAIN e /\ b[i] = e[n + i]
  BY <1>1, CutAfter
<1>3. Len(e) \in Nat /\ DOMAIN e = 1..Len(e) /\ n \in Nat /\ n <= Len(e)
  BY SeqFacts
<1>4. PICK A, B, W : /\ A = Watched(a) /\ W = Watched(e)
                     /\ B = {k \in n + 1..Len(e) : e[k].timer # NoTimer}
  OBVIOUS
<1>5. A = {k \in 1..n : e[k].timer # NoTimer}
  BY <1>2, <1>4 DEF Watched
<1>6. W = A \cup B /\ A \cap B = {}
  <2>1. W = {k \in 1..Len(e) : e[k].timer # NoTimer}
    BY <1>3, <1>4 DEF Watched
  <2>2. \A k \in 1..Len(e) : k \in 1..n \/ k \in n + 1..Len(e)
    BY <1>3
  <2>3. \A k \in 1..n : k \in 1..Len(e) /\ k \notin n + 1..Len(e)
    BY <1>3
  <2>4. \A k \in n + 1..Len(e) : k \in 1..Len(e)
    BY <1>3
  <2>5. QED
    BY <1>4, <1>5, <2>1, <2>2, <2>3, <2>4
<1>7. IsFiniteSet(A) /\ IsFiniteSet(Watched(b))
  BY <1>2, <1>4, WatchedIsFinite
<1>8. IsFiniteSet(B) /\ Cardinality(B) = Cardinality(Watched(b))
  <2>1. PICK f : f = [k \in Watched(b) |-> n + k]
    OBVIOUS
  <2>2. ASSUME NEW k \in Watched(b) PROVE k \in Nat /\ n + k \in B
    <3>1. k \in 1..Len(e) - n /\ b[k].timer # NoTimer
      BY <1>2 DEF Watched
    <3>2. n + k \in n + 1..Len(e) /\ k \in Nat
      BY <1>3, <3>1
    <3>3. QED
      BY <1>2, <1>4, <3>1, <3>2
  <2>3. f \in [Watched(b) -> B]
    BY <2>1, <2>2
  <2>4. \A x, y \in Watched(b) : f[x] = f[y] => x = y
    <3>1. SUFFICES ASSUME NEW x \in Watched(b), NEW y \in Watched(b), f[x] = f[y] PROVE x = y
      OBVIOUS
    <3>2. n + x = n + y
      BY <2>1, <3>1
    <3>3. n \in Nat /\ x \in Nat /\ y \in Nat
      BY <1>3, <2>2
    <3>4. QED
      BY <3>2, <3>3
  <2>5. ASSUME NEW z \in B PROVE \E x \in Watched(b) : f[x] = z
    <3>1. z \in n + 1..Len(e) /\ e[z].timer # NoTimer
      BY <1>4
    <3>2. z - n \in 1..Len(e) - n /\ n + (z - n) = z
      BY <1>3, <3>1
    <3>3. z - n \in Watched(b)
      BY <1>2, <3>1, <3>2 DEF Watched
    <3>4. QED
      BY <2>1, <3>2, <3>3
  <2>6. QED
    BY <1>7, <2>3, <2>4, <2>5, OneToOne
<1>9. Cardinality(W) = Cardinality(A) + Cardinality(B)
  <2>1. Cardinality(A \cup B) = Cardinality(A) + Cardinality(B) - Cardinality(A \cap B)
    BY <1>7, <1>8, FS_Union
  <2>2. Cardinality(A \cap B) = 0
    BY <1>6, FS_EmptySet
  <2>3. Cardinality(A) \in Nat /\ Cardinality(B) \in Nat
    BY <1>7, <1>8, FS_CardinalityType
  <2>4. QED
    BY <1>6, <2>1, <2>2, <2>3
<1>10. QED
  BY <1>1, <1>4, <1>8, <1>9

(* The timers of a list that is cut. *)
LEMMA CutTimers ==
  ASSUME NEW e \in Seq(Entry), NEW n \in 0..Len(e)
  PROVE  LET a == SubSeq(e, 1, n)
             b == SubSeq(e, n + 1, Len(e))
         IN  /\ TimersOf(e) = TimersOf(a) \cup TimersOf(b)
             /\ NamedOnce(e) => NamedOnce(b) /\ TimersOf(a) \cap TimersOf(b) = {}
<1>1. PICK a, b : a = SubSeq(e, 1, n) /\ b = SubSeq(e, n + 1, Len(e))
  OBVIOUS
<1>2. /\ DOMAIN a = 1..n
      /\ \A i \in 1..n : i \in DOMAIN e /\ a[i] = e[i]
      /\ DOMAIN b = 1..Len(e) - n
      /\ \A i \in 1..Len(e) - n : n + i \in DOMAIN e /\ b[i] = e[n + i]
  BY <1>1, CutAfter
<1>3. Len(e) \in Nat /\ DOMAIN e = 1..Len(e) /\ n \in Nat /\ n <= Len(e)
  BY SeqFacts
<1>4. ASSUME NEW i \in DOMAIN e PROVE i \in DOMAIN a \/ (i - n \in DOMAIN b /\ n + (i - n) = i)
  BY <1>2, <1>3
<1>5. TimersOf(e) = TimersOf(a) \cup TimersOf(b)
  <2>1. ASSUME NEW y \in TimersOf(e) PROVE y \in TimersOf(a) \cup TimersOf(b)
    <3>1. PICK i \in DOMAIN e : y = e[i].timer /\ y # NoTimer
      BY DEF TimersOf
    <3>2. CASE i \in DOMAIN a
      BY <1>2, <3>1, <3>2 DEF TimersOf
    <3>3. CASE i - n \in DOMAIN b /\ n + (i - n) = i
      <4>1. b[i - n] = e[i]
        BY <1>2, <3>3
      <4>2. QED
        BY <3>1, <3>3, <4>1 DEF TimersOf
    <3>4. QED
      BY <1>4, <3>2, <3>3
  <2>2. ASSUME NEW y \in TimersOf(a) PROVE y \in TimersOf(e)
    BY <1>2 DEF TimersOf
  <2>3. ASSUME NEW y \in TimersOf(b) PROVE y \in TimersOf(e)
    <3>1. PICK i \in DOMAIN b : y = b[i].timer /\ y # NoTimer
      BY DEF TimersOf
    <3>2. n + i \in DOMAIN e /\ b[i] = e[n + i]
      BY <1>2
    <3>3. QED
      BY <3>1, <3>2 DEF TimersOf
  <2>4. QED
    BY <2>1, <2>2, <2>3
<1>6. ASSUME NamedOnce(e) PROVE NamedOnce(b)
  <2>1. SUFFICES ASSUME NEW j \in DOMAIN b, NEW k \in DOMAIN b,
                        b[j].timer = b[k].timer, b[j].timer # NoTimer
                 PROVE  j = k
    BY DEF NamedOnce
  <2>2. /\ n + j \in DOMAIN e /\ b[j] = e[n + j] /\ n + k \in DOMAIN e /\ b[k] = e[n + k]
    BY <1>2
  <2>3. n + j = n + k
    BY <1>6, <2>1, <2>2 DEF NamedOnce
  <2>4. j \in Nat /\ k \in Nat
    BY <1>2, <1>3
  <2>5. QED
    BY <1>3, <2>3, <2>4
<1>7. ASSUME NamedOnce(e) PROVE TimersOf(a) \cap TimersOf(b) = {}
  <2>1. SUFFICES ASSUME NEW y \in TimersOf(a), y \in TimersOf(b) PROVE FALSE
    OBVIOUS
  <2>2. PICK i \in DOMAIN a : y = a[i].timer /\ y # NoTimer
    BY DEF TimersOf
  <2>3. PICK j \in DOMAIN b : y = b[j].timer
    BY <2>1 DEF TimersOf
  <2>4. i \in DOMAIN e /\ a[i] = e[i] /\ n + j \in DOMAIN e /\ b[j] = e[n + j]
    BY <1>2
  <2>5. i = n + j
    BY <1>7, <2>2, <2>3, <2>4 DEF NamedOnce
  <2>6. i \in 1..n /\ j \in 1..Len(e) - n
    BY <1>2
  <2>7. QED
    BY <1>3, <2>5, <2>6
<1>8. QED
  BY <1>1, <1>5, <1>6, <1>7

(* What has been taken from one list, and from the table with it. *)
LEMMA MarkKeeps ==
  ASSUME TimersInv, NEW s \in App, NEW t \in AnrType, NEW k \in DOMAIN unprocessed[s][t],
         Mark(s, t, k)
  PROVE  TimersInv'
<1>1. /\ TableOK(timers) /\ AnrPart /\ Watch(timers, live, events) /\ KeyOK
      /\ RepeatIs(timers, timerId) /\ nextEventId \in 1..(MaxEvents + 1)
      /\ Lax \/ (Names(timers, events) /\ RepeatNamed(timers, OwnTimer))
  BY DEF TimersInv
<1>2. PICK e, ids : e = events[s][t] /\ ids = unprocessed[s][t]
  OBVIOUS
<1>3. PICK n : n = HeadLength(e, ids[k])
  OBVIOUS
<1>4. PICK head, rest, after : /\ head = SubSeq(e, 1, n) /\ rest = SubSeq(e, n + 1, Len(e))
                               /\ after = Without(timers, TimersOf(head))
  OBVIOUS
<1>5. /\ events \in [App -> [AnrType -> Seq(Entry)]] /\ e \in Seq(Entry)
      /\ unprocessed \in [App -> [AnrType -> Seq(EventId)]] /\ ids \in Seq(EventId)
      /\ k \in DOMAIN ids
  BY <1>1, <1>2 DEF AnrPart, AnrOK
<1>6. n \in 0..Len(e) /\ ids[k] \in Nat
  <2>1. ids[k] \in Nat
    BY <1>5, IdsOf
  <2>2. QED
    BY <1>3, <1>5, <2>1, HeadLengthIs
<1>7. /\ unprocessed' = [unprocessed EXCEPT ![s][t] = RemoveAt(ids, k)]
      /\ events' = [events EXCEPT ![s][t] = rest]
      /\ anrTimerCount' = anrTimerCount - Cardinality(Watched(head))
      /\ isAnrProcess' = [isAnrProcess EXCEPT ![s][t] = @ /\ ~(n > 0 /\ Responds(rest))]
      /\ live' = live /\ anrNoticedPid' = anrNoticedPid
      /\ unreliable' = unreliable /\ unsent' = unsent
  BY <1>2, <1>3, <1>4 DEF Mark, MarkProcessed
<1>8. /\ timers' = after /\ nextEventId' = nextEventId /\ timerId' = timerId /\ keyEventId' = keyEventId
      /\ stale' = stale /\ strayed' = strayed /\ OwnTimer' = OwnTimer /\ Lax' = Lax
  BY <1>2, <1>3, <1>4, <1>7 DEF Mark, TableAfterMark, keyVars, OwnTimer, Lax
<1>9. rest \in Seq(Entry) /\ RemoveAt(ids, k) \in Seq(EventId) /\ head \in Seq(Entry)
  <2>1. rest \in Seq(Entry) /\ head \in Seq(Entry)
    BY <1>4, <1>5, <1>6, CutAfter
  <2>2. RemoveAt(ids, k) \in Seq(EventId)
    BY <1>5, RemoveAtElements
  <2>3. QED
    BY <2>1, <2>2
<1>10. /\ events' \in [App -> [AnrType -> Seq(Entry)]] /\ events'[s][t] = rest
       /\ \A x \in App, y \in AnrType : x # s \/ y # t => events'[x][y] = events[x][y]
  BY <1>5, <1>7, <1>9, Except2
<1>11. /\ unprocessed' \in [App -> [AnrType -> Seq(EventId)]]
       /\ unprocessed'[s][t] = RemoveAt(ids, k)
       /\ \A x \in App, y \in AnrType : x # s \/ y # t => unprocessed'[x][y] = unprocessed[x][y]
  BY <1>5, <1>7, <1>9, Except2
<1>12. TableOK(after) /\ \A x : Has(after, x) <=> (Has(timers, x) /\ x.id \notin TimersOf(head))
  BY <1>1, <1>4, TableWithout
<1>13. /\ TimersOf(e) = TimersOf(head) \cup TimersOf(rest)
       /\ NamedOnce(e) => NamedOnce(rest) /\ TimersOf(head) \cap TimersOf(rest) = {}
  BY <1>4, <1>5, <1>6, CutTimers
<1>14. CountOK' /\ anrTimerCount' \in 0..MaxAnrTimers
  <2>1. /\ IsFiniteSet(WatchedIn(events)) /\ anrTimerCount = Cardinality(WatchedIn(events))
        /\ anrTimerCount \in 0..MaxAnrTimers
    BY <1>1 DEF AnrPart, CountOK, AnrOK
  <2>2. /\ IsFiniteSet(WatchedIn(events'))
        /\ Cardinality(WatchedIn(events')) = Cardinality(WatchedIn(events))
             - Cardinality(Watched(e)) + Cardinality(Watched(rest))
        /\ Cardinality(Watched(e)) <= Cardinality(WatchedIn(events))
    BY <1>2, <1>5, <1>7, <1>9, <2>1, ChangedCount
  <2>3. Cardinality(Watched(e)) = Cardinality(Watched(head)) + Cardinality(Watched(rest))
    BY <1>4, <1>5, <1>6, CutCount
  <2>4. /\ Cardinality(Watched(e)) \in Nat /\ Cardinality(Watched(head)) \in Nat
        /\ Cardinality(Watched(rest)) \in Nat
    BY <1>5, <1>9, WatchedIsFinite
  <2>5. Cardinality(WatchedIn(events')) = anrTimerCount' /\ anrTimerCount' \in 0..MaxAnrTimers
    BY <1>7, <2>1, <2>2, <2>3, <2>4, AnrAssumption
  <2>6. QED
    BY <2>2, <2>5 DEF CountOK
<1>15. AnrOK'
  <2>1. isAnrProcess' \in [App -> [AnrType -> BOOLEAN]]
    <3>1. isAnrProcess \in [App -> [AnrType -> BOOLEAN]]
      BY <1>1 DEF AnrPart, AnrOK
    <3>2. (isAnrProcess[s][t] /\ ~(n > 0 /\ Responds(rest))) \in BOOLEAN
      OBVIOUS
    <3>3. QED
      BY <1>7, <3>1, <3>2, Except2
  <2>2. QED
    BY <1>1, <1>7, <1>10, <1>11, <1>14, <2>1 DEF AnrPart, AnrOK
<1>16. MarksRemoveEvents'
  <2>1. ASSUME NEW x \in App \ unreliable, NEW y \in AnrType
        PROVE  Covered(events'[x][y], unprocessed'[x][y])
    <3>1. Covered(events[x][y], unprocessed[x][y])
      BY <1>1 DEF AnrPart, MarksRemoveEvents
    <3>2. CASE x = s /\ y = t
      <4>1. Covered(e, ids)
        BY <1>2, <3>1, <3>2
      <4>2. Covered(rest, RemoveAt(ids, k))
        BY <1>3, <1>4, <1>5, <4>1, CoveredAfterMark
      <4>3. QED
        BY <1>10, <1>11, <3>2, <4>2
    <3>3. QED
      BY <1>10, <1>11, <3>1, <3>2
  <2>2. QED
    BY <1>7, <2>1 DEF MarksRemoveEvents
<1>17. Watch(after, live', events')
  <2>1. SUFFICES ASSUME NEW x \in App, NEW y \in AnrType, NEW i \in TimerId,
                        Has(after, TimerOf(i, x, y))
                 PROVE  x \in live' /\ i \in TimersOf(events'[x][y])
    BY DEF Watch
  <2>2. Has(timers, TimerOf(i, x, y)) /\ i \notin TimersOf(head)
    BY <1>12, <2>1, TimerShapes
  <2>3. x \in live /\ i \in TimersOf(events[x][y])
    BY <1>1, <2>2 DEF Watch
  <2>4. CASE x = s /\ y = t
    BY <1>2, <1>7, <1>10, <1>13, <2>2, <2>3, <2>4
  <2>5. CASE x # s \/ y # t
    BY <1>7, <1>10, <2>3, <2>5
  <2>6. QED
    BY <2>4, <2>5
<1>18. RepeatIs(after, timerId')
  BY <1>1, <1>8, <1>12 DEF RepeatIs
<1>19. ASSUME Names(timers, events), RepeatNamed(timers, OwnTimer)
       PROVE  Names(after, events') /\ RepeatNamed(after, OwnTimer')
  <2>1. \A i \in TimersOf(head) : i \in TimerId /\ Has(timers, TimerOf(i, s, t))
    <3>1. \A j \in DOMAIN head : head[j].timer \in TimerId \cup {NoTimer}
      BY <1>9, EntryFields
    <3>2. TimersOf(head) \subseteq TimerId
      BY <3>1 DEF TimersOf
    <3>3. \A i \in TimersOf(head) : i \in TimersOf(e) /\ i \in TimerId
      BY <1>13, <3>2
    <3>4. QED
      BY <1>2, <1>19, <3>3 DEF Names
  <2>2. ASSUME NEW x \in App, NEW y \in AnrType, NEW i \in TimersOf(events'[x][y])
        PROVE  Has(after, TimerOf(i, x, y))
    <3>1. i \in TimersOf(events[x][y]) /\ (x = s /\ y = t => i \in TimersOf(rest))
      BY <1>2, <1>10, <1>13, <2>2
    <3>2. Has(timers, TimerOf(i, x, y))
      BY <1>19, <3>1 DEF Names
    <3>3. i \in TimerId
      <4>1. events[x][y] \in Seq(Entry)
        BY <1>5
      <4>2. QED
        BY <3>1, <4>1, EntryFields DEF TimersOf
    <3>4. i \notin TimersOf(head)
      <4>1. SUFFICES ASSUME i \in TimersOf(head) PROVE FALSE
        OBVIOUS
      <4>2. Has(timers, TimerOf(i, s, t)) /\ TimerOf(i, s, t).id = TimerOf(i, x, y).id
        BY <2>1, <3>3, <4>1, TimerShapes
      <4>3. TimerOf(i, s, t) = TimerOf(i, x, y)
        BY <1>1, <3>2, <4>2, IdsTellApart
      <4>4. x = s /\ y = t
        BY <3>3, <4>3, TimerShapes
      <4>5. NamedOnce(e)
        BY <1>2, <1>19 DEF Names
      <4>6. QED
        BY <1>13, <3>1, <4>1, <4>4, <4>5
    <3>5. QED
      BY <1>12, <3>2, <3>3, <3>4, TimerShapes
  <2>3. ASSUME NEW x \in App, NEW y \in AnrType PROVE NamedOnce(events'[x][y])
    BY <1>2, <1>10, <1>13, <1>19 DEF Names
  <2>4. RepeatNamed(after, OwnTimer)
    <3>1. SUFFICES ASSUME OwnTimer # NoTimer PROVE Has(after, RepeatTimer(OwnTimer))
      BY DEF RepeatNamed
    <3>2. OwnTimer \in TimerId /\ Has(timers, RepeatTimer(OwnTimer))
      BY <1>1, <1>19, <3>1 DEF KeyOK, RepeatNamed, OwnTimer
    <3>3. OwnTimer \notin TimersOf(head)
      BY <1>1, <2>1, <3>2, OnlyRepeat
    <3>4. QED
      BY <1>12, <3>2, <3>3, TimerShapes
  <2>5. QED
    BY <1>8, <2>2, <2>3, <2>4 DEF Names
<1>20. KeyOK'
  BY <1>1, <1>8 DEF KeyOK
<1>21. AnrPart'
  BY <1>14, <1>15, <1>16 DEF AnrPart
<1>22. QED
  BY <1>1, <1>7, <1>8, <1>12, <1>17, <1>18, <1>19, <1>20, <1>21, InvAfter

(* Lists with the same ids are removed by the same marks. *)
LEMMA SameIds ==
  ASSUME NEW e \in Seq(Entry), NEW f, DOMAIN f = DOMAIN e, \A k \in DOMAIN e : f[k].id = e[k].id,
         NEW ids, Covered(e, ids)
  PROVE  Covered(f, ids)
<1>1. ASSUME NEW k \in DOMAIN f PROVE \E j, n : Covers(f, ids, k, j, n)
  <2>1. PICK j, n : Covers(e, ids, k, j, n)
    BY DEF Covered
  <2>2. \A i \in 1..k : i \in DOMAIN e
    <3>1. Len(e) \in Nat /\ DOMAIN e = 1..Len(e)
      BY SeqFacts
    <3>2. QED
      BY <3>1
  <2>3. Covers(f, ids, k, j, n)
    BY <2>1, <2>2 DEF Covers
  <2>4. QED
    BY <2>3
<1>2. QED
  BY <1>1 DEF Covered

LEMMA ForgottenIs ==
  ASSUME NEW e \in Seq(Entry)
  PROVE  /\ Forgotten(e) \in Seq(Entry) /\ DOMAIN Forgotten(e) = DOMAIN e
         /\ \A k \in DOMAIN e : Forgotten(e)[k].id = e[k].id
         /\ Watched(Forgotten(e)) = {} /\ TimersOf(Forgotten(e)) = {} /\ NamedOnce(Forgotten(e))
<1>1. PICK f : f = Forgotten(e)
  OBVIOUS
<1>2. f = [k \in DOMAIN e |-> [e[k] EXCEPT !.timer = NoTimer]]
  BY <1>1 DEF Forgotten
<1>3. ASSUME NEW k \in DOMAIN e
      PROVE  f[k] \in Entry /\ f[k].id = e[k].id /\ f[k].timer = NoTimer
  <2>1. PICK x : x = e[k]
    OBVIOUS
  <2>2. x \in Entry
    BY <2>1, EntryFields
  <2>3. f[k] = [x EXCEPT !.timer = NoTimer]
    BY <1>2, <2>1
  <2>4. f[k] \in Entry /\ f[k].id = x.id /\ f[k].timer = NoTimer
    BY <2>2, <2>3 DEF Entry
  <2>5. QED
    BY <2>1, <2>4
<1>4. f \in Seq(Entry)
  <2>1. PICK n \in Nat : DOMAIN e = 1..n
    BY SeqFacts
  <2>2. f \in [1..n -> Entry]
    BY <1>2, <1>3, <2>1
  <2>3. QED
    BY <2>2, SeqDef
<1>5. DOMAIN f = DOMAIN e
  BY <1>2
<1>6. Watched(f) = {} /\ TimersOf(f) = {} /\ NamedOnce(f)
  BY <1>3, <1>5 DEF Watched, TimersOf, NamedOnce
<1>7. QED
  BY <1>1, <1>3, <1>4, <1>5, <1>6

LEMMA AnrKeeps ==
  ASSUME TimersInv, NEW i \in DOMAIN timers, NEW sent \in BOOLEAN, Anr(i, sent)
  PROVE  TimersInv'
<1>1. /\ TableOK(timers) /\ AnrPart /\ Watch(timers, live, events) /\ KeyOK
      /\ RepeatIs(timers, timerId) /\ nextEventId \in 1..(MaxEvents + 1)
      /\ Lax \/ (Names(timers, events) /\ RepeatNamed(timers, OwnTimer))
  BY DEF TimersInv
<1>2. PICK x, s, t, rest : /\ x = timers[i] /\ s = timers[i].owner.app /\ t = timers[i].owner.type
                           /\ rest = RemoveAt(timers, i)
  OBVIOUS
<1>3. /\ TableOK(rest) /\ \A z : Has(rest, z) <=> (Has(timers, z) /\ z # x)
      /\ Has(timers, x) /\ x \in Timer
  BY <1>1, <1>2, TableRemove
<1>4. s \in App /\ t \in AnrType /\ x = TimerOf(x.id, s, t) /\ x.id \in TimerId
  <2>1. x.owner.kind = "anr"
    BY <1>2 DEF Anr, IsAnr
  <2>2. QED
    BY <1>2, <1>3, <2>1, TimerKinds
<1>5. PICK after, e : after = TableAfterTimeout(rest, s, t, sent) /\ e = events[s][t]
  OBVIOUS
<1>6. /\ timers' = after /\ nextEventId' = nextEventId /\ timerId' = timerId
      /\ keyEventId' = keyEventId /\ stale' = stale /\ strayed' = strayed
      /\ OwnTimer' = OwnTimer /\ Timeout(s, t, sent)
  BY <1>2, <1>5 DEF Anr, keyVars, OwnTimer
<1>7. /\ isAnrProcess' = [isAnrProcess EXCEPT ![s][t] = TRUE]
      /\ live' = live /\ anrNoticedPid' = anrNoticedPid /\ unprocessed' = unprocessed
      /\ unreliable' = unreliable /\ unsent' = (unsent \/ ~sent)
  BY <1>6 DEF Timeout
<1>8. isAnrProcess' \in [App -> [AnrType -> BOOLEAN]]
  <2>1. isAnrProcess \in [App -> [AnrType -> BOOLEAN]]
    BY <1>1 DEF AnrPart, AnrOK
  <2>2. QED
    BY <1>4, <1>7, <2>1, Except2
<1>9. events \in [App -> [AnrType -> Seq(Entry)]] /\ e \in Seq(Entry)
  BY <1>1, <1>4, <1>5 DEF AnrPart, AnrOK
<1>10. KeyOK'
  BY <1>1, <1>6 DEF KeyOK
<1>11. CASE ~sent
  <2>1. after = rest /\ events' = events /\ anrTimerCount' = anrTimerCount /\ Lax'
    BY <1>5, <1>6, <1>7, <1>11 DEF TableAfterTimeout, Timeout, Lax
  <2>2. AnrPart'
    BY <1>1, <1>7, <1>8, <2>1 DEF AnrPart, AnrOK, CountOK, MarksRemoveEvents
  <2>3. Watch(after, live', events') /\ RepeatIs(after, timerId')
    BY <1>1, <1>3, <1>6, <1>7, <2>1 DEF Watch, RepeatIs
  <2>4. QED
    BY <1>1, <1>3, <1>6, <1>10, <2>1, <2>2, <2>3, InvAfter
<1>12. CASE sent
  <2>1. /\ after = Without(rest, TimersOf(e)) /\ Lax' = Lax
        /\ events' = [events EXCEPT ![s][t] = Forgotten(e)]
        /\ anrTimerCount' = anrTimerCount - Cardinality(Watched(e))
    BY <1>1, <1>5, <1>6, <1>7, <1>12 DEF TableAfterTimeout, Timeout, AnrPart, AnrOK, Lax
  <2>2. TableOK(after) /\ \A z : Has(after, z) <=> (Has(timers, z) /\ z # x /\ z.id \notin TimersOf(e))
    BY <1>3, <2>1, TableWithout
  <2>3. /\ Forgotten(e) \in Seq(Entry) /\ DOMAIN Forgotten(e) = DOMAIN e
        /\ \A k \in DOMAIN e : Forgotten(e)[k].id = e[k].id
        /\ Watched(Forgotten(e)) = {} /\ TimersOf(Forgotten(e)) = {} /\ NamedOnce(Forgotten(e))
    BY <1>9, ForgottenIs
  <2>4. /\ events' \in [App -> [AnrType -> Seq(Entry)]] /\ events'[s][t] = Forgotten(e)
        /\ \A z \in App, y \in AnrType : z # s \/ y # t => events'[z][y] = events[z][y]
    BY <1>4, <1>9, <2>1, <2>3, Except2
  <2>5. CountOK' /\ anrTimerCount' \in 0..MaxAnrTimers
    <3>1. /\ IsFiniteSet(WatchedIn(events)) /\ anrTimerCount = Cardinality(WatchedIn(events))
          /\ anrTimerCount \in 0..MaxAnrTimers
      BY <1>1 DEF AnrPart, CountOK, AnrOK
    <3>2. /\ IsFiniteSet(WatchedIn(events'))
          /\ Cardinality(WatchedIn(events')) = Cardinality(WatchedIn(events))
               - Cardinality(Watched(e)) + Cardinality(Watched(Forgotten(e)))
          /\ Cardinality(Watched(e)) <= Cardinality(WatchedIn(events))
      <4>1. PICK new : new = Forgotten(e) /\ new \in Seq(Entry)
        BY <2>3
      <4>2. /\ IsFiniteSet(WatchedIn([events EXCEPT ![s][t] = new]))
            /\ Cardinality(WatchedIn([events EXCEPT ![s][t] = new])) =
                 Cardinality(WatchedIn(events)) - Cardinality(Watched(events[s][t]))
                   + Cardinality(Watched(new))
            /\ Cardinality(Watched(events[s][t])) <= Cardinality(WatchedIn(events))
        BY <1>4, <1>9, <3>1, <4>1, ChangedCount
      <4>3. QED
        BY <1>5, <2>1, <4>1, <4>2
    <3>3. Cardinality(Watched(Forgotten(e))) = 0 /\ Cardinality(Watched(e)) \in Nat
      BY <1>9, <2>3, FS_EmptySet, WatchedIsFinite
    <3>4. Cardinality(WatchedIn(events')) = anrTimerCount' /\ anrTimerCount' \in 0..MaxAnrTimers
      BY <2>1, <3>1, <3>2, <3>3, AnrAssumption
    <3>5. QED
      BY <3>2, <3>4 DEF CountOK
  <2>6. AnrOK'
    BY <1>1, <1>7, <1>8, <2>1, <2>4, <2>5 DEF AnrPart, AnrOK
  <2>7. MarksRemoveEvents'
    <3>1. ASSUME NEW z \in App \ unreliable, NEW y \in AnrType
          PROVE  Covered(events'[z][y], unprocessed[z][y])
      <4>1. Covered(events[z][y], unprocessed[z][y])
        BY <1>1 DEF AnrPart, MarksRemoveEvents
      <4>2. CASE z = s /\ y = t
        <5>1. Covered(e, unprocessed[s][t])
          BY <1>5, <4>1, <4>2
        <5>2. Covered(Forgotten(e), unprocessed[s][t])
          BY <1>9, <2>3, <5>1, SameIds
        <5>3. QED
          BY <2>4, <4>2, <5>2
      <4>3. QED
        BY <2>4, <4>1, <4>2
    <3>2. QED
      BY <1>7, <3>1 DEF MarksRemoveEvents
  <2>8. Watch(after, live', events')
    <3>1. SUFFICES ASSUME NEW z \in App, NEW y \in AnrType, NEW j \in TimerId,
                          Has(after, TimerOf(j, z, y))
                   PROVE  z \in live' /\ j \in TimersOf(events'[z][y])
      BY DEF Watch
    <3>2. Has(timers, TimerOf(j, z, y)) /\ j \notin TimersOf(e)
      BY <2>2, <3>1, TimerShapes
    <3>3. z \in live /\ j \in TimersOf(events[z][y])
      BY <1>1, <3>2 DEF Watch
    <3>4. z # s \/ y # t
      BY <1>5, <3>2, <3>3
    <3>5. QED
      BY <1>7, <2>4, <3>3, <3>4
  <2>9. RepeatIs(after, timerId')
    BY <1>1, <1>6, <2>2 DEF RepeatIs
  <2>10. ASSUME Names(timers, events), RepeatNamed(timers, OwnTimer)
         PROVE  Names(after, events') /\ RepeatNamed(after, OwnTimer')
    <3>1. \A j \in TimersOf(e) : j \in TimerId /\ Has(timers, TimerOf(j, s, t))
      <4>1. \A j \in TimersOf(e) : j \in TimerId
        BY <1>9, EntryFields DEF TimersOf
      <4>2. QED
        BY <1>4, <1>5, <2>10, <4>1 DEF Names
    <3>2. ASSUME NEW z \in App, NEW y \in AnrType, NEW j \in TimersOf(events'[z][y])
          PROVE  Has(after, TimerOf(j, z, y))
      <4>1. (z # s \/ y # t) /\ j \in TimersOf(events[z][y])
        BY <2>3, <2>4, <3>2
      <4>2. Has(timers, TimerOf(j, z, y))
        BY <2>10, <4>1 DEF Names
      <4>3. j \in TimerId
        <5>1. events[z][y] \in Seq(Entry)
          BY <1>9
        <5>2. QED
          BY <4>1, <5>1, EntryFields DEF TimersOf
      <4>4. j \notin TimersOf(e)
        <5>1. SUFFICES ASSUME j \in TimersOf(e) PROVE FALSE
          OBVIOUS
        <5>2. Has(timers, TimerOf(j, s, t)) /\ TimerOf(j, s, t).id = TimerOf(j, z, y).id
          BY <1>4, <3>1, <4>3, <5>1, TimerShapes
        <5>3. TimerOf(j, s, t) = TimerOf(j, z, y)
          BY <1>1, <4>2, <5>2, IdsTellApart
        <5>4. QED
          BY <1>4, <4>1, <4>3, <5>3, TimerShapes
      <4>5. TimerOf(j, z, y) # x /\ TimerOf(j, z, y).id = j
        BY <1>4, <4>1, <4>3, TimerShapes
      <4>6. QED
        BY <2>2, <4>2, <4>4, <4>5
    <3>3. ASSUME NEW z \in App, NEW y \in AnrType PROVE NamedOnce(events'[z][y])
      BY <2>3, <2>4, <2>10 DEF Names
    <3>4. RepeatNamed(after, OwnTimer)
      <4>1. SUFFICES ASSUME OwnTimer # NoTimer PROVE Has(after, RepeatTimer(OwnTimer))
        BY DEF RepeatNamed
      <4>2. OwnTimer \in TimerId /\ Has(timers, RepeatTimer(OwnTimer))
        BY <1>1, <2>10, <4>1 DEF KeyOK, RepeatNamed, OwnTimer
      <4>3. OwnTimer \notin TimersOf(e)
        BY <1>1, <1>4, <3>1, <4>2, OnlyRepeat
      <4>4. RepeatTimer(OwnTimer) # x /\ RepeatTimer(OwnTimer).id = OwnTimer
        BY <1>4, <4>2, TimerShapes
      <4>5. QED
        BY <2>2, <4>2, <4>3, <4>4
    <3>5. QED
      BY <1>6, <3>2, <3>3, <3>4 DEF Names
  <2>11. AnrPart'
    BY <2>5, <2>6, <2>7 DEF AnrPart
  <2>12. QED
    BY <1>1, <1>6, <1>10, <2>1, <2>2, <2>8, <2>9, <2>10, <2>11, InvAfter
<1>13. QED
  BY <1>11, <1>12

(* A session that is lost takes its lists, and their timers. *)
LEMMA LostCount ==
  ASSUME NEW ev \in [App -> [AnrType -> Seq(Entry)]], IsFiniteSet(WatchedIn(ev)), NEW s \in App
  PROVE  LET after == [ev EXCEPT ![s] = [t \in AnrType |-> <<>>]]
             lost == Cardinality(Watched(ev[s]["ANR_DISPATCH"]))
                       + Cardinality(Watched(ev[s]["ANR_MONITOR"]))
         IN  /\ IsFiniteSet(WatchedIn(after))
             /\ Cardinality(WatchedIn(after)) = Cardinality(WatchedIn(ev)) - lost
             /\ lost \in Nat
<1>1. PICK d, m : d = "ANR_DISPATCH" /\ m = "ANR_MONITOR" /\ d \in AnrType /\ m \in AnrType /\ d # m
                  /\ \A t \in AnrType : t = d \/ t = m
  BY DEF AnrType
<1>2. PICK mid, after : /\ mid = [ev EXCEPT ![s][d] = <<>>]
                        /\ after = [ev EXCEPT ![s] = [t \in AnrType |-> <<>>]]
  OBVIOUS
<1>3. <<>> \in Seq(Entry)
  OBVIOUS
<1>4. /\ mid \in [App -> [AnrType -> Seq(Entry)]]
      /\ \A x \in App, y \in AnrType : x # s \/ y # d => mid[x][y] = ev[x][y]
  BY <1>1, <1>2, <1>3, Except2
<1>5. after = [mid EXCEPT ![s][m] = <<>>]
  <2>1. PICK g, h : g = [t \in AnrType |-> <<>>] /\ h = [mid[s] EXCEPT ![m] = <<>>]
    OBVIOUS
  <2>2. mid[s] = [ev[s] EXCEPT ![d] = <<>>] /\ ev[s] \in [AnrType -> Seq(Entry)]
    BY <1>2
  <2>3. h = g
    BY <1>1, <2>1, <2>2
  <2>4. [mid EXCEPT ![s][m] = <<>>] = [mid EXCEPT ![s] = h]
    BY <2>1
  <2>5. after = [mid EXCEPT ![s] = h]
    BY <1>2, <2>1, <2>3
  <2>6. QED
    BY <2>4, <2>5
<1>6. PICK a, b : a = Watched(ev[s][d]) /\ b = Watched(ev[s][m])
  OBVIOUS
<1>7. Cardinality(a) \in Nat /\ Cardinality(b) \in Nat
  <2>1. ev[s][d] \in Seq(Entry) /\ ev[s][m] \in Seq(Entry)
    BY <1>1
  <2>2. QED
    BY <1>6, <2>1, WatchedIsFinite
<1>8. Watched(<<>>) = {} /\ Cardinality(Watched(<<>>)) = 0
  BY <1>3, WatchedAfter, FS_EmptySet
<1>9. /\ IsFiniteSet(WatchedIn(mid))
      /\ Cardinality(WatchedIn(mid)) = Cardinality(WatchedIn(ev)) - Cardinality(a) + 0
  BY <1>1, <1>2, <1>3, <1>6, <1>8, ChangedCount
<1>10. mid[s][m] = ev[s][m]
  BY <1>1, <1>4
<1>11. /\ IsFiniteSet(WatchedIn(after))
       /\ Cardinality(WatchedIn(after)) = Cardinality(WatchedIn(mid)) - Cardinality(b) + 0
  <2>1. mid \in [App -> [AnrType -> Seq(Entry)]] /\ IsFiniteSet(WatchedIn(mid)) /\ m \in AnrType
    BY <1>1, <1>4, <1>9
  <2>2. /\ IsFiniteSet(WatchedIn([mid EXCEPT ![s][m] = <<>>]))
        /\ Cardinality(WatchedIn([mid EXCEPT ![s][m] = <<>>])) =
             Cardinality(WatchedIn(mid)) - Cardinality(Watched(mid[s][m])) + Cardinality(Watched(<<>>))
    BY <1>3, <2>1, ChangedCount
  <2>3. QED
    BY <1>5, <1>6, <1>8, <1>10, <2>2
<1>12. Cardinality(WatchedIn(ev)) \in Nat
  BY FS_CardinalityType
<1>13. PICK c, c1, c2, n, l : /\ c = Cardinality(WatchedIn(ev)) /\ c1 = Cardinality(WatchedIn(mid))
                              /\ c2 = Cardinality(WatchedIn(after))
                              /\ n = Cardinality(a) /\ l = Cardinality(b)
  OBVIOUS
<1>14. c \in Nat /\ n \in Nat /\ l \in Nat /\ c1 = c - n + 0 /\ c2 = c1 - l + 0
  BY <1>7, <1>9, <1>11, <1>12, <1>13
<1>15. c2 = c - (n + l) /\ n + l \in Nat
  BY <1>14
<1>16. QED
  BY <1>1, <1>2, <1>6, <1>11, <1>13, <1>15

LEMMA DisconnectKeeps ==
  ASSUME TimersInv, NEW s \in Process, Disconnect(s)
  PROVE  TimersInv'
<1>1. /\ TableOK(timers) /\ AnrPart /\ Watch(timers, live, events) /\ KeyOK
      /\ RepeatIs(timers, timerId) /\ nextEventId \in 1..(MaxEvents + 1)
      /\ Lax \/ (Names(timers, events) /\ RepeatNamed(timers, OwnTimer))
  BY DEF TimersInv
<1>2. /\ s \in live /\ live' = live \ {s} /\ unreliable' = unreliable \ {s}
      /\ anrNoticedPid' = IF anrNoticedPid = s THEN NoPid ELSE anrNoticedPid
      /\ unsent' = unsent
  BY DEF Disconnect, OnSessionLost
<1>3. PICK after : after = TableAfterLoss(timers, s)
  OBVIOUS
<1>4. /\ timers' = after /\ nextEventId' = nextEventId /\ timerId' = timerId /\ keyEventId' = keyEventId
      /\ stale' = stale /\ strayed' = strayed /\ OwnTimer' = OwnTimer /\ Lax' = Lax
  BY <1>2, <1>3 DEF Disconnect, keyVars, OwnTimer, Lax
<1>5. KeyOK'
  BY <1>1, <1>4 DEF KeyOK
<1>6. /\ live' \subseteq Process /\ unreliable' \subseteq App /\ unsent' \in BOOLEAN
      /\ anrNoticedPid' \in Process \cup {NoPid}
  BY <1>1, <1>2 DEF AnrPart, AnrOK
<1>7. CASE s \notin App
  <2>1. /\ after = timers /\ events' = events /\ anrTimerCount' = anrTimerCount
        /\ isAnrProcess' = isAnrProcess /\ unprocessed' = unprocessed
    BY <1>3, <1>7 DEF Disconnect, OnSessionLost, TableAfterLoss
  <2>2. unreliable' = unreliable
    BY <1>1, <1>2, <1>7 DEF AnrPart, AnrOK
  <2>3. AnrPart'
    BY <1>1, <1>6, <2>1, <2>2 DEF AnrPart, AnrOK, CountOK, MarksRemoveEvents
  <2>4. Watch(after, live', events')
    BY <1>1, <1>2, <1>7, <2>1 DEF Watch
  <2>5. QED
    BY <1>1, <1>2, <1>4, <1>5, <2>1, <2>3, <2>4, InvAfter
<1>8. CASE s \in App
  <2>1. PICK gone : gone = UNION {TimersOf(events[s][t]) : t \in AnrType}
    OBVIOUS
  <2>2. /\ after = Without(timers, gone)
        /\ events' = [events EXCEPT ![s] = [t \in AnrType |-> <<>>]]
        /\ isAnrProcess' = [isAnrProcess EXCEPT ![s] = [t \in AnrType |-> FALSE]]
        /\ unprocessed' = [unprocessed EXCEPT ![s] = [t \in AnrType |-> <<>>]]
        /\ anrTimerCount' = anrTimerCount - Cardinality(Watched(events[s]["ANR_DISPATCH"]))
                              - Cardinality(Watched(events[s]["ANR_MONITOR"]))
    BY <1>3, <1>8, <2>1 DEF Disconnect, OnSessionLost, TableAfterLoss
  <2>3. /\ events \in [App -> [AnrType -> Seq(Entry)]]
        /\ unprocessed \in [App -> [AnrType -> Seq(EventId)]]
        /\ isAnrProcess \in [App -> [AnrType -> BOOLEAN]]
    BY <1>1 DEF AnrPart, AnrOK
  <2>4. /\ events' \in [App -> [AnrType -> Seq(Entry)]]
        /\ \A y \in AnrType : events'[s][y] = <<>>
        /\ \A x \in App, y \in AnrType : x # s => events'[x][y] = events[x][y]
    <3>1. [t \in AnrType |-> <<>>] \in [AnrType -> Seq(Entry)]
      OBVIOUS
    <3>2. QED
      BY <1>8, <2>2, <2>3, <3>1
  <2>5. /\ unprocessed' \in [App -> [AnrType -> Seq(EventId)]]
        /\ \A x \in App : x # s => unprocessed'[x] = unprocessed[x]
    <3>1. [t \in AnrType |-> <<>>] \in [AnrType -> Seq(EventId)]
      OBVIOUS
    <3>2. QED
      BY <1>8, <2>2, <2>3, <3>1
  <2>6. isAnrProcess' \in [App -> [AnrType -> BOOLEAN]]
    <3>1. [t \in AnrType |-> FALSE] \in [AnrType -> BOOLEAN]
      OBVIOUS
    <3>2. QED
      BY <1>8, <2>2, <2>3, <3>1
  <2>7. TableOK(after) /\ \A z : Has(after, z) <=> (Has(timers, z) /\ z.id \notin gone)
    BY <1>1, <2>2, TableWithout
  <2>8. CountOK' /\ anrTimerCount' \in 0..MaxAnrTimers
    <3>1. PICK c, n, l : /\ c = Cardinality(WatchedIn(events'))
                         /\ n = Cardinality(Watched(events[s]["ANR_DISPATCH"]))
                         /\ l = Cardinality(Watched(events[s]["ANR_MONITOR"]))
      OBVIOUS
    <3>2. /\ IsFiniteSet(WatchedIn(events)) /\ anrTimerCount = Cardinality(WatchedIn(events))
          /\ anrTimerCount \in 0..MaxAnrTimers
      BY <1>1 DEF AnrPart, CountOK, AnrOK
    <3>3. IsFiniteSet(WatchedIn(events')) /\ c = anrTimerCount - (n + l) /\ n + l \in Nat
      BY <1>8, <2>2, <2>3, <3>1, <3>2, LostCount
    <3>4. n \in Nat /\ l \in Nat
      <4>1. events[s]["ANR_DISPATCH"] \in Seq(Entry) /\ events[s]["ANR_MONITOR"] \in Seq(Entry)
        BY <1>8, <2>3 DEF AnrType
      <4>2. QED
        BY <3>1, <4>1, WatchedIsFinite
    <3>5. c \in Nat
      BY <3>1, <3>3, FS_CardinalityType
    <3>6. anrTimerCount' = anrTimerCount - n - l
      BY <2>2, <3>1
    <3>7. anrTimerCount' = c /\ anrTimerCount' \in 0..MaxAnrTimers
      <4>1. anrTimerCount \in Nat /\ anrTimerCount <= MaxAnrTimers /\ MaxAnrTimers \in Nat
        BY <3>2, AnrAssumption
      <4>2. c = anrTimerCount - (n + l)
        BY <3>3
      <4>3. QED
        BY <3>4, <3>5, <3>6, <4>1, <4>2
    <3>8. QED
      BY <3>1, <3>3, <3>7 DEF CountOK
  <2>9. MarksRemoveEvents'
    <3>1. ASSUME NEW x \in App \ unreliable', NEW y \in AnrType
          PROVE  Covered(events'[x][y], unprocessed'[x][y])
      <4>1. CASE x = s
        BY <2>4, <4>1 DEF Covered
      <4>2. CASE x # s
        <5>1. Covered(events[x][y], unprocessed[x][y])
          BY <1>1, <1>2, <3>1, <4>2 DEF AnrPart, MarksRemoveEvents
        <5>2. QED
          BY <2>4, <2>5, <4>2, <5>1
      <4>3. QED
        BY <4>1, <4>2
    <3>2. QED
      BY <3>1 DEF MarksRemoveEvents
  <2>10. AnrPart'
    BY <1>6, <2>4, <2>5, <2>6, <2>8, <2>9 DEF AnrPart, AnrOK
  <2>11. Watch(after, live', events')
    <3>1. SUFFICES ASSUME NEW z \in App, NEW y \in AnrType, NEW j \in TimerId,
                          Has(after, TimerOf(j, z, y))
                   PROVE  z \in live' /\ j \in TimersOf(events'[z][y])
      BY DEF Watch
    <3>2. Has(timers, TimerOf(j, z, y)) /\ j \notin gone
      BY <2>7, <3>1, TimerShapes
    <3>3. z \in live /\ j \in TimersOf(events[z][y])
      BY <1>1, <3>2 DEF Watch
    <3>4. z # s
      BY <2>1, <3>2, <3>3
    <3>5. QED
      BY <1>2, <2>4, <3>3, <3>4
  <2>12. RepeatIs(after, timerId')
    BY <1>1, <1>4, <2>7 DEF RepeatIs
  <2>13. ASSUME Names(timers, events), RepeatNamed(timers, OwnTimer)
         PROVE  Names(after, events') /\ RepeatNamed(after, OwnTimer')
    <3>1. \A j \in gone : j \in TimerId /\ \E y \in AnrType : Has(timers, TimerOf(j, s, y))
      <4>1. SUFFICES ASSUME NEW y \in AnrType, NEW j \in TimersOf(events[s][y])
                     PROVE  j \in TimerId /\ Has(timers, TimerOf(j, s, y))
        BY <2>1
      <4>2. events[s][y] \in Seq(Entry)
        BY <1>8, <2>3
      <4>3. j \in TimerId
        BY <4>1, <4>2, EntryFields DEF TimersOf
      <4>4. QED
        BY <1>8, <2>13, <4>1, <4>3 DEF Names
    <3>2. ASSUME NEW z \in App, NEW y \in AnrType, NEW j \in TimersOf(events'[z][y])
          PROVE  Has(after, TimerOf(j, z, y))
      <4>1. z # s /\ j \in TimersOf(events[z][y])
        <5>1. TimersOf(<<>>) = {}
          BY DEF TimersOf
        <5>2. z # s
          BY <2>4, <3>2, <5>1
        <5>3. QED
          BY <2>4, <3>2, <5>2
      <4>2. Has(timers, TimerOf(j, z, y))
        BY <2>13, <4>1 DEF Names
      <4>3. j \in TimerId
        <5>1. events[z][y] \in Seq(Entry)
          BY <2>3
        <5>2. QED
          BY <4>1, <5>1, EntryFields DEF TimersOf
      <4>4. j \notin gone
        <5>1. SUFFICES ASSUME j \in gone PROVE FALSE
          OBVIOUS
        <5>2. PICK u \in AnrType : Has(timers, TimerOf(j, s, u))
          BY <3>1, <5>1
        <5>3. TimerOf(j, s, u).id = TimerOf(j, z, y).id
          BY <1>8, <4>3, TimerShapes
        <5>4. TimerOf(j, s, u) = TimerOf(j, z, y)
          BY <1>1, <4>2, <5>2, <5>3, IdsTellApart
        <5>5. QED
          BY <1>8, <4>1, <4>3, <5>4, TimerShapes
      <4>5. QED
        BY <2>7, <4>2, <4>3, <4>4, TimerShapes
    <3>3. ASSUME NEW z \in App, NEW y \in AnrType PROVE NamedOnce(events'[z][y])
      <4>1. CASE z = s
        BY <2>4, <4>1 DEF NamedOnce
      <4>2. CASE z # s
        BY <2>4, <2>13, <4>2 DEF Names
      <4>3. QED
        BY <4>1, <4>2
    <3>4. RepeatNamed(after, OwnTimer)
      <4>1. SUFFICES ASSUME OwnTimer # NoTimer PROVE Has(after, RepeatTimer(OwnTimer))
        BY DEF RepeatNamed
      <4>2. OwnTimer \in TimerId /\ Has(timers, RepeatTimer(OwnTimer))
        BY <1>1, <2>13, <4>1 DEF KeyOK, RepeatNamed, OwnTimer
      <4>3. OwnTimer \notin gone
        BY <1>1, <1>8, <3>1, <4>2, OnlyRepeat
      <4>4. QED
        BY <2>7, <4>2, <4>3, TimerShapes
    <3>5. QED
      BY <1>4, <3>2, <3>3, <3>4 DEF Names
  <2>14. QED
    BY <1>1, <1>2, <1>4, <1>5, <2>7, <2>10, <2>11, <2>12, <2>13, InvAfter
<1>9. QED
  BY <1>7, <1>8

LEMMA GrowOldKeeps ==
  ASSUME AnrPart, Watch(timers, live, events), NEW s \in App, NEW t \in AnrType,
         NEW k \in DOMAIN events[s][t], GrowOld(s, t, k)
  PROVE  /\ AnrPart' /\ live' = live /\ unsent' = unsent /\ Watch(timers, live, events')
         /\ Names(timers, events) => Names(timers, events')
<1>1. PICK e, f : e = events[s][t] /\ f = [e EXCEPT ![k].overdue = TRUE]
  OBVIOUS
<1>2. events \in [App -> [AnrType -> Seq(Entry)]] /\ e \in Seq(Entry) /\ k \in DOMAIN e
  BY <1>1 DEF AnrPart, AnrOK
<1>3. ASSUME NEW j \in DOMAIN e
      PROVE  f[j] \in Entry /\ f[j].id = e[j].id /\ f[j].timer = e[j].timer
  <2>1. CASE j = k
    <3>1. PICK x : x = e[k]
      OBVIOUS
    <3>2. x \in Entry
      BY <1>2, <3>1, EntryFields
    <3>3. f[k] = [x EXCEPT !.overdue = TRUE]
      BY <1>1, <1>2, <3>1
    <3>4. f[k] \in Entry /\ f[k].id = x.id /\ f[k].timer = x.timer
      BY <3>2, <3>3 DEF Entry
    <3>5. QED
      BY <2>1, <3>1, <3>4
  <2>2. CASE j # k
    <3>1. f[j] = e[j]
      BY <1>1, <1>2, <2>2
    <3>2. QED
      BY <1>2, <3>1, EntryFields
  <2>3. QED
    BY <2>1, <2>2
<1>4. DOMAIN f = DOMAIN e
  BY <1>1
<1>5. f \in Seq(Entry)
  <2>1. PICK n \in Nat : DOMAIN e = 1..n
    BY <1>2, SeqFacts
  <2>2. f \in [DOMAIN f -> Entry]
    <3>1. f = [j \in DOMAIN f |-> f[j]]
      BY <1>1
    <3>2. QED
      BY <1>3, <1>4, <3>1
  <2>3. f \in [1..n -> Entry]
    BY <1>4, <2>1, <2>2
  <2>4. QED
    BY <2>3, SeqDef
<1>6. events' = [events EXCEPT ![s][t] = f]
  BY <1>1 DEF GrowOld
<1>7. /\ live' = live /\ isAnrProcess' = isAnrProcess /\ anrTimerCount' = anrTimerCount
      /\ anrNoticedPid' = anrNoticedPid /\ unprocessed' = unprocessed
      /\ unreliable' = unreliable /\ unsent' = unsent
  BY DEF GrowOld
<1>8. /\ events' \in [App -> [AnrType -> Seq(Entry)]] /\ events'[s][t] = f
      /\ \A x \in App, y \in AnrType : x # s \/ y # t => events'[x][y] = events[x][y]
  BY <1>2, <1>5, <1>6, Except2
<1>9. Watched(f) = Watched(e) /\ TimersOf(f) = TimersOf(e) /\ (NamedOnce(e) => NamedOnce(f))
  BY <1>3, <1>4 DEF Watched, TimersOf, NamedOnce
<1>10. CountOK'
  <2>1. ASSUME NEW x \in App, NEW y \in AnrType PROVE Watched(events'[x][y]) = Watched(events[x][y])
    BY <1>1, <1>8, <1>9
  <2>2. WatchedIn(events') = WatchedIn(events)
    BY <2>1 DEF WatchedIn
  <2>3. QED
    BY <1>7, <2>2 DEF AnrPart, CountOK
<1>11. MarksRemoveEvents'
  <2>1. ASSUME NEW x \in App \ unreliable, NEW y \in AnrType
        PROVE  Covered(events'[x][y], unprocessed[x][y])
    <3>1. Covered(events[x][y], unprocessed[x][y])
      BY DEF AnrPart, MarksRemoveEvents
    <3>2. CASE x = s /\ y = t
      <4>1. Covered(e, unprocessed[s][t])
        BY <1>1, <3>1, <3>2
      <4>2. Covered(f, unprocessed[s][t])
        BY <1>2, <1>3, <1>4, <4>1, SameIds
      <4>3. QED
        BY <1>8, <3>2, <4>2
    <3>3. QED
      BY <1>8, <3>1, <3>2
  <2>2. QED
    BY <1>7, <2>1 DEF MarksRemoveEvents
<1>12. AnrOK'
  BY <1>7, <1>8 DEF AnrPart, AnrOK
<1>13. ASSUME NEW x \in App, NEW y \in AnrType PROVE TimersOf(events'[x][y]) = TimersOf(events[x][y])
  BY <1>1, <1>8, <1>9
<1>14. Watch(timers, live, events')
  BY <1>13 DEF Watch
<1>15. ASSUME Names(timers, events) PROVE Names(timers, events')
  <2>1. \A x \in App, y \in AnrType : NamedOnce(events'[x][y])
    BY <1>1, <1>8, <1>9, <1>15 DEF Names
  <2>2. QED
    BY <1>13, <1>15, <2>1 DEF Names
<1>16. QED
  BY <1>7, <1>10, <1>11, <1>12, <1>14, <1>15 DEF AnrPart

LEMMA AsideKeeps ==
  ASSUME TimersInv, Aside
  PROVE  TimersInv'
<1>1. /\ TableOK(timers) /\ AnrPart /\ Watch(timers, live, events) /\ KeyOK
      /\ RepeatIs(timers, timerId) /\ nextEventId \in 1..(MaxEvents + 1)
      /\ Lax \/ (Names(timers, events) /\ RepeatNamed(timers, OwnTimer))
  BY DEF TimersInv
<1>2. /\ timers' = timers /\ nextEventId' = nextEventId /\ timerId' = timerId
      /\ keyEventId' = keyEventId /\ stale' = stale /\ strayed' = strayed
      /\ OwnTimer' = OwnTimer
  BY DEF Aside, keyVars, OwnTimer
<1>3. KeyOK'
  BY <1>1, <1>2 DEF KeyOK
<1>4. ASSUME NEW s \in Process, AddSession(s) \/ SetANRNoticedPid(s) PROVE TimersInv'
  <2>1. /\ events' = events /\ isAnrProcess' = isAnrProcess /\ anrTimerCount' = anrTimerCount
        /\ unprocessed' = unprocessed /\ unreliable' = unreliable /\ unsent' = unsent
        /\ live \subseteq live' /\ live' \subseteq Process /\ anrNoticedPid' \in Process \cup {NoPid}
    BY <1>1, <1>4 DEF AddSession, SetANRNoticedPid, AnrPart, AnrOK
  <2>2. AnrPart'
    BY <1>1, <2>1 DEF AnrPart, AnrOK, CountOK, MarksRemoveEvents
  <2>3. Watch(timers, live', events')
    BY <1>1, <2>1 DEF Watch
  <2>4. Lax' = Lax
    BY <1>2, <2>1 DEF Lax
  <2>5. QED
    BY <1>1, <1>2, <1>3, <2>1, <2>2, <2>3, <2>4, InvAfter
<1>5. ASSUME NEW s \in App, NEW t \in AnrType, NEW k \in DOMAIN unprocessed[s][t], LoseMark(s, t, k)
      PROVE  TimersInv'
  <2>1. /\ unprocessed' = [unprocessed EXCEPT ![s][t] = RemoveAt(unprocessed[s][t], k)]
        /\ unreliable' = unreliable \cup {s}
        /\ live' = live /\ events' = events /\ isAnrProcess' = isAnrProcess
        /\ anrTimerCount' = anrTimerCount /\ anrNoticedPid' = anrNoticedPid /\ unsent' = unsent
    BY <1>5 DEF LoseMark
  <2>2. unprocessed \in [App -> [AnrType -> Seq(EventId)]]
    BY <1>1 DEF AnrPart, AnrOK
  <2>3. RemoveAt(unprocessed[s][t], k) \in Seq(EventId)
    <3>1. unprocessed[s][t] \in Seq(EventId)
      BY <2>2
    <3>2. QED
      BY <3>1, RemoveAtElements
  <2>4. /\ unprocessed' \in [App -> [AnrType -> Seq(EventId)]]
        /\ \A x \in App, y \in AnrType : x # s \/ y # t => unprocessed'[x][y] = unprocessed[x][y]
    BY <2>1, <2>2, <2>3, Except2
  <2>5. MarksRemoveEvents'
    <3>1. ASSUME NEW x \in App \ unreliable', NEW y \in AnrType
          PROVE  Covered(events'[x][y], unprocessed'[x][y])
      <4>1. x # s /\ x \in App \ unreliable
        BY <2>1, <3>1
      <4>2. QED
        BY <1>1, <2>1, <2>4, <4>1 DEF AnrPart, MarksRemoveEvents
    <3>2. QED
      BY <3>1 DEF MarksRemoveEvents
  <2>6. AnrPart'
    BY <1>1, <2>1, <2>4, <2>5 DEF AnrPart, AnrOK, CountOK
  <2>7. Lax' = Lax
    BY <1>2, <2>1 DEF Lax
  <2>8. QED
    BY <1>1, <1>2, <1>3, <2>1, <2>6, <2>7, InvAfter
<1>6. ASSUME NEW s \in App, NEW t \in AnrType, NEW k \in DOMAIN events[s][t], GrowOld(s, t, k)
      PROVE  TimersInv'
  <2>1. PICK ev : ev = events'
    OBVIOUS
  <2>2. /\ AnrPart' /\ live' = live /\ unsent' = unsent /\ Watch(timers, live, ev)
        /\ Names(timers, events) => Names(timers, ev)
    BY <1>1, <1>6, <2>1, GrowOldKeeps
  <2>3. Lax' = Lax
    BY <1>2, <2>2 DEF Lax
  <2>4. QED
    BY <1>1, <1>2, <1>3, <2>1, <2>2, <2>3, InvAfter
<1>7. QED
  BY <1>4, <1>5, <1>6 DEF Aside

LEMMA StutterKeeps ==
  ASSUME TimersInv, UNCHANGED vars
  PROVE  TimersInv'
<1>1. /\ timers' = timers /\ nextEventId' = nextEventId /\ timerId' = timerId
      /\ keyEventId' = keyEventId /\ live' = live /\ events' = events
      /\ isAnrProcess' = isAnrProcess /\ anrTimerCount' = anrTimerCount
      /\ anrNoticedPid' = anrNoticedPid /\ unprocessed' = unprocessed
      /\ unreliable' = unreliable /\ unsent' = unsent
      /\ stale' = stale /\ strayed' = strayed /\ OwnTimer' = OwnTimer /\ Lax' = Lax
  BY DEF vars, anrVars, keyVars, OwnTimer, Lax
<1>2. AnrPart' /\ KeyOK'
  BY <1>1 DEF TimersInv, AnrPart, AnrOK, CountOK, MarksRemoveEvents, KeyOK
<1>3. QED
  BY <1>1, <1>2, InvAfter DEF TimersInv

LEMMA InitKeeps ==
  ASSUME Init
  PROVE  TimersInv
<1>1. /\ timers = <<>> /\ nextEventId = 1 /\ live = {} /\ timerId = NoTimer /\ keyEventId = 0
      /\ events = [s \in App |-> [t \in AnrType |-> <<>>]]
      /\ isAnrProcess = [s \in App |-> [t \in AnrType |-> FALSE]]
      /\ anrTimerCount = 0 /\ anrNoticedPid = NoPid
      /\ unprocessed = [s \in App |-> [t \in AnrType |-> <<>>]]
      /\ unreliable = {} /\ unsent = FALSE
      /\ stale = FALSE /\ strayed = FALSE /\ OwnTimer = NoTimer
  BY DEF Init, AnrInit, KeyInit, OwnTimer
<1>2. TableOK(timers) /\ \A x : ~Has(timers, x)
  BY <1>1 DEF TableOK, DistinctIds, Has
<1>3. KeyOK /\ nextEventId \in 1..(MaxEvents + 1)
  <2>1. stale \in BOOLEAN /\ strayed \in BOOLEAN
    BY <1>1
  <2>2. nextEventId \in 1..(MaxEvents + 1)
    BY <1>1, AnrAssumption
  <2>3. QED
    BY <1>1, <2>1, <2>2 DEF KeyOK
<1>4. \A s \in App, t \in AnrType : events[s][t] = <<>>
  BY <1>1
<1>5. Watched(<<>>) = {} /\ TimersOf(<<>>) = {} /\ NamedOnce(<<>>)
  BY DEF Watched, TimersOf, NamedOnce
<1>6. AnrOK
  <2>1. <<>> \in Seq(Entry) /\ <<>> \in Seq(EventId)
    OBVIOUS
  <2>2. /\ events \in [App -> [AnrType -> Seq(Entry)]]
        /\ unprocessed \in [App -> [AnrType -> Seq(EventId)]]
        /\ isAnrProcess \in [App -> [AnrType -> BOOLEAN]]
    BY <1>1, <2>1
  <2>3. 0 \in 0..MaxAnrTimers
    BY AnrAssumption
  <2>4. QED
    BY <1>1, <2>2, <2>3 DEF AnrOK
<1>7. CountOK
  <2>1. WatchedIn(events) = {}
    <3>1. SUFFICES ASSUME NEW e \in WatchedIn(events) PROVE FALSE
      OBVIOUS
    <3>2. PICK x \in App, y \in AnrType : e \in Own(x, y, Watched(events[x][y]))
      BY InWatched
    <3>3. QED
      BY <1>4, <1>5, <3>2 DEF Own
  <2>2. QED
    BY <1>1, <2>1, FS_EmptySet DEF CountOK
<1>8. MarksRemoveEvents
  BY <1>4 DEF MarksRemoveEvents, Covered
<1>9. Names(timers, events)
  BY <1>4, <1>5 DEF Names
<1>10. Watch(timers, live, events) /\ RepeatIs(timers, timerId) /\ RepeatNamed(timers, OwnTimer)
  BY <1>1, <1>2 DEF Watch, RepeatIs, RepeatNamed
<1>11. QED
  BY <1>2, <1>3, <1>6, <1>7, <1>8, <1>9, <1>10 DEF TimersInv, AnrPart

LEMMA NextKeeps ==
  ASSUME TimersInv, [Next]_vars
  PROVE  TimersInv'
<1>1. ASSUME NEW s \in App, NEW t \in AnrType, SendEvent(s, t) PROVE TimersInv'
  BY <1>1, SendEventKeeps
<1>2. ASSUME NEW s \in App, NEW t \in AnrType, NEW k \in DOMAIN unprocessed[s][t], Mark(s, t, k)
      PROVE  TimersInv'
  BY <1>2, MarkKeeps
<1>3. CASE KeyDown
  BY <1>3, KeyDownKeeps
<1>4. ASSUME NEW isRepeatKey \in BOOLEAN, KeyUp(isRepeatKey) PROVE TimersInv'
  BY <1>4, KeyUpKeeps
<1>5. ASSUME NEW i \in DOMAIN timers, Repeat(i) PROVE TimersInv'
  BY <1>5, RepeatKeeps
<1>6. ASSUME NEW i \in DOMAIN timers, NEW sent \in BOOLEAN, Anr(i, sent) PROVE TimersInv'
  BY <1>6, AnrKeeps
<1>7. ASSUME NEW s \in Process, Disconnect(s) PROVE TimersInv'
  BY <1>7, DisconnectKeeps
<1>8. CASE CooperationEnds
  BY <1>8, CooperationEndsKeeps
<1>9. CASE Aside
  BY <1>9, AsideKeeps
<1>10. CASE UNCHANGED vars
  BY <1>10, StutterKeeps
<1>11. QED
  BY <1>1, <1>2, <1>3, <1>4, <1>5, <1>6, <1>7, <1>8, <1>9, <1>10 DEF Next

LEMMA TimersInvAlways == Spec => []TimersInv
<1>1. Init => TimersInv
  BY InitKeeps
<1>2. TimersInv /\ [Next]_vars => TimersInv'
  BY NextKeeps
<1>3. QED
  BY <1>1, <1>2, PTL DEF Spec

-----------------------------------------------------------------------------
(* What the invariant says of a timer of the table. *)
LEMMA InTable ==
  ASSUME TimersInv, NEW i \in DOMAIN timers
  PROVE  /\ timers[i] \in Timer /\ Has(timers, timers[i]) /\ timers[i].id \in TimerId
         /\ timers[i].owner \in Owners
         /\ IsAnr(i) => /\ timers[i].owner.app \in App /\ timers[i].owner.type \in AnrType
                        /\ timers[i] = TimerOf(timers[i].id, timers[i].owner.app, timers[i].owner.type)
         /\ ~IsAnr(i) => timers[i] = RepeatTimer(timers[i].id)
<1>1. Has(timers, timers[i])
  BY DEF Has
<1>2. timers[i] \in Timer
  BY <1>1, HasTimer DEF TimersInv
<1>3. timers[i].owner \in Owners
  BY <1>2 DEF Timer
<1>4. QED
  BY <1>1, <1>2, <1>3, TimerKinds DEF IsAnr

(***************************************************************************)
(* The types: whatever AddTimer, RemoveTimer and the reuse of ids make of  *)
(* the table, its ids tell the timers apart, and anrTimerCount_ stays      *)
(* between 0 and MAX_ANR_TIMER_COUNT.                                      *)
(***************************************************************************)
THEOREM TableIsTyped == Spec => []TypeOK
<1>1. TimersInv => TypeOK
  <2>1. SUFFICES ASSUME TimersInv PROVE TypeOK
    OBVIOUS
  <2>2. AnrOK /\ KeyOK /\ nextEventId \in 1..(MaxEvents + 1) /\ DistinctIds(timers)
    BY <2>1 DEF TimersInv, AnrPart, TableOK
  <2>3. ASSUME NEW s \in App, NEW t \in AnrType
        PROVE  /\ \A k \in DOMAIN events[s][t] : events[s][t][k] \in Entry
               /\ \A k \in DOMAIN unprocessed[s][t] : unprocessed[s][t][k] \in EventId
               /\ isAnrProcess[s][t] \in BOOLEAN
    <3>1. /\ events[s][t] \in Seq(Entry) /\ unprocessed[s][t] \in Seq(EventId)
          /\ isAnrProcess[s][t] \in BOOLEAN
      BY <2>2 DEF AnrOK
    <3>2. QED
      BY <3>1, SeqFacts
  <2>4. AnrTypeOK
    BY <2>2, <2>3 DEF AnrOK, AnrTypeOK
  <2>5. \A i \in DOMAIN timers : timers[i].id \in TimerId /\ timers[i].owner \in Owners
    BY <2>1, InTable
  <2>6. QED
    BY <2>2, <2>4, <2>5 DEF TypeOK, KeyOK
<1>2. QED
  BY <1>1, TimersInvAlways, PTL

(***************************************************************************)
(* The budget of ANR timers does not leak: AddTimer and the four places    *)
(* that decrement anrTimerCount_ keep it the number of the events that     *)
(* name a timer, for any number of applications and of timers.             *)
(***************************************************************************)
THEOREM BudgetDoesNotLeak == Spec => []CountMatchesEvents
<1>1. TimersInv => CountMatchesEvents
  BY DEF TimersInv, AnrPart, CountOK, WatchedIn, CountMatchesEvents
<1>2. QED
  BY <1>1, TimersInvAlways, PTL

(***************************************************************************)
(* Every ANR timer that may still run watches an event in the list of a    *)
(* session that is not lost, and the application has that event or one     *)
(* before it still to mark: DelEvents, GetTimerIds and OnSessionLost leave *)
(* no timer behind that would block an application which has answered.     *)
(***************************************************************************)
THEOREM NoTimerIsLeftBehind == Spec => []TimersWatchEvents
<1>1. TimersInv => TimersWatchEvents
  <2>1. SUFFICES ASSUME TimersInv, NEW i \in DOMAIN timers, IsAnr(i),
                        NEW s, s = timers[i].owner.app, NEW t, t = timers[i].owner.type
                 PROVE  /\ s \in live
                        /\ \E k \in DOMAIN events[s][t] :
                             /\ events[s][t][k].timer = timers[i].id
                             /\ \/ s \in unreliable
                                \/ \E j \in 1..k, n \in DOMAIN unprocessed[s][t] :
                                     events[s][t][j].id = unprocessed[s][t][n]
    BY DEF TimersWatchEvents
  <2>2. PICK x : x = timers[i]
    OBVIOUS
  <2>3. /\ s \in App /\ t \in AnrType /\ x.id \in TimerId /\ Has(timers, TimerOf(x.id, s, t))
    BY <2>1, <2>2, InTable
  <2>4. s \in live /\ x.id \in TimersOf(events[s][t])
    BY <2>1, <2>3 DEF TimersInv, Watch
  <2>5. PICK k \in DOMAIN events[s][t] : events[s][t][k].timer = x.id
    BY <2>4 DEF TimersOf
  <2>6. ASSUME s \notin unreliable
        PROVE  \E j \in 1..k, n \in DOMAIN unprocessed[s][t] : events[s][t][j].id = unprocessed[s][t][n]
    <3>1. Covered(events[s][t], unprocessed[s][t])
      BY <2>1, <2>3, <2>6 DEF TimersInv, AnrPart, MarksRemoveEvents
    <3>2. PICK j, n : Covers(events[s][t], unprocessed[s][t], k, j, n)
      BY <2>5, <3>1 DEF Covered
    <3>3. QED
      BY <3>2 DEF Covers
  <2>7. QED
    BY <2>2, <2>4, <2>5, <2>6
<1>2. QED
  BY <1>1, TimersInvAlways, PTL

(***************************************************************************)
(* DelEvents leaves no event behind that no mark will remove, although the *)
(* list is not sorted by id: an application that has marked all it was     *)
(* sent, in whatever order, has an empty list.                             *)
(***************************************************************************)
THEOREM MarksEmptyTheList == Spec => []AllMarkedAllGone
<1>1. TimersInv => AllMarkedAllGone
  <2>1. SUFFICES ASSUME TimersInv, NEW s \in App \ unreliable, NEW t \in AnrType,
                        unprocessed[s][t] = <<>>
                 PROVE  events[s][t] = <<>>
    BY DEF AllMarkedAllGone
  <2>2. PICK e : e = events[s][t]
    OBVIOUS
  <2>3. e \in Seq(Entry) /\ Covered(e, <<>>)
    BY <2>1, <2>2 DEF TimersInv, AnrPart, AnrOK, MarksRemoveEvents
  <2>4. \A k \in DOMAIN e : FALSE
    BY <2>3 DEF Covered, Covers
  <2>5. e = <<>>
    <3>1. Len(e) \in Nat /\ DOMAIN e = 1..Len(e) /\ (e = <<>> <=> Len(e) = 0)
      BY <2>3, SeqFacts
    <3>2. CASE Len(e) = 0
      BY <3>1, <3>2
    <3>3. CASE Len(e) # 0
      <4>1. 1 \in DOMAIN e
        BY <3>1, <3>3
      <4>2. QED
        BY <2>4, <4>1
    <3>4. QED
      BY <3>2, <3>3
  <2>6. QED
    BY <2>2, <2>5
<1>2. QED
  BY <1>1, TimersInvAlways, PTL

(***************************************************************************)
(* A key that goes up can stop the repetition, and RemoveTimer stops no    *)
(* other user's timer although ids are reused at once: as long as every    *)
(* notice of an ANR was sent and no id that KeyAutoRepeat::RemoveTimer     *)
(* left was used, whoever holds the id of a timer holds that of its own,   *)
(* such a left id excepted.                                                *)
(***************************************************************************)
THEOREM IdsNameTheirOwn == Spec => []IdsMatchTimers
<1>1. TimersInv => IdsMatchTimers
  <2>1. SUFFICES ASSUME TimersInv PROVE IdsMatchTimers
    OBVIOUS
  <2>2. RepeatCanBeStopped
    <3>1. SUFFICES ASSUME NEW i \in DOMAIN timers, ~IsAnr(i) PROVE timers[i].id = timerId
      BY DEF RepeatCanBeStopped
    <3>2. timers[i].id \in TimerId /\ Has(timers, RepeatTimer(timers[i].id))
      BY <2>1, <3>1, InTable
    <3>3. QED
      BY <2>1, <3>2 DEF TimersInv, RepeatIs
  <2>3. ASSUME ~Lax, NEW i \in DOMAIN timers
        PROVE  /\ \A s \in App, t \in AnrType :
                    timers[i].id \in TimersOf(events[s][t]) => timers[i].owner = AnrTimer(s, t)
               /\ timers[i].id = timerId /\ ~stale => ~IsAnr(i)
    <3>1. TableOK(timers) /\ Names(timers, events) /\ RepeatNamed(timers, OwnTimer)
      BY <2>1, <2>3 DEF TimersInv
    <3>2. PICK x : x = timers[i]
      OBVIOUS
    <3>3. x \in Timer /\ Has(timers, x) /\ x.id \in TimerId
      BY <2>1, <3>2, InTable
    <3>4. ASSUME NEW s \in App, NEW t \in AnrType, x.id \in TimersOf(events[s][t])
          PROVE  x.owner = AnrTimer(s, t)
      <4>1. Has(timers, TimerOf(x.id, s, t)) /\ TimerOf(x.id, s, t).id = x.id
        BY <3>1, <3>3, <3>4, TimerShapes DEF Names
      <4>2. x = TimerOf(x.id, s, t)
        BY <3>1, <3>3, <4>1, IdsTellApart
      <4>3. QED
        BY <3>3, <4>2, TimerShapes
    <3>5. ASSUME x.id = timerId, ~stale PROVE ~IsAnr(i)
      <4>1. OwnTimer = x.id /\ OwnTimer # NoTimer
        BY <3>3, <3>5, NoTimerIsNone DEF OwnTimer
      <4>2. Has(timers, RepeatTimer(x.id)) /\ RepeatTimer(x.id).id = x.id
        BY <3>1, <3>3, <3>5, <4>1, TimerShapes DEF RepeatNamed
      <4>3. x = RepeatTimer(x.id)
        BY <3>1, <3>3, <4>2, IdsTellApart
      <4>4. x.owner.kind = "repeat"
        BY <3>3, <4>3, TimerShapes
      <4>5. QED
        BY <3>2, <4>4 DEF IsAnr
    <3>6. QED
      BY <3>2, <3>4, <3>5
  <2>4. QED
    BY <2>2, <2>3 DEF IdsMatchTimers, IdsNameOwnTimers, Lax
<1>2. QED
  BY <1>1, TimersInvAlways, PTL

=============================================================================
