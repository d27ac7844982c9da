-------------------------- MODULE KeyCommandProofs --------------------------
(***************************************************************************)
(* Theorems about KeyCommand for any keys, shortcuts, sequences and any    *)
(* number of timers: the ids that the handler keeps name its own timers, a *)
(* launch that is pending is for the keys that are down, and the keys it   *)
(* takes are given back and told of in order.                              *)
(*                                                                         *)
(* A table of timers is reasoned about as the set of its rows and their    *)
(* order, so that no position in it matters.                               *)
(***************************************************************************)
EXTENDS KeyCommand, FiniteSetTheorems, SequenceTheorems, WellFoundedInduction, TLAPS

Owners == [kind : {"shortcut"}, shortcut : Shortcuts]
            \cup [kind : {"sequence"}, seq : DOMAIN Sequences]
            \cup [kind : {"special"}, key : VolumeKeys, action : Action]
Timer == [id : TimerId, owner : Owners]
Struck == [key : Keys, action : Action, gap : {"quick", "slow"}]
Waiting == [shortcut : SUBSET Shortcuts, timerId : TimerId \cup {NoTimer}]
Entries == [seq : DOMAIN Sequences, intact : BOOLEAN, timerId : TimerId \cup {NoTimer}]
Event == [action : Action, key : Keys, others : SUBSET Keys]
TurnType ==
  [last : Waiting, keys : Seq(Struck), filter : Seq(Entries),
   special : SUBSET (PowerKeys \cup VolumeKeys), held : [VolumeKeys -> Seq(TimerId)],
   table : Seq(Timer), erased : BOOLEAN, handled : BOOLEAN, tempSeqs : Seq(Entries),
   launched : BOOLEAN, gone : BOOLEAN]

(* A table is its rows and which comes before which. *)
Rows(table) == {table[i] : i \in DOMAIN table}
Before(table, x, y) == \E i, j \in DOMAIN table : i < j /\ table[i] = x /\ table[j] = y
TableOK(table) == table \in Seq(Timer) /\ DistinctIds(table)

(* What names a timer names its own. *)
LastOK(last, table) ==
  /\ last.shortcut = {} => last.timerId = NoTimer
  /\ \A c \in last.shortcut :
       c.trigger = "down" /\ [id |-> last.timerId, owner |-> ShortcutTimer(c)] \in Rows(table)
  /\ \A x \in Rows(table) : x.owner.kind = "shortcut" => x.id = last.timerId

SequenceRow(entry) == [id |-> entry.timerId, owner |-> SequenceTimer(entry.seq)]
ListOK(list, table) ==
  \A k \in DOMAIN list : list[k].timerId # NoTimer => SequenceRow(list[k]) \in Rows(table)

Lists(ids, table, key) ==
  /\ \A x \in Rows(table) : IsOwn(x.owner, key) => \E n \in DOMAIN ids : ids[n] = x.id
  /\ \A n \in DOMAIN ids : \E x \in Rows(table) : IsOwn(x.owner, key) /\ x.id = ids[n]
  /\ \A m, n \in DOMAIN ids, x, y \in Rows(table) :
       x.id = ids[m] /\ y.id = ids[n] => (m < n <=> Before(table, x, y))
HeldOK(held, table) == \A key \in VolumeKeys : Lists(held[key], table, key)

TurnOK(turn) ==
  /\ turn \in TurnType /\ Len(turn.keys) <= MaxSequenceKeys + 1
  /\ TableOK(turn.table) /\ LastOK(turn.last, turn.table)
  /\ ListOK(turn.filter, turn.table) /\ ListOK(turn.tempSeqs, turn.table)
  /\ HeldOK(turn.held, turn.table)

(* A shortcut waits while its keys are down, a sequence while its keys are
   the last ones. *)
Current(c, down, odd) ==
  LET chord == c.preKeys \cup {c.finalKey}
  IN  c.finalKey \in odd \/ (down \ chord) \cup (chord \ down) \subseteq odd

Complete(entry, ks) ==
  ks # <<>> /\ Len(ks) = Len(SequenceKeys(entry)) /\ MatchesSequence(ks, SequenceKeys(entry))
ListCurrent(list, ks) ==
  \A k \in DOMAIN list : list[k].timerId # NoTimer => Complete(list[k], ks)

(* The last time a key is in keys_ tells whether it is down. *)
IsLast(ks, i) == \A j \in (i + 1)..Len(ks) : ks[j].key # ks[i].key
KeysTell(ks, down, odd) ==
  Len(ks) <= MaxSequenceKeys /\ Sequences # <<>> =>
    \A i \in DOMAIN ks : IsLast(ks, i) /\ ks[i].key \notin odd =>
      (ks[i].action = "down" /\ ks[i].key \in down) \/ (ks[i].action = "up" /\ ks[i].key \notin down)

(* The keys whose release is not given back, and those whose press is kept
   back for good. *)
Stuck == {c.finalKey : c \in {d \in Shortcuts : d.trigger = "up"}}
           \cup {Last(Sequences[q].keys).key : q \in
                 {r \in DOMAIN Sequences :
                    ~Sequences[r].delayed /\ Last(Sequences[r].keys).action = "up"}}
Lone == {c.finalKey : c \in Shortcuts}
          \cup {Last(Sequences[q].keys).key : q \in {r \in DOMAIN Sequences : ~Sequences[r].delayed}}

(* The events of a key that are held back follow on what was told: each
   release on a press. *)
AfterPress(table, key, told, x) ==
  \/ \E y \in Rows(table) :
       /\ IsOwn(y.owner, key) /\ y.owner.action = "down" /\ Before(table, y, x)
       /\ \A z \in Rows(table) :
            IsOwn(z.owner, key) /\ Before(table, z, x) => z = y \/ Before(table, z, y)
  \/ /\ told = "down"
     /\ \A z \in Rows(table) : IsOwn(z.owner, key) => ~Before(table, z, x)
Follows(table, key, told) ==
  /\ told # "stray"
  /\ \A x \in Rows(table) :
       IsOwn(x.owner, key) /\ x.owner.action = "up" => AfterPress(table, key, told, x)
EndsDown(table, key, told) ==
  \/ \E y \in Rows(table) :
       /\ IsOwn(y.owner, key) /\ y.owner.action = "down"
       /\ \A z \in Rows(table) : IsOwn(z.owner, key) => z = y \/ Before(table, z, y)
  \/ told = "down" /\ \A z \in Rows(table) : ~IsOwn(z.owner, key)
InOrder(table, told, special, down, odd) ==
  \A key \in VolumeKeys \ (odd \cup Lone) :
    /\ Follows(table, key, told[key])
    /\ key \in down /\ key \notin special => EndsDown(table, key, told[key])

HandlerOK(turn, down, repeated, odd, told) ==
  /\ TurnOK(turn)
  /\ down \subseteq Keys /\ repeated \subseteq down /\ odd \subseteq Keys
  /\ told \in [VolumeKeys -> {"down", "up", "stray"}]
  /\ \A c \in turn.last.shortcut : Current(c, down, odd)
  /\ ~turn.erased => ListCurrent(turn.filter, turn.keys)
  /\ KeysTell(turn.keys, down, odd)
  /\ turn.special \subseteq down \cup odd \cup Stuck
  /\ InOrder(turn.table, told, turn.special, down, odd)

CommandInv == HandlerOK(Turn, pressed, repeating, irregular, seen)
-----------------------------------------------------------------------------
(* Induction up to a number, with the set of the numbers it is done for. *)

LEMMA Least ==
  ASSUME NEW n \in Nat, NEW T, T \subseteq 1..n, T # {}
  PROVE  \E k \in T : \A j \in T : k <= j
<1> DEFINE R == StrictSubsetOrdering(Nat)
           I == {1..k : k \in T}
<1>1. IsWellFoundedOn(R, FiniteSubsetsOf(Nat))
  BY FS_StrictSubsetOrderingWellFounded
<1>2. \A k \in T : k \in Nat /\ 1 <= k
  OBVIOUS
<1>3. ASSUME NEW k \in T PROVE 1..k \in FiniteSubsetsOf(Nat)
  BY <1>2, FS_Interval DEF FiniteSubsetsOf
<1>4. I \subseteq FiniteSubsetsOf(Nat) /\ I # {}
  BY <1>3
<1> HIDE DEF R, I
<1>5. PICK x \in I : \A y \in I : ~(<<y, x>> \in R)
  BY <1>1, <1>4, WFMin
<1> USE DEF I
<1>6. PICK k \in T : x = 1..k
  OBVIOUS
<1>7. ASSUME NEW j \in T, ~(k <= j) PROVE FALSE
  <2>1. /\ 1..j \in I /\ 1..j \subseteq 1..k /\ 1..j # 1..k
        /\ 1..j \in SUBSET Nat /\ 1..k \in SUBSET Nat
    BY <1>2, <1>7
  <2>2. <<1..j, 1..k>> \in R
    BY <2>1 DEF R, StrictSubsetOrdering
  <2>3. QED
    BY <1>5, <1>6, <2>1, <2>2
<1>8. QED
  BY <1>7

LEMMA UpTo ==
  ASSUME NEW n \in Nat, NEW G, 0 \in G, \A k \in 1..n : k - 1 \in G => k \in G
  PROVE  \A k \in 0..n : k \in G
<1>1. SUFFICES ASSUME NEW k \in 1..n, k \notin G PROVE FALSE
  OBVIOUS
<1>2. PICK T : T = {j \in 1..n : j \notin G}
  OBVIOUS
<1>3. PICK j \in T : \A i \in T : j <= i
  BY <1>1, <1>2, Least
<1>4. j \in 1..n /\ j \notin G
  BY <1>2
<1>5. j - 1 \in G
  <2>1. j - 1 = 0 \/ j - 1 \in 1..n
    BY <1>4
  <2>2. j - 1 \notin T
    BY <1>3, <1>4
  <2>3. QED
    BY <1>2, <2>1, <2>2
<1>6. QED
  BY <1>4, <1>5

-----------------------------------------------------------------------------
(* Sequences, and loops over them: a recursive function exists, and stays in
   a set that its steps do not leave. *)

LEMMA SeqFacts ==
  ASSUME NEW S, NEW s \in Seq(S)
  PROVE  /\ Len(s) \in Nat /\ DOMAIN s = 1..Len(s) /\ (s = <<>> <=> Len(s) = 0)
         /\ \A i \in DOMAIN s : i \in Nat /\ 1 <= i /\ i <= Len(s) /\ s[i] \in S
BY LenProperties, EmptySeq, ElementOfSeq

LEMMA AppendFacts ==
  ASSUME NEW S, NEW s \in Seq(S), NEW e \in S
  PROVE  /\ Append(s, e) \in Seq(S) /\ Len(Append(s, e)) = Len(s) + 1
         /\ DOMAIN Append(s, e) = 1..Len(s) + 1
         /\ \A i \in DOMAIN s : i \in DOMAIN Append(s, e) /\ Append(s, e)[i] = s[i]
         /\ Append(s, e)[Len(s) + 1] = e
         /\ \A i \in DOMAIN Append(s, e) : i \in DOMAIN s \/ i = Len(s) + 1
<1>1. /\ Append(s, e) \in Seq(S) /\ Len(Append(s, e)) = Len(s) + 1
      /\ \A i \in 1..Len(s) : Append(s, e)[i] = s[i]
      /\ Append(s, e)[Len(s) + 1] = e
  BY AppendProperties
<1>2. Len(s) \in Nat /\ DOMAIN s = 1..Len(s) /\ DOMAIN Append(s, e) = 1..Len(Append(s, e))
  BY <1>1, LenProperties
<1>3. QED
  BY <1>1, <1>2

LEMMA RemoveAtIs ==
  ASSUME NEW S, NEW s \in Seq(S), NEW k \in DOMAIN s
  PROVE  /\ RemoveAt(s, k) \in Seq(S) /\ DOMAIN RemoveAt(s, k) = 1..Len(s) - 1
         /\ \A i \in 1..Len(s) - 1 : RemoveAt(s, k)[i] = IF i < k THEN s[i] ELSE s[i + 1]
<1>1. /\ Len(s) \in Nat /\ DOMAIN s = 1..Len(s) /\ k \in Nat /\ 1 <= k /\ k <= Len(s)
      /\ \A i \in 1..Len(s) : s[i] \in S
  BY SeqFacts
<1>2. PICK a, b : a = SubSeq(s, 1, k - 1) /\ b = SubSeq(s, k + 1, Len(s))
  OBVIOUS
<1>3. a \in Seq(S) /\ Len(a) = k - 1 /\ \A i \in 1..k - 1 : a[i] = s[i]
  <2>1. \A i \in 1..k - 1 : s[i] \in S
    BY <1>1
  <2>2. k - 1 \in Int /\ 1 \in Int
    BY <1>1
  <2>3. /\ a \in Seq(S) /\ Len(a) = IF 1 <= k - 1 THEN (k - 1) - 1 + 1 ELSE 0
        /\ \A i \in 1..(k - 1) - 1 + 1 : a[i] = s[1 + i - 1]
    BY <1>2, <2>1, <2>2, SubSeqProperties
  <2>4. QED
    BY <1>1, <2>3
<1>4. b \in Seq(S) /\ Len(b) = Len(s) - k /\ \A i \in 1..Len(s) - k : b[i] = s[k + i]
  <2>1. \A i \in k + 1..Len(s) : s[i] \in S
    BY <1>1
  <2>2. k + 1 \in Int /\ Len(s) \in Int
    BY <1>1
  <2>3. /\ b \in Seq(S) /\ Len(b) = IF k + 1 <= Len(s) THEN Len(s) - (k + 1) + 1 ELSE 0
        /\ \A i \in 1..Len(s) - (k + 1) + 1 : b[i] = s[(k + 1) + i - 1]
    BY <1>2, <2>1, <2>2, SubSeqProperties
  <2>4. Len(b) = Len(s) - k
    <3>1. Len(s) \in Nat /\ k \in Nat /\ k <= Len(s) /\ Len(b) = IF k + 1 <= Len(s) THEN Len(s) - (k + 1) + 1 ELSE 0
      BY <1>1, <2>3
    <3>2. CASE k + 1 <= Len(s)
      BY <3>1, <3>2
    <3>3. CASE ~(k + 1 <= Len(s))
      <4>1. k = Len(s) /\ Len(b) = 0
        BY <3>1, <3>3
      <4>2. QED
        BY <3>1, <4>1
    <3>4. QED
      BY <3>2, <3>3
  <2>5. ASSUME NEW i \in 1..Len(s) - k PROVE b[i] = s[k + i]
    <3>1. i \in 1..Len(s) - (k + 1) + 1 /\ (k + 1) + i - 1 = k + i
      BY <1>1
    <3>2. QED
      BY <2>3, <3>1
  <2>6. QED
    BY <2>3, <2>4, <2>5
<1>5. PICK r : r = RemoveAt(s, k)
  OBVIOUS
<1>6. /\ r \in Seq(S) /\ DOMAIN r = 1..Len(s) - 1
      /\ \A i \in 1..Len(s) - 1 : r[i] = IF i < k THEN s[i] ELSE s[i + 1]
  <2>1. /\ r \in Seq(S) /\ Len(r) = Len(a) + Len(b)
        /\ \A i \in 1..Len(a) + Len(b) : r[i] = IF i <= Len(a) THEN a[i] ELSE b[i - Len(a)]
    <3>1. a \in Seq(S) /\ b \in Seq(S)
      BY <1>3, <1>4
    <3>2. r = a \o b
      BY <1>2, <1>5 DEF RemoveAt
    <3>3. QED
      BY <3>1, <3>2, ConcatProperties
  <2>2. Len(a) + Len(b) = Len(s) - 1 /\ Len(r) = Len(s) - 1
    BY <1>1, <1>3, <1>4, <2>1
  <2>3. DOMAIN r = 1..Len(s) - 1
    BY <2>1, <2>2, LenProperties
  <2>4. ASSUME NEW i \in 1..Len(s) - 1 PROVE r[i] = IF i < k THEN s[i] ELSE s[i + 1]
    <3>1. r[i] = IF i <= Len(a) THEN a[i] ELSE b[i - Len(a)]
      BY <2>1, <2>2
    <3>2. CASE i < k
      <4>1. i \in 1..k - 1 /\ i <= Len(a)
        BY <1>1, <1>3, <3>2
      <4>2. QED
        BY <1>3, <3>1, <3>2, <4>1
    <3>3. CASE ~(i < k)
      <4>1. i - Len(a) \in 1..Len(s) - k /\ ~(i <= Len(a)) /\ k + (i - Len(a)) = i + 1
        BY <1>1, <1>3, <3>3
      <4>2. QED
        BY <1>4, <3>1, <3>3, <4>1
    <3>4. QED
      BY <3>2, <3>3
  <2>5. QED
    BY <2>1, <2>3, <2>4
<1>7. QED
  BY <1>5, <1>6

StepsOn(step, n, S) == step \in [1..n -> [S -> S]]
IsLoop(f, n, S, base, step) ==
  f \in [0..n -> S] /\ \A k \in 0..n : f[k] = IF k = 0 THEN base ELSE step[k][f[k - 1]]

LEMMA LoopExists ==
  ASSUME NEW n \in Nat, NEW S, NEW base \in S, NEW step, StepsOn(step, n, S)
  PROVE  \E f : IsLoop(f, n, S, base, step)
<1>0. step \in [1..n -> [S -> S]]
  BY DEF StepsOn
<1>1. PICK G : G = {m \in 0..n : \E f \in [0..m -> S] :
                      \A k \in 0..m : f[k] = IF k = 0 THEN base ELSE step[k][f[k - 1]]}
  OBVIOUS
<1>2. 0 \in G
  <2>1. PICK f : f = [k \in 0..0 |-> base]
    OBVIOUS
  <2>2. f \in [0..0 -> S] /\ \A k \in 0..0 : k = 0 /\ f[k] = base
    BY <2>1
  <2>3. QED
    BY <1>1, <2>2
<1>3. ASSUME NEW m \in 1..n, m - 1 \in G PROVE m \in G
  <2>1. PICK f \in [0..m - 1 -> S] :
          \A k \in 0..m - 1 : f[k] = IF k = 0 THEN base ELSE step[k][f[k - 1]]
    BY <1>1, <1>3
  <2>2. f[m - 1] \in S
    BY <2>1
  <2>3. step[m][f[m - 1]] \in S
    BY <1>0, <2>2
  <2>4. PICK g : g = [k \in 0..m |-> IF k = m THEN step[m][f[m - 1]] ELSE f[k]]
    OBVIOUS
  <2>5. g \in [0..m -> S]
    <3>1. ASSUME NEW k \in 0..m, k # m PROVE f[k] \in S
      <4>1. k \in 0..m - 1
        BY <3>1
      <4>2. QED
        BY <2>1, <4>1
    <3>2. QED
      BY <2>3, <2>4, <3>1
  <2>6. ASSUME NEW k \in 0..m PROVE g[k] = IF k = 0 THEN base ELSE step[k][g[k - 1]]
    <3>1. CASE k = m
      <4>1. m - 1 \in 0..m /\ m - 1 # m /\ m # 0
        OBVIOUS
      <4>2. g[m - 1] = f[m - 1]
        BY <2>4, <4>1
      <4>3. QED
        BY <2>4, <3>1, <4>1, <4>2
    <3>2. CASE k # m /\ k # 0
      <4>1. k \in 0..m - 1 /\ k - 1 \in 0..m /\ k - 1 # m
        BY <3>2
      <4>2. g[k] = f[k] /\ g[k - 1] = f[k - 1]
        BY <2>4, <3>2, <4>1
      <4>3. QED
        BY <2>1, <3>2, <4>1, <4>2
    <3>3. CASE k # m /\ k = 0
      <4>1. 0 \in 0..m - 1 /\ g[0] = f[0]
        BY <2>4, <3>3
      <4>2. QED
        BY <2>1, <3>3, <4>1
    <3>4. QED
      BY <3>1, <3>2, <3>3
  <2>7. m \in 0..n
    OBVIOUS
  <2>8. QED
    BY <1>1, <2>5, <2>6, <2>7
<1>4. n \in G
  <2>1. \A m \in 1..n : m - 1 \in G => m \in G
    BY <1>3
  <2>2. \A m \in 0..n : m \in G
    BY <1>2, <2>1, UpTo
  <2>3. QED
    BY <2>2
<1>5. PICK f \in [0..n -> S] : \A k \in 0..n : f[k] = IF k = 0 THEN base ELSE step[k][f[k - 1]]
  BY <1>1, <1>4
<1>6. QED
  BY <1>5 DEF IsLoop

(* The function that Without is defined with. *)
WithoutLoop(left, s, ids, n) ==
  left = [k \in 0..n |->
            IF k = 0 THEN <<>>
            ELSE IF s[k].id \in ids THEN left[k - 1] ELSE Append(left[k - 1], s[k])]

LEMMA WithoutExists ==
  ASSUME NEW S, NEW s \in Seq(S), NEW ids
  PROVE  \E left : WithoutLoop(left, s, ids, Len(s)) /\ Without(s, ids) = left[Len(s)]
<1>1. PICK n \in Nat : n = Len(s) /\ \A k \in 1..n : s[k] \in S
  BY SeqFacts
<1>2. PICK step : step = [k \in 1..n |-> [l \in Seq(S) |->
                            IF s[k].id \in ids THEN l ELSE Append(l, s[k])]]
  OBVIOUS
<1>3. StepsOn(step, n, Seq(S))
  <2>1. ASSUME NEW k \in 1..n, NEW l \in Seq(S) PROVE Append(l, s[k]) \in Seq(S)
    BY <1>1, <2>1, AppendFacts
  <2>2. QED
    BY <1>2, <2>1 DEF StepsOn
<1>4. <<>> \in Seq(S)
  OBVIOUS
<1>5. PICK f : IsLoop(f, n, Seq(S), <<>>, step)
  BY <1>3, <1>4, LoopExists
<1>6. f \in [0..n -> Seq(S)] /\ \A k \in 0..n : f[k] = IF k = 0 THEN <<>> ELSE step[k][f[k - 1]]
  BY <1>5 DEF IsLoop
<1>7. ASSUME NEW k \in 0..n
      PROVE  f[k] = IF k = 0 THEN <<>>
                    ELSE IF s[k].id \in ids THEN f[k - 1] ELSE Append(f[k - 1], s[k])
  <2>1. CASE k = 0
    BY <1>6, <2>1
  <2>2. CASE k # 0
    <3>1. k \in 1..n /\ k - 1 \in 0..n
      BY <2>2
    <3>2. f[k - 1] \in Seq(S) /\ f[k] = step[k][f[k - 1]]
      BY <1>6, <2>2, <3>1
    <3>3. QED
      BY <1>2, <2>2, <3>1, <3>2
  <2>3. QED
    BY <2>1, <2>2
<1>8. WithoutLoop(f, s, ids, n)
  <2>1. f = [k \in 0..n |-> f[k]]
    BY <1>6
  <2>2. QED
    BY <1>7, <2>1 DEF WithoutLoop
<1> DEFINE left == CHOOSE g : WithoutLoop(g, s, ids, n)
<1>9. WithoutLoop(left, s, ids, n)
  BY <1>8
<1>10. Without(s, ids) = left[n]
  BY <1>1 DEF Without, WithoutLoop
<1>11. QED
  BY <1>1, <1>9, <1>10

(* r is made of elements of s, in their order. *)
InTheirOrder(r, s) ==
  \A i, j \in DOMAIN r : i < j => \E k, l \in DOMAIN s : k < l /\ r[i] = s[k] /\ r[j] = s[l]

LEMMA WithoutElements ==
  ASSUME NEW S, NEW s \in Seq(S), NEW ids
  PROVE  LET w == Without(s, ids) IN
         /\ w \in Seq(S)
         /\ \A i \in DOMAIN w : \E j \in DOMAIN s : w[i] = s[j] /\ s[j].id \notin ids
         /\ \A j \in DOMAIN s : s[j].id \notin ids => \E i \in DOMAIN w : w[i] = s[j]
         /\ DistinctIds(s) => DistinctIds(w)
         /\ InTheirOrder(w, s)
<1>1. PICK n \in Nat : n = Len(s)
  BY SeqFacts
<1>2. PICK left : WithoutLoop(left, s, ids, n) /\ Without(s, ids) = left[n]
  BY <1>1, WithoutExists
<1>3. DOMAIN s = 1..n /\ \A j \in 1..n : s[j] \in S
  BY <1>1, SeqFacts
<1> DEFINE Good(m) ==
      /\ left[m] \in Seq(S)
      /\ \A i \in DOMAIN left[m] : \E j \in 1..m : left[m][i] = s[j] /\ s[j].id \notin ids
      /\ \A j \in 1..m : s[j].id \notin ids => \E i \in DOMAIN left[m] : left[m][i] = s[j]
      /\ DistinctIds(s) => DistinctIds(left[m])
      /\ InTheirOrder(left[m], s)
<1>4. PICK G : G = {m \in 0..n : Good(m)}
  OBVIOUS
<1>5. 0 \in G
  <2>1. left[0] = <<>>
    BY <1>1, <1>2 DEF WithoutLoop
  <2>2. <<>> \in Seq(S) /\ DOMAIN <<>> = {}
    OBVIOUS
  <2>3. Good(0)
    BY <2>1, <2>2 DEF DistinctIds, InTheirOrder
  <2>4. QED
    BY <1>1, <1>4, <2>3
<1>6. ASSUME NEW m \in 1..n, m - 1 \in G PROVE m \in G
  <2>1. Good(m - 1) /\ m \in 0..n /\ m # 0 /\ m \in 1..m
    BY <1>1, <1>4, <1>6
  <2>2. left[m] = IF s[m].id \in ids THEN left[m - 1] ELSE Append(left[m - 1], s[m])
    BY <1>2, <2>1 DEF WithoutLoop
  <2>3. PICK l, k : l = left[m - 1] /\ k = left[m]
    OBVIOUS
  <2>4. /\ l \in Seq(S)
        /\ \A i \in DOMAIN l : \E j \in 1..m - 1 : l[i] = s[j] /\ s[j].id \notin ids
        /\ \A j \in 1..m - 1 : s[j].id \notin ids => \E i \in DOMAIN l : l[i] = s[j]
        /\ DistinctIds(s) => DistinctIds(l)
        /\ InTheirOrder(l, s)
    BY <2>1, <2>3
  <2>5. \A j \in 1..m : j # m => j \in 1..m - 1
    BY <1>1
  <2>6. \A j \in 1..m - 1 : j \in 1..m /\ j < m /\ j \in DOMAIN s
    BY <1>1, <1>3
  <2>7. m \in DOMAIN s
    BY <1>3
  <2>8. CASE s[m].id \in ids
    <3>1. k = l
      BY <2>2, <2>3, <2>8
    <3>2. Good(m)
      BY <2>3, <2>4, <2>5, <2>6, <2>8, <3>1
    <3>3. QED
      BY <1>4, <2>1, <3>2
  <2>9. CASE s[m].id \notin ids
    <3>1. /\ k \in Seq(S)
          /\ \A i \in DOMAIN l : i \in DOMAIN k /\ k[i] = l[i]
          /\ Len(l) + 1 \in DOMAIN k /\ k[Len(l) + 1] = s[m]
          /\ \A i \in DOMAIN k : i \in DOMAIN l \/ i = Len(l) + 1
          /\ \A i \in DOMAIN l : i \in Nat /\ i <= Len(l)
          /\ Len(l) \in Nat
      <4>1. /\ s[m] \in S /\ k = Append(l, s[m]) /\ Len(l) \in Nat
            /\ \A i \in DOMAIN l : i \in Nat /\ i <= Len(l)
        BY <1>3, <2>2, <2>3, <2>4, <2>9, SeqFacts
      <4>2. DOMAIN k = 1..Len(l) + 1 /\ Len(l) + 1 \in 1..Len(l) + 1
        BY <2>4, <4>1, AppendFacts
      <4>3. QED
        BY <2>4, <4>1, <4>2, AppendFacts
    <3>2. ASSUME NEW i \in DOMAIN k PROVE \E j \in 1..m : k[i] = s[j] /\ s[j].id \notin ids
      <4>1. CASE i \in DOMAIN l
        BY <2>4, <2>6, <3>1, <4>1
      <4>2. CASE i = Len(l) + 1
        BY <2>1, <2>9, <3>1, <4>2
      <4>3. QED
        BY <3>1, <4>1, <4>2
    <3>3. ASSUME NEW j \in 1..m, s[j].id \notin ids PROVE \E i \in DOMAIN k : k[i] = s[j]
      <4>1. CASE j = m
        BY <3>1, <4>1
      <4>2. CASE j # m
        BY <2>4, <2>5, <3>1, <3>3, <4>2
      <4>3. QED
        BY <4>1, <4>2
    <3>4. ASSUME DistinctIds(s) PROVE DistinctIds(k)
      <4>1. \A i \in DOMAIN l : l[i].id # s[m].id
        <5>1. ASSUME NEW i \in DOMAIN l PROVE l[i].id # s[m].id
          <6>1. PICK j \in 1..m - 1 : l[i] = s[j]
            BY <2>4
          <6>2. j \in DOMAIN s /\ j # m
            BY <1>1, <1>3
          <6>3. QED
            BY <2>7, <3>4, <6>1, <6>2 DEF DistinctIds
        <5>2. QED
          BY <5>1
      <4>2. \A i, j \in DOMAIN l : i # j => l[i].id # l[j].id
        BY <2>4, <3>4 DEF DistinctIds
      <4>3. QED
        BY <3>1, <4>1, <4>2 DEF DistinctIds
    <3>5. InTheirOrder(k, s)
      <4>1. SUFFICES ASSUME NEW i \in DOMAIN k, NEW j \in DOMAIN k, i < j
                     PROVE  \E a, b \in DOMAIN s : a < b /\ k[i] = s[a] /\ k[j] = s[b]
        BY DEF InTheirOrder
      <4>2. i \in DOMAIN l
        BY <3>1, <4>1
      <4>3. CASE j \in DOMAIN l
        <5>1. PICK a, b \in DOMAIN s : a < b /\ l[i] = s[a] /\ l[j] = s[b]
          BY <2>4, <4>1, <4>2, <4>3 DEF InTheirOrder
        <5>2. QED
          BY <3>1, <4>2, <4>3, <5>1
      <4>4. CASE j = Len(l) + 1
        <5>1. PICK a \in 1..m - 1 : l[i] = s[a]
          BY <2>4, <4>2
        <5>2. a \in DOMAIN s /\ a < m /\ k[i] = s[a] /\ k[j] = s[m]
          BY <2>6, <3>1, <4>2, <4>4, <5>1
        <5>3. QED
          BY <2>7, <5>2
      <4>5. QED
        BY <3>1, <4>3, <4>4
    <3>6. Good(m)
      BY <2>3, <3>1, <3>2, <3>3, <3>4, <3>5
    <3>7. QED
      BY <1>4, <2>1, <3>6
  <2>10. QED
    BY <2>8, <2>9
<1>7. n \in G
  <2>1. \A m \in 1..n : m - 1 \in G => m \in G
    BY <1>6
  <2>2. \A m \in 0..n : m \in G
    BY <1>5, <2>1, UpTo
  <2>3. QED
    BY <2>2
<1>8. Good(n)
  BY <1>4, <1>7
<1>9. PICK w : w = left[n]
  OBVIOUS
<1>10. /\ w \in Seq(S)
       /\ \A i \in DOMAIN w : \E j \in DOMAIN s : w[i] = s[j] /\ s[j].id \notin ids
       /\ \A j \in DOMAIN s : s[j].id \notin ids => \E i \in DOMAIN w : w[i] = s[j]
       /\ DistinctIds(s) => DistinctIds(w)
       /\ InTheirOrder(w, s)
  BY <1>3, <1>8, <1>9
<1>11. QED
  BY <1>2, <1>9, <1>10

-----------------------------------------------------------------------------
(* Tables *)

LEMMA NoTimerIsNone == NoTimer \notin TimerId
BY TimerAssumption DEF NoTimer, TimerId

LEMMA FreshTimerId ==
  ASSUME NEW table
  PROVE  /\ NewTimerId(table) \in TimerId \cup {NoTimer}
         /\ NewTimerId(table) # NoTimer =>
              NewTimerId(table) \in TimerId /\ \A x \in Rows(table) : x.id # NewTimerId(table)
<1>1. CASE NextTimerIds(table) = {}
  BY <1>1 DEF NewTimerId
<1>2. CASE NextTimerIds(table) # {}
  <2>1. NewTimerId(table) \in NextTimerIds(table)
    BY <1>2 DEF NewTimerId
  <2>2. NewTimerId(table) \in TimerId /\ NewTimerId(table) \notin UsedIds(table)
    BY <2>1 DEF NextTimerIds
  <2>3. \A x \in Rows(table) : x.id \in UsedIds(table)
    BY DEF Rows, UsedIds
  <2>4. QED
    BY <2>2, <2>3
<1>3. QED
  BY <1>1, <1>2

(* Rows are timers, told apart by their ids, and one comes before another. *)
LEMMA RowFacts ==
  ASSUME NEW table, TableOK(table)
  PROVE  /\ \A x \in Rows(table) : x \in Timer /\ x.id \in TimerId
         /\ \A x, y \in Rows(table) : x.id = y.id => x = y
         /\ \A x, y \in Rows(table) : x # y => Before(table, x, y) \/ Before(table, y, x)
         /\ \A x, y : Before(table, x, y) =>
              /\ x \in Rows(table) /\ y \in Rows(table) /\ x # y
              /\ ~Before(table, y, x)
<1>1. /\ Len(table) \in Nat /\ DOMAIN table = 1..Len(table)
      /\ \A i \in DOMAIN table : table[i] \in Timer
  BY SeqFacts DEF TableOK
<1>2. \A i, j \in DOMAIN table : table[i].id = table[j].id => i = j
  BY DEF TableOK, DistinctIds
<1>3. \A i \in DOMAIN table : i \in Nat
  BY <1>1
<1>4. \A x \in Rows(table) : x \in Timer /\ x.id \in TimerId
  BY <1>1 DEF Rows, Timer
<1>5. \A x, y \in Rows(table) : x.id = y.id => x = y
  BY <1>2 DEF Rows
<1>6. ASSUME NEW x \in Rows(table), NEW y \in Rows(table), x # y
      PROVE  Before(table, x, y) \/ Before(table, y, x)
  <2>1. PICK i, j \in DOMAIN table : table[i] = x /\ table[j] = y
    BY DEF Rows
  <2>2. i < j \/ j < i
    BY <1>3, <1>6, <2>1
  <2>3. QED
    BY <2>1, <2>2 DEF Before
<1>7. ASSUME NEW x, NEW y, Before(table, x, y)
      PROVE  x \in Rows(table) /\ y \in Rows(table) /\ x # y /\ ~Before(table, y, x)
  <2>1. PICK i, j \in DOMAIN table : i < j /\ table[i] = x /\ table[j] = y
    BY <1>7 DEF Before
  <2>2. \A k \in DOMAIN table : (table[k] = x => k = i) /\ (table[k] = y => k = j)
    BY <1>2, <2>1
  <2>3. i # j /\ ~(j < i)
    BY <1>3, <2>1
  <2>4. QED
    BY <2>1, <2>2, <2>3 DEF Before, Rows
<1>8. QED
  BY <1>4, <1>5, <1>6, <1>7

LEMMA BeforeIsTransitive ==
  ASSUME NEW table, TableOK(table), NEW x, NEW y, NEW z, Before(table, x, y), Before(table, y, z)
  PROVE  Before(table, x, z)
<1>1. Len(table) \in Nat /\ DOMAIN table = 1..Len(table)
  BY SeqFacts DEF TableOK
<1>2. PICK i, j \in DOMAIN table : i < j /\ table[i] = x /\ table[j] = y
  BY DEF Before
<1>3. PICK k, l \in DOMAIN table : k < l /\ table[k] = y /\ table[l] = z
  BY DEF Before
<1>4. j = k
  BY <1>2, <1>3 DEF TableOK, DistinctIds
<1>5. i < l
  BY <1>1, <1>2, <1>3, <1>4
<1>6. QED
  BY <1>2, <1>3, <1>5 DEF Before

LEMMA OrderIsKept ==
  ASSUME NEW table, TableOK(table), NEW r, TableOK(r), InTheirOrder(r, table)
  PROVE  \A x, y : Before(r, x, y) <=> Before(table, x, y) /\ x \in Rows(r) /\ y \in Rows(r)
<1>1. ASSUME NEW x, NEW y, Before(r, x, y) PROVE Before(table, x, y)
  <2>1. PICK i, j \in DOMAIN r : i < j /\ r[i] = x /\ r[j] = y
    BY <1>1 DEF Before
  <2>2. PICK k, l \in DOMAIN table : k < l /\ x = table[k] /\ y = table[l]
    BY <2>1 DEF InTheirOrder
  <2>3. QED
    BY <2>2 DEF Before
<1>2. ASSUME NEW x \in Rows(r), NEW y \in Rows(r), Before(table, x, y) PROVE Before(r, x, y)
  <2>1. x # y /\ ~Before(table, y, x)
    BY <1>2, RowFacts
  <2>2. ~Before(r, y, x)
    BY <1>1, <2>1
  <2>3. QED
    BY <2>1, <2>2, RowFacts
<1>3. ASSUME NEW x, NEW y, Before(r, x, y) PROVE x \in Rows(r) /\ y \in Rows(r)
  BY <1>3, RowFacts
<1>4. QED
  BY <1>1, <1>2, <1>3

LEMMA TableWithout ==
  ASSUME NEW table, TableOK(table), NEW ids
  PROVE  /\ TableOK(Without(table, ids))
         /\ \A x : x \in Rows(Without(table, ids)) <=> x \in Rows(table) /\ x.id \notin ids
         /\ \A x, y : Before(Without(table, ids), x, y) <=>
              /\ Before(table, x, y)
              /\ x \in Rows(Without(table, ids)) /\ y \in Rows(Without(table, ids))
<1>1. PICK w : w = Without(table, ids)
  OBVIOUS
<1>2. /\ w \in Seq(Timer)
      /\ \A i \in DOMAIN w : \E j \in DOMAIN table : w[i] = table[j] /\ table[j].id \notin ids
      /\ \A j \in DOMAIN table : table[j].id \notin ids => \E i \in DOMAIN w : w[i] = table[j]
      /\ DistinctIds(table) => DistinctIds(w)
      /\ InTheirOrder(w, table)
  BY <1>1, WithoutElements DEF TableOK
<1>3. TableOK(w)
  BY <1>2 DEF TableOK
<1>4. \A x : x \in Rows(w) <=> x \in Rows(table) /\ x.id \notin ids
  BY <1>2 DEF Rows
<1>5. QED
  BY <1>1, <1>2, <1>3, <1>4, OrderIsKept

LEMMA TableRemove ==
  ASSUME NEW table, TableOK(table), NEW k \in DOMAIN table
  PROVE  /\ TableOK(RemoveAt(table, k)) /\ table[k] \in Rows(table)
         /\ \A x : x \in Rows(RemoveAt(table, k)) <=> x \in Rows(table) /\ x # table[k]
         /\ \A x, y : Before(RemoveAt(table, k), x, y) <=>
              /\ Before(table, x, y)
              /\ x \in Rows(RemoveAt(table, k)) /\ y \in Rows(RemoveAt(table, k))
<1>1. PICK r, n : r = RemoveAt(table, k) /\ n = Len(table)
  OBVIOUS
<1>2. /\ n \in Nat /\ DOMAIN table = 1..n /\ k \in Nat /\ 1 <= k /\ k <= n
      /\ \A i, j \in 1..n : table[i].id = table[j].id => i = j
  BY <1>1, SeqFacts DEF TableOK, DistinctIds
<1>3. /\ r \in Seq(Timer) /\ DOMAIN r = 1..n - 1
      /\ \A i \in 1..n - 1 : r[i] = IF i < k THEN table[i] ELSE table[i + 1]
  BY <1>1, RemoveAtIs DEF TableOK
<1>4. PICK at : at = [i \in 1..n - 1 |-> IF i < k THEN i ELSE i + 1]
  OBVIOUS
<1>5. ASSUME NEW i \in 1..n - 1 PROVE at[i] \in 1..n /\ at[i] # k /\ r[i] = table[at[i]]
  <2>1. at[i] = IF i < k THEN i ELSE i + 1
    BY <1>4
  <2>2. r[i] = IF i < k THEN table[i] ELSE table[i + 1]
    BY <1>3
  <2>3. CASE i < k
    BY <1>2, <2>1, <2>2, <2>3
  <2>4. CASE ~(i < k)
    BY <1>2, <2>1, <2>2, <2>4
  <2>5. QED
    BY <2>3, <2>4
<1>6. ASSUME NEW i \in 1..n - 1, NEW j \in 1..n - 1, i < j PROVE at[i] < at[j]
  <2>1. at[i] = IF i < k THEN i ELSE i + 1
    BY <1>4
  <2>2. at[j] = IF j < k THEN j ELSE j + 1
    BY <1>4
  <2>3. i \in Nat /\ j \in Nat /\ k \in Nat
    BY <1>2
  <2>4. CASE i < k /\ j < k
    BY <1>6, <2>1, <2>2, <2>3, <2>4
  <2>5. CASE i < k /\ ~(j < k)
    BY <1>6, <2>1, <2>2, <2>3, <2>5
  <2>6. CASE ~(i < k)
    <3>1. ~(j < k)
      BY <1>6, <2>3, <2>6
    <3>2. QED
      BY <1>6, <2>1, <2>2, <2>3, <2>6, <3>1
  <2>7. QED
    BY <2>4, <2>5, <2>6
<1>7. ASSUME NEW j \in 1..n, j # k PROVE \E i \in 1..n - 1 : at[i] = j
  <2>1. CASE j < k
    <3>1. j \in 1..n - 1
      BY <1>2, <2>1
    <3>2. at[j] = j
      BY <1>4, <2>1, <3>1
    <3>3. QED
      BY <3>1, <3>2
  <2>2. CASE ~(j < k)
    <3>1. j - 1 \in 1..n - 1 /\ ~(j - 1 < k) /\ (j - 1) + 1 = j
      BY <1>2, <1>7, <2>2
    <3>2. at[j - 1] = j
      BY <1>4, <3>1
    <3>3. QED
      BY <3>1, <3>2
  <2>3. QED
    BY <2>1, <2>2
<1>8. InTheirOrder(r, table)
  BY <1>2, <1>3, <1>5, <1>6 DEF InTheirOrder
<1>9. DistinctIds(r)
  <2>1. SUFFICES ASSUME NEW i \in 1..n - 1, NEW j \in 1..n - 1, i # j PROVE r[i].id # r[j].id
    BY <1>3 DEF DistinctIds
  <2>2. i < j \/ j < i
    BY <2>1
  <2>3. at[i] < at[j] \/ at[j] < at[i]
    BY <1>6, <2>2
  <2>4. at[i] \in 1..n /\ at[j] \in 1..n
    BY <1>5
  <2>5. at[i] # at[j]
    BY <1>2, <2>3, <2>4
  <2>6. QED
    BY <1>2, <1>5, <2>4, <2>5
<1>10. TableOK(r)
  BY <1>3, <1>9 DEF TableOK
<1>11. \A x : x \in Rows(r) <=> x \in Rows(table) /\ x # table[k]
  <2>1. ASSUME NEW x \in Rows(r) PROVE x \in Rows(table) /\ x # table[k]
    <3>1. PICK i \in 1..n - 1 : x = r[i]
      BY <1>3 DEF Rows
    <3>2. at[i] \in 1..n /\ at[i] # k /\ x = table[at[i]]
      BY <1>5, <3>1
    <3>3. QED
      BY <1>2, <3>2 DEF Rows
  <2>2. ASSUME NEW x \in Rows(table), x # table[k] PROVE x \in Rows(r)
    <3>1. PICK j \in 1..n : x = table[j] /\ j # k
      BY <1>2, <2>2 DEF Rows
    <3>2. PICK i \in 1..n - 1 : at[i] = j
      BY <1>7, <3>1
    <3>3. QED
      BY <1>3, <1>5, <3>1, <3>2 DEF Rows
  <2>3. QED
    BY <2>1, <2>2
<1>12. table[k] \in Rows(table)
  BY DEF Rows
<1>13. QED
  BY <1>1, <1>8, <1>10, <1>11, <1>12, OrderIsKept

LEMMA TableAppend ==
  ASSUME NEW table, TableOK(table), NEW e \in Timer, \A x \in Rows(table) : x.id # e.id
  PROVE  /\ TableOK(Append(table, e))
         /\ \A x : x \in Rows(Append(table, e)) <=> x \in Rows(table) \/ x = e
         /\ \A x, y : Before(Append(table, e), x, y) <=>
              Before(table, x, y) \/ (x \in Rows(table) /\ y = e)
<1>1. PICK a, n : a = Append(table, e) /\ n = Len(table)
  OBVIOUS
<1>2. /\ n \in Nat /\ a \in Seq(Timer) /\ DOMAIN table = 1..n /\ DOMAIN a = 1..n + 1
      /\ \A i \in 1..n : a[i] = table[i]
      /\ a[n + 1] = e
  BY <1>1, AppendFacts, SeqFacts DEF TableOK
<1>3. \A i \in 1..n + 1 : i \in 1..n \/ i = n + 1
  BY <1>2
<1>4. \A i \in 1..n : i \in 1..n + 1 /\ i < n + 1
  BY <1>2
<1>5. n + 1 \in 1..n + 1
  BY <1>2
<1>6. DistinctIds(a)
  <2>1. \A i \in 1..n : table[i].id # e.id
    BY <1>2 DEF Rows
  <2>2. \A i, j \in 1..n : i # j => table[i].id # table[j].id
    BY <1>2 DEF TableOK, DistinctIds
  <2>3. SUFFICES ASSUME NEW i \in 1..n + 1, NEW j \in 1..n + 1, i # j PROVE a[i].id # a[j].id
    BY <1>2 DEF DistinctIds
  <2>4. CASE i \in 1..n /\ j \in 1..n
    BY <1>2, <2>2, <2>3, <2>4
  <2>5. CASE i \in 1..n /\ j = n + 1
    BY <1>2, <2>1, <2>5
  <2>6. CASE i = n + 1 /\ j \in 1..n
    BY <1>2, <2>1, <2>6
  <2>7. QED
    BY <1>3, <2>3, <2>4, <2>5, <2>6
<1>7. ASSUME NEW x PROVE x \in Rows(a) <=> x \in Rows(table) \/ x = e
  <2>1. ASSUME x \in Rows(a) PROVE x \in Rows(table) \/ x = e
    BY <1>2, <1>3, <2>1 DEF Rows
  <2>2. ASSUME x \in Rows(table) \/ x = e PROVE x \in Rows(a)
    BY <1>2, <1>4, <1>5, <2>2 DEF Rows
  <2>3. QED
    BY <2>1, <2>2
<1>8. ASSUME NEW x, NEW y
      PROVE  Before(a, x, y) <=> Before(table, x, y) \/ (x \in Rows(table) /\ y = e)
  <2>1. ASSUME Before(a, x, y) PROVE Before(table, x, y) \/ (x \in Rows(table) /\ y = e)
    <3>1. PICK i, j \in 1..n + 1 : i < j /\ a[i] = x /\ a[j] = y
      BY <1>2, <2>1 DEF Before
    <3>2. i \in 1..n
      BY <1>2, <3>1
    <3>3. CASE j \in 1..n
      BY <1>2, <3>1, <3>2, <3>3 DEF Before
    <3>4. CASE j = n + 1
      BY <1>2, <3>1, <3>2, <3>4 DEF Rows
    <3>5. QED
      BY <1>3, <3>3, <3>4
  <2>2. ASSUME Before(table, x, y) PROVE Before(a, x, y)
    <3>1. PICK i, j \in 1..n : i < j /\ table[i] = x /\ table[j] = y
      BY <1>2, <2>2 DEF Before
    <3>2. i \in 1..n + 1 /\ j \in 1..n + 1 /\ a[i] = x /\ a[j] = y
      BY <1>2, <1>4, <3>1
    <3>3. QED
      BY <1>2, <3>1, <3>2 DEF Before
  <2>3. ASSUME x \in Rows(table), y = e PROVE Before(a, x, y)
    <3>1. PICK i \in 1..n : table[i] = x
      BY <1>2, <2>3 DEF Rows
    <3>2. i < n + 1 /\ i \in 1..n + 1 /\ a[i] = x /\ a[n + 1] = y
      BY <1>2, <1>4, <2>3, <3>1
    <3>3. QED
      BY <1>2, <1>5, <3>2 DEF Before
  <2>4. QED
    BY <2>1, <2>2, <2>3
<1>9. TableOK(a)
  BY <1>2, <1>6 DEF TableOK
<1>10. QED
  BY <1>1, <1>7, <1>8, <1>9

-----------------------------------------------------------------------------
(* Which timer is whose *)

LEMMA TimerKinds ==
  ASSUME NEW x \in Timer
  PROVE  /\ x.id \in TimerId /\ x.id # NoTimer
         /\ \/ /\ x.owner.kind = "shortcut" /\ x.owner.shortcut \in Shortcuts
               /\ x = [id |-> x.id, owner |-> ShortcutTimer(x.owner.shortcut)]
            \/ /\ x.owner.kind = "sequence" /\ x.owner.seq \in DOMAIN Sequences
               /\ x = [id |-> x.id, owner |-> SequenceTimer(x.owner.seq)]
            \/ /\ x.owner.kind = "special" /\ x.owner.key \in VolumeKeys
               /\ x.owner.action \in Action
<1>1. x.id \in TimerId /\ x.owner \in Owners /\ x = [id |-> x.id, owner |-> x.owner]
  BY DEF Timer
<1>2. PICK o : o = x.owner
  OBVIOUS
<1>3. CASE o \in [kind : {"shortcut"}, shortcut : Shortcuts]
  <2>1. o.kind = "shortcut" /\ o.shortcut \in Shortcuts /\ o = [kind |-> "shortcut", shortcut |-> o.shortcut]
    BY <1>3
  <2>2. QED
    BY <1>1, <1>2, <2>1, NoTimerIsNone DEF ShortcutTimer
<1>4. CASE o \in [kind : {"sequence"}, seq : DOMAIN Sequences]
  <2>1. o.kind = "sequence" /\ o.seq \in DOMAIN Sequences /\ o = [kind |-> "sequence", seq |-> o.seq]
    BY <1>4
  <2>2. QED
    BY <1>1, <1>2, <2>1, NoTimerIsNone DEF SequenceTimer
<1>5. CASE o \in [kind : {"special"}, key : VolumeKeys, action : Action]
  <2>1. o.kind = "special" /\ o.key \in VolumeKeys /\ o.action \in Action
    BY <1>5
  <2>2. QED
    BY <1>1, <1>2, <2>1, NoTimerIsNone
<1>6. QED
  BY <1>1, <1>2, <1>3, <1>4, <1>5 DEF Owners

LEMMA ShortcutRow ==
  ASSUME NEW id \in TimerId, NEW c \in Shortcuts
  PROVE  LET x == [id |-> id, owner |-> ShortcutTimer(c)] IN
         x \in Timer /\ x.id = id /\ x.owner.kind = "shortcut" /\ x.owner.shortcut = c
<1>1. PICK o : o = ShortcutTimer(c)
  OBVIOUS
<1>2. o \in Owners /\ o.kind = "shortcut" /\ o.shortcut = c
  BY <1>1 DEF ShortcutTimer, Owners
<1>3. QED
  BY <1>1, <1>2 DEF Timer

LEMMA SequenceRowIs ==
  ASSUME NEW id \in TimerId, NEW q \in DOMAIN Sequences
  PROVE  LET x == [id |-> id, owner |-> SequenceTimer(q)] IN
         x \in Timer /\ x.id = id /\ x.owner.kind = "sequence" /\ x.owner.seq = q
<1>1. PICK o : o = SequenceTimer(q)
  OBVIOUS
<1>2. o \in Owners /\ o.kind = "sequence" /\ o.seq = q
  BY <1>1 DEF SequenceTimer, Owners
<1>3. QED
  BY <1>1, <1>2 DEF Timer

LEMMA SpecialRow ==
  ASSUME NEW id \in TimerId, NEW event \in Event, event.key \in VolumeKeys
  PROVE  LET x == [id |-> id, owner |-> SpecialTimer(event)] IN
         /\ x \in Timer /\ x.id = id /\ x.owner.kind = "special"
         /\ x.owner.key = event.key /\ x.owner.action = event.action
<1>1. PICK o : o = SpecialTimer(event)
  OBVIOUS
<1>2. o \in Owners /\ o.kind = "special" /\ o.key = event.key /\ o.action = event.action
  BY <1>1 DEF SpecialTimer, Owners, Event
<1>3. QED
  BY <1>1, <1>2 DEF Timer

-----------------------------------------------------------------------------
(* The events that are held back, of a table that loses or gains others, and
   those of the keys in dropped. *)

Special(x) == x.owner.kind = "special"
Drops(table, r, dropped) ==
  /\ \A x : Special(x) => (x \in Rows(r) <=> x \in Rows(table) /\ x.owner.key \notin dropped)
  /\ \A x, y \in Rows(r) : Special(x) /\ Special(y) => (Before(r, x, y) <=> Before(table, x, y))

LEMMA DropsNone ==
  ASSUME NEW table
  PROVE  Drops(table, table, {})
BY DEF Drops

LEMMA DropsOn ==
  ASSUME NEW table, NEW r, NEW s, NEW dropped, Drops(table, r, {}), Drops(r, s, dropped)
  PROVE  Drops(table, s, dropped)
<1>1. \A x : Special(x) => (x \in Rows(r) <=> x \in Rows(table))
  BY DEF Drops
<1>2. \A x : Special(x) => (x \in Rows(s) <=> x \in Rows(r) /\ x.owner.key \notin dropped)
  BY DEF Drops
<1>3. \A x, y \in Rows(r) : Special(x) /\ Special(y) => (Before(r, x, y) <=> Before(table, x, y))
  BY DEF Drops
<1>4. \A x, y \in Rows(s) : Special(x) /\ Special(y) => (Before(s, x, y) <=> Before(r, x, y))
  BY DEF Drops
<1>5. ASSUME NEW x \in Rows(s), NEW y \in Rows(s), Special(x), Special(y)
      PROVE  Before(s, x, y) <=> Before(table, x, y)
  BY <1>2, <1>3, <1>4, <1>5
<1>6. QED
  BY <1>1, <1>2, <1>5 DEF Drops

(* Nothing is lost or gained of a key. *)
SameOwn(table, r, key) ==
  /\ \A x : IsOwn(x.owner, key) => (x \in Rows(r) <=> x \in Rows(table))
  /\ \A x, y \in Rows(r) : IsOwn(x.owner, key) /\ IsOwn(y.owner, key) =>
       (Before(r, x, y) <=> Before(table, x, y))

LEMMA OwnAreSame ==
  ASSUME NEW table, NEW r, NEW dropped, Drops(table, r, dropped), NEW key, key \notin dropped
  PROVE  SameOwn(table, r, key)
BY DEF Drops, Special, IsOwn, SameOwn

LEMMA OwnAreGone ==
  ASSUME NEW table, NEW r, NEW dropped, Drops(table, r, dropped), NEW key \in dropped
  PROVE  \A x \in Rows(r) : ~IsOwn(x.owner, key)
BY DEF Drops, Special, IsOwn

LEMMA ListsStay ==
  ASSUME NEW table, TableOK(table), NEW r, TableOK(r), NEW key, SameOwn(table, r, key),
         NEW ids, Lists(ids, table, key)
  PROVE  Lists(ids, r, key)
<1>1. /\ \A x : IsOwn(x.owner, key) => (x \in Rows(r) <=> x \in Rows(table))
      /\ \A x, y \in Rows(r) : IsOwn(x.owner, key) /\ IsOwn(y.owner, key) =>
           (Before(r, x, y) <=> Before(table, x, y))
  BY DEF SameOwn
<1>2. \A x \in Rows(table) : IsOwn(x.owner, key) => \E n \in DOMAIN ids : ids[n] = x.id
  BY DEF Lists
<1>3. \A n \in DOMAIN ids : \E x \in Rows(table) : IsOwn(x.owner, key) /\ x.id = ids[n]
  BY DEF Lists
<1>4. \A m, n \in DOMAIN ids, x, y \in Rows(table) :
        x.id = ids[m] /\ y.id = ids[n] => (m < n <=> Before(table, x, y))
  BY DEF Lists
<1>5. \A n \in DOMAIN ids : \E x \in Rows(r) : IsOwn(x.owner, key) /\ x.id = ids[n]
  BY <1>1, <1>3
<1>6. ASSUME NEW n \in DOMAIN ids, NEW x \in Rows(r), x.id = ids[n]
      PROVE  x \in Rows(table) /\ IsOwn(x.owner, key)
  <2>1. PICK y \in Rows(r) : IsOwn(y.owner, key) /\ y.id = ids[n]
    BY <1>5
  <2>2. x = y
    BY <1>6, <2>1, RowFacts
  <2>3. QED
    BY <1>1, <2>1, <2>2
<1>7. ASSUME NEW m \in DOMAIN ids, NEW n \in DOMAIN ids, NEW x \in Rows(r), NEW y \in Rows(r),
             x.id = ids[m], y.id = ids[n]
      PROVE  m < n <=> Before(r, x, y)
  <2>1. x \in Rows(table) /\ IsOwn(x.owner, key) /\ y \in Rows(table) /\ IsOwn(y.owner, key)
    BY <1>6, <1>7
  <2>2. m < n <=> Before(table, x, y)
    BY <1>4, <1>7, <2>1
  <2>3. QED
    BY <1>1, <2>1, <2>2
<1>8. \A x \in Rows(r) : IsOwn(x.owner, key) => \E n \in DOMAIN ids : ids[n] = x.id
  BY <1>1, <1>2
<1>9. QED
  BY <1>5, <1>7, <1>8 DEF Lists

LEMMA NothingListed ==
  ASSUME NEW table, NEW r, NEW dropped, Drops(table, r, dropped), NEW key \in dropped
  PROVE  Lists(<<>>, r, key)
<1>1. DOMAIN <<>> = {}
  OBVIOUS
<1>2. \A x \in Rows(r) : ~IsOwn(x.owner, key)
  BY OwnAreGone
<1>3. QED
  BY <1>1, <1>2 DEF Lists

LEMMA FollowsStays ==
  ASSUME NEW table, NEW r, NEW key, SameOwn(table, r, key), NEW told, Follows(table, key, told)
  PROVE  Follows(r, key, told)
<1>1. /\ \A x : IsOwn(x.owner, key) => (x \in Rows(r) <=> x \in Rows(table))
      /\ \A x, y \in Rows(r) : IsOwn(x.owner, key) /\ IsOwn(y.owner, key) =>
           (Before(r, x, y) <=> Before(table, x, y))
  BY DEF SameOwn
<1>2. SUFFICES ASSUME NEW x \in Rows(r), IsOwn(x.owner, key), x.owner.action = "up"
               PROVE  AfterPress(r, key, told, x)
  BY DEF Follows
<1>3. x \in Rows(table) /\ AfterPress(table, key, told, x)
  BY <1>1, <1>2 DEF Follows
<1>4. CASE \E y \in Rows(table) :
             /\ IsOwn(y.owner, key) /\ y.owner.action = "down" /\ Before(table, y, x)
             /\ \A z \in Rows(table) :
                  IsOwn(z.owner, key) /\ Before(table, z, x) => z = y \/ Before(table, z, y)
  <2>1. PICK y \in Rows(table) :
             /\ IsOwn(y.owner, key) /\ y.owner.action = "down" /\ Before(table, y, x)
             /\ \A z \in Rows(table) :
                  IsOwn(z.owner, key) /\ Before(table, z, x) => z = y \/ Before(table, z, y)
    BY <1>4
  <2>2. y \in Rows(r) /\ Before(r, y, x)
    BY <1>1, <1>2, <2>1
  <2>3. ASSUME NEW z \in Rows(r), IsOwn(z.owner, key), Before(r, z, x)
        PROVE  z = y \/ Before(r, z, y)
    <3>1. z \in Rows(table) /\ Before(table, z, x)
      BY <1>1, <1>2, <2>3
    <3>2. z = y \/ Before(table, z, y)
      BY <2>1, <2>3, <3>1
    <3>3. QED
      BY <1>1, <2>1, <2>2, <2>3, <3>2
  <2>4. QED
    BY <2>1, <2>2, <2>3 DEF AfterPress
<1>5. CASE told = "down" /\ \A z \in Rows(table) : IsOwn(z.owner, key) => ~Before(table, z, x)
  <2>1. ASSUME NEW z \in Rows(r), IsOwn(z.owner, key) PROVE ~Before(r, z, x)
    BY <1>1, <1>2, <1>5, <2>1
  <2>2. QED
    BY <1>5, <2>1 DEF AfterPress
<1>6. QED
  BY <1>3, <1>4, <1>5 DEF AfterPress

LEMMA FollowsWithout ==
  ASSUME NEW table, NEW r, NEW dropped, Drops(table, r, dropped),
         NEW key, NEW told, Follows(table, key, told)
  PROVE  Follows(r, key, told)
<1>1. CASE key \in dropped
  BY <1>1, OwnAreGone DEF Follows
<1>2. CASE key \notin dropped
  BY <1>2, OwnAreSame, FollowsStays
<1>3. QED
  BY <1>1, <1>2

LEMMA EndsDownStays ==
  ASSUME NEW table, NEW r, NEW key, SameOwn(table, r, key), NEW told, EndsDown(table, key, told)
  PROVE  EndsDown(r, key, told)
<1>1. /\ \A x : IsOwn(x.owner, key) => (x \in Rows(r) <=> x \in Rows(table))
      /\ \A x, y \in Rows(r) : IsOwn(x.owner, key) /\ IsOwn(y.owner, key) =>
           (Before(r, x, y) <=> Before(table, x, y))
  BY DEF SameOwn
<1>2. CASE told = "down" /\ \A z \in Rows(table) : ~IsOwn(z.owner, key)
  BY <1>1, <1>2 DEF EndsDown
<1>3. CASE \E y \in Rows(table) :
             /\ IsOwn(y.owner, key) /\ y.owner.action = "down"
             /\ \A z \in Rows(table) : IsOwn(z.owner, key) => z = y \/ Before(table, z, y)
  <2>1. PICK y \in Rows(table) :
             /\ IsOwn(y.owner, key) /\ y.owner.action = "down"
             /\ \A z \in Rows(table) : IsOwn(z.owner, key) => z = y \/ Before(table, z, y)
    BY <1>3
  <2>2. y \in Rows(r)
    BY <1>1, <2>1
  <2>3. \A z \in Rows(r) : IsOwn(z.owner, key) => z = y \/ Before(r, z, y)
    BY <1>1, <2>1, <2>2
  <2>4. QED
    BY <2>1, <2>2, <2>3 DEF EndsDown
<1>4. QED
  BY <1>2, <1>3 DEF EndsDown

(* An event that is held back goes to the end of those of its key. *)
LEMMA HeldAtTheEnd ==
  ASSUME NEW table, TableOK(table), NEW e \in Timer, \A x \in Rows(table) : x.id # e.id,
         NEW key, NEW told, Follows(table, key, told), IsOwn(e.owner, key),
         e.owner.action = "up" => EndsDown(table, key, told)
  PROVE  /\ Follows(Append(table, e), key, told)
         /\ e.owner.action = "down" => EndsDown(Append(table, e), key, told)
<1>1. PICK a : a = Append(table, e)
  OBVIOUS
<1>2. /\ \A x : x \in Rows(a) <=> x \in Rows(table) \/ x = e
      /\ \A x, y : Before(a, x, y) <=> Before(table, x, y) \/ (x \in Rows(table) /\ y = e)
  BY <1>1, TableAppend
<1>3. e \notin Rows(table)
  OBVIOUS
<1>4. \A x : ~Before(table, x, e) /\ ~Before(table, e, x)
  BY <1>3, RowFacts
<1>5. ASSUME NEW x \in Rows(a), IsOwn(x.owner, key), x.owner.action = "up"
      PROVE  AfterPress(a, key, told, x)
  <2>1. CASE x = e
    <3>1. EndsDown(table, key, told)
      BY <1>5, <2>1
    <3>2. CASE told = "down" /\ \A z \in Rows(table) : ~IsOwn(z.owner, key)
      <4>1. \A z \in Rows(a) : IsOwn(z.owner, key) => ~Before(a, z, x)
        BY <1>2, <1>3, <1>4, <2>1, <3>2
      <4>2. QED
        BY <3>2, <4>1 DEF AfterPress
    <3>3. CASE \E y \in Rows(table) :
                 /\ IsOwn(y.owner, key) /\ y.owner.action = "down"
                 /\ \A z \in Rows(table) : IsOwn(z.owner, key) => z = y \/ Before(table, z, y)
      <4>1. PICK y \in Rows(table) :
                 /\ IsOwn(y.owner, key) /\ y.owner.action = "down"
                 /\ \A z \in Rows(table) : IsOwn(z.owner, key) => z = y \/ Before(table, z, y)
        BY <3>3
      <4>2. y \in Rows(a) /\ Before(a, y, x)
        BY <1>2, <2>1, <4>1
      <4>3. ASSUME NEW z \in Rows(a), IsOwn(z.owner, key), Before(a, z, x)
            PROVE  z = y \/ Before(a, z, y)
        BY <1>2, <1>3, <1>4, <2>1, <4>1, <4>3
      <4>4. QED
        BY <4>1, <4>2, <4>3 DEF AfterPress
    <3>4. QED
      BY <3>1, <3>2, <3>3 DEF EndsDown
  <2>2. CASE x # e
    <3>1. x \in Rows(table) /\ AfterPress(table, key, told, x)
      BY <1>2, <1>5, <2>2 DEF Follows
    <3>2. \A z : Before(a, z, x) <=> Before(table, z, x)
      BY <1>2, <2>2
    <3>3. CASE told = "down" /\ \A z \in Rows(table) : IsOwn(z.owner, key) => ~Before(table, z, x)
      <4>1. \A z \in Rows(a) : IsOwn(z.owner, key) => ~Before(a, z, x)
        BY <1>2, <1>4, <3>2, <3>3
      <4>2. QED
        BY <3>3, <4>1 DEF AfterPress
    <3>4. CASE \E y \in Rows(table) :
                 /\ IsOwn(y.owner, key) /\ y.owner.action = "down" /\ Before(table, y, x)
                 /\ \A z \in Rows(table) :
                      IsOwn(z.owner, key) /\ Before(table, z, x) => z = y \/ Before(table, z, y)
      <4>1. PICK y \in Rows(table) :
                 /\ IsOwn(y.owner, key) /\ y.owner.action = "down" /\ Before(table, y, x)
                 /\ \A z \in Rows(table) :
                      IsOwn(z.owner, key) /\ Before(table, z, x) => z = y \/ Before(table, z, y)
        BY <3>4
      <4>2. y \in Rows(a) /\ Before(a, y, x)
        BY <1>2, <4>1
      <4>3. ASSUME NEW z \in Rows(a), IsOwn(z.owner, key), Before(a, z, x)
            PROVE  z = y \/ Before(a, z, y)
        <5>1. Before(table, z, x) /\ z \in Rows(table)
          BY <3>2, <4>3, RowFacts
        <5>2. QED
          BY <1>2, <4>1, <4>3, <5>1
      <4>4. QED
        BY <4>1, <4>2, <4>3 DEF AfterPress
    <3>5. QED
      BY <3>1, <3>3, <3>4 DEF AfterPress
  <2>3. QED
    BY <2>1, <2>2
<1>6. Follows(a, key, told)
  BY <1>5 DEF Follows
<1>7. ASSUME e.owner.action = "down" PROVE EndsDown(a, key, told)
  <2>1. e \in Rows(a) /\ \A z \in Rows(a) : z = e \/ Before(a, z, e)
    BY <1>2
  <2>2. QED
    BY <1>7, <2>1 DEF EndsDown
<1>8. QED
  BY <1>1, <1>6, <1>7

(* The oldest event of a key is told, and the next one follows on it. *)
Now(told, action) ==
  CASE action = "down" -> "down"
    [] action = "up" -> IF told = "down" THEN "up" ELSE "stray"
    [] OTHER -> told

LEMMA OldestIsTold ==
  ASSUME NEW table, TableOK(table), NEW r, TableOK(r), NEW e \in Rows(table),
         \A x : x \in Rows(r) <=> x \in Rows(table) /\ x # e,
         \A x, y : Before(r, x, y) <=> Before(table, x, y) /\ x \in Rows(r) /\ y \in Rows(r),
         NEW key, IsOwn(e.owner, key),
         \A x \in Rows(table) : IsOwn(x.owner, key) => ~Before(table, x, e),
         NEW told, Follows(table, key, told)
  PROVE  /\ Follows(r, key, Now(told, e.owner.action))
         /\ EndsDown(table, key, told) => EndsDown(r, key, Now(told, e.owner.action))
<1>1. PICK now : now = Now(told, e.owner.action)
  OBVIOUS
<1>2. \A x \in Rows(table) : IsOwn(x.owner, key) /\ x # e => Before(table, e, x)
  BY RowFacts
<1>3. e.owner.action = "up" => told = "down"
  <2>1. ASSUME e.owner.action = "up" PROVE AfterPress(table, key, told, e)
    BY <2>1 DEF Follows
  <2>2. QED
    BY <2>1 DEF AfterPress
<1>4. now # "stray" /\ (e.owner.action = "down" => now = "down")
      /\ (e.owner.action \notin {"down", "up"} => now = told)
  BY <1>1, <1>3 DEF Now, Follows
<1>5. ASSUME NEW x \in Rows(r), IsOwn(x.owner, key), x.owner.action = "up"
      PROVE  AfterPress(r, key, now, x)
  <2>1. x \in Rows(table) /\ x # e /\ AfterPress(table, key, told, x) /\ Before(table, e, x)
    BY <1>2, <1>5 DEF Follows
  <2>2. PICK y \in Rows(table) :
               /\ IsOwn(y.owner, key) /\ y.owner.action = "down" /\ Before(table, y, x)
               /\ \A z \in Rows(table) :
                    IsOwn(z.owner, key) /\ Before(table, z, x) => z = y \/ Before(table, z, y)
    BY <2>1 DEF AfterPress
  <2>3. CASE y = e
    <3>1. \A z \in Rows(r) : IsOwn(z.owner, key) => ~Before(r, z, x)
      BY <2>2, <2>3
    <3>2. QED
      BY <1>4, <2>2, <2>3, <3>1 DEF AfterPress
  <2>4. CASE y # e
    <3>1. y \in Rows(r) /\ Before(r, y, x)
      BY <1>5, <2>2, <2>4
    <3>2. \A z \in Rows(r) : IsOwn(z.owner, key) /\ Before(r, z, x) => z = y \/ Before(r, z, y)
      BY <2>2, <3>1
    <3>3. QED
      BY <2>2, <3>1, <3>2 DEF AfterPress
  <2>5. QED
    BY <2>3, <2>4
<1>6. ASSUME EndsDown(table, key, told) PROVE EndsDown(r, key, now)
  <2>1. PICK y \in Rows(table) :
             /\ IsOwn(y.owner, key) /\ y.owner.action = "down"
             /\ \A z \in Rows(table) : IsOwn(z.owner, key) => z = y \/ Before(table, z, y)
    BY <1>6 DEF EndsDown
  <2>2. CASE y = e
    <3>1. \A z \in Rows(r) : ~IsOwn(z.owner, key)
      BY <2>1, <2>2
    <3>2. QED
      BY <1>4, <2>1, <2>2, <3>1 DEF EndsDown
  <2>3. CASE y # e
    <3>1. y \in Rows(r) /\ \A z \in Rows(r) : IsOwn(z.owner, key) => z = y \/ Before(r, z, y)
      BY <2>1, <2>3
    <3>2. QED
      BY <2>1, <3>1 DEF EndsDown
  <2>4. QED
    BY <2>2, <2>3
<1>7. QED
  BY <1>1, <1>4, <1>5, <1>6 DEF Follows

-----------------------------------------------------------------------------
(* What names a timer, of a table that changes elsewhere *)

SameOf(kind, table, r) == \A x : x.owner.kind = kind => (x \in Rows(r) <=> x \in Rows(table))

LEMMA LastStays ==
  ASSUME NEW table, NEW r, SameOf("shortcut", table, r), NEW last \in Waiting, LastOK(last, table)
  PROVE  LastOK(last, r)
<1>1. ASSUME NEW c \in last.shortcut
      PROVE  c.trigger = "down" /\ [id |-> last.timerId, owner |-> ShortcutTimer(c)] \in Rows(r)
  <2>1. PICK x : x = [id |-> last.timerId, owner |-> ShortcutTimer(c)]
    OBVIOUS
  <2>2. x \in Rows(table) /\ c.trigger = "down"
    BY <2>1 DEF LastOK
  <2>3. x.owner.kind = "shortcut"
    BY <2>1 DEF ShortcutTimer
  <2>4. QED
    BY <2>1, <2>2, <2>3 DEF SameOf
<1>2. QED
  BY <1>1 DEF LastOK, SameOf

LEMMA ListStays ==
  ASSUME NEW table, NEW r, NEW list, ListOK(list, table),
         \A x \in Rows(table) : x.owner.kind = "sequence" => x \in Rows(r)
  PROVE  ListOK(list, r)
<1>1. ASSUME NEW k \in DOMAIN list, list[k].timerId # NoTimer PROVE SequenceRow(list[k]) \in Rows(r)
  <2>1. SequenceRow(list[k]) \in Rows(table)
    BY <1>1 DEF ListOK
  <2>2. SequenceRow(list[k]).owner.kind = "sequence"
    BY DEF SequenceRow, SequenceTimer
  <2>3. QED
    BY <2>1, <2>2
<1>2. QED
  BY <1>1 DEF ListOK

LEMMA HeldStays ==
  ASSUME NEW table, TableOK(table), NEW r, TableOK(r), Drops(table, r, {}),
         NEW held, HeldOK(held, table)
  PROVE  HeldOK(held, r)
<1>1. ASSUME NEW key \in VolumeKeys PROVE Lists(held[key], r, key)
  <2>1. Lists(held[key], table, key) /\ key \notin {}
    BY DEF HeldOK
  <2>2. SameOwn(table, r, key)
    BY <2>1, OwnAreSame
  <2>3. QED
    BY <2>1, <2>2, ListsStay
<1>2. QED
  BY <1>1 DEF HeldOK

LEMMA TurnFields ==
  ASSUME NEW t, TurnOK(t)
  PROVE  /\ t \in TurnType /\ t.last \in Waiting /\ t.keys \in Seq(Struck) /\ t.filter \in Seq(Entries)
         /\ t.special \in SUBSET (PowerKeys \cup VolumeKeys) /\ t.held \in [VolumeKeys -> Seq(TimerId)]
         /\ t.table \in Seq(Timer) /\ t.erased \in BOOLEAN /\ t.handled \in BOOLEAN
         /\ t.tempSeqs \in Seq(Entries) /\ t.launched \in BOOLEAN /\ t.gone \in BOOLEAN
         /\ Len(t.keys) <= MaxSequenceKeys + 1
         /\ TableOK(t.table) /\ LastOK(t.last, t.table) /\ ListOK(t.filter, t.table)
         /\ ListOK(t.tempSeqs, t.table) /\ HeldOK(t.held, t.table)
BY DEF TurnOK, TurnType

(* A waiting shortcut is one, and has the only timer of a shortcut. *)
LEMMA OneWaits ==
  ASSUME NEW last \in Waiting, NEW table, TableOK(table), LastOK(last, table)
  PROVE  /\ \A c, d \in last.shortcut : c = d
         /\ \A x \in Rows(table) : x.id = last.timerId <=> x.owner.kind = "shortcut"
         /\ \A x \in Rows(table) : x.owner.kind = "shortcut" => x.owner.shortcut \in last.shortcut
<1>1. /\ last.shortcut \subseteq Shortcuts /\ last.timerId \in TimerId \cup {NoTimer}
      /\ \A x \in Rows(table) : x \in Timer /\ x.id \in TimerId
      /\ \A x, y \in Rows(table) : x.id = y.id => x = y
  BY RowFacts DEF Waiting
<1>2. ASSUME NEW c \in last.shortcut
      PROVE  \E x \in Rows(table) :
               x.id = last.timerId /\ x.owner.kind = "shortcut" /\ x.owner.shortcut = c
  <2>1. PICK x \in Rows(table) : x = [id |-> last.timerId, owner |-> ShortcutTimer(c)]
    BY DEF LastOK
  <2>2. x.id = last.timerId /\ x.owner = ShortcutTimer(c)
    BY <2>1
  <2>3. QED
    BY <2>2 DEF ShortcutTimer
<1>3. \A c, d \in last.shortcut : c = d
  BY <1>1, <1>2
<1>4. ASSUME NEW x \in Rows(table), x.id = last.timerId
      PROVE  x.owner.kind = "shortcut" /\ x.owner.shortcut \in last.shortcut
  <2>1. last.shortcut # {}
    BY <1>1, <1>4, NoTimerIsNone DEF LastOK
  <2>2. PICK c \in last.shortcut : TRUE
    BY <2>1
  <2>3. PICK y \in Rows(table) :
          y.id = last.timerId /\ y.owner.kind = "shortcut" /\ y.owner.shortcut = c
    BY <1>2
  <2>4. QED
    BY <1>1, <1>4, <2>3
<1>5. \A x \in Rows(table) : x.owner.kind = "shortcut" => x.id = last.timerId
  BY DEF LastOK
<1>6. QED
  BY <1>3, <1>4, <1>5

-----------------------------------------------------------------------------
(* Shortcuts *)

(* The members that the shortcuts leave alone. *)
SameKeys(t, u) ==
  /\ u.keys = t.keys /\ u.filter = t.filter /\ u.special = t.special /\ u.held = t.held
  /\ u.erased = t.erased /\ u.tempSeqs = t.tempSeqs /\ u.launched = t.launched /\ u.gone = t.gone

LEMMA ResetLastKeeps ==
  ASSUME NEW t, TurnOK(t)
  PROVE  LET u == ResetLastMatchedKey(t) IN
         /\ TurnOK(u) /\ SameKeys(t, u) /\ u.handled = t.handled
         /\ u.last = NoShortcut /\ Drops(t.table, u.table, {})
         /\ \A x \in Rows(u.table) : x.owner.kind # "shortcut"
<1>1. PICK u, r : u = ResetLastMatchedKey(t) /\ r = Without(t.table, {t.last.timerId})
  OBVIOUS
<1>2. t \in TurnType /\ TableOK(t.table) /\ t.last \in Waiting /\ LastOK(t.last, t.table)
  BY TurnFields
<1>3. /\ TableOK(r)
      /\ \A x : x \in Rows(r) <=> x \in Rows(t.table) /\ x.id \notin {t.last.timerId}
      /\ \A x, y : Before(r, x, y) <=> Before(t.table, x, y) /\ x \in Rows(r) /\ y \in Rows(r)
  BY <1>1, <1>2, TableWithout
<1>4. \A x \in Rows(t.table) : x.id = t.last.timerId <=> x.owner.kind = "shortcut"
  BY <1>2, OneWaits
<1>5. \A x : x \in Rows(r) <=> x \in Rows(t.table) /\ x.owner.kind # "shortcut"
  BY <1>3, <1>4
<1>6. Drops(t.table, r, {})
  BY <1>3, <1>5 DEF Drops, Special
<1>7. /\ u.last = NoShortcut /\ u.table = r /\ SameKeys(t, u) /\ u.handled = t.handled
      /\ u \in TurnType
  <2>1. NoShortcut \in Waiting
    BY DEF NoShortcut, Waiting
  <2>2. r \in Seq(Timer)
    BY <1>3 DEF TableOK
  <2>3. u = [t EXCEPT !.last = NoShortcut, !.table = r]
    BY <1>1 DEF ResetLastMatchedKey
  <2>4. QED
    BY <1>2, <2>1, <2>2, <2>3 DEF TurnType, SameKeys
<1>8. LastOK(u.last, u.table)
  BY <1>5, <1>7 DEF LastOK, NoShortcut
<1>9. ListOK(u.filter, u.table) /\ ListOK(u.tempSeqs, u.table)
  <2>1. \A x \in Rows(t.table) : x.owner.kind = "sequence" => x \in Rows(r)
    BY <1>5
  <2>2. ListOK(t.filter, t.table) /\ ListOK(t.tempSeqs, t.table)
    BY TurnFields
  <2>3. ListOK(t.filter, r) /\ ListOK(t.tempSeqs, r)
    BY <2>1, <2>2, ListStays
  <2>4. QED
    BY <1>7, <2>3 DEF SameKeys
<1>10. HeldOK(u.held, u.table)
  <2>1. HeldOK(t.held, t.table)
    BY TurnFields
  <2>2. HeldOK(t.held, r)
    BY <1>2, <1>3, <1>6, <2>1, HeldStays
  <2>3. QED
    BY <1>7, <2>2 DEF SameKeys
<1>11. TurnOK(u)
  <2>1. Len(u.keys) <= MaxSequenceKeys + 1
    BY <1>7, TurnFields DEF SameKeys
  <2>2. QED
    BY <1>3, <1>7, <1>8, <1>9, <1>10, <2>1 DEF TurnOK
<1>12. QED
  BY <1>1, <1>5, <1>6, <1>7, <1>11

LEMMA KeyDownWaits ==
  ASSUME NEW t, TurnOK(t), t.last = NoShortcut, NEW c \in Shortcuts, c.trigger = "down",
         \A x \in Rows(t.table) : x.owner.kind # "shortcut"
  PROVE  LET u == HandleKeyDown(t, c) IN
         /\ TurnOK(u) /\ SameKeys(t, u) /\ u.last.shortcut \subseteq {c}
         /\ Drops(t.table, u.table, {})
<1>1. PICK u, id : u = HandleKeyDown(t, c) /\ id = NewTimerId(t.table)
  OBVIOUS
<1>2. /\ t \in TurnType /\ TableOK(t.table) /\ ListOK(t.filter, t.table)
      /\ ListOK(t.tempSeqs, t.table) /\ HeldOK(t.held, t.table) /\ LastOK(t.last, t.table)
      /\ Len(t.keys) <= MaxSequenceKeys + 1
  BY TurnFields
<1>3. NoShortcut.shortcut = {}
  BY DEF NoShortcut
<1>4. CASE ~c.lasting
  <2>1. u = [t EXCEPT !.handled = TRUE]
    BY <1>1, <1>4 DEF HandleKeyDown
  <2>2. /\ u \in TurnType /\ SameKeys(t, u) /\ u.last = t.last /\ u.table = t.table
    BY <1>2, <2>1 DEF TurnType, SameKeys
  <2>3. TurnOK(u)
    BY <1>2, <2>2 DEF TurnOK, SameKeys
  <2>4. QED
    BY <1>1, <1>3, <2>2, <2>3, DropsNone
<1>5. CASE c.lasting /\ id = NoTimer
  <2>1. u = t
    BY <1>1, <1>5 DEF HandleKeyDown
  <2>2. QED
    BY <1>1, <1>3, <2>1, DropsNone DEF SameKeys
<1>6. CASE c.lasting /\ id # NoTimer
  <2>1. PICK e : e = [id |-> id, owner |-> ShortcutTimer(c)]
    OBVIOUS
  <2>2. id \in TimerId /\ \A x \in Rows(t.table) : x.id # id
    BY <1>1, <1>6, FreshTimerId
  <2>3. e \in Timer /\ e.id = id /\ e.owner.kind = "shortcut"
    BY <2>1, <2>2, ShortcutRow
  <2>4. PICK r : r = Append(t.table, e)
    OBVIOUS
  <2>5. /\ TableOK(r)
        /\ \A x : x \in Rows(r) <=> x \in Rows(t.table) \/ x = e
        /\ \A x, y : Before(r, x, y) <=> Before(t.table, x, y) \/ (x \in Rows(t.table) /\ y = e)
    BY <1>2, <2>2, <2>3, <2>4, TableAppend
  <2>6. u = [t EXCEPT !.table = r, !.last = [shortcut |-> {c}, timerId |-> id], !.handled = TRUE]
    BY <1>1, <1>6, <2>1, <2>4 DEF HandleKeyDown
  <2>7. /\ u.last = [shortcut |-> {c}, timerId |-> id] /\ u.table = r /\ SameKeys(t, u)
        /\ u \in TurnType
    <3>1. [shortcut |-> {c}, timerId |-> id] \in Waiting
      BY <2>2 DEF Waiting
    <3>2. r \in Seq(Timer)
      BY <2>5 DEF TableOK
    <3>3. QED
      BY <1>2, <2>6, <3>1, <3>2 DEF TurnType, SameKeys
  <2>8. u.last.shortcut = {c} /\ u.last.timerId = id
    BY <2>7
  <2>9. Drops(t.table, r, {})
    BY <2>3, <2>5 DEF Drops, Special
  <2>10. LastOK(u.last, u.table)
    <3>1. e \in Rows(r) /\ \A x \in Rows(r) : x.owner.kind = "shortcut" => x.id = id
      BY <2>3, <2>5
    <3>2. QED
      BY <2>1, <2>7, <2>8, <3>1 DEF LastOK
  <2>11. ListOK(u.filter, u.table) /\ ListOK(u.tempSeqs, u.table)
    <3>1. ListOK(t.filter, r) /\ ListOK(t.tempSeqs, r)
      BY <1>2, <2>5, ListStays
    <3>2. QED
      BY <2>7, <3>1 DEF SameKeys
  <2>12. HeldOK(u.held, u.table)
    <3>1. HeldOK(t.held, r)
      BY <1>2, <2>5, <2>9, HeldStays
    <3>2. QED
      BY <2>7, <3>1 DEF SameKeys
  <2>13. TurnOK(u)
    BY <1>2, <2>5, <2>7, <2>10, <2>11, <2>12 DEF TurnOK, SameKeys
  <2>14. QED
    BY <1>1, <2>7, <2>8, <2>9, <2>13
<1>7. QED
  BY <1>4, <1>5, <1>6

(* After an event a shortcut waits only if the event matches it, and the
   event is consumed only if it ends a shortcut. *)
LEMMA ShortKeysKeep ==
  ASSUME NEW t, TurnOK(t), NEW event \in Event, NEW quick \in BOOLEAN
  PROVE  LET u == HandleShortKeys(t, event, quick) IN
         /\ TurnOK(u) /\ SameKeys(t, u) /\ Drops(t.table, u.table, {})
         /\ \A c \in u.last.shortcut : IsKeyMatch(c, event) /\ c.trigger = "down"
         /\ u.handled /\ ~t.handled =>
              \E c \in Shortcuts : c.finalKey = event.key /\ c.trigger = event.action
<1>1. PICK u, idle : u = HandleShortKeys(t, event, quick) /\ idle = ResetLastMatchedKey(t)
  OBVIOUS
<1>2. PICK matching : matching = {c \in Shortcuts : IsKeyMatch(c, event)}
  OBVIOUS
<1>3. PICK c : c = CHOOSE d \in matching : TRUE
  OBVIOUS
<1>4. u = IF Waits(t.last, event) THEN [t EXCEPT !.handled = TRUE]
          ELSE IF matching = {} THEN idle
          ELSE IF c.trigger = "down" THEN HandleKeyDown(idle, c) ELSE HandleKeyUp(idle, c, quick)
  BY <1>1, <1>2, <1>3 DEF HandleShortKeys
<1>5. /\ t \in TurnType /\ TableOK(t.table) /\ t.last \in Waiting /\ LastOK(t.last, t.table)
      /\ t.last.shortcut \subseteq Shortcuts
  BY TurnFields DEF Waiting
<1>6. /\ TurnOK(idle) /\ SameKeys(t, idle) /\ idle.handled = t.handled
      /\ idle.last = NoShortcut /\ Drops(t.table, idle.table, {})
      /\ \A x \in Rows(idle.table) : x.owner.kind # "shortcut"
  BY <1>1, ResetLastKeeps
<1>7. NoShortcut.shortcut = {}
  BY DEF NoShortcut
<1>8. \A d : IsKeyMatch(d, event) => d.finalKey = event.key /\ d.trigger = event.action
  BY DEF IsKeyMatch
<1>9. CASE Waits(t.last, event)
  <2>1. u = [t EXCEPT !.handled = TRUE]
    BY <1>4, <1>9
  <2>2. u \in TurnType /\ SameKeys(t, u) /\ u.last = t.last /\ u.table = t.table
    BY <1>5, <2>1 DEF TurnType, SameKeys
  <2>3. TurnOK(u)
    BY <2>2 DEF TurnOK, SameKeys
  <2>4. PICK d \in t.last.shortcut : IsKeyMatch(d, event)
    BY <1>9 DEF Waits
  <2>5. \A b \in u.last.shortcut : b = d
    BY <1>5, <2>2, OneWaits
  <2>6. d.trigger = "down" /\ d \in Shortcuts
    BY <1>5, <2>4 DEF LastOK
  <2>7. QED
    BY <1>1, <1>8, <2>2, <2>3, <2>4, <2>5, <2>6, DropsNone
<1>10. CASE ~Waits(t.last, event) /\ matching = {}
  BY <1>1, <1>4, <1>6, <1>7, <1>10
<1>11. CASE ~Waits(t.last, event) /\ matching # {} /\ c.trigger = "down"
  <2>1. c \in Shortcuts /\ IsKeyMatch(c, event) /\ u = HandleKeyDown(idle, c)
    BY <1>2, <1>3, <1>4, <1>11
  <2>2. /\ TurnOK(u) /\ SameKeys(idle, u) /\ u.last.shortcut \subseteq {c}
        /\ Drops(idle.table, u.table, {})
    BY <1>6, <1>11, <2>1, KeyDownWaits
  <2>3. Drops(t.table, u.table, {})
    BY <1>6, <2>2, DropsOn
  <2>4. SameKeys(t, u)
    BY <1>6, <2>2 DEF SameKeys
  <2>5. QED
    BY <1>1, <1>8, <1>11, <2>1, <2>2, <2>3, <2>4
<1>12. CASE ~Waits(t.last, event) /\ matching # {} /\ c.trigger # "down"
  <2>1. c \in Shortcuts /\ IsKeyMatch(c, event) /\ u = HandleKeyUp(idle, c, quick)
    BY <1>2, <1>3, <1>4, <1>12
  <2>2. c.lasting \in BOOLEAN
    BY <2>1, KeyCommandAssumption DEF Shortcut
  <2>3. u = [idle EXCEPT !.handled = (c.lasting => quick)]
    BY <2>1 DEF HandleKeyUp
  <2>4. idle \in TurnType
    BY <1>6, TurnFields
  <2>5. PICK b \in BOOLEAN : b = (c.lasting => quick)
    BY <2>2
  <2>6. u = [idle EXCEPT !.handled = b]
    BY <2>3, <2>5
  <2>7. u \in TurnType /\ SameKeys(idle, u) /\ u.last = idle.last /\ u.table = idle.table
    BY <2>4, <2>6 DEF TurnType, SameKeys
  <2>8. TurnOK(u)
    BY <1>6, <2>7 DEF TurnOK, SameKeys
  <2>9. SameKeys(t, u)
    BY <1>6, <2>7 DEF SameKeys
  <2>10. QED
    BY <1>1, <1>6, <1>7, <1>8, <2>1, <2>7, <2>8, <2>9
<1>13. QED
  BY <1>9, <1>10, <1>11, <1>12

-----------------------------------------------------------------------------
(* The keys of sequences *)

NoneTimed(list) == \A k \in DOMAIN list : list[k].timerId = NoTimer

(* The members that the keys of sequences leave alone. *)
SameOthers(t, u) ==
  /\ u.last = t.last /\ u.special = t.special /\ u.held = t.held /\ u.handled = t.handled
  /\ u.tempSeqs = t.tempSeqs /\ u.launched = t.launched /\ u.gone = t.gone

LEMMA EmptyList ==
  ASSUME NEW table, NEW ks
  PROVE  ListOK(<<>>, table) /\ ListCurrent(<<>>, ks) /\ NoneTimed(<<>>)
BY DEF ListOK, ListCurrent, NoneTimed

LEMMA ListAppend ==
  ASSUME NEW table, NEW list \in Seq(Entries), ListOK(list, table), NEW e \in Entries,
         e.timerId # NoTimer => SequenceRow(e) \in Rows(table)
  PROVE  ListOK(Append(list, e), table)
<1>1. PICK l : l = Append(list, e)
  OBVIOUS
<1>2. /\ \A k \in DOMAIN list : l[k] = list[k]
      /\ l[Len(list) + 1] = e
      /\ \A k \in DOMAIN l : k \in DOMAIN list \/ k = Len(list) + 1
  BY <1>1, AppendFacts
<1>3. ASSUME NEW k \in DOMAIN l, l[k].timerId # NoTimer PROVE SequenceRow(l[k]) \in Rows(table)
  <2>1. CASE k \in DOMAIN list
    BY <1>2, <1>3, <2>1 DEF ListOK
  <2>2. CASE k = Len(list) + 1
    BY <1>2, <1>3, <2>2
  <2>3. QED
    BY <1>2, <2>1, <2>2
<1>4. QED
  BY <1>1, <1>3 DEF ListOK

LEMMA ResetKeeps ==
  ASSUME NEW t, TurnOK(t)
  PROVE  LET u == ResetSequenceKeys(t) IN
         /\ TurnOK(u) /\ SameOthers(t, u) /\ u.table = t.table
         /\ u.keys = <<>> /\ u.filter = <<>> /\ u.erased = FALSE
<1>1. PICK u : u = ResetSequenceKeys(t)
  OBVIOUS
<1>2. u = [t EXCEPT !.keys = <<>>, !.filter = <<>>, !.erased = FALSE]
  BY <1>1 DEF ResetSequenceKeys
<1>3. t \in TurnType /\ <<>> \in Seq(Struck) /\ <<>> \in Seq(Entries) /\ FALSE \in BOOLEAN
  BY TurnFields
<1>4. /\ u \in TurnType /\ SameOthers(t, u) /\ u.table = t.table
      /\ u.keys = <<>> /\ u.filter = <<>> /\ u.erased = FALSE
  BY <1>2, <1>3 DEF TurnType, SameOthers
<1>5. Len(u.keys) <= MaxSequenceKeys + 1
  <2>1. Len(<<>>) = 0 /\ MaxSequenceKeys \in Nat
    BY KeyCommandAssumption
  <2>2. QED
    BY <1>4, <2>1
<1>6. ListOK(u.filter, u.table)
  BY <1>4, EmptyList
<1>7. TurnOK(u)
  BY <1>4, <1>5, <1>6 DEF TurnOK, SameOthers
<1>8. QED
  BY <1>1, <1>4, <1>7

LEMMA InterruptKeeps ==
  ASSUME NEW t, TurnOK(t), t.tempSeqs = <<>>
  PROVE  LET u == InterruptTimers(t) IN
         /\ TurnOK(u) /\ SameOthers(t, u) /\ u.keys = t.keys /\ u.erased = t.erased
         /\ NoneTimed(u.filter) /\ Drops(t.table, u.table, {})
<1>1. PICK u, ids : /\ u = InterruptTimers(t)
                    /\ ids = {entry.timerId : entry \in ToSet(t.filter)}
  OBVIOUS
<1>2. PICK r, list : /\ r = Without(t.table, ids)
                     /\ list = [k \in DOMAIN t.filter |-> [t.filter[k] EXCEPT !.timerId = NoTimer]]
  OBVIOUS
<1>3. /\ t \in TurnType /\ TableOK(t.table) /\ LastOK(t.last, t.table) /\ ListOK(t.filter, t.table)
      /\ t.filter \in Seq(Entries) /\ HeldOK(t.held, t.table) /\ Len(t.keys) <= MaxSequenceKeys + 1
  BY TurnFields
<1>4. /\ TableOK(r)
      /\ \A x : x \in Rows(r) <=> x \in Rows(t.table) /\ x.id \notin ids
      /\ \A x, y : Before(r, x, y) <=> Before(t.table, x, y) /\ x \in Rows(r) /\ y \in Rows(r)
  BY <1>2, <1>3, TableWithout
<1>5. ASSUME NEW x \in Rows(t.table), x.owner.kind # "sequence" PROVE x \in Rows(r)
  <2>1. SUFFICES ASSUME x.id \in ids PROVE FALSE
    BY <1>4
  <2>2. PICK k \in DOMAIN t.filter : x.id = t.filter[k].timerId
    BY <1>1, <2>1 DEF ToSet
  <2>3. x.id # NoTimer /\ \A y \in Rows(t.table) : y.id = x.id => y = x
    BY <1>3, RowFacts, NoTimerIsNone
  <2>4. SequenceRow(t.filter[k]) \in Rows(t.table)
    BY <1>3, <2>2, <2>3 DEF ListOK
  <2>5. SequenceRow(t.filter[k]).id = x.id /\ SequenceRow(t.filter[k]).owner.kind = "sequence"
    BY <2>2 DEF SequenceRow, SequenceTimer
  <2>6. QED
    BY <1>5, <2>3, <2>4, <2>5
<1>6. Drops(t.table, r, {})
  <2>1. \A x : Special(x) => (x \in Rows(r) <=> x \in Rows(t.table))
    BY <1>4, <1>5 DEF Special
  <2>2. QED
    BY <1>4, <2>1 DEF Drops
<1>7. list \in Seq(Entries) /\ NoneTimed(list)
  <2>1. PICK n \in Nat : n = Len(t.filter) /\ DOMAIN t.filter = 1..n /\ \A k \in 1..n : t.filter[k] \in Entries
    BY <1>3, SeqFacts
  <2>2. \A k \in 1..n : list[k] = [t.filter[k] EXCEPT !.timerId = NoTimer]
    BY <1>2, <2>1
  <2>3. \A k \in 1..n : list[k] \in Entries /\ list[k].timerId = NoTimer
    BY <2>1, <2>2 DEF Entries
  <2>4. list = [k \in 1..n |-> list[k]]
    BY <1>2, <2>1
  <2>5. list \in Seq(Entries)
    BY <2>3, <2>4
  <2>6. DOMAIN list = 1..n
    BY <2>4
  <2>7. QED
    BY <2>3, <2>5, <2>6 DEF NoneTimed
<1>8. /\ u \in TurnType /\ SameOthers(t, u) /\ u.keys = t.keys /\ u.erased = t.erased
      /\ u.filter = list /\ u.table = r
  <2>1. u = [t EXCEPT !.table = r, !.filter = list]
    BY <1>1, <1>2 DEF InterruptTimers
  <2>2. r \in Seq(Timer)
    BY <1>4 DEF TableOK
  <2>3. QED
    BY <1>3, <1>7, <2>1, <2>2 DEF TurnType, SameOthers
<1>9. LastOK(t.last, r)
  <2>1. ASSUME NEW c \in t.last.shortcut
        PROVE  c.trigger = "down" /\ [id |-> t.last.timerId, owner |-> ShortcutTimer(c)] \in Rows(r)
    <3>1. PICK x : x = [id |-> t.last.timerId, owner |-> ShortcutTimer(c)]
      OBVIOUS
    <3>2. c.trigger = "down" /\ x \in Rows(t.table)
      BY <1>3, <3>1 DEF LastOK
    <3>3. x.owner.kind = "shortcut"
      BY <3>1 DEF ShortcutTimer
    <3>4. QED
      BY <1>5, <3>1, <3>2, <3>3
  <2>2. QED
    BY <1>3, <1>4, <2>1 DEF LastOK
<1>10. ListOK(list, r) /\ ListOK(<<>>, r)
  BY <1>7, EmptyList DEF ListOK, NoneTimed
<1>11. HeldOK(t.held, r)
  BY <1>3, <1>4, <1>6, HeldStays
<1>12. TurnOK(u)
  BY <1>3, <1>4, <1>8, <1>9, <1>10, <1>11 DEF TurnOK, SameOthers
<1>13. QED
  BY <1>1, <1>6, <1>7, <1>8, <1>12

(* Two lists of keys that differ at most in the time between them. *)
SameStrokes(ks, ms) ==
  Len(ms) = Len(ks) /\ \A i \in DOMAIN ks : ms[i].key = ks[i].key /\ ms[i].action = ks[i].action

(* An event tells whether its key is down, and nothing of the others. *)
Honest(event, down, odd) ==
  \/ event.key \in odd
  \/ event.action = "down" /\ event.key \in down
  \/ event.action = "up" /\ event.key \notin down
SameBut(key, d0, d1) == \A k : k # key => (k \in d0 <=> k \in d1)

LEMMA StrokesTell ==
  ASSUME NEW ks \in Seq(Struck), NEW ms \in Seq(Struck), SameStrokes(ks, ms),
         NEW down, NEW odd, KeysTell(ks, down, odd)
  PROVE  KeysTell(ms, down, odd)
<1>1. PICK n \in Nat : n = Len(ks) /\ n = Len(ms) /\ DOMAIN ks = 1..n /\ DOMAIN ms = 1..n
  BY SeqFacts DEF SameStrokes
<1>2. \A i \in 1..n : ms[i].key = ks[i].key /\ ms[i].action = ks[i].action
  BY <1>1 DEF SameStrokes
<1>3. ASSUME NEW i \in 1..n, IsLast(ms, i) PROVE IsLast(ks, i)
  <2>1. ASSUME NEW j \in (i + 1)..n PROVE ks[j].key # ks[i].key
    <3>1. j \in 1..n
      OBVIOUS
    <3>2. ms[j].key # ms[i].key
      BY <1>1, <1>3 DEF IsLast
    <3>3. QED
      BY <1>2, <3>1, <3>2
  <2>2. QED
    BY <1>1, <2>1 DEF IsLast
<1>4. QED
  BY <1>1, <1>2, <1>3 DEF KeysTell

LEMMA AppendedTells ==
  ASSUME NEW ks \in Seq(Struck), NEW d0, NEW o0, KeysTell(ks, d0, o0),
         NEW e \in Struck, NEW event, e.key = event.key, e.action = event.action,
         NEW d1, NEW o1, Honest(event, d1, o1), SameBut(event.key, d0, d1), o0 \subseteq o1
  PROVE  KeysTell(Append(ks, e), d1, o1)
<1>1. PICK n \in Nat : n = Len(ks) /\ DOMAIN ks = 1..n
  BY SeqFacts
<1>2. PICK ms : ms = Append(ks, e)
  OBVIOUS
<1>3. /\ Len(ms) = n + 1 /\ DOMAIN ms = 1..n + 1
      /\ \A i \in 1..n : ms[i] = ks[i]
      /\ ms[n + 1] = e
  BY <1>1, <1>2, AppendFacts
<1>4. SUFFICES ASSUME Len(ms) <= MaxSequenceKeys, Sequences # <<>>,
                      NEW i \in 1..n + 1, IsLast(ms, i), ms[i].key \notin o1
               PROVE  \/ ms[i].action = "down" /\ ms[i].key \in d1
                      \/ ms[i].action = "up" /\ ms[i].key \notin d1
  BY <1>2, <1>3 DEF KeysTell
<1>5. CASE i = n + 1
  BY <1>3, <1>4, <1>5 DEF Honest
<1>6. CASE i # n + 1
  <2>1. i \in 1..n /\ n + 1 \in (i + 1)..(n + 1) /\ ms[i] = ks[i]
    BY <1>3, <1>6
  <2>2. ks[i].key # event.key
    BY <1>3, <1>4, <2>1 DEF IsLast
  <2>3. IsLast(ks, i)
    <3>1. ASSUME NEW j \in (i + 1)..n PROVE ks[j].key # ks[i].key
      <4>1. j \in 1..n /\ j \in (i + 1)..(n + 1)
        BY <2>1
      <4>2. ms[j].key # ms[i].key
        BY <1>3, <1>4, <4>1 DEF IsLast
      <4>3. QED
        BY <1>3, <2>1, <4>1, <4>2
    <3>2. QED
      BY <1>1, <3>1 DEF IsLast
  <2>4. n <= MaxSequenceKeys
    BY <1>3, <1>4, KeyCommandAssumption
  <2>5. \/ ks[i].action = "down" /\ ks[i].key \in d0
        \/ ks[i].action = "up" /\ ks[i].key \notin d0
    BY <1>1, <1>4, <2>1, <2>3, <2>4 DEF KeysTell
  <2>6. QED
    BY <2>1, <2>2, <2>5 DEF SameBut
<1>7. QED
  BY <1>5, <1>6

LEMMA RepeatTells ==
  ASSUME NEW ks \in Seq(Struck), NEW d0, NEW o0, KeysTell(ks, d0, o0),
         NEW event, IsRepeatKeyEvent(ks, event),
         NEW d1, NEW o1, Honest(event, d1, o1), SameBut(event.key, d0, d1), o0 \subseteq o1
  PROVE  KeysTell(ks, d1, o1)
<1>1. PICK n \in Nat : n = Len(ks) /\ DOMAIN ks = 1..n
  BY SeqFacts
<1>2. PICK r \in 1..n : /\ ks[r].key = event.key /\ ks[r].action = event.action
                        /\ \A j \in (r + 1)..n : ks[j].key # event.key
  BY <1>1 DEF IsRepeatKeyEvent
<1>3. SUFFICES ASSUME n <= MaxSequenceKeys, Sequences # <<>>,
                      NEW i \in 1..n, IsLast(ks, i), ks[i].key \notin o1
               PROVE  \/ ks[i].action = "down" /\ ks[i].key \in d1
                      \/ ks[i].action = "up" /\ ks[i].key \notin d1
  BY <1>1 DEF KeysTell
<1>4. CASE ks[i].key = event.key
  <2>1. i = r
    <3>1. ~(r < i)
      <4>1. ASSUME r < i PROVE FALSE
        <5>1. i \in (r + 1)..n
          BY <4>1
        <5>2. QED
          BY <1>2, <1>4, <5>1
      <4>2. QED
        BY <4>1
    <3>2. ~(i < r)
      <4>1. ASSUME i < r PROVE FALSE
        <5>1. r \in (i + 1)..n
          BY <4>1
        <5>2. QED
          BY <1>1, <1>2, <1>3, <1>4, <5>1 DEF IsLast
      <4>2. QED
        BY <4>1
    <3>3. QED
      BY <3>1, <3>2
  <2>2. QED
    BY <1>2, <1>3, <2>1 DEF Honest
<1>5. CASE ks[i].key # event.key
  <2>1. ks[i].key \notin o0
    BY <1>3
  <2>2. \/ ks[i].action = "down" /\ ks[i].key \in d0
        \/ ks[i].action = "up" /\ ks[i].key \notin d0
    BY <1>1, <1>3, <2>1 DEF KeysTell
  <2>3. QED
    BY <1>5, <2>2 DEF SameBut
<1>6. QED
  BY <1>4, <1>5

LEMMA NoKeysTell ==
  ASSUME NEW down, NEW odd
  PROVE  KeysTell(<<>>, down, odd)
BY DEF KeysTell

GapKinds == {"back", "long", "slow", "quick"}

(* The turn with which AddSequenceKey has made room for a key. *)
BeforeAdding(s, event, gap) ==
  LET size == Len(s.keys)
  IN  IF size = 0 THEN s
      ELSE IF gap \in {"back", "long"} THEN ResetSequenceKeys(s)
      ELSE IF IsRepeatKeyEvent(s.keys, event) THEN s
      ELSE InterruptTimers([s EXCEPT !.keys[size].gap = gap])

LEMMA RoomForKey ==
  ASSUME NEW s, TurnOK(s), s.tempSeqs = <<>>, NEW event \in Event, NEW gap \in GapKinds,
         Sequences # <<>>, ~s.erased => ListCurrent(s.filter, s.keys),
         NEW d0, NEW o0, KeysTell(s.keys, d0, o0),
         NEW d1, NEW o1, Honest(event, d1, o1), SameBut(event.key, d0, d1), o0 \subseteq o1
  PROVE  LET b == BeforeAdding(s, event, gap) IN
         /\ TurnOK(b) /\ SameOthers(s, b) /\ Drops(s.table, b.table, {})
         /\ KeysTell(b.keys, d0, o0) /\ Len(b.keys) <= Len(s.keys)
         /\ AddsKey(s, event, gap) /\ ~b.erased => NoneTimed(b.filter)
         /\ ~AddsKey(s, event, gap) =>
              KeysTell(b.keys, d1, o1) /\ (~b.erased => ListCurrent(b.filter, b.keys))
<1>1. PICK b, size : b = BeforeAdding(s, event, gap) /\ size = Len(s.keys)
  OBVIOUS
<1>2. s \in TurnType /\ s.keys \in Seq(Struck) /\ Len(s.keys) <= MaxSequenceKeys + 1
  BY TurnFields
<1>3. size \in Nat /\ DOMAIN s.keys = 1..size /\ (s.keys = <<>> <=> size = 0)
  BY <1>1, <1>2, SeqFacts
<1>4. MaxSequenceKeys \in Nat
  BY KeyCommandAssumption
<1>5. CASE size = 0
  <2>1. b = s /\ AddsKey(s, event, gap)
    BY <1>1, <1>3, <1>4, <1>5 DEF BeforeAdding, AddsKey
  <2>2. ~s.erased => NoneTimed(s.filter)
    BY <1>3, <1>5 DEF ListCurrent, Complete, NoneTimed
  <2>3. SameOthers(s, s) /\ Drops(s.table, s.table, {})
    BY DropsNone DEF SameOthers
  <2>4. QED
    BY <1>1, <1>3, <2>1, <2>2, <2>3
<1>6. CASE size # 0 /\ gap \in {"back", "long"}
  <2>1. b = ResetSequenceKeys(s)
    BY <1>1, <1>6 DEF BeforeAdding
  <2>2. /\ TurnOK(b) /\ SameOthers(s, b) /\ b.table = s.table
        /\ b.keys = <<>> /\ b.filter = <<>> /\ b.erased = FALSE
    BY <2>1, ResetKeeps
  <2>3. Len(b.keys) <= Len(s.keys)
    BY <1>1, <1>3, <2>2
  <2>4. QED
    BY <1>1, <2>2, <2>3, DropsNone, EmptyList, NoKeysTell
<1>7. CASE size # 0 /\ gap \notin {"back", "long"} /\ IsRepeatKeyEvent(s.keys, event)
  <2>1. b = s /\ ~AddsKey(s, event, gap)
    BY <1>1, <1>3, <1>7 DEF BeforeAdding, AddsKey
  <2>2. KeysTell(s.keys, d1, o1)
    BY <1>2, <1>7, RepeatTells
  <2>3. SameOthers(s, s) /\ Drops(s.table, s.table, {})
    BY DropsNone DEF SameOthers
  <2>4. QED
    BY <1>1, <1>3, <2>1, <2>2, <2>3
<1>8. CASE size # 0 /\ gap \notin {"back", "long"} /\ ~IsRepeatKeyEvent(s.keys, event)
  <2>1. PICK ks, t : ks = [s.keys EXCEPT ![size].gap = gap] /\ t = [s EXCEPT !.keys = ks]
    OBVIOUS
  <2>2. b = InterruptTimers(t)
    BY <1>1, <1>8, <2>1 DEF BeforeAdding
  <2>3. size \in 1..size /\ s.keys[size] \in Struck /\ gap \in {"slow", "quick"}
    BY <1>2, <1>3, <1>8, SeqFacts DEF GapKinds
  <2>4. PICK e : e = [s.keys[size] EXCEPT !.gap = gap]
    OBVIOUS
  <2>5. e \in Struck /\ e.key = s.keys[size].key /\ e.action = s.keys[size].action
    BY <2>3, <2>4 DEF Struck
  <2>6. ks = [s.keys EXCEPT ![size] = e]
    BY <2>1, <2>4
  <2>7. /\ ks \in Seq(Struck) /\ Len(ks) = size
        /\ \A i \in 1..size : ks[i] = IF i = size THEN e ELSE s.keys[i]
    BY <1>1, <1>2, <1>3, <2>3, <2>5, <2>6, ExceptSeq
  <2>8. SameStrokes(s.keys, ks)
    BY <1>1, <1>3, <2>5, <2>7 DEF SameStrokes
  <2>9. /\ t \in TurnType /\ t.keys = ks /\ SameOthers(s, t) /\ t.filter = s.filter
        /\ t.table = s.table /\ t.erased = s.erased
    BY <1>2, <2>1, <2>7 DEF TurnType, SameOthers
  <2>10. TurnOK(t) /\ t.tempSeqs = <<>>
    BY <1>1, <1>2, <2>7, <2>9 DEF TurnOK, SameOthers
  <2>11. /\ TurnOK(b) /\ SameOthers(t, b) /\ b.keys = t.keys /\ b.erased = t.erased
         /\ NoneTimed(b.filter) /\ Drops(t.table, b.table, {})
    BY <2>2, <2>10, InterruptKeeps
  <2>12. KeysTell(b.keys, d0, o0)
    BY <1>2, <2>7, <2>8, <2>9, <2>11, StrokesTell
  <2>13. Len(b.keys) = Len(s.keys)
    BY <1>1, <2>7, <2>9, <2>11
  <2>14. ASSUME ~AddsKey(s, event, gap) PROVE KeysTell(b.keys, d1, o1) /\ ListCurrent(b.filter, b.keys)
    <3>1. ~(Len(s.keys) <= MaxSequenceKeys)
      BY <1>8, <2>14 DEF AddsKey, GapKinds
    <3>2. KeysTell(b.keys, d1, o1)
      BY <2>13, <3>1 DEF KeysTell
    <3>3. QED
      BY <2>11, <3>2 DEF NoneTimed, ListCurrent
  <2>15. SameOthers(s, b) /\ Drops(s.table, b.table, {})
    BY <2>9, <2>11 DEF SameOthers
  <2>16. QED
    BY <1>1, <1>3, <2>11, <2>12, <2>13, <2>14, <2>15
<1>9. QED
  BY <1>5, <1>6, <1>7, <1>8

LEMMA KeyIsAdded ==
  ASSUME NEW s, TurnOK(s), s.tempSeqs = <<>>, NEW event \in Event, NEW gap \in GapKinds,
         Sequences # <<>>, ~s.erased => ListCurrent(s.filter, s.keys),
         NEW d0, NEW o0, KeysTell(s.keys, d0, o0),
         NEW d1, NEW o1, Honest(event, d1, o1), SameBut(event.key, d0, d1), o0 \subseteq o1
  PROVE  LET a == AddSequenceKey(s, event, gap) IN
         /\ TurnOK(a) /\ SameOthers(s, a) /\ Drops(s.table, a.table, {})
         /\ KeysTell(a.keys, d1, o1)
         /\ AddsKey(s, event, gap) =>
              /\ ~a.erased => NoneTimed(a.filter)
              /\ Len(a.keys) # 0
              /\ a.keys[Len(a.keys)].key = event.key /\ a.keys[Len(a.keys)].action = event.action
         /\ ~AddsKey(s, event, gap) => (~a.erased => ListCurrent(a.filter, a.keys))
<1>1. PICK a, b, e : /\ a = AddSequenceKey(s, event, gap) /\ b = BeforeAdding(s, event, gap)
                     /\ e = [key |-> event.key, action |-> event.action, gap |-> "quick"]
  OBVIOUS
<1>2. a = IF AddsKey(s, event, gap) THEN [b EXCEPT !.keys = Append(@, e)] ELSE b
  BY <1>1 DEF AddSequenceKey, BeforeAdding
<1>3. /\ TurnOK(b) /\ SameOthers(s, b) /\ Drops(s.table, b.table, {})
      /\ KeysTell(b.keys, d0, o0) /\ Len(b.keys) <= Len(s.keys)
      /\ AddsKey(s, event, gap) /\ ~b.erased => NoneTimed(b.filter)
      /\ ~AddsKey(s, event, gap) =>
           KeysTell(b.keys, d1, o1) /\ (~b.erased => ListCurrent(b.filter, b.keys))
  BY <1>1, RoomForKey
<1>4. CASE ~AddsKey(s, event, gap)
  BY <1>1, <1>2, <1>3, <1>4
<1>5. CASE AddsKey(s, event, gap)
  <2>1. e \in Struck /\ e.key = event.key /\ e.action = event.action
    BY <1>1 DEF Struck, Event
  <2>2. /\ b \in TurnType /\ b.keys \in Seq(Struck) /\ Len(b.keys) \in Nat /\ MaxSequenceKeys \in Nat
        /\ s.keys \in Seq(Struck) /\ Len(s.keys) \in Nat
    BY <1>3, TurnFields, SeqFacts, KeyCommandAssumption
  <2>3. PICK ks : ks = Append(b.keys, e)
    OBVIOUS
  <2>4. ks \in Seq(Struck) /\ Len(ks) = Len(b.keys) + 1 /\ ks[Len(b.keys) + 1] = e
    BY <2>1, <2>2, <2>3, AppendFacts
  <2>5. a = [b EXCEPT !.keys = ks]
    BY <1>2, <1>5, <2>3
  <2>6. /\ a \in TurnType /\ a.keys = ks /\ SameOthers(b, a) /\ a.filter = b.filter
        /\ a.table = b.table /\ a.erased = b.erased
    BY <2>2, <2>4, <2>5 DEF TurnType, SameOthers
  <2>7. Len(ks) <= MaxSequenceKeys + 1
    BY <1>3, <1>5, <2>2, <2>4 DEF AddsKey
  <2>8. TurnOK(a)
    BY <1>3, <2>6, <2>7 DEF TurnOK, SameOthers
  <2>9. KeysTell(ks, d1, o1)
    BY <1>3, <2>1, <2>2, <2>3, AppendedTells
  <2>10. SameOthers(s, a) /\ Drops(s.table, a.table, {})
    BY <1>3, <2>6 DEF SameOthers
  <2>11. Len(a.keys) # 0 /\ a.keys[Len(a.keys)] = e
    BY <2>2, <2>4, <2>6
  <2>12. QED
    BY <1>1, <1>3, <1>5, <2>1, <2>6, <2>8, <2>9, <2>10, <2>11
<1>6. QED
  BY <1>4, <1>5

-----------------------------------------------------------------------------
(* The loop over the sequences *)

LEMMA SequenceFacts ==
  ASSUME NEW q \in DOMAIN Sequences
  PROVE  /\ Sequences[q].keys \in Seq(SequenceKey) /\ Sequences[q].delayed \in BOOLEAN
         /\ Len(Sequences[q].keys) \in 1..MaxSequenceKeys
         /\ Last(Sequences[q].keys) = Sequences[q].keys[Len(Sequences[q].keys)]
<1>1. Sequences[q] \in Sequence
  <2>1. Sequences \in Seq(Sequence)
    BY KeyCommandAssumption
  <2>2. QED
    BY <2>1, SeqFacts
<1>2. IsSequenceKeysValid(Sequences[q].keys)
  BY KeyCommandAssumption
<1>3. QED
  BY <1>1, <1>2 DEF Sequence, IsSequenceKeysValid, Last

LEMMA EntryKeys ==
  ASSUME NEW entry \in Entries
  PROVE  /\ entry.seq \in DOMAIN Sequences
         /\ SequenceKeys(entry) = <<>> \/ SequenceKeys(entry) = Sequences[entry.seq].keys
         /\ Len(SequenceKeys(entry)) \in Nat /\ Len(SequenceKeys(entry)) <= MaxSequenceKeys
<1>1. entry.seq \in DOMAIN Sequences
  BY DEF Entries
<1>2. Len(Sequences[entry.seq].keys) \in 1..MaxSequenceKeys /\ MaxSequenceKeys \in Nat
  BY <1>1, SequenceFacts, KeyCommandAssumption
<1>3. Len(<<>>) = 0
  OBVIOUS
<1>4. QED
  BY <1>1, <1>2, <1>3 DEF SequenceKeys

(* A sequence that waits has a timer of its own. *)
LEMMA SequenceWaits ==
  ASSUME NEW t, TurnOK(t), NEW q \in DOMAIN Sequences, NewTimerId(t.table) # NoTimer
  PROVE  LET id == NewTimerId(t.table)
             x == [id |-> id, owner |-> SequenceTimer(q)]
             r == Append(t.table, x)
         IN  /\ id \in TimerId /\ TableOK(r) /\ LastOK(t.last, r) /\ HeldOK(t.held, r)
             /\ ListOK(t.filter, r) /\ ListOK(t.tempSeqs, r)
             /\ x \in Rows(r) /\ Rows(t.table) \subseteq Rows(r) /\ Drops(t.table, r, {})
<1>1. PICK id, x, r : /\ id = NewTimerId(t.table) /\ x = [id |-> id, owner |-> SequenceTimer(q)]
                      /\ r = Append(t.table, x)
  OBVIOUS
<1>2. /\ TableOK(t.table) /\ LastOK(t.last, t.table) /\ HeldOK(t.held, t.table)
      /\ ListOK(t.filter, t.table) /\ ListOK(t.tempSeqs, t.table)
  BY TurnFields
<1>3. id \in TimerId /\ \A y \in Rows(t.table) : y.id # id
  BY <1>1, FreshTimerId
<1>4. x \in Timer /\ x.id = id /\ x.owner.kind = "sequence"
  BY <1>1, <1>3, SequenceRowIs
<1>5. /\ TableOK(r)
      /\ \A y : y \in Rows(r) <=> y \in Rows(t.table) \/ y = x
      /\ \A y, z : Before(r, y, z) <=> Before(t.table, y, z) \/ (y \in Rows(t.table) /\ z = x)
  BY <1>1, <1>2, <1>3, <1>4, TableAppend
<1>6. Drops(t.table, r, {})
  BY <1>4, <1>5 DEF Drops, Special
<1>7. HeldOK(t.held, r)
  BY <1>2, <1>5, <1>6, HeldStays
<1>8. ListOK(t.filter, r) /\ ListOK(t.tempSeqs, r)
  BY <1>2, <1>5, ListStays
<1>9. LastOK(t.last, r)
  BY <1>2, <1>4, <1>5 DEF LastOK
<1>10. QED
  BY <1>1, <1>3, <1>5, <1>6, <1>7, <1>8, <1>9

EndsImmediate(event) ==
  \E q \in DOMAIN Sequences :
    LET last == Last(Sequences[q].keys)
    IN  ~Sequences[q].delayed /\ last.key = event.key /\ last.action = event.action

Strikes(ks, event) ==
  Len(ks) # 0 /\ ks[Len(ks)].key = event.key /\ ks[Len(ks)].action = event.action

(* A turn t in a loop over n entries that turn a has begun. *)
PassOK(t, a, n, event) ==
  /\ TurnOK(t)
  /\ t.last = a.last /\ t.special = a.special /\ t.held = a.held /\ t.handled = a.handled
  /\ Rows(a.table) \subseteq Rows(t.table) /\ Drops(a.table, t.table, {})
  /\ t.gone => t.keys = <<>> /\ t.launched /\ EndsImmediate(event)
  /\ ~t.gone => /\ t.keys = a.keys /\ t.erased = a.erased /\ Len(t.filter) = n
                /\ t.launched => Len(a.keys) <= MaxSequenceKeys
  /\ ~t.gone /\ ~a.erased => NoneTimed(t.filter) /\ ListCurrent(t.tempSeqs, a.keys)

LEMMA CurrentAppend ==
  ASSUME NEW list \in Seq(Entries), NEW ks, ListCurrent(list, ks), NEW e \in Entries,
         e.timerId # NoTimer => Complete(e, ks)
  PROVE  ListCurrent(Append(list, e), ks)
<1>1. PICK l : l = Append(list, e)
  OBVIOUS
<1>2. /\ \A k \in DOMAIN list : l[k] = list[k]
      /\ l[Len(list) + 1] = e
      /\ \A k \in DOMAIN l : k \in DOMAIN list \/ k = Len(list) + 1
  BY <1>1, AppendFacts
<1>3. QED
  BY <1>1, <1>2 DEF ListCurrent

(* One step of the loop *)
LEMMA PassGoesOn ==
  ASSUME NEW a, NEW list \in Seq(Entries), NEW event \in Event,
         Strikes(a.keys, event), a.keys \in Seq(Struck),
         ListOK(list, a.table), ~a.erased => NoneTimed(list),
         NEW k \in DOMAIN list, NEW lost \in BOOLEAN, NEW t, PassOK(t, a, Len(list), event)
  PROVE  PassOK(HandleSequence(t, list, k, lost), a, Len(list), event)
<1>1. PICK u, id, entry :
        /\ u = HandleSequence(t, list, k, lost) /\ id = NewTimerId(t.table)
        /\ entry = IF t.gone /\ lost THEN [list[k] EXCEPT !.intact = FALSE] ELSE list[k]
  OBVIOUS
<1>2. PICK ks : ks = SequenceKeys(entry)
  OBVIOUS
<1>3. u = IF ~MatchesSequence(t.keys, ks) THEN t
          ELSE IF Len(t.keys) < Len(ks) THEN [t EXCEPT !.tempSeqs = Append(@, entry)]
          ELSE IF ~Sequences[entry.seq].delayed
            THEN [ResetSequenceKeys(t) EXCEPT
                    !.gone = TRUE, !.launched = TRUE,
                    !.tempSeqs = Append(@, [entry EXCEPT !.intact = @ /\ ~lost])]
          ELSE IF id # NoTimer
            THEN [t EXCEPT !.table = Append(@, [id |-> id, owner |-> SequenceTimer(entry.seq)]),
                           !.tempSeqs = Append(@, [entry EXCEPT !.timerId = id]),
                           !.launched = TRUE]
          ELSE IF t.gone THEN t
          ELSE [t EXCEPT !.filter[k].timerId = NoTimer]
  BY <1>1, <1>2 DEF HandleSequence
<1>4. PassOK(t, a, Len(list), event)
  OBVIOUS
<1>5. TurnOK(t) /\ t \in TurnType /\ t.tempSeqs \in Seq(Entries) /\ t.filter \in Seq(Entries)
      /\ ListOK(t.tempSeqs, t.table) /\ ListOK(t.filter, t.table)
  BY <1>4, TurnFields DEF PassOK
<1>6. list[k] \in Entries
  BY SeqFacts
<1>7. /\ entry \in Entries /\ entry.timerId = list[k].timerId /\ entry.seq = list[k].seq
      /\ ~t.gone => entry = list[k]
  BY <1>1, <1>6 DEF Entries
<1>8. entry.timerId # NoTimer => SequenceRow(entry) \in Rows(t.table)
  <2>1. Rows(a.table) \subseteq Rows(t.table)
    BY <1>4 DEF PassOK
  <2>2. list[k].timerId # NoTimer => SequenceRow(list[k]) \in Rows(a.table)
    BY DEF ListOK
  <2>3. SequenceRow(entry) = SequenceRow(list[k])
    BY <1>7 DEF SequenceRow
  <2>4. QED
    BY <1>7, <2>1, <2>2, <2>3
<1>9. ~t.gone /\ ~a.erased => entry.timerId = NoTimer
  BY <1>7 DEF NoneTimed
<1>10. /\ entry.seq \in DOMAIN Sequences /\ Len(ks) \in Nat /\ Len(ks) <= MaxSequenceKeys
       /\ MaxSequenceKeys \in Nat /\ (ks = <<>> \/ ks = Sequences[entry.seq].keys)
  BY <1>2, <1>7, EntryKeys, KeyCommandAssumption
<1>11. CASE u = t
  BY <1>1, <1>4, <1>11
<1>12. CASE MatchesSequence(t.keys, ks) /\ Len(t.keys) < Len(ks)
  <2>1. PICK l : l = Append(t.tempSeqs, entry)
    OBVIOUS
  <2>2. l \in Seq(Entries) /\ ListOK(l, t.table)
    BY <1>5, <1>7, <1>8, <2>1, AppendFacts, ListAppend
  <2>3. u = [t EXCEPT !.tempSeqs = l]
    BY <1>3, <1>12, <2>1
  <2>4. /\ u \in TurnType /\ u.tempSeqs = l /\ u.last = t.last /\ u.keys = t.keys
        /\ u.filter = t.filter /\ u.special = t.special /\ u.held = t.held /\ u.table = t.table
        /\ u.erased = t.erased /\ u.handled = t.handled /\ u.launched = t.launched
        /\ u.gone = t.gone
    BY <1>5, <2>2, <2>3 DEF TurnType
  <2>5. TurnOK(u)
    BY <1>5, <2>2, <2>4 DEF TurnOK
  <2>6. ~t.gone /\ ~a.erased => ListCurrent(l, a.keys)
    BY <1>4, <1>5, <1>7, <1>9, <2>1, CurrentAppend DEF PassOK
  <2>7. QED
    BY <1>1, <1>4, <2>4, <2>5, <2>6 DEF PassOK
<1>13. CASE MatchesSequence(t.keys, ks) /\ ~(Len(t.keys) < Len(ks)) /\ ~Sequences[entry.seq].delayed
  <2>1. PICK s, e, l : /\ s = ResetSequenceKeys(t)
                       /\ e = [entry EXCEPT !.intact = @ /\ ~lost]
                       /\ l = Append(s.tempSeqs, e)
    OBVIOUS
  <2>2. /\ TurnOK(s) /\ SameOthers(t, s) /\ s.table = t.table
        /\ s.keys = <<>> /\ s.filter = <<>> /\ s.erased = FALSE
    BY <1>5, <2>1, ResetKeeps
  <2>3. e \in Entries /\ e.timerId = entry.timerId /\ SequenceRow(e) = SequenceRow(entry)
    <3>1. PICK b \in BOOLEAN : b = (entry.intact /\ ~lost)
      BY <1>7 DEF Entries
    <3>2. e = [entry EXCEPT !.intact = b]
      BY <2>1, <3>1
    <3>3. e \in Entries /\ e.timerId = entry.timerId /\ e.seq = entry.seq
      BY <1>7, <3>2 DEF Entries
    <3>4. QED
      BY <3>3 DEF SequenceRow
  <2>4. s \in TurnType /\ s.tempSeqs = t.tempSeqs
    BY <2>2, TurnFields DEF SameOthers
  <2>5. l \in Seq(Entries) /\ ListOK(l, t.table)
    BY <1>5, <1>8, <2>1, <2>3, <2>4, AppendFacts, ListAppend
  <2>6. u = [s EXCEPT !.gone = TRUE, !.launched = TRUE, !.tempSeqs = l]
    BY <1>3, <1>13, <2>1
  <2>7. /\ u \in TurnType /\ u.tempSeqs = l /\ u.last = s.last /\ u.keys = s.keys
        /\ u.filter = s.filter /\ u.special = s.special /\ u.held = s.held /\ u.table = s.table
        /\ u.erased = s.erased /\ u.handled = s.handled /\ u.launched = TRUE /\ u.gone = TRUE
    BY <2>4, <2>5, <2>6 DEF TurnType
  <2>8. TurnOK(u)
    BY <2>2, <2>5, <2>7 DEF TurnOK
  <2>9. EndsImmediate(event)
    <3>1. CASE t.gone
      BY <1>4, <3>1 DEF PassOK
    <3>2. CASE ~t.gone
      <4>1. t.keys = a.keys /\ Len(a.keys) \in Nat /\ Len(a.keys) # 0 /\ DOMAIN a.keys = 1..Len(a.keys)
        BY <1>4, <3>2, SeqFacts DEF PassOK, Strikes
      <4>2. Len(a.keys) <= Len(ks) /\ ~(Len(a.keys) < Len(ks))
        BY <1>13, <4>1 DEF MatchesSequence
      <4>3. Len(ks) = Len(a.keys) /\ Len(a.keys) \in DOMAIN a.keys
        BY <1>10, <4>1, <4>2
      <4>4. a.keys[Len(a.keys)].key = ks[Len(ks)].key /\ a.keys[Len(a.keys)].action = ks[Len(ks)].action
        BY <1>13, <4>1, <4>3 DEF MatchesSequence
      <4>5. ks = Sequences[entry.seq].keys
        <5>1. Len(<<>>) = 0
          OBVIOUS
        <5>2. QED
          BY <1>10, <4>1, <4>3, <5>1
      <4>6. Last(Sequences[entry.seq].keys) = ks[Len(ks)]
        BY <1>10, <4>5, SequenceFacts
      <4>7. QED
        BY <1>10, <1>13, <4>4, <4>6 DEF EndsImmediate, Strikes
    <3>3. QED
      BY <3>1, <3>2
  <2>10. QED
    BY <1>1, <1>4, <2>2, <2>7, <2>8, <2>9 DEF PassOK, SameOthers
<1>14. CASE /\ MatchesSequence(t.keys, ks) /\ ~(Len(t.keys) < Len(ks))
            /\ Sequences[entry.seq].delayed /\ id # NoTimer
  <2>1. PICK x, r, e, l : /\ x = [id |-> id, owner |-> SequenceTimer(entry.seq)]
                          /\ r = Append(t.table, x)
                          /\ e = [entry EXCEPT !.timerId = id]
                          /\ l = Append(t.tempSeqs, e)
    OBVIOUS
  <2>2. /\ id \in TimerId /\ TableOK(r) /\ LastOK(t.last, r) /\ HeldOK(t.held, r)
        /\ ListOK(t.filter, r) /\ ListOK(t.tempSeqs, r)
        /\ x \in Rows(r) /\ Rows(t.table) \subseteq Rows(r) /\ Drops(t.table, r, {})
    BY <1>1, <1>5, <1>10, <1>14, <2>1, SequenceWaits
  <2>3. e \in Entries /\ e.seq = entry.seq /\ e.timerId = id /\ e.intact = entry.intact
    BY <1>7, <2>1, <2>2 DEF Entries
  <2>4. SequenceRow(e) = x
    BY <2>1, <2>3 DEF SequenceRow
  <2>5. l \in Seq(Entries) /\ ListOK(l, r)
    BY <1>5, <2>1, <2>2, <2>3, <2>4, AppendFacts, ListAppend
  <2>6. u = [t EXCEPT !.table = r, !.tempSeqs = l, !.launched = TRUE]
    BY <1>3, <1>14, <2>1
  <2>7. /\ u \in TurnType /\ u.tempSeqs = l /\ u.last = t.last /\ u.keys = t.keys
        /\ u.filter = t.filter /\ u.special = t.special /\ u.held = t.held /\ u.table = r
        /\ u.erased = t.erased /\ u.handled = t.handled /\ u.launched = TRUE /\ u.gone = t.gone
    <3>1. r \in Seq(Timer)
      BY <2>2 DEF TableOK
    <3>2. QED
      BY <1>5, <2>5, <2>6, <3>1 DEF TurnType
  <2>8. TurnOK(u)
    BY <1>5, <2>2, <2>5, <2>7 DEF TurnOK
  <2>9. Drops(a.table, r, {}) /\ Rows(a.table) \subseteq Rows(r)
    BY <1>4, <2>2, DropsOn DEF PassOK
  <2>10. ASSUME ~t.gone PROVE Len(a.keys) <= MaxSequenceKeys /\ Complete(e, a.keys)
    <3>1. t.keys = a.keys /\ Len(a.keys) \in Nat /\ a.keys # <<>>
      <4>1. t.keys = a.keys
        BY <1>4, <2>10 DEF PassOK
      <4>2. QED
        BY <4>1, SeqFacts DEF Strikes
    <3>2. Len(a.keys) <= Len(ks) /\ ~(Len(a.keys) < Len(ks))
      BY <1>14, <3>1 DEF MatchesSequence
    <3>3. SequenceKeys(e) = ks
      BY <1>2, <2>3 DEF SequenceKeys
    <3>4. Len(a.keys) = Len(ks)
      BY <1>10, <3>1, <3>2
    <3>5. QED
      BY <1>10, <1>14, <3>1, <3>3, <3>4 DEF Complete
  <2>11. ~t.gone /\ ~a.erased => ListCurrent(l, a.keys)
    BY <1>4, <1>5, <2>1, <2>3, <2>10, CurrentAppend DEF PassOK
  <2>12. QED
    BY <1>1, <1>4, <2>7, <2>8, <2>9, <2>10, <2>11 DEF PassOK
<1>15. CASE ~t.gone /\ u = [t EXCEPT !.filter[k].timerId = NoTimer]
  <2>1. PICK f, e : f = [t.filter EXCEPT ![k].timerId = NoTimer] /\ e = [t.filter[k] EXCEPT !.timerId = NoTimer]
    OBVIOUS
  <2>2. Len(t.filter) = Len(list) /\ k \in 1..Len(t.filter) /\ DOMAIN t.filter = 1..Len(t.filter)
    BY <1>4, <1>5, <1>15, SeqFacts DEF PassOK
  <2>3. t.filter[k] \in Entries
    BY <1>5, <2>2, SeqFacts
  <2>4. e \in Entries /\ e.timerId = NoTimer
    BY <2>1, <2>3 DEF Entries
  <2>5. f = [t.filter EXCEPT ![k] = e]
    BY <2>1
  <2>6. /\ f \in Seq(Entries) /\ Len(f) = Len(t.filter) /\ DOMAIN f = DOMAIN t.filter
        /\ \A i \in DOMAIN f : f[i] = IF i = k THEN e ELSE t.filter[i]
    <3>1. f \in Seq(Entries) /\ Len(f) = Len(t.filter)
      BY <1>5, <2>2, <2>4, <2>5, ExceptSeq
    <3>2. QED
      BY <2>5, <3>1
  <2>7. ListOK(f, t.table)
    BY <1>5, <2>4, <2>6 DEF ListOK
  <2>8. u = [t EXCEPT !.filter = f]
    BY <1>15, <2>1
  <2>9. /\ u \in TurnType /\ u.tempSeqs = t.tempSeqs /\ u.last = t.last /\ u.keys = t.keys
        /\ u.filter = f /\ u.special = t.special /\ u.held = t.held /\ u.table = t.table
        /\ u.erased = t.erased /\ u.handled = t.handled /\ u.launched = t.launched
        /\ u.gone = t.gone
    BY <1>5, <2>6, <2>8 DEF TurnType
  <2>10. TurnOK(u)
    BY <1>5, <2>7, <2>9 DEF TurnOK
  <2>11. NoneTimed(t.filter) => NoneTimed(f)
    BY <2>4, <2>6 DEF NoneTimed
  <2>12. QED
    BY <1>1, <1>4, <1>15, <2>6, <2>9, <2>10, <2>11 DEF PassOK
<1>16. QED
  BY <1>3, <1>11, <1>12, <1>13, <1>14, <1>15

-----------------------------------------------------------------------------
(* The keys that a launch takes *)

RemovedIds(held, removed) == UNION {ToSet(held[key]) : key \in removed}

LEMMA RemoveKeeps ==
  ASSUME NEW t, TurnOK(t), NEW removed \in SUBSET VolumeKeys
  PROVE  LET u == RemoveSubscribedTimer(t, removed) IN
         /\ TurnOK(u) /\ Drops(t.table, u.table, removed)
         /\ u.last = t.last /\ u.keys = t.keys /\ u.filter = t.filter /\ u.special = t.special
         /\ u.erased = t.erased /\ u.handled = t.handled /\ u.tempSeqs = t.tempSeqs
         /\ u.launched = t.launched /\ u.gone = t.gone
<1>1. PICK u, r, h : /\ u = RemoveSubscribedTimer(t, removed)
                     /\ r = Without(t.table, RemovedIds(t.held, removed))
                     /\ h = [key \in VolumeKeys |-> IF key \in removed THEN <<>> ELSE t.held[key]]
  OBVIOUS
<1>2. /\ t \in TurnType /\ TableOK(t.table) /\ LastOK(t.last, t.table) /\ ListOK(t.filter, t.table)
      /\ ListOK(t.tempSeqs, t.table) /\ t.held \in [VolumeKeys -> Seq(TimerId)]
      /\ HeldOK(t.held, t.table) /\ Len(t.keys) <= MaxSequenceKeys + 1
  BY TurnFields
<1>3. /\ TableOK(r)
      /\ \A x : x \in Rows(r) <=> x \in Rows(t.table) /\ x.id \notin RemovedIds(t.held, removed)
      /\ \A x, y : Before(r, x, y) <=> Before(t.table, x, y) /\ x \in Rows(r) /\ y \in Rows(r)
  BY <1>1, <1>2, TableWithout
<1>4. ASSUME NEW x \in Rows(t.table)
      PROVE  x.id \in RemovedIds(t.held, removed) <=> \E key \in removed : IsOwn(x.owner, key)
  <2>1. ASSUME NEW key \in removed, IsOwn(x.owner, key) PROVE x.id \in RemovedIds(t.held, removed)
    <3>1. Lists(t.held[key], t.table, key)
      BY <1>2 DEF HeldOK
    <3>2. PICK n \in DOMAIN t.held[key] : t.held[key][n] = x.id
      BY <2>1, <3>1 DEF Lists
    <3>3. x.id \in ToSet(t.held[key])
      BY <3>2 DEF ToSet
    <3>4. QED
      BY <3>3 DEF RemovedIds
  <2>2. ASSUME x.id \in RemovedIds(t.held, removed) PROVE \E key \in removed : IsOwn(x.owner, key)
    <3>1. PICK key \in removed : x.id \in ToSet(t.held[key])
      BY <2>2 DEF RemovedIds
    <3>2. PICK n \in DOMAIN t.held[key] : x.id = t.held[key][n]
      BY <3>1 DEF ToSet
    <3>3. Lists(t.held[key], t.table, key)
      BY <1>2 DEF HeldOK
    <3>4. PICK y \in Rows(t.table) : IsOwn(y.owner, key) /\ y.id = t.held[key][n]
      BY <3>3 DEF Lists
    <3>5. y = x
      BY <1>2, <3>2, <3>4, RowFacts
    <3>6. QED
      BY <3>4, <3>5
  <2>3. QED
    BY <2>1, <2>2
<1>5. \A x \in Rows(t.table) : ~Special(x) => x \in Rows(r)
  BY <1>3, <1>4 DEF IsOwn, Special
<1>6. Drops(t.table, r, removed)
  <2>1. ASSUME NEW x, Special(x)
        PROVE  x \in Rows(r) <=> x \in Rows(t.table) /\ x.owner.key \notin removed
    BY <1>3, <1>4, <2>1 DEF Special, IsOwn
  <2>2. QED
    BY <1>3, <2>1 DEF Drops
<1>7. h \in [VolumeKeys -> Seq(TimerId)]
  <2>1. <<>> \in Seq(TimerId)
    OBVIOUS
  <2>2. ASSUME NEW key \in VolumeKeys PROVE (IF key \in removed THEN <<>> ELSE t.held[key]) \in Seq(TimerId)
    BY <1>2, <2>1
  <2>3. QED
    BY <1>1, <2>2
<1>8. /\ u \in TurnType /\ u.table = r /\ u.held = h
      /\ u.last = t.last /\ u.keys = t.keys /\ u.filter = t.filter /\ u.special = t.special
      /\ u.erased = t.erased /\ u.handled = t.handled /\ u.tempSeqs = t.tempSeqs
      /\ u.launched = t.launched /\ u.gone = t.gone
  <2>1. u = [t EXCEPT !.table = r, !.held = h]
    <3>1. DOMAIN t.held = VolumeKeys
      BY <1>2
    <3>2. QED
      BY <1>1, <3>1 DEF RemoveSubscribedTimer, RemovedIds
  <2>2. r \in Seq(Timer)
    BY <1>3 DEF TableOK
  <2>3. QED
    BY <1>2, <1>7, <2>1, <2>2 DEF TurnType
<1>9. LastOK(t.last, r)
  <2>1. ASSUME NEW c \in t.last.shortcut
        PROVE  c.trigger = "down" /\ [id |-> t.last.timerId, owner |-> ShortcutTimer(c)] \in Rows(r)
    <3>1. PICK x : x = [id |-> t.last.timerId, owner |-> ShortcutTimer(c)]
      OBVIOUS
    <3>2. c.trigger = "down" /\ x \in Rows(t.table)
      BY <1>2, <3>1 DEF LastOK
    <3>3. ~Special(x)
      BY <3>1 DEF ShortcutTimer, Special
    <3>4. QED
      BY <1>5, <3>1, <3>2, <3>3
  <2>2. QED
    BY <1>2, <1>3, <2>1 DEF LastOK
<1>10. ListOK(t.filter, r) /\ ListOK(t.tempSeqs, r)
  <2>1. \A x \in Rows(t.table) : x.owner.kind = "sequence" => x \in Rows(r)
    BY <1>5 DEF Special
  <2>2. QED
    BY <1>2, <2>1, ListStays
<1>11. HeldOK(h, r)
  <2>1. ASSUME NEW key \in VolumeKeys PROVE Lists(h[key], r, key)
    <3>1. CASE key \in removed
      <4>1. h[key] = <<>>
        BY <1>1, <3>1
      <4>2. QED
        BY <1>6, <3>1, <4>1, NothingListed
    <3>2. CASE key \notin removed
      <4>1. h[key] = t.held[key] /\ Lists(t.held[key], t.table, key)
        BY <1>1, <1>2, <3>2 DEF HeldOK
      <4>2. SameOwn(t.table, r, key)
        BY <1>6, <3>2, OwnAreSame
      <4>3. QED
        BY <1>2, <1>3, <4>1, <4>2, ListsStay
    <3>3. QED
      BY <3>1, <3>2
  <2>2. QED
    BY <2>1 DEF HeldOK
<1>12. TurnOK(u)
  BY <1>2, <1>3, <1>8, <1>9, <1>10, <1>11 DEF TurnOK
<1>13. QED
  BY <1>1, <1>6, <1>8, <1>12

(* The function that TakeKeys is defined with. *)
TakenLoop(f, special, ks, n) ==
  f = [m \in 0..n |->
         IF m = 0 THEN special
         ELSE IF ks[m].key \in PowerKeys \cup VolumeKeys
           THEN HandleSpecialKeys(f[m - 1], ks[m].key, ks[m].action)
         ELSE f[m - 1]]

LEMMA TakenExists ==
  ASSUME NEW special \in SUBSET (PowerKeys \cup VolumeKeys), NEW ks \in Seq(Struck)
  PROVE  \E f : TakenLoop(f, special, ks, Len(ks))
<1>1. PICK n \in Nat : n = Len(ks)
  BY SeqFacts
<1>2. PICK S, step :
        /\ S = SUBSET (PowerKeys \cup VolumeKeys)
        /\ step = [m \in 1..n |-> [old \in S |->
                     IF ks[m].key \in PowerKeys \cup VolumeKeys
                     THEN HandleSpecialKeys(old, ks[m].key, ks[m].action) ELSE old]]
  OBVIOUS
<1>3. StepsOn(step, n, S)
  <2>1. ASSUME NEW m \in 1..n, NEW old \in S, ks[m].key \in PowerKeys \cup VolumeKeys
        PROVE  HandleSpecialKeys(old, ks[m].key, ks[m].action) \in S
    BY <1>2, <2>1 DEF HandleSpecialKeys
  <2>2. ASSUME NEW m \in 1..n, NEW old \in S
        PROVE  (IF ks[m].key \in PowerKeys \cup VolumeKeys
                THEN HandleSpecialKeys(old, ks[m].key, ks[m].action) ELSE old) \in S
    BY <2>1
  <2>3. QED
    BY <1>2, <2>2 DEF StepsOn
<1>4. PICK f : IsLoop(f, n, S, special, step)
  BY <1>2, <1>3, LoopExists
<1>5. f \in [0..n -> S] /\ \A m \in 0..n : f[m] = IF m = 0 THEN special ELSE step[m][f[m - 1]]
  BY <1>4 DEF IsLoop
<1>6. ASSUME NEW m \in 0..n
      PROVE  f[m] = IF m = 0 THEN special
                    ELSE IF ks[m].key \in PowerKeys \cup VolumeKeys
                      THEN HandleSpecialKeys(f[m - 1], ks[m].key, ks[m].action)
                    ELSE f[m - 1]
  <2>1. CASE m = 0
    BY <1>5, <2>1
  <2>2. CASE m # 0
    <3>1. m \in 1..n /\ m - 1 \in 0..n
      BY <2>2
    <3>2. f[m - 1] \in S /\ f[m] = step[m][f[m - 1]]
      BY <1>5, <2>2, <3>1
    <3>3. QED
      BY <1>2, <2>2, <3>1, <3>2
  <2>3. QED
    BY <2>1, <2>2
<1>7. f = [m \in 0..n |-> f[m]]
  BY <1>5
<1>8. TakenLoop(f, special, ks, n)
  BY <1>6, <1>7 DEF TakenLoop
<1>9. QED
  BY <1>1, <1>8

(* Whether a key is taken after the first m keys: its last event tells. *)
TookKeys(ks, special, taken, m) ==
  /\ taken \subseteq PowerKeys \cup VolumeKeys
  /\ \A key \in PowerKeys \cup VolumeKeys :
       (\A i \in 1..m : ks[i].key # key) => (key \in taken <=> key \in special)
  /\ \A i \in 1..m :
       ks[i].key \in PowerKeys \cup VolumeKeys /\ (\A j \in (i + 1)..m : ks[j].key # ks[i].key) =>
         /\ ks[i].action = "down" => ks[i].key \in taken
         /\ ks[i].action = "up" => ks[i].key \notin taken

LEMMA OneIsTaken ==
  ASSUME NEW special, NEW ks, NEW n \in Nat, NEW m \in 1..n, NEW old, NEW new,
         TookKeys(ks, special, old, m - 1),
         new = IF ks[m].key \in PowerKeys \cup VolumeKeys
               THEN HandleSpecialKeys(old, ks[m].key, ks[m].action) ELSE old
  PROVE  TookKeys(ks, special, new, m)
<1>1. PICK key : key = ks[m].key
  OBVIOUS
<1>2. PICK PV : PV = PowerKeys \cup VolumeKeys
  OBVIOUS
<1>3. new \subseteq PV /\ \A k : k # key => (k \in new <=> k \in old)
  BY <1>1, <1>2 DEF TookKeys, HandleSpecialKeys
<1>4. key \in PV => /\ ks[m].action = "down" => key \in new
                    /\ ks[m].action = "up" => key \notin new
  BY <1>1, <1>2 DEF HandleSpecialKeys
<1>5. ASSUME NEW k \in PV, \A i \in 1..m : ks[i].key # k PROVE k \in new <=> k \in special
  <2>1. k # key
    BY <1>1, <1>5
  <2>2. \A i \in 1..m - 1 : ks[i].key # k
    <3>1. \A i \in 1..m - 1 : i \in 1..m
      OBVIOUS
    <3>2. QED
      BY <1>5, <3>1
  <2>3. k \in old <=> k \in special
    BY <1>2, <2>2 DEF TookKeys
  <2>4. QED
    BY <1>3, <2>1, <2>3
<1>6. ASSUME NEW i \in 1..m, ks[i].key \in PV, \A j \in (i + 1)..m : ks[j].key # ks[i].key
      PROVE  /\ ks[i].action = "down" => ks[i].key \in new
             /\ ks[i].action = "up" => ks[i].key \notin new
  <2>1. CASE i = m
    BY <1>1, <1>4, <1>6, <2>1
  <2>2. CASE i # m
    <3>1. i \in 1..m - 1 /\ m \in (i + 1)..m
      BY <2>2
    <3>2. ks[i].key # key
      BY <1>1, <1>6, <3>1
    <3>3. \A j \in (i + 1)..(m - 1) : ks[j].key # ks[i].key
      <4>1. \A j \in (i + 1)..(m - 1) : j \in (i + 1)..m
        OBVIOUS
      <4>2. QED
        BY <1>6, <4>1
    <3>4. /\ ks[i].action = "down" => ks[i].key \in old
          /\ ks[i].action = "up" => ks[i].key \notin old
      BY <1>2, <1>6, <3>1, <3>3 DEF TookKeys
    <3>5. QED
      BY <1>3, <3>2, <3>4
  <2>3. QED
    BY <2>1, <2>2
<1>7. QED
  BY <1>2, <1>3, <1>5, <1>6 DEF TookKeys

LEMMA KeysAreTaken ==
  ASSUME NEW t, TurnOK(t)
  PROVE  LET u == TakeKeys(t) IN
         /\ TurnOK(u) /\ Drops(t.table, u.table, {k.key : k \in ToSet(t.keys)} \cap VolumeKeys)
         /\ TookKeys(t.keys, t.special, u.special, Len(t.keys))
         /\ u.last = t.last /\ u.keys = t.keys /\ u.filter = t.filter
         /\ u.erased = t.erased /\ u.handled = t.handled /\ u.tempSeqs = t.tempSeqs
         /\ u.launched = t.launched /\ u.gone = t.gone
<1>1. PICK ks, special, n : ks = t.keys /\ special = t.special /\ n = Len(t.keys)
  OBVIOUS
<1>2. /\ t \in TurnType /\ ks \in Seq(Struck) /\ special \in SUBSET (PowerKeys \cup VolumeKeys)
      /\ n \in Nat
  BY <1>1, TurnFields, SeqFacts
<1>3. \E f : TakenLoop(f, special, ks, n)
  BY <1>1, <1>2, TakenExists
<1>4. PICK f : f = CHOOSE g : TakenLoop(g, special, ks, n)
  OBVIOUS
<1>5. TakenLoop(f, special, ks, n)
  BY <1>3, <1>4
<1>6. PICK s, removed : /\ s = [t EXCEPT !.special = f[n]]
                        /\ removed = {k.key : k \in ToSet(t.keys)} \cap VolumeKeys
  OBVIOUS
<1>7. TakeKeys(t) = RemoveSubscribedTimer(s, removed)
  BY <1>1, <1>4, <1>6 DEF TakeKeys, TakenLoop
<1>8. PICK G : G = {m \in 0..n : TookKeys(ks, special, f[m], m)}
  OBVIOUS
<1>9. \A m \in 0..n : f[m] = IF m = 0 THEN special
                              ELSE IF ks[m].key \in PowerKeys \cup VolumeKeys
                                THEN HandleSpecialKeys(f[m - 1], ks[m].key, ks[m].action)
                              ELSE f[m - 1]
  BY <1>5 DEF TakenLoop
<1>10. 0 \in G
  <2>1. 0 \in 0..n /\ f[0] = special
    BY <1>2, <1>9
  <2>2. TookKeys(ks, special, special, 0)
    BY <1>2 DEF TookKeys
  <2>3. QED
    BY <1>8, <2>1, <2>2
<1>11. ASSUME NEW m \in 1..n, m - 1 \in G PROVE m \in G
  <2>1. TookKeys(ks, special, f[m - 1], m - 1)
    BY <1>8, <1>11
  <2>2. m \in 0..n /\ m # 0
    BY <1>2
  <2>3. f[m] = IF ks[m].key \in PowerKeys \cup VolumeKeys
               THEN HandleSpecialKeys(f[m - 1], ks[m].key, ks[m].action) ELSE f[m - 1]
    BY <1>9, <2>2
  <2>4. TookKeys(ks, special, f[m], m)
    BY <1>2, <2>1, <2>3, OneIsTaken
  <2>5. QED
    BY <1>8, <2>2, <2>4
<1>12. TookKeys(ks, special, f[n], n)
  <2>1. \A m \in 1..n : m - 1 \in G => m \in G
    BY <1>11
  <2>2. n \in Nat
    BY <1>2
  <2>3. \A m \in 0..n : m \in G
    BY <1>10, <2>1, <2>2, UpTo
  <2>4. n \in 0..n
    BY <2>2
  <2>5. QED
    BY <1>8, <2>3, <2>4
<1>13. /\ s \in TurnType /\ s.special = f[n] /\ s.last = t.last /\ s.keys = t.keys
       /\ s.filter = t.filter /\ s.held = t.held /\ s.table = t.table /\ s.erased = t.erased
       /\ s.handled = t.handled /\ s.tempSeqs = t.tempSeqs /\ s.launched = t.launched
       /\ s.gone = t.gone
  <2>1. f[n] \in SUBSET (PowerKeys \cup VolumeKeys)
    BY <1>12 DEF TookKeys
  <2>2. QED
    BY <1>2, <1>6, <2>1 DEF TurnType
<1>14. TurnOK(s)
  BY <1>13 DEF TurnOK
<1>15. removed \in SUBSET VolumeKeys
  BY <1>6
<1>16. PICK u : u = RemoveSubscribedTimer(s, removed)
  OBVIOUS
<1>17. /\ TurnOK(u) /\ Drops(s.table, u.table, removed)
       /\ u.last = s.last /\ u.keys = s.keys /\ u.filter = s.filter /\ u.special = s.special
       /\ u.erased = s.erased /\ u.handled = s.handled /\ u.tempSeqs = s.tempSeqs
       /\ u.launched = s.launched /\ u.gone = s.gone
  BY <1>14, <1>15, <1>16, RemoveKeeps
<1>18. QED
  BY <1>1, <1>6, <1>7, <1>12, <1>13, <1>16, <1>17

-----------------------------------------------------------------------------
(* All of what a turn does with the sequences *)

(* The function that MatchSequences is defined with. *)
MatchList(a) == IF a.filter = <<>> THEN [q \in DOMAIN Sequences |-> Entry(q)] ELSE a.filter
PassLoop(f, a, list, lost, n) ==
  f = [k \in 0..n |->
         IF k = 0 THEN [a EXCEPT !.filter = list] ELSE HandleSequence(f[k - 1], list, k, lost)]

LEMMA MatchListFacts ==
  ASSUME NEW a, TurnOK(a), ~a.erased => NoneTimed(a.filter)
  PROVE  /\ MatchList(a) \in Seq(Entries) /\ ListOK(MatchList(a), a.table)
         /\ ~a.erased => NoneTimed(MatchList(a))
<1>1. CASE a.filter = <<>>
  <2>1. PICK l : l = [q \in DOMAIN Sequences |-> Entry(q)]
    OBVIOUS
  <2>2. Sequences \in Seq(Sequence)
    BY KeyCommandAssumption
  <2>3. Len(Sequences) \in Nat /\ DOMAIN Sequences = 1..Len(Sequences)
    BY <2>2, SeqFacts
  <2>4. \A q \in DOMAIN Sequences : Entry(q) \in Entries /\ Entry(q).timerId = NoTimer
    BY DEF Entry, Entries
  <2>5. l = [q \in 1..Len(Sequences) |-> Entry(q)]
    BY <2>1, <2>3
  <2>6. l \in Seq(Entries)
    BY <2>3, <2>4, <2>5
  <2>7. \A k \in DOMAIN l : l[k].timerId = NoTimer
    BY <2>1, <2>4
  <2>8. MatchList(a) = l
    BY <1>1, <2>1 DEF MatchList
  <2>9. QED
    BY <2>6, <2>7, <2>8 DEF ListOK, NoneTimed
<1>2. CASE a.filter # <<>>
  BY <1>2, TurnFields DEF MatchList
<1>3. QED
  BY <1>1, <1>2

LEMMA PassBegins ==
  ASSUME NEW a, TurnOK(a), ~a.erased => NoneTimed(a.filter), a.tempSeqs = <<>>,
         ~a.launched, ~a.gone, NEW event
  PROVE  PassOK([a EXCEPT !.filter = MatchList(a)], a, Len(MatchList(a)), event)
<1>1. PICK t, list : list = MatchList(a) /\ t = [a EXCEPT !.filter = list]
  OBVIOUS
<1>2. list \in Seq(Entries) /\ ListOK(list, a.table) /\ (~a.erased => NoneTimed(list))
  BY <1>1, MatchListFacts
<1>3. a \in TurnType
  BY TurnFields
<1>4. /\ t \in TurnType /\ t.tempSeqs = a.tempSeqs /\ t.last = a.last /\ t.keys = a.keys
      /\ t.filter = list /\ t.special = a.special /\ t.held = a.held /\ t.table = a.table
      /\ t.erased = a.erased /\ t.handled = a.handled /\ t.launched = a.launched
      /\ t.gone = a.gone
  BY <1>1, <1>2, <1>3 DEF TurnType
<1>5. TurnOK(t)
  BY <1>2, <1>4 DEF TurnOK
<1>6. Drops(a.table, a.table, {}) /\ ListCurrent(<<>>, a.keys)
  BY DropsNone, EmptyList
<1>7. QED
  BY <1>1, <1>2, <1>4, <1>5, <1>6 DEF PassOK

MatchEnd(t) ==
  [IF t.launched THEN TakeKeys(t) ELSE t EXCEPT
     !.filter = IF t.tempSeqs = <<>> THEN @ ELSE t.tempSeqs,
     !.handled = @ \/ t.launched,
     !.erased = @ \/ t.gone]

LEMMA PassEnds ==
  ASSUME NEW a, TurnOK(a), ~a.erased => NoneTimed(a.filter), a.tempSeqs = <<>>,
         ~a.launched, ~a.gone, NEW event \in Event, Strikes(a.keys, event), NEW lost \in BOOLEAN
  PROVE  \E t : PassOK(t, a, Len(MatchList(a)), event) /\ MatchSequences(a, lost) = MatchEnd(t)
<1>1. PICK list, n, start : list = MatchList(a) /\ n = Len(list) /\ start = [a EXCEPT !.filter = list]
  OBVIOUS
<1>2. list \in Seq(Entries) /\ ListOK(list, a.table) /\ (~a.erased => NoneTimed(list))
  BY <1>1, MatchListFacts
<1>3. n \in Nat /\ DOMAIN list = 1..n /\ a.keys \in Seq(Struck)
  BY <1>1, <1>2, SeqFacts, TurnFields
<1>4. PassOK(start, a, n, event)
  BY <1>1, PassBegins
<1>5. ASSUME NEW k \in 1..n, NEW t, PassOK(t, a, n, event)
      PROVE  PassOK(HandleSequence(t, list, k, lost), a, n, event)
  BY <1>1, <1>2, <1>3, <1>5, PassGoesOn
<1>6. PICK S : S = {t \in TurnType : PassOK(t, a, n, event)}
  OBVIOUS
<1>7. \A t : PassOK(t, a, n, event) => t \in S
  BY <1>6 DEF PassOK, TurnOK
<1>8. PICK step : step = [k \in 1..n |-> [t \in S |-> HandleSequence(t, list, k, lost)]]
  OBVIOUS
<1>9. StepsOn(step, n, S)
  <2>1. ASSUME NEW k \in 1..n, NEW t \in S PROVE HandleSequence(t, list, k, lost) \in S
    BY <1>5, <1>6, <1>7
  <2>2. QED
    BY <1>8, <2>1 DEF StepsOn
<1>10. start \in S
  BY <1>4, <1>7
<1>11. PICK f : IsLoop(f, n, S, start, step)
  BY <1>3, <1>9, <1>10, LoopExists
<1>12. f \in [0..n -> S] /\ \A k \in 0..n : f[k] = IF k = 0 THEN start ELSE step[k][f[k - 1]]
  BY <1>11 DEF IsLoop
<1>13. ASSUME NEW k \in 0..n
       PROVE  f[k] = IF k = 0 THEN start ELSE HandleSequence(f[k - 1], list, k, lost)
  <2>1. CASE k = 0
    BY <1>12, <2>1
  <2>2. CASE k # 0
    <3>1. k \in 1..n /\ k - 1 \in 0..n
      BY <1>3, <2>2
    <3>2. f[k - 1] \in S /\ f[k] = step[k][f[k - 1]]
      BY <1>12, <2>2, <3>1
    <3>3. QED
      BY <1>8, <2>2, <3>1, <3>2
  <2>3. QED
    BY <2>1, <2>2
<1>14. PassLoop(f, a, list, lost, n)
  <2>1. f = [k \in 0..n |-> f[k]]
    BY <1>12
  <2>2. QED
    BY <1>1, <1>13, <2>1 DEF PassLoop
<1>15. PICK g : g = CHOOSE h : PassLoop(h, a, list, lost, n)
  OBVIOUS
<1>16. PassLoop(g, a, list, lost, n)
  BY <1>14, <1>15
<1>17. \A k \in 0..n : g[k] = IF k = 0 THEN start ELSE HandleSequence(g[k - 1], list, k, lost)
  BY <1>1, <1>16 DEF PassLoop
<1>18. PICK G : G = {k \in 0..n : PassOK(g[k], a, n, event)}
  OBVIOUS
<1>19. 0 \in G
  BY <1>3, <1>4, <1>17, <1>18
<1>20. ASSUME NEW k \in 1..n, k - 1 \in G PROVE k \in G
  <2>1. PassOK(g[k - 1], a, n, event)
    BY <1>18, <1>20
  <2>2. PassOK(HandleSequence(g[k - 1], list, k, lost), a, n, event)
    BY <1>5, <2>1
  <2>3. k \in 0..n /\ k # 0
    BY <1>3
  <2>4. g[k] = HandleSequence(g[k - 1], list, k, lost)
    BY <1>17, <2>3
  <2>5. QED
    BY <1>18, <2>2, <2>3, <2>4
<1>21. PassOK(g[n], a, n, event)
  <2>1. \A k \in 1..n : k - 1 \in G => k \in G
    BY <1>20
  <2>2. \A k \in 0..n : k \in G
    BY <1>3, <1>19, <2>1, UpTo
  <2>3. n \in 0..n
    BY <1>3
  <2>4. QED
    BY <1>18, <2>2, <2>3
<1>22. MatchSequences(a, lost) = MatchEnd(g[n])
  BY <1>1, <1>15 DEF MatchSequences, MatchList, PassLoop, MatchEnd
<1>23. QED
  BY <1>1, <1>21, <1>22

(* The keys in taken were taken by a launch: a key that is in none of its
   events is as it was, and the others are the handler's while they are down.
   An event that is consumed has ended a shortcut or a sequence, or is of a
   key that was taken. *)
Took(s, v, event, taken, down, odd) ==
  /\ Drops(s.table, v.table, taken \cap VolumeKeys)
  /\ \A key \in PowerKeys \cup VolumeKeys :
       /\ key \notin taken => (key \in v.special <=> key \in s.special)
       /\ key \in taken /\ key \notin odd => (key \in v.special <=> key \in down)
  /\ v.handled => s.handled \/ EndsImmediate(event) \/ event.key \in taken
  /\ taken # {} \/ s.handled => v.handled

LEMMA LaunchTakes ==
  ASSUME NEW ks \in Seq(Struck), Len(ks) <= MaxSequenceKeys, Sequences # <<>>,
         NEW special, NEW taken, TookKeys(ks, special, taken, Len(ks)),
         NEW down, NEW odd, KeysTell(ks, down, odd),
         NEW key \in PowerKeys \cup VolumeKeys
  PROVE  LET K == {k.key : k \in ToSet(ks)} IN
         /\ key \notin K => (key \in taken <=> key \in special)
         /\ key \in K /\ key \notin odd => (key \in taken <=> key \in down)
<1>1. PICK n, K : n = Len(ks) /\ K = {k.key : k \in ToSet(ks)}
  OBVIOUS
<1>2. n \in Nat /\ DOMAIN ks = 1..n
  BY <1>1, SeqFacts
<1>3. K = {ks[i].key : i \in 1..n}
  BY <1>1, <1>2 DEF ToSet
<1>4. CASE key \notin K
  BY <1>1, <1>3, <1>4 DEF TookKeys
<1>5. CASE key \in K
  <2>1. PICK T : T = {i \in 1..n : ks[(n + 1) - i].key = key}
    OBVIOUS
  <2>2. T # {}
    <3>1. PICK i \in 1..n : ks[i].key = key
      BY <1>3, <1>5
    <3>2. (n + 1) - i \in 1..n /\ (n + 1) - ((n + 1) - i) = i
      BY <1>2
    <3>3. (n + 1) - i \in T
      BY <2>1, <3>1, <3>2
    <3>4. QED
      BY <3>3
  <2>3. PICK m \in T : \A j \in T : m <= j
    BY <1>2, <2>1, <2>2, Least
  <2>4. PICK i \in 1..n : i = (n + 1) - m /\ ks[i].key = key
    <3>1. m \in 1..n
      BY <2>1
    <3>2. (n + 1) - m \in 1..n
      BY <1>2, <3>1
    <3>3. QED
      BY <2>1, <3>2
  <2>5. ASSUME NEW j \in (i + 1)..n, ks[j].key = key PROVE FALSE
    <3>1. /\ (n + 1) - j \in 1..n /\ (n + 1) - ((n + 1) - j) = j /\ m \in 1..n
          /\ (n + 1) - j < m
      BY <1>2, <2>1, <2>4, <2>5
    <3>2. (n + 1) - j \in T
      BY <2>1, <2>5, <3>1
    <3>3. QED
      BY <2>3, <3>1, <3>2
  <2>6. IsLast(ks, i)
    BY <1>1, <2>4, <2>5 DEF IsLast
  <2>7. /\ ks[i].action = "down" => key \in taken
        /\ ks[i].action = "up" => key \notin taken
    BY <1>1, <2>4, <2>5 DEF TookKeys
  <2>8. key \notin odd =>
          \/ ks[i].action = "down" /\ key \in down
          \/ ks[i].action = "up" /\ key \notin down
    BY <1>2, <2>4, <2>6 DEF KeysTell
  <2>9. QED
    BY <1>1, <1>5, <2>7, <2>8
<1>6. QED
  BY <1>1, <1>4, <1>5

\* The fields a match writes keep the types of a turn.
LEMMA TurnUpdated ==
  ASSUME NEW w \in TurnType, NEW filter \in Seq(Entries), NEW handled \in BOOLEAN,
         NEW nowErased \in BOOLEAN
  PROVE  [w EXCEPT !.filter = filter, !.handled = handled, !.erased = nowErased] \in TurnType
<1>1. [w EXCEPT !.filter = filter] \in TurnType
  BY DEF TurnType
<1>2. PICK x : x = [w EXCEPT !.filter = filter] /\ x \in TurnType
  BY <1>1
<1>3. [x EXCEPT !.handled = handled] \in TurnType
  BY <1>2 DEF TurnType
<1>4. PICK y : y = [x EXCEPT !.handled = handled] /\ y \in TurnType
  BY <1>3
<1>5. [y EXCEPT !.erased = nowErased] \in TurnType
  BY <1>4 DEF TurnType
<1>6. [w EXCEPT !.filter = filter, !.handled = handled, !.erased = nowErased]
        = [y EXCEPT !.erased = nowErased]
  BY <1>2, <1>4
<1>7. QED
  BY <1>5, <1>6

LEMMA MatchKeeps ==
  ASSUME NEW a, TurnOK(a), ~a.erased => NoneTimed(a.filter), a.tempSeqs = <<>>,
         ~a.launched, ~a.gone, NEW event \in Event, Strikes(a.keys, event),
         NEW lost \in BOOLEAN, Sequences # <<>>,
         NEW down, NEW odd, KeysTell(a.keys, down, odd)
  PROVE  LET v == MatchSequences(a, lost) IN
         /\ TurnOK(v) /\ v.last = a.last
         /\ KeysTell(v.keys, down, odd) /\ (~v.erased => ListCurrent(v.filter, v.keys))
         /\ \E taken : Took(a, v, event, taken, down, odd)
<1>1. PICK v, n : v = MatchSequences(a, lost) /\ n = Len(MatchList(a))
  OBVIOUS
<1>2. PICK t : PassOK(t, a, n, event) /\ v = MatchEnd(t)
  BY <1>1, PassEnds
<1>3. TurnOK(t) /\ t \in TurnType /\ t.launched \in BOOLEAN /\ t.gone \in BOOLEAN
      /\ t.handled \in BOOLEAN /\ t.erased \in BOOLEAN
      /\ t.tempSeqs \in Seq(Entries) /\ t.keys \in Seq(Struck) /\ ListOK(t.tempSeqs, t.table)
  BY <1>2, TurnFields DEF PassOK
<1>4. PICK w : w = IF t.launched THEN TakeKeys(t) ELSE t
  OBVIOUS
<1>5. /\ TurnOK(w) /\ w.last = t.last /\ w.keys = t.keys /\ w.filter = t.filter
      /\ w.erased = t.erased /\ w.handled = t.handled /\ w.tempSeqs = t.tempSeqs
  BY <1>3, <1>4, KeysAreTaken
<1>6. PICK filter, handled, nowErased :
        /\ filter = (IF t.tempSeqs = <<>> THEN t.filter ELSE t.tempSeqs)
        /\ handled = (t.handled \/ t.launched) /\ handled \in BOOLEAN
        /\ nowErased = (t.erased \/ t.gone) /\ nowErased \in BOOLEAN
  BY <1>3
<1>7. /\ w \in TurnType /\ ListOK(w.filter, w.table) /\ ListOK(w.tempSeqs, w.table)
      /\ w.filter \in Seq(Entries)
  BY <1>5, TurnFields
<1>8. filter \in Seq(Entries) /\ ListOK(filter, w.table)
  BY <1>3, <1>5, <1>6, <1>7
<1>9. v = [w EXCEPT !.filter = filter, !.handled = handled, !.erased = nowErased]
  BY <1>2, <1>4, <1>5, <1>6 DEF MatchEnd
<1>10. /\ v \in TurnType /\ v.filter = filter /\ v.handled = handled /\ v.erased = nowErased
       /\ v.last = w.last /\ v.keys = w.keys /\ v.special = w.special /\ v.held = w.held
       /\ v.table = w.table /\ v.tempSeqs = w.tempSeqs
  <2>1. /\ v.filter = filter /\ v.handled = handled /\ v.erased = nowErased
        /\ v.last = w.last /\ v.keys = w.keys /\ v.special = w.special /\ v.held = w.held
        /\ v.table = w.table /\ v.tempSeqs = w.tempSeqs
    <3>1. PICK x : x = w /\ x \in TurnType
      BY <1>7
    <3>2. v = [x EXCEPT !.filter = filter, !.handled = handled, !.erased = nowErased]
      BY <1>9, <3>1
    <3>3. /\ v.filter = filter /\ v.handled = handled /\ v.erased = nowErased
          /\ v.last = x.last /\ v.keys = x.keys /\ v.special = x.special /\ v.held = x.held
          /\ v.table = x.table /\ v.tempSeqs = x.tempSeqs
      BY <3>1, <3>2 DEF TurnType
    <3>4. QED
      BY <3>1, <3>3
  <2>2. v \in TurnType
    <3>1. [w EXCEPT !.filter = filter, !.handled = handled, !.erased = nowErased] \in TurnType
      BY <1>6, <1>7, <1>8, TurnUpdated
    <3>2. QED
      BY <1>9, <3>1
  <2>3. QED
    BY <2>1, <2>2
<1>11. TurnOK(v)
  BY <1>5, <1>8, <1>10 DEF TurnOK
<1>12. v.last = a.last
  BY <1>2, <1>5, <1>10 DEF PassOK
<1>13. KeysTell(v.keys, down, odd)
  <2>1. t.keys = <<>> \/ t.keys = a.keys
    BY <1>2, <1>3 DEF PassOK
  <2>2. QED
    BY <1>5, <1>10, <2>1, NoKeysTell
<1>14. ASSUME ~v.erased PROVE ListCurrent(v.filter, v.keys)
  <2>1. ~t.gone /\ ~t.erased
    BY <1>6, <1>10, <1>14
  <2>2. NoneTimed(t.filter) /\ ListCurrent(t.tempSeqs, a.keys) /\ t.keys = a.keys
    BY <1>2, <2>1 DEF PassOK
  <2>3. ListCurrent(t.filter, a.keys)
    BY <2>2 DEF NoneTimed, ListCurrent
  <2>4. QED
    BY <1>5, <1>6, <1>10, <2>2, <2>3
<1>15. /\ t.handled = a.handled /\ t.special = a.special /\ Drops(a.table, t.table, {})
       /\ t.gone => t.keys = <<>> /\ t.launched /\ EndsImmediate(event)
       /\ ~t.gone => t.keys = a.keys /\ (t.launched => Len(a.keys) <= MaxSequenceKeys)
  BY <1>2 DEF PassOK
<1>16. \E taken : Took(a, v, event, taken, down, odd)
  <2>1. CASE ~t.launched
    <3>1. w = t /\ handled = a.handled
      BY <1>3, <1>4, <1>6, <1>15, <2>1
    <3>2. v.special = a.special /\ v.handled = a.handled /\ Drops(a.table, v.table, {} \cap VolumeKeys)
      <4>1. {} \cap VolumeKeys = {}
        OBVIOUS
      <4>2. QED
        BY <1>10, <1>15, <3>1, <4>1
    <3>3. Took(a, v, event, {}, down, odd)
      BY <3>2 DEF Took
    <3>4. QED
      BY <3>3
  <2>2. CASE t.launched
    <3>1. PICK K : K = {k.key : k \in ToSet(t.keys)}
      OBVIOUS
    <3>2. /\ Drops(t.table, w.table, K \cap VolumeKeys)
          /\ TookKeys(t.keys, t.special, w.special, Len(t.keys))
      BY <1>3, <1>4, <2>2, <3>1, KeysAreTaken
    <3>3. Drops(a.table, v.table, K \cap VolumeKeys)
      BY <1>10, <1>15, <3>2, DropsOn
    <3>4. Len(t.keys) <= MaxSequenceKeys /\ KeysTell(t.keys, down, odd)
      <4>1. CASE t.gone
        <5>1. Len(<<>>) = 0 /\ MaxSequenceKeys \in Nat
          BY KeyCommandAssumption
        <5>2. QED
          BY <1>15, <4>1, <5>1, NoKeysTell
      <4>2. CASE ~t.gone
        BY <1>15, <2>2, <4>2
      <4>3. QED
        BY <4>1, <4>2
    <3>5. ASSUME NEW key \in PowerKeys \cup VolumeKeys
          PROVE  /\ key \notin K => (key \in v.special <=> key \in a.special)
                 /\ key \in K /\ key \notin odd => (key \in v.special <=> key \in down)
      BY <1>3, <1>10, <1>15, <3>1, <3>2, <3>4, LaunchTakes
    <3>6. v.handled
      BY <1>6, <1>10, <2>2
    <3>7. EndsImmediate(event) \/ event.key \in K
      <4>1. CASE t.gone
        BY <1>15, <4>1
      <4>2. CASE ~t.gone
        <5>1. t.keys = a.keys /\ Len(t.keys) \in 1..Len(t.keys) /\ DOMAIN t.keys = 1..Len(t.keys)
          BY <1>3, <1>15, <4>2, SeqFacts DEF Strikes
        <5>2. t.keys[Len(t.keys)] \in ToSet(t.keys) /\ t.keys[Len(t.keys)].key = event.key
          BY <5>1 DEF ToSet, Strikes
        <5>3. QED
          BY <3>1, <5>2
      <4>3. QED
        BY <4>1, <4>2
    <3>8. Took(a, v, event, K, down, odd)
      BY <3>3, <3>5, <3>6, <3>7 DEF Took
    <3>9. QED
      BY <3>8
  <2>3. QED
    BY <2>1, <2>2
<1>17. QED
  BY <1>1, <1>11, <1>12, <1>13, <1>14, <1>16

LEMMA SequencesKeep ==
  ASSUME NEW s, TurnOK(s), s.tempSeqs = <<>>, ~s.launched, ~s.gone,
         NEW event \in Event, NEW gap \in GapKinds, NEW lost \in BOOLEAN,
         ~s.erased => ListCurrent(s.filter, s.keys),
         NEW d0, NEW o0, KeysTell(s.keys, d0, o0),
         NEW d1, NEW o1, Honest(event, d1, o1), SameBut(event.key, d0, d1), o0 \subseteq o1
  PROVE  LET v == HandleSequences(s, event, gap, lost) IN
         /\ TurnOK(v) /\ v.last = s.last
         /\ KeysTell(v.keys, d1, o1) /\ (~v.erased => ListCurrent(v.filter, v.keys))
         /\ \E taken : Took(s, v, event, taken, d1, o1)
<1>1. PICK v, a : v = HandleSequences(s, event, gap, lost) /\ a = AddSequenceKey(s, event, gap)
  OBVIOUS
<1>2. v = IF Sequences = <<>> THEN s
          ELSE IF AddsKey(s, event, gap) THEN MatchSequences(a, lost) ELSE a
  BY <1>1 DEF HandleSequences
<1>3. ASSUME NEW u, u.special = s.special, u.handled = s.handled, Drops(s.table, u.table, {})
      PROVE  \E taken : Took(s, u, event, taken, d1, o1)
  <2>1. {} \cap VolumeKeys = {}
    OBVIOUS
  <2>2. Took(s, u, event, {}, d1, o1)
    BY <1>3, <2>1 DEF Took
  <2>3. QED
    BY <2>2
<1>4. CASE Sequences = <<>>
  <2>1. v = s
    BY <1>2, <1>4
  <2>2. KeysTell(s.keys, d1, o1)
    BY <1>4 DEF KeysTell
  <2>3. Drops(s.table, s.table, {})
    BY DropsNone
  <2>4. \E taken : Took(s, s, event, taken, d1, o1)
    BY <1>3, <2>3
  <2>5. QED
    BY <1>1, <2>1, <2>2, <2>4
<1>5. CASE Sequences # <<>>
  <2>1. /\ TurnOK(a) /\ SameOthers(s, a) /\ Drops(s.table, a.table, {})
        /\ KeysTell(a.keys, d1, o1)
        /\ AddsKey(s, event, gap) =>
             /\ ~a.erased => NoneTimed(a.filter)
             /\ Len(a.keys) # 0
             /\ a.keys[Len(a.keys)].key = event.key /\ a.keys[Len(a.keys)].action = event.action
        /\ ~AddsKey(s, event, gap) => (~a.erased => ListCurrent(a.filter, a.keys))
    <3>1. PICK b : b = AddSequenceKey(s, event, gap)
      OBVIOUS
    <3>2. /\ TurnOK(b) /\ SameOthers(s, b) /\ Drops(s.table, b.table, {})
          /\ KeysTell(b.keys, d1, o1)
          /\ AddsKey(s, event, gap) =>
               /\ ~b.erased => NoneTimed(b.filter)
               /\ Len(b.keys) # 0
               /\ b.keys[Len(b.keys)].key = event.key /\ b.keys[Len(b.keys)].action = event.action
          /\ ~AddsKey(s, event, gap) => (~b.erased => ListCurrent(b.filter, b.keys))
      <4>1. /\ TurnOK(AddSequenceKey(s, event, gap)) /\ SameOthers(s, AddSequenceKey(s, event, gap))
            /\ Drops(s.table, AddSequenceKey(s, event, gap).table, {})
            /\ KeysTell(AddSequenceKey(s, event, gap).keys, d1, o1)
        BY <1>5, KeyIsAdded, Zenon
      <4>2. ASSUME AddsKey(s, event, gap)
            PROVE  /\ ~AddSequenceKey(s, event, gap).erased
                         => NoneTimed(AddSequenceKey(s, event, gap).filter)
                   /\ Len(AddSequenceKey(s, event, gap).keys) # 0
        BY <1>5, <4>2, KeyIsAdded, Zenon
      <4>3. ASSUME AddsKey(s, event, gap)
            PROVE  LET ks == AddSequenceKey(s, event, gap).keys IN
                   ks[Len(ks)].key = event.key /\ ks[Len(ks)].action = event.action
        BY <1>5, <4>3, KeyIsAdded, Zenon
      <4>4. ASSUME ~AddsKey(s, event, gap)
            PROVE  ~AddSequenceKey(s, event, gap).erased
                     => ListCurrent(AddSequenceKey(s, event, gap).filter,
                                    AddSequenceKey(s, event, gap).keys)
        BY <1>5, <4>4, KeyIsAdded, Zenon
      <4>5. QED
        BY <3>1, <4>1, <4>2, <4>3, <4>4
    <3>3. a = b
      BY <1>1, <3>1
    <3>4. QED
      BY <3>2, <3>3
  <2>2. /\ a.last = s.last /\ a.special = s.special /\ a.handled = s.handled
        /\ a.tempSeqs = <<>> /\ ~a.launched /\ ~a.gone
    BY <2>1 DEF SameOthers
  <2>3. CASE ~AddsKey(s, event, gap)
    <3>1. v = a
      BY <1>2, <1>5, <2>3
    <3>2. \E taken : Took(s, a, event, taken, d1, o1)
      BY <1>3, <2>1, <2>2
    <3>3. QED
      BY <1>1, <2>1, <2>2, <2>3, <3>1, <3>2
  <2>4. CASE AddsKey(s, event, gap)
    <3>1. v = MatchSequences(a, lost)
      BY <1>2, <1>5, <2>4
    <3>2. Strikes(a.keys, event)
      BY <2>1, <2>4 DEF Strikes
    <3>3. ~a.erased => NoneTimed(a.filter)
      BY <2>1, <2>4
    <3>4. /\ TurnOK(v) /\ v.last = a.last
          /\ KeysTell(v.keys, d1, o1) /\ (~v.erased => ListCurrent(v.filter, v.keys))
          /\ \E taken : Took(a, v, event, taken, d1, o1)
      BY <1>5, <2>1, <2>2, <3>1, <3>2, <3>3, MatchKeeps
    <3>5. PICK taken : Took(a, v, event, taken, d1, o1)
      BY <3>4
    <3>6. Drops(s.table, v.table, taken \cap VolumeKeys)
      BY <2>1, <3>5, DropsOn DEF Took
    <3>7. Took(s, v, event, taken, d1, o1)
      BY <2>2, <3>5, <3>6 DEF Took
    <3>8. QED
      BY <1>1, <2>2, <3>4, <3>7
  <2>5. QED
    BY <2>3, <2>4
<1>6. QED
  BY <1>4, <1>5

-----------------------------------------------------------------------------
(* An event, until it is known whether it is consumed *)

Fresh(t) == ~t.handled /\ t.tempSeqs = <<>> /\ ~t.launched /\ ~t.gone

(* An event of the keyboard tells which keys are down. *)
FromKeyboard(event, d0, d1, odd) ==
  \/ event.key \in odd
  \/ /\ event.others = d1 \ {event.key}
     /\ \/ event.action = "down" /\ event.key \in d1
        \/ event.action = "up" /\ event.key \in d0 /\ event.key \notin d1

Handled(t, v, event, taken, down, odd) ==
  /\ Drops(t.table, v.table, taken \cap VolumeKeys)
  /\ \A key \in PowerKeys \cup VolumeKeys :
       /\ key \notin taken => (key \in v.special <=> key \in t.special)
       /\ key \in taken /\ key \notin odd => (key \in v.special <=> key \in down)
  /\ v.handled => event.key \in Lone \/ event.key \in taken
  /\ v.handled /\ event.action = "up" => event.key \in Stuck \/ event.key \in taken
  /\ taken # {} => v.handled

LEMMA OthersAreDown ==
  ASSUME NEW event \in Event, NEW c \in Shortcuts, IsKeyMatch(c, event), c.trigger = "down",
         NEW d0, NEW d1, NEW odd, FromKeyboard(event, d0, d1, odd)
  PROVE  Current(c, d1, odd)
<1>1. /\ event.key = c.finalKey /\ event.action = "down"
      /\ Cardinality(event.others) = Cardinality(c.preKeys) /\ event.others \subseteq c.preKeys
  BY DEF IsKeyMatch
<1>2. IsFiniteSet(c.preKeys)
  BY KeyCommandAssumption
<1>3. event.others = c.preKeys
  BY <1>1, <1>2, FS_Subset
<1>4. CASE event.key \in odd
  BY <1>1, <1>4 DEF Current
<1>5. CASE event.key \notin odd
  <2>1. c.preKeys = d1 \ {event.key} /\ event.key \in d1
    BY <1>1, <1>3, <1>5 DEF FromKeyboard
  <2>2. d1 = c.preKeys \cup {c.finalKey}
    BY <1>1, <2>1
  <2>3. QED
    BY <2>2 DEF Current
<1>6. QED
  BY <1>4, <1>5

LEMMA ShortcutEnds ==
  ASSUME NEW event, NEW c \in Shortcuts, c.finalKey = event.key, c.trigger = event.action
  PROVE  event.key \in Lone /\ (event.action = "up" => event.key \in Stuck)
BY DEF Lone, Stuck

LEMMA SequenceEnds ==
  ASSUME NEW event, EndsImmediate(event)
  PROVE  event.key \in Lone /\ (event.action = "up" => event.key \in Stuck)
<1>1. PICK q \in DOMAIN Sequences :
        /\ ~Sequences[q].delayed /\ Last(Sequences[q].keys).key = event.key
        /\ Last(Sequences[q].keys).action = event.action
  BY DEF EndsImmediate
<1>2. QED
  BY <1>1 DEF Lone, Stuck

LEMMA EventIsHandled ==
  ASSUME NEW d0, NEW o0, NEW repeated, NEW told, NEW t, HandlerOK(t, d0, repeated, o0, told),
         Fresh(t), NEW event \in Event, NEW quick \in BOOLEAN, NEW gap \in GapKinds,
         NEW lost \in BOOLEAN, NEW d1, NEW o1, FromKeyboard(event, d0, d1, o1),
         SameBut(event.key, d0, d1), o0 \subseteq o1
  PROVE  LET v == HandleSequences(HandleShortKeys(t, event, quick), event, gap, lost) IN
         /\ TurnOK(v) /\ \A c \in v.last.shortcut : Current(c, d1, o1)
         /\ KeysTell(v.keys, d1, o1) /\ (~v.erased => ListCurrent(v.filter, v.keys))
         /\ \E taken : Handled(t, v, event, taken, d1, o1)
<1>1. PICK s : s = HandleShortKeys(t, event, quick)
  OBVIOUS
<1>2. PICK v : v = HandleSequences(s, event, gap, lost)
  OBVIOUS
<1>3. TurnOK(t) /\ (~t.erased => ListCurrent(t.filter, t.keys)) /\ KeysTell(t.keys, d0, o0)
  BY DEF HandlerOK
<1>4. /\ TurnOK(s) /\ SameKeys(t, s) /\ Drops(t.table, s.table, {})
      /\ \A c \in s.last.shortcut : IsKeyMatch(c, event) /\ c.trigger = "down"
      /\ s.handled /\ ~t.handled =>
           \E c \in Shortcuts : c.finalKey = event.key /\ c.trigger = event.action
  BY <1>1, <1>3, ShortKeysKeep
<1>5. /\ s.tempSeqs = <<>> /\ ~s.launched /\ ~s.gone /\ s.special = t.special
      /\ ~s.erased => ListCurrent(s.filter, s.keys)
      /\ KeysTell(s.keys, d0, o0)
  BY <1>3, <1>4 DEF SameKeys, Fresh
<1>6. Honest(event, d1, o1)
  BY DEF FromKeyboard, Honest
<1>7. /\ TurnOK(v) /\ v.last = s.last
      /\ KeysTell(v.keys, d1, o1) /\ (~v.erased => ListCurrent(v.filter, v.keys))
      /\ \E taken : Took(s, v, event, taken, d1, o1)
  BY <1>2, <1>4, <1>5, <1>6, SequencesKeep
<1>8. ASSUME NEW c \in v.last.shortcut PROVE Current(c, d1, o1)
  <2>1. c \in Shortcuts
    BY <1>7, <1>8, TurnFields DEF Waiting
  <2>2. IsKeyMatch(c, event) /\ c.trigger = "down"
    BY <1>4, <1>7, <1>8
  <2>3. QED
    BY <2>1, <2>2, OthersAreDown
<1>9. \E taken : Handled(t, v, event, taken, d1, o1)
  <2>1. PICK taken : Took(s, v, event, taken, d1, o1)
    BY <1>7
  <2>2. Drops(t.table, v.table, taken \cap VolumeKeys)
    BY <1>4, <2>1, DropsOn DEF Took
  <2>3. v.handled => s.handled \/ EndsImmediate(event) \/ event.key \in taken
    BY <2>1 DEF Took
  <2>4. s.handled => event.key \in Lone /\ (event.action = "up" => event.key \in Stuck)
    BY <1>4, ShortcutEnds DEF Fresh
  <2>5. EndsImmediate(event) => event.key \in Lone /\ (event.action = "up" => event.key \in Stuck)
    BY SequenceEnds
  <2>6. Handled(t, v, event, taken, d1, o1)
    BY <1>5, <2>1, <2>2, <2>3, <2>4, <2>5 DEF Took, Handled
  <2>7. QED
    BY <2>6
<1>10. QED
  BY <1>1, <1>2, <1>7, <1>8, <1>9

-----------------------------------------------------------------------------
(* An event, when it is known whether it is consumed *)

LEMMA WhatStays ==
  ASSUME NEW d0, NEW o0, NEW repeated, NEW told, NEW t, HandlerOK(t, d0, repeated, o0, told),
         NEW v, TurnOK(v), NEW event, NEW taken, NEW d1, NEW o1,
         Handled(t, v, event, taken, d1, o1), SameBut(event.key, d0, d1), o0 \subseteq o1
  PROVE  /\ \A k \in v.special :
              k \in d1 \cup o1 \cup Stuck \/ (k = event.key /\ k \notin taken)
         /\ \A key \in VolumeKeys \ (o1 \cup Lone) :
              /\ Follows(v.table, key, told[key])
              /\ key \notin taken /\ key \in d0 /\ key \notin v.special =>
                   EndsDown(v.table, key, told[key])
              /\ key \in taken /\ key \in d1 => key \in v.special
<1>1. ASSUME NEW k \in v.special
      PROVE  k \in d1 \cup o1 \cup Stuck \/ (k = event.key /\ k \notin taken)
  <2>1. k \in PowerKeys \cup VolumeKeys
    BY TurnFields
  <2>2. CASE k \in taken
    BY <1>1, <2>1, <2>2 DEF Handled
  <2>3. CASE k \notin taken /\ k # event.key
    <3>1. k \in t.special
      BY <1>1, <2>1, <2>3 DEF Handled
    <3>2. k \in d0 \cup o0 \cup Stuck
      BY <3>1 DEF HandlerOK
    <3>3. QED
      BY <2>3, <3>2 DEF SameBut
  <2>4. QED
    BY <2>2, <2>3
<1>2. ASSUME NEW key \in VolumeKeys \ (o1 \cup Lone)
      PROVE  /\ Follows(v.table, key, told[key])
             /\ key \notin taken /\ key \in d0 /\ key \notin v.special =>
                  EndsDown(v.table, key, told[key])
             /\ key \in taken /\ key \in d1 => key \in v.special
  <2>1. key \in VolumeKeys \ (o0 \cup Lone) /\ key \in PowerKeys \cup VolumeKeys
    OBVIOUS
  <2>2. /\ Follows(t.table, key, told[key])
        /\ key \in d0 /\ key \notin t.special => EndsDown(t.table, key, told[key])
    BY <2>1 DEF HandlerOK, InOrder
  <2>3. Drops(t.table, v.table, taken \cap VolumeKeys)
    BY DEF Handled
  <2>4. Follows(v.table, key, told[key])
    BY <2>2, <2>3, FollowsWithout
  <2>5. ASSUME key \notin taken, key \in d0, key \notin v.special
        PROVE  EndsDown(v.table, key, told[key])
    <3>1. key \notin t.special /\ key \notin taken \cap VolumeKeys
      BY <2>1, <2>5 DEF Handled
    <3>2. SameOwn(t.table, v.table, key)
      BY <2>3, <3>1, OwnAreSame
    <3>3. QED
      BY <2>2, <2>5, <3>1, <3>2, EndsDownStays
  <2>6. key \in taken /\ key \in d1 => key \in v.special
    BY <2>1 DEF Handled
  <2>7. QED
    BY <2>4, <2>5, <2>6
<1>3. QED
  BY <1>1, <1>2

(* What holds of an event from pressed d0, irregular o0 to d1, o1. *)
Heard(t, v, event, d0, o0, d1, repeated, o1, told) ==
  /\ TurnOK(v) /\ \A c \in v.last.shortcut : Current(c, d1, o1)
  /\ KeysTell(v.keys, d1, o1) /\ (~v.erased => ListCurrent(v.filter, v.keys))
  /\ \E taken : Handled(t, v, event, taken, d1, o1)
  /\ \E r : HandlerOK(t, d0, r, o0, told)
  /\ event \in Event /\ FromKeyboard(event, d0, d1, o1) /\ SameBut(event.key, d0, d1)
  /\ o0 \subseteq o1 /\ d1 \subseteq Keys /\ repeated \subseteq d1 /\ o1 \subseteq Keys

LEMMA HeardFacts ==
  ASSUME NEW t, NEW v, NEW event, NEW d0, NEW o0, NEW d1, NEW repeated, NEW o1, NEW told,
         Heard(t, v, event, d0, o0, d1, repeated, o1, told)
  PROVE  /\ TurnOK(v) /\ v \in TurnType /\ event \in Event
         /\ v.special \subseteq PowerKeys \cup VolumeKeys
         /\ told \in [VolumeKeys -> {"down", "up", "stray"}]
         /\ event.key \in o1 \/ (event.action = "down" /\ event.key \in d1)
              \/ (event.action = "up" /\ event.key \in d0 /\ event.key \notin d1)
         /\ \A k : k # event.key => (k \in d0 <=> k \in d1)
BY TurnFields DEF Heard, HandlerOK, FromKeyboard, SameBut

(* The event is consumed. *)
LEMMA IfConsumed ==
  ASSUME NEW t, NEW v, NEW event, NEW d0, NEW o0, NEW d1, NEW repeated, NEW o1, NEW told,
         Heard(t, v, event, d0, o0, d1, repeated, o1, told), v.handled
  PROVE  HandlerOK(v, d1, repeated, o1, told)
<1>1. /\ TurnOK(v) /\ v \in TurnType /\ event \in Event
      /\ told \in [VolumeKeys -> {"down", "up", "stray"}]
      /\ event.key \in o1 \/ (event.action = "down" /\ event.key \in d1)
           \/ (event.action = "up" /\ event.key \in d0 /\ event.key \notin d1)
      /\ \A k : k # event.key => (k \in d0 <=> k \in d1)
  BY HeardFacts
<1>2. PICK taken, r : /\ Handled(t, v, event, taken, d1, o1) /\ HandlerOK(t, d0, r, o0, told)
                      /\ SameBut(event.key, d0, d1) /\ o0 \subseteq o1
  BY DEF Heard
<1>3. /\ \A k \in v.special :
           k \in d1 \cup o1 \cup Stuck \/ (k = event.key /\ k \notin taken)
      /\ \A key \in VolumeKeys \ (o1 \cup Lone) :
           /\ Follows(v.table, key, told[key])
           /\ key \notin taken /\ key \in d0 /\ key \notin v.special =>
                EndsDown(v.table, key, told[key])
           /\ key \in taken /\ key \in d1 => key \in v.special
  BY <1>1, <1>2, WhatStays
<1>4. /\ event.key \in Lone \/ event.key \in taken
      /\ event.action = "up" => event.key \in Stuck \/ event.key \in taken
  BY <1>2 DEF Handled
<1>5. v.special \subseteq d1 \cup o1 \cup Stuck
  BY <1>1, <1>3, <1>4
<1>6. InOrder(v.table, told, v.special, d1, o1)
  <2>1. ASSUME NEW key \in VolumeKeys \ (o1 \cup Lone), key \in d1, key \notin v.special
        PROVE  EndsDown(v.table, key, told[key])
    <3>1. key \notin taken
      BY <1>3, <2>1
    <3>2. key # event.key
      BY <1>4, <2>1, <3>1
    <3>3. QED
      BY <1>1, <1>3, <2>1, <3>1, <3>2
  <2>2. QED
    BY <1>3, <2>1 DEF InOrder
<1>7. QED
  BY <1>1, <1>5, <1>6 DEF Heard, HandlerOK

(* The event is of a key that a launch has taken. *)
LEMMA IfTaken ==
  ASSUME NEW t, NEW v, NEW event, NEW d0, NEW o0, NEW d1, NEW repeated, NEW o1, NEW told,
         Heard(t, v, event, d0, o0, d1, repeated, o1, told), ~v.handled, event.key \in v.special
  PROVE  HandlerOK([v EXCEPT !.special = HandleSpecialKeys(@, event.key, event.action)],
                   d1, repeated, o1, told)
<1>1. /\ TurnOK(v) /\ v \in TurnType /\ event \in Event
      /\ v.special \subseteq PowerKeys \cup VolumeKeys
      /\ told \in [VolumeKeys -> {"down", "up", "stray"}]
      /\ event.key \in o1 \/ (event.action = "down" /\ event.key \in d1)
           \/ (event.action = "up" /\ event.key \in d0 /\ event.key \notin d1)
      /\ \A k : k # event.key => (k \in d0 <=> k \in d1)
  BY HeardFacts
<1>2. PICK taken, r : /\ Handled(t, v, event, taken, d1, o1) /\ HandlerOK(t, d0, r, o0, told)
                      /\ SameBut(event.key, d0, d1) /\ o0 \subseteq o1
  BY DEF Heard
<1>3. /\ \A k \in v.special :
           k \in d1 \cup o1 \cup Stuck \/ (k = event.key /\ k \notin taken)
      /\ \A key \in VolumeKeys \ (o1 \cup Lone) :
           /\ Follows(v.table, key, told[key])
           /\ key \notin taken /\ key \in d0 /\ key \notin v.special =>
                EndsDown(v.table, key, told[key])
  BY <1>1, <1>2, WhatStays
<1>4. taken = {}
  BY <1>2 DEF Handled
<1>5. PICK sp : sp = HandleSpecialKeys(v.special, event.key, event.action)
  OBVIOUS
<1>6. /\ event.action = "up" => sp = v.special \ {event.key}
      /\ event.action # "up" => sp = v.special
  BY <1>5 DEF HandleSpecialKeys
<1>7. PICK w : w = [v EXCEPT !.special = sp]
  OBVIOUS
<1>8. /\ w \in TurnType /\ w.special = sp /\ w.last = v.last /\ w.keys = v.keys
      /\ w.filter = v.filter /\ w.held = v.held /\ w.table = v.table /\ w.erased = v.erased
      /\ w.tempSeqs = v.tempSeqs
  <2>1. sp \in SUBSET (PowerKeys \cup VolumeKeys)
    BY <1>1, <1>6
  <2>2. QED
    BY <1>1, <1>7, <2>1 DEF TurnType
<1>9. TurnOK(w)
  BY <1>1, <1>8 DEF TurnOK
<1>10. sp \subseteq d1 \cup o1 \cup Stuck
  BY <1>1, <1>3, <1>6
<1>11. InOrder(v.table, told, sp, d1, o1)
  <2>1. ASSUME NEW key \in VolumeKeys \ (o1 \cup Lone), key \in d1, key \notin sp
        PROVE  EndsDown(v.table, key, told[key])
    <3>1. key # event.key
      BY <1>1, <1>6, <2>1
    <3>2. key \in d0 /\ key \notin v.special
      BY <1>1, <1>6, <2>1, <3>1
    <3>3. QED
      BY <1>3, <1>4, <2>1, <3>2
  <2>2. QED
    BY <1>3, <2>1 DEF InOrder
<1>12. HandlerOK(w, d1, repeated, o1, told)
  BY <1>1, <1>8, <1>9, <1>10, <1>11 DEF Heard, HandlerOK
<1>13. QED
  BY <1>5, <1>7, <1>12

(* The event goes to the subscribers, and is of no volume key that is
   reckoned with. *)
LEMMA IfToldNow ==
  ASSUME NEW t, NEW v, NEW event, NEW d0, NEW o0, NEW d1, NEW repeated, NEW o1, NEW told,
         Heard(t, v, event, d0, o0, d1, repeated, o1, told), ~v.handled, event.key \notin v.special,
         event.key \in VolumeKeys => event.key \in o1,
         NEW now \in [VolumeKeys -> {"down", "up", "stray"}],
         \A key \in VolumeKeys : key # event.key => now[key] = told[key]
  PROVE  HandlerOK(v, d1, repeated, o1, now)
<1>1. /\ TurnOK(v) /\ event \in Event
      /\ \A k : k # event.key => (k \in d0 <=> k \in d1)
  BY HeardFacts
<1>2. PICK taken, r : /\ Handled(t, v, event, taken, d1, o1) /\ HandlerOK(t, d0, r, o0, told)
                      /\ SameBut(event.key, d0, d1) /\ o0 \subseteq o1
  BY DEF Heard
<1>3. /\ \A k \in v.special :
           k \in d1 \cup o1 \cup Stuck \/ (k = event.key /\ k \notin taken)
      /\ \A key \in VolumeKeys \ (o1 \cup Lone) :
           /\ Follows(v.table, key, told[key])
           /\ key \notin taken /\ key \in d0 /\ key \notin v.special =>
                EndsDown(v.table, key, told[key])
  BY <1>1, <1>2, WhatStays
<1>4. taken = {}
  BY <1>2 DEF Handled
<1>5. v.special \subseteq d1 \cup o1 \cup Stuck
  BY <1>3
<1>6. InOrder(v.table, now, v.special, d1, o1)
  <2>1. ASSUME NEW key \in VolumeKeys \ (o1 \cup Lone)
        PROVE  /\ Follows(v.table, key, now[key])
               /\ key \in d1 /\ key \notin v.special => EndsDown(v.table, key, now[key])
    <3>1. key # event.key /\ now[key] = told[key]
      BY <2>1
    <3>2. QED
      BY <1>1, <1>3, <1>4, <2>1, <3>1
  <2>2. QED
    BY <2>1 DEF InOrder
<1>7. QED
  BY <1>1, <1>5, <1>6 DEF Heard, HandlerOK

LEMMA ListsAppend ==
  ASSUME NEW table, TableOK(table), NEW e \in Timer, \A x \in Rows(table) : x.id # e.id,
         NEW key, IsOwn(e.owner, key), NEW ids \in Seq(TimerId), Lists(ids, table, key)
  PROVE  Lists(Append(ids, e.id), Append(table, e), key)
<1>1. PICK a, l, n : a = Append(table, e) /\ l = Append(ids, e.id) /\ n = Len(ids)
  OBVIOUS
<1>2. /\ TableOK(a)
      /\ \A x : x \in Rows(a) <=> x \in Rows(table) \/ x = e
      /\ \A x, y : Before(a, x, y) <=> Before(table, x, y) \/ (x \in Rows(table) /\ y = e)
  BY <1>1, TableAppend
<1>3. e.id \in TimerId
  BY DEF Timer
<1>4. /\ n \in Nat /\ DOMAIN ids = 1..n /\ DOMAIN l = 1..n + 1
      /\ \A i \in 1..n : l[i] = ids[i]
      /\ l[n + 1] = e.id
  BY <1>1, <1>3, AppendFacts, SeqFacts
<1>5. \A i \in 1..n + 1 : (i \in 1..n /\ i < n + 1) \/ i = n + 1
  BY <1>4
<1>6. n + 1 \in 1..n + 1 /\ \A i \in 1..n : i \in 1..n + 1
  BY <1>4
<1>7. e \notin Rows(table) /\ \A x : ~Before(table, e, x) /\ ~Before(table, x, e)
  BY RowFacts
<1>8. ASSUME NEW x \in Rows(a), IsOwn(x.owner, key) PROVE \E m \in 1..n + 1 : l[m] = x.id
  BY <1>2, <1>4, <1>6, <1>8 DEF Lists
<1>9. ASSUME NEW m \in 1..n + 1 PROVE \E x \in Rows(a) : IsOwn(x.owner, key) /\ x.id = l[m]
  BY <1>2, <1>4, <1>5 DEF Lists
<1>10. ASSUME NEW m \in 1..n + 1, NEW x \in Rows(a), x.id = l[m]
       PROVE  IF m = n + 1 THEN x = e ELSE x \in Rows(table) /\ x # e
  <2>1. CASE m = n + 1
    <3>1. e \in Rows(a) /\ x.id = e.id
      BY <1>2, <1>4, <1>10, <2>1
    <3>2. QED
      BY <1>2, <2>1, <3>1, RowFacts
  <2>2. CASE m # n + 1
    <3>1. m \in DOMAIN ids /\ x.id = ids[m]
      BY <1>4, <1>5, <1>10, <2>2
    <3>2. PICK y \in Rows(table) : y.id = ids[m]
      BY <3>1 DEF Lists
    <3>3. y \in Rows(a) /\ x.id = y.id
      BY <1>2, <3>1, <3>2
    <3>4. x = y
      BY <1>2, <3>3, RowFacts
    <3>5. QED
      BY <1>7, <2>2, <3>4
  <2>3. QED
    BY <2>1, <2>2
<1>11. ASSUME NEW m \in 1..n + 1, NEW k \in 1..n + 1, NEW x \in Rows(a), NEW y \in Rows(a),
              x.id = l[m], y.id = l[k]
       PROVE  m < k <=> Before(a, x, y)
  <2>1. /\ IF m = n + 1 THEN x = e ELSE x \in Rows(table) /\ x # e
        /\ IF k = n + 1 THEN y = e ELSE y \in Rows(table) /\ y # e
    BY <1>10, <1>11
  <2>2. CASE m # n + 1 /\ k # n + 1
    <3>1. m \in 1..n /\ k \in 1..n /\ x \in Rows(table) /\ y \in Rows(table) /\ y # e
      BY <1>5, <2>1, <2>2
    <3>2. x.id = ids[m] /\ y.id = ids[k]
      BY <1>4, <1>11, <3>1
    <3>3. m < k <=> Before(table, x, y)
      BY <1>4, <3>1, <3>2 DEF Lists
    <3>4. QED
      BY <1>2, <3>1, <3>3
  <2>3. CASE m # n + 1 /\ k = n + 1
    <3>1. m < k /\ x \in Rows(table) /\ y = e
      BY <1>5, <2>1, <2>3
    <3>2. QED
      BY <1>2, <3>1
  <2>4. CASE m = n + 1
    <3>1. ~(m < k) /\ x = e
      BY <1>4, <1>5, <2>1, <2>4
    <3>2. ~Before(a, x, y)
      BY <1>2, <1>7, <3>1
    <3>3. QED
      BY <3>1, <3>2
  <2>5. QED
    BY <2>2, <2>3, <2>4
<1>12. Lists(l, a, key)
  BY <1>4, <1>8, <1>9, <1>11 DEF Lists
<1>13. QED
  BY <1>1, <1>12

(* The event is held back. *)
LEMMA IfHeldBack ==
  ASSUME NEW t, NEW v, NEW event, NEW d0, NEW o0, NEW d1, NEW repeated, NEW o1, NEW told,
         Heard(t, v, event, d0, o0, d1, repeated, o1, told), ~v.handled, event.key \notin v.special,
         event.key \in VolumeKeys, NewTimerId(v.table) # NoTimer
  PROVE  HandlerOK(HoldBack(v, event), d1, repeated, o1, told)
<1>1. /\ TurnOK(v) /\ v \in TurnType /\ event \in Event
      /\ told \in [VolumeKeys -> {"down", "up", "stray"}]
      /\ event.key \in o1 \/ (event.action = "down" /\ event.key \in d1)
           \/ (event.action = "up" /\ event.key \in d0 /\ event.key \notin d1)
      /\ \A k : k # event.key => (k \in d0 <=> k \in d1)
  BY HeardFacts
<1>2. PICK taken, r0 : /\ Handled(t, v, event, taken, d1, o1) /\ HandlerOK(t, d0, r0, o0, told)
                       /\ SameBut(event.key, d0, d1) /\ o0 \subseteq o1
  BY DEF Heard
<1>3. /\ \A k \in v.special :
           k \in d1 \cup o1 \cup Stuck \/ (k = event.key /\ k \notin taken)
      /\ \A key \in VolumeKeys \ (o1 \cup Lone) :
           /\ Follows(v.table, key, told[key])
           /\ key \notin taken /\ key \in d0 /\ key \notin v.special =>
                EndsDown(v.table, key, told[key])
  BY <1>1, <1>2, WhatStays
<1>4. taken = {}
  BY <1>2 DEF Handled
<1>5. PICK id, e, r : /\ id = NewTimerId(v.table) /\ e = [id |-> id, owner |-> SpecialTimer(event)]
                      /\ r = Append(v.table, e)
  OBVIOUS
<1>6. id \in TimerId /\ \A x \in Rows(v.table) : x.id # id
  BY <1>5, FreshTimerId
<1>7. /\ e \in Timer /\ e.id = id /\ e.owner.kind = "special"
      /\ e.owner.key = event.key /\ e.owner.action = event.action
  BY <1>1, <1>5, <1>6, SpecialRow
<1>8. /\ TableOK(v.table) /\ LastOK(v.last, v.table) /\ ListOK(v.filter, v.table)
      /\ ListOK(v.tempSeqs, v.table) /\ HeldOK(v.held, v.table)
      /\ v.held \in [VolumeKeys -> Seq(TimerId)] /\ Len(v.keys) <= MaxSequenceKeys + 1
  BY <1>1, TurnFields
<1>9. /\ TableOK(r)
      /\ \A x : x \in Rows(r) <=> x \in Rows(v.table) \/ x = e
      /\ \A x, y : Before(r, x, y) <=> Before(v.table, x, y) \/ (x \in Rows(v.table) /\ y = e)
  BY <1>5, <1>6, <1>7, <1>8, TableAppend
<1>10. ASSUME NEW key, key # event.key PROVE SameOwn(v.table, r, key)
  <2>1. ~IsOwn(e.owner, key)
    BY <1>7, <1>10 DEF IsOwn
  <2>2. QED
    BY <1>9, <2>1 DEF SameOwn
<1>11. PICK h : h = [v.held EXCEPT ![event.key] = Append(@, id)]
  OBVIOUS
<1>12. /\ h \in [VolumeKeys -> Seq(TimerId)] /\ h[event.key] = Append(v.held[event.key], id)
       /\ \A key \in VolumeKeys : key # event.key => h[key] = v.held[key]
       /\ v.held[event.key] \in Seq(TimerId)
  <2>1. v.held[event.key] \in Seq(TimerId)
    BY <1>8
  <2>2. Append(v.held[event.key], id) \in Seq(TimerId)
    BY <1>6, <2>1, AppendFacts
  <2>3. QED
    BY <1>8, <1>11, <2>1, <2>2
<1>13. HeldOK(h, r)
  <2>1. ASSUME NEW key \in VolumeKeys PROVE Lists(h[key], r, key)
    <3>1. Lists(v.held[key], v.table, key)
      BY <1>8 DEF HeldOK
    <3>2. CASE key = event.key
      <4>1. IsOwn(e.owner, key)
        BY <1>7, <3>2 DEF IsOwn
      <4>2. \A x \in Rows(v.table) : x.id # e.id
        BY <1>6, <1>7
      <4>3. v.held[key] \in Seq(TimerId) /\ h[key] = Append(v.held[key], e.id)
        BY <1>7, <1>12, <3>2
      <4>4. Lists(Append(v.held[key], e.id), Append(v.table, e), key)
        BY <1>7, <1>8, <3>1, <4>1, <4>2, <4>3, ListsAppend
      <4>5. QED
        BY <1>5, <4>3, <4>4
    <3>3. CASE key # event.key
      <4>1. h[key] = v.held[key]
        BY <1>12, <3>3
      <4>2. QED
        BY <1>8, <1>9, <1>10, <3>1, <3>3, <4>1, ListsStay
    <3>4. QED
      BY <3>2, <3>3
  <2>2. QED
    BY <2>1 DEF HeldOK
<1>14. ListOK(v.filter, r) /\ ListOK(v.tempSeqs, r)
  BY <1>8, <1>9, ListStays
<1>15. LastOK(v.last, r)
  BY <1>7, <1>8, <1>9 DEF LastOK
<1>16. PICK w : w = HoldBack(v, event)
  OBVIOUS
<1>17. /\ w \in TurnType /\ w.table = r /\ w.held = h /\ w.special = v.special
       /\ w.last = v.last /\ w.keys = v.keys /\ w.filter = v.filter /\ w.erased = v.erased
       /\ w.tempSeqs = v.tempSeqs
  <2>1. w = [v EXCEPT !.table = r, !.held = h]
    BY <1>5, <1>11, <1>16 DEF HoldBack
  <2>2. r \in Seq(Timer)
    BY <1>9 DEF TableOK
  <2>3. QED
    BY <1>1, <1>12, <2>1, <2>2 DEF TurnType
<1>18. TurnOK(w)
  BY <1>8, <1>9, <1>13, <1>14, <1>15, <1>17 DEF TurnOK
<1>19. v.special \subseteq d1 \cup o1 \cup Stuck
  BY <1>3
<1>20. InOrder(r, told, v.special, d1, o1)
  <2>1. ASSUME NEW key \in VolumeKeys \ (o1 \cup Lone)
        PROVE  /\ Follows(r, key, told[key])
               /\ key \in d1 /\ key \notin v.special => EndsDown(r, key, told[key])
    <3>1. /\ Follows(v.table, key, told[key])
          /\ key \in d0 /\ key \notin v.special => EndsDown(v.table, key, told[key])
      BY <1>3, <1>4, <2>1
    <3>2. CASE key # event.key
      <4>1. SameOwn(v.table, r, key)
        BY <1>10, <3>2
      <4>2. key \in d0 <=> key \in d1
        BY <1>1, <3>2
      <4>3. QED
        BY <3>1, <4>1, <4>2, FollowsStays, EndsDownStays
    <3>3. CASE key = event.key
      <4>1. IsOwn(e.owner, key)
        BY <1>7, <3>3 DEF IsOwn
      <4>2. \A x \in Rows(v.table) : x.id # e.id
        BY <1>6, <1>7
      <4>3. e.owner.action = "up" => EndsDown(v.table, key, told[key])
        BY <1>1, <1>7, <2>1, <3>1, <3>3
      <4>4. key \in d1 => e.owner.action = "down"
        BY <1>1, <1>7, <2>1, <3>3
      <4>5. /\ Follows(Append(v.table, e), key, told[key])
            /\ e.owner.action = "down" => EndsDown(Append(v.table, e), key, told[key])
        BY <1>7, <1>8, <3>1, <4>1, <4>2, <4>3, HeldAtTheEnd
      <4>6. QED
        BY <1>5, <4>4, <4>5
    <3>4. QED
      BY <3>2, <3>3
  <2>2. QED
    BY <2>1 DEF InOrder
<1>21. HandlerOK(w, d1, repeated, o1, told)
  BY <1>1, <1>17, <1>18, <1>19, <1>20 DEF Heard, HandlerOK
<1>22. QED
  BY <1>16, <1>21

-----------------------------------------------------------------------------
(* The members at the end of a turn are those of the next one. *)

TurnOf(last, ks, list, special, held, table, gone) ==
  [last |-> last, keys |-> ks, filter |-> list, special |-> special, held |-> held,
   table |-> table, erased |-> gone, handled |-> FALSE,
   tempSeqs |-> <<>>, launched |-> FALSE, gone |-> FALSE]

LEMMA TurnIs ==
  Turn = TurnOf(lastMatchedKey, keys, filterSequences, specialKeys, specialTimers, timers, erased)
BY DEF Turn, TurnOf

LEMMA TurnOfFacts ==
  ASSUME NEW last, NEW ks, NEW list, NEW special, NEW held, NEW table, NEW gone
  PROVE  LET t == TurnOf(last, ks, list, special, held, table, gone) IN
         /\ t.last = last /\ t.keys = ks /\ t.filter = list /\ t.special = special
         /\ t.held = held /\ t.table = table /\ t.erased = gone /\ Fresh(t)
BY DEF TurnOf, Fresh

LEMMA TurnOfOK ==
  ASSUME NEW last \in Waiting, NEW ks \in Seq(Struck), NEW list \in Seq(Entries),
         NEW special \in SUBSET (PowerKeys \cup VolumeKeys), NEW held \in [VolumeKeys -> Seq(TimerId)],
         NEW table, TableOK(table), NEW gone \in BOOLEAN,
         Len(ks) <= MaxSequenceKeys + 1, LastOK(last, table), ListOK(list, table),
         HeldOK(held, table)
  PROVE  TurnOK(TurnOf(last, ks, list, special, held, table, gone))
<1>1. PICK t : t = TurnOf(last, ks, list, special, held, table, gone)
  OBVIOUS
<1>2. /\ t.last = last /\ t.keys = ks /\ t.filter = list /\ t.special = special
      /\ t.held = held /\ t.table = table /\ t.erased = gone /\ t.tempSeqs = <<>>
  BY <1>1 DEF TurnOf
<1>3. t \in TurnType
  <2>1. table \in Seq(Timer) /\ <<>> \in Seq(Entries)
    BY DEF TableOK
  <2>2. QED
    BY <1>1, <2>1 DEF TurnOf, TurnType
<1>4. ListOK(<<>>, table)
  BY EmptyList
<1>5. QED
  BY <1>1, <1>2, <1>3, <1>4 DEF TurnOK

LEMMA NextTurnOK ==
  ASSUME NEW w, NEW down, NEW repeated, NEW odd, NEW told, HandlerOK(w, down, repeated, odd, told)
  PROVE  HandlerOK(TurnOf(w.last, w.keys, w.filter, w.special, w.held, w.table, w.erased),
                   down, repeated, odd, told)
<1>1. TurnOK(w)
  BY DEF HandlerOK
<1>2. PICK t : t = TurnOf(w.last, w.keys, w.filter, w.special, w.held, w.table, w.erased)
  OBVIOUS
<1>3. TurnOK(t)
  BY <1>1, <1>2, TurnFields, TurnOfOK
<1>4. /\ t.last = w.last /\ t.keys = w.keys /\ t.filter = w.filter /\ t.special = w.special
      /\ t.table = w.table /\ t.erased = w.erased
  BY <1>2, TurnOfFacts
<1>5. HandlerOK(t, down, repeated, odd, told)
  BY <1>3, <1>4 DEF HandlerOK
<1>6. QED
  BY <1>2, <1>5

LEMMA TurnEnds ==
  ASSUME NEW w, EndTurn(w), HandlerOK(w, pressed', repeating', irregular', seen')
  PROVE  CommandInv'
<1>1. Turn' = TurnOf(w.last, w.keys, w.filter, w.special, w.held, w.table, w.erased)
  BY DEF EndTurn, Turn, TurnOf
<1>2. HandlerOK(Turn', pressed', repeating', irregular', seen')
  BY <1>1, NextTurnOK
<1>3. QED
  BY <1>2 DEF CommandInv

-----------------------------------------------------------------------------
(* Events *)

LEMMA ToldIs ==
  ASSUME NEW event, seen \in [VolumeKeys -> {"down", "up", "stray"}], event.action \in Action
  PROVE  /\ Told(event) \in [VolumeKeys -> {"down", "up", "stray"}]
         /\ \A key \in VolumeKeys :
              Told(event)[key] = IF key = event.key THEN Now(seen[key], event.action) ELSE seen[key]
<1>1. CASE event.key \notin VolumeKeys \/ event.action = "cancel"
  <2>1. Told(event) = seen
    BY <1>1 DEF Told
  <2>2. QED
    BY <1>1, <2>1 DEF Now
<1>2. CASE event.key \in VolumeKeys /\ event.action = "down"
  <2>1. Told(event) = [seen EXCEPT ![event.key] = "down"]
    BY <1>2 DEF Told
  <2>2. QED
    BY <1>2, <2>1 DEF Now
<1>3. CASE event.key \in VolumeKeys /\ event.action = "up"
  <2>1. Told(event) = [seen EXCEPT ![event.key] = IF @ = "down" THEN "up" ELSE "stray"]
    BY <1>3 DEF Told
  <2>2. QED
    BY <1>3, <2>1 DEF Now
<1>4. QED
  BY <1>1, <1>2, <1>3 DEF Action

LEMMA EventKeeps ==
  ASSUME CommandInv, NEW event \in Event, NEW gaps \in SUBSET GapKinds, NEW odd \in SUBSET Keys,
         OnHandleEvent(event, gaps, odd),
         FromKeyboard(event, pressed, pressed', odd), SameBut(event.key, pressed, pressed'),
         pressed' \subseteq Keys, repeating' \subseteq pressed'
  PROVE  CommandInv'
<1>1. PICK quick, s :
        /\ quick \in Quick(event) /\ s = HandleShortKeys(Turn, event, quick)
        /\ \E turn \in {HandleSequences(s, event, gap, lost) : gap \in gaps, lost \in Lost(event)} :
             Consume(turn, event, odd)
  BY DEF OnHandleEvent
<1>2. PICK gap, lost, v :
        /\ gap \in gaps /\ lost \in Lost(event)
        /\ v = HandleSequences(s, event, gap, lost) /\ Consume(v, event, odd)
  BY <1>1
<1>3. quick \in BOOLEAN /\ lost \in BOOLEAN /\ gap \in GapKinds
  <2>1. Quick(event) \subseteq BOOLEAN /\ Lost(event) \subseteq BOOLEAN
    BY DEF Quick, Lost
  <2>2. QED
    BY <1>1, <1>2, <2>1
<1>4. HandlerOK(Turn, pressed, repeating, irregular, seen)
  BY DEF CommandInv
<1>5. Fresh(Turn)
  BY TurnIs, TurnOfFacts
<1>6. irregular \subseteq Keys /\ seen \in [VolumeKeys -> {"down", "up", "stray"}] /\ event.key \in Keys
      /\ event.action \in Action
  BY <1>4 DEF HandlerOK, Event
<1>7. ASSUME NEW o1 \in SUBSET Keys, irregular \cup odd \subseteq o1
      PROVE  Heard(Turn, v, event, pressed, irregular, pressed', repeating', o1, seen)
  <2>1. FromKeyboard(event, pressed, pressed', o1) /\ irregular \subseteq o1
    BY <1>7 DEF FromKeyboard
  <2>2. /\ TurnOK(v) /\ \A c \in v.last.shortcut : Current(c, pressed', o1)
        /\ KeysTell(v.keys, pressed', o1) /\ (~v.erased => ListCurrent(v.filter, v.keys))
        /\ \E taken : Handled(Turn, v, event, taken, pressed', o1)
    BY <1>1, <1>2, <1>3, <1>4, <1>5, <2>1, EventIsHandled
  <2>3. QED
    BY <1>4, <1>7, <2>1, <2>2 DEF Heard
<1>8. CASE v.handled \/ event.key \in v.special
  <2>1. /\ irregular' = irregular \cup odd /\ seen' = seen
        /\ EndTurn(IF v.handled THEN v
                   ELSE [v EXCEPT !.special = HandleSpecialKeys(@, event.key, event.action)])
    BY <1>2, <1>8 DEF Consume
  <2>2. Heard(Turn, v, event, pressed, irregular, pressed', repeating', irregular', seen)
    BY <1>6, <1>7, <2>1
  <2>3. CASE v.handled
    <3>1. HandlerOK(v, pressed', repeating', irregular', seen)
      BY <2>2, <2>3, IfConsumed
    <3>2. QED
      BY <2>1, <2>3, <3>1, TurnEnds
  <2>4. CASE ~v.handled
    <3>1. PICK w : w = [v EXCEPT !.special = HandleSpecialKeys(@, event.key, event.action)]
      OBVIOUS
    <3>2. HandlerOK(w, pressed', repeating', irregular', seen)
      BY <1>8, <2>2, <2>4, <3>1, IfTaken
    <3>3. EndTurn(w)
      BY <2>1, <2>4, <3>1
    <3>4. QED
      BY <2>1, <3>2, <3>3, TurnEnds
  <2>5. QED
    BY <2>3, <2>4
<1>9. CASE /\ ~(v.handled \/ event.key \in v.special)
           /\ IsHeldBack(event) /\ NewTimerId(v.table) # NoTimer
  <2>1. irregular' = irregular \cup odd /\ seen' = seen /\ EndTurn(HoldBack(v, event))
    BY <1>2, <1>9 DEF Consume
  <2>2. Heard(Turn, v, event, pressed, irregular, pressed', repeating', irregular', seen)
    BY <1>6, <1>7, <2>1
  <2>3. HandlerOK(HoldBack(v, event), pressed', repeating', irregular', seen)
    BY <1>9, <2>2, IfHeldBack DEF IsHeldBack
  <2>4. QED
    BY <2>1, <2>3, TurnEnds
<1>10. CASE /\ ~(v.handled \/ event.key \in v.special)
            /\ ~(IsHeldBack(event) /\ NewTimerId(v.table) # NoTimer)
  <2>1. PICK toldNow \in BOOLEAN : toldNow = (IsHeldBack(event) /\ NewTimerId(v.table) = NoTimer)
    OBVIOUS
  <2>2. /\ irregular' = irregular \cup odd \cup IF toldNow THEN {event.key} ELSE {}
        /\ seen' = Told(event) /\ EndTurn(v)
    BY <1>2, <1>10, <2>1 DEF Consume
  <2>3. irregular' \subseteq Keys /\ irregular \cup odd \subseteq irregular'
    BY <1>6, <2>2
  <2>4. Heard(Turn, v, event, pressed, irregular, pressed', repeating', irregular', seen)
    BY <1>7, <2>3
  <2>5. event.key \in VolumeKeys => event.key \in irregular'
    BY <1>10, <2>1, <2>2 DEF IsHeldBack
  <2>6. /\ seen' \in [VolumeKeys -> {"down", "up", "stray"}]
        /\ \A key \in VolumeKeys : key # event.key => seen'[key] = seen[key]
    BY <1>6, <2>2, ToldIs
  <2>7. HandlerOK(v, pressed', repeating', irregular', seen')
    BY <1>10, <2>4, <2>5, <2>6, IfToldNow
  <2>8. QED
    BY <2>2, <2>7, TurnEnds
<1>11. QED
  BY <1>8, <1>9, <1>10

(* A key of which an event did not reach the handler is left out. *)
LEMMA LeftOut ==
  ASSUME NEW t, NEW d0, NEW r, NEW o0, NEW told, HandlerOK(t, d0, r, o0, told),
         NEW key \in Keys, NEW d1 \in SUBSET Keys, SameBut(key, d0, d1), NEW r1 \in SUBSET d1
  PROVE  HandlerOK(t, d1, r1, o0 \cup {key}, told)
<1>1. PICK o1 : o1 = o0 \cup {key}
  OBVIOUS
<1>2. /\ TurnOK(t) /\ o0 \subseteq Keys
      /\ \A c \in t.last.shortcut : Current(c, d0, o0)
      /\ KeysTell(t.keys, d0, o0) /\ t.special \subseteq d0 \cup o0 \cup Stuck
      /\ InOrder(t.table, told, t.special, d0, o0)
  BY DEF HandlerOK
<1>3. \A k : k \notin o1 => k # key /\ k \notin o0 /\ (k \in d0 <=> k \in d1)
  BY <1>1 DEF SameBut
<1>4. ASSUME NEW c \in t.last.shortcut PROVE Current(c, d1, o1)
  <2>1. PICK chord : chord = c.preKeys \cup {c.finalKey}
    OBVIOUS
  <2>2. c.finalKey \in o0 \/ (d0 \ chord) \cup (chord \ d0) \subseteq o0
    BY <1>2, <2>1 DEF Current
  <2>3. c.finalKey \in o1 \/ (d1 \ chord) \cup (chord \ d1) \subseteq o1
    BY <1>1, <1>3, <2>2
  <2>4. QED
    BY <2>1, <2>3 DEF Current
<1>5. KeysTell(t.keys, d1, o1)
  BY <1>2, <1>3 DEF KeysTell
<1>6. t.special \subseteq d1 \cup o1 \cup Stuck
  BY <1>1, <1>2, <1>3
<1>7. InOrder(t.table, told, t.special, d1, o1)
  BY <1>2, <1>3 DEF InOrder
<1>8. QED
  BY <1>1, <1>2, <1>4, <1>5, <1>6, <1>7 DEF HandlerOK

LEMMA ChainKeeps ==
  ASSUME CommandInv, NEW event \in Event, NEW gaps \in SUBSET GapKinds, Chain(event, gaps),
         FromKeyboard(event, pressed, pressed', {}), SameBut(event.key, pressed, pressed'),
         pressed' \subseteq Keys, repeating' \subseteq pressed'
  PROVE  CommandInv'
<1>1. CASE OnHandleEvent(event, gaps, {})
  BY <1>1, EventKeeps
<1>2. CASE /\ irregular' = irregular \cup {event.key}
           /\ UNCHANGED <<handlerVars, seen>>
  <2>1. HandlerOK(Turn, pressed, repeating, irregular, seen)
    BY DEF CommandInv
  <2>2. event.key \in Keys
    BY DEF Event
  <2>3. HandlerOK(Turn, pressed', repeating', irregular \cup {event.key}, seen)
    BY <2>1, <2>2, LeftOut
  <2>4. Turn' = Turn /\ seen' = seen
    BY <1>2 DEF Turn, handlerVars
  <2>5. HandlerOK(Turn', pressed', repeating', irregular', seen')
    BY <1>2, <2>3, <2>4
  <2>6. QED
    BY <2>5 DEF CommandInv
<1>3. QED
  BY <1>1, <1>2 DEF Chain

LEMMA GapsAreKinds == Gaps \in SUBSET GapKinds /\ GapsOfRepetition \in SUBSET GapKinds
BY DEF Gaps, GapsOfRepetition, GapKinds

LEMMA Keyboard ==
  ASSUME CommandInv
  PROVE  pressed \subseteq Keys /\ repeating \subseteq pressed
BY DEF CommandInv, HandlerOK

LEMMA KeyDownKeeps ==
  ASSUME CommandInv, NEW key \in Keys, KeyDown(key)
  PROVE  CommandInv'
<1>1. PICK event : event = [action |-> "down", key |-> key, others |-> pressed]
  OBVIOUS
<1>2. /\ pressed' = pressed \cup {key} /\ repeating' = {key} /\ key \notin pressed
      /\ Chain(event, Gaps)
  BY <1>1 DEF KeyDown
<1>3. event \in Event /\ event.key = key /\ event.action = "down" /\ event.others = pressed
  BY <1>1, Keyboard DEF Event, Action
<1>4. FromKeyboard(event, pressed, pressed', {}) /\ SameBut(event.key, pressed, pressed')
  BY <1>2, <1>3 DEF FromKeyboard, SameBut
<1>5. QED
  BY <1>2, <1>3, <1>4, Keyboard, GapsAreKinds, ChainKeeps

LEMMA KeyUpKeeps ==
  ASSUME CommandInv, NEW key \in Keys, KeyUp(key)
  PROVE  CommandInv'
<1>1. PICK event : event = [action |-> "up", key |-> key, others |-> pressed \ {key}]
  OBVIOUS
<1>2. /\ pressed' = pressed \ {key} /\ repeating' = repeating \ {key} /\ key \in pressed
      /\ Chain(event, Gaps)
  BY <1>1 DEF KeyUp
<1>3. event \in Event /\ event.key = key /\ event.action = "up" /\ event.others = pressed \ {key}
  BY <1>1, Keyboard DEF Event, Action
<1>4. FromKeyboard(event, pressed, pressed', {}) /\ SameBut(event.key, pressed, pressed')
  BY <1>2, <1>3 DEF FromKeyboard, SameBut
<1>5. QED
  BY <1>2, <1>3, <1>4, Keyboard, GapsAreKinds, ChainKeeps

LEMMA KeyRepeatsKeeps ==
  ASSUME CommandInv, NEW key \in Keys, KeyRepeats(key)
  PROVE  CommandInv'
<1>1. PICK event : event = [action |-> "down", key |-> key, others |-> pressed \ {key}]
  OBVIOUS
<1>2. /\ pressed' = pressed /\ repeating' = repeating /\ key \in pressed
      /\ Chain(event, GapsOfRepetition)
  BY <1>1, Keyboard DEF KeyRepeats
<1>3. event \in Event /\ event.key = key /\ event.action = "down" /\ event.others = pressed \ {key}
  BY <1>1, Keyboard DEF Event, Action
<1>4. FromKeyboard(event, pressed, pressed', {}) /\ SameBut(event.key, pressed, pressed')
  BY <1>2, <1>3 DEF FromKeyboard, SameBut
<1>5. QED
  BY <1>2, <1>3, <1>4, Keyboard, GapsAreKinds, ChainKeeps

LEMMA InjectKeeps ==
  ASSUME CommandInv, NEW injected \in Injected, InjectKeyEvent(injected)
  PROVE  CommandInv'
<1>1. PICK event : event = [action |-> injected.action, key |-> injected.key, others |-> {}]
  OBVIOUS
<1>2. injected.key \in Keys /\ injected.action \in Action
  BY KeyCommandAssumption
<1>3. /\ pressed' = pressed /\ repeating' = repeating
      /\ OnHandleEvent(event, Gaps, {injected.key})
  BY <1>1 DEF InjectKeyEvent
<1>4. event \in Event /\ event.key = injected.key
  BY <1>1, <1>2 DEF Event
<1>5. FromKeyboard(event, pressed, pressed', {injected.key}) /\ SameBut(event.key, pressed, pressed')
  BY <1>3, <1>4 DEF FromKeyboard, SameBut
<1>6. QED
  BY <1>2, <1>3, <1>4, <1>5, Keyboard, GapsAreKinds, EventKeeps

-----------------------------------------------------------------------------
(* Timers *)

LEMMA SameInOrder ==
  ASSUME NEW table, NEW r, \A key \in VolumeKeys : SameOwn(table, r, key),
         NEW told, NEW special, NEW down, NEW odd, InOrder(table, told, special, down, odd)
  PROVE  InOrder(r, told, special, down, odd)
<1>1. ASSUME NEW key \in VolumeKeys \ (odd \cup Lone)
      PROVE  /\ Follows(r, key, told[key])
             /\ key \in down /\ key \notin special => EndsDown(r, key, told[key])
  <2>1. /\ Follows(table, key, told[key])
        /\ key \in down /\ key \notin special => EndsDown(table, key, told[key])
    BY DEF InOrder
  <2>2. SameOwn(table, r, key)
    OBVIOUS
  <2>3. QED
    BY <2>1, <2>2, FollowsStays, EndsDownStays
<1>2. QED
  BY <1>1 DEF InOrder

LEMMA OtherRuns ==
  ASSUME NEW table, TableOK(table), NEW i \in DOMAIN table, table[i].owner.kind # "special"
  PROVE  /\ TableOK(RemoveAt(table, i)) /\ Drops(table, RemoveAt(table, i), {})
         /\ \A key \in VolumeKeys : SameOwn(table, RemoveAt(table, i), key)
         /\ \A x : x \in Rows(RemoveAt(table, i)) <=> x \in Rows(table) /\ x # table[i]
         /\ table[i] \in Rows(table)
<1>1. PICK r : r = RemoveAt(table, i)
  OBVIOUS
<1>2. /\ TableOK(r) /\ table[i] \in Rows(table)
      /\ \A x : x \in Rows(r) <=> x \in Rows(table) /\ x # table[i]
      /\ \A x, y : Before(r, x, y) <=> Before(table, x, y) /\ x \in Rows(r) /\ y \in Rows(r)
  BY <1>1, TableRemove
<1>3. Drops(table, r, {})
  BY <1>2 DEF Drops, Special
<1>4. \A key \in VolumeKeys : SameOwn(table, r, key)
  BY <1>3, OwnAreSame
<1>5. QED
  BY <1>1, <1>2, <1>3, <1>4

LEMMA ShortcutTimerKeeps ==
  ASSUME CommandInv, NEW i \in DOMAIN timers, ShortcutTimerRuns(i)
  PROVE  CommandInv'
<1>1. PICK t, r : t = Turn /\ r = RemoveAt(timers, i)
  OBVIOUS
<1>2. /\ t.last = lastMatchedKey /\ t.keys = keys /\ t.filter = filterSequences
      /\ t.special = specialKeys /\ t.held = specialTimers /\ t.table = timers /\ t.erased = erased
  BY <1>1, TurnIs, TurnOfFacts
<1>3. HandlerOK(t, pressed, repeating, irregular, seen) /\ TurnOK(t)
  BY <1>1 DEF CommandInv, HandlerOK
<1>4. /\ timers[i].owner.kind = "shortcut" /\ timers' = r /\ lastMatchedKey' = NoShortcut
      /\ keys' = keys /\ filterSequences' = filterSequences /\ specialKeys' = specialKeys
      /\ specialTimers' = specialTimers /\ erased' = erased /\ pressed' = pressed
      /\ repeating' = repeating /\ irregular' = irregular /\ seen' = seen
  BY <1>1 DEF ShortcutTimerRuns
<1>5. /\ TableOK(timers) /\ LastOK(lastMatchedKey, timers) /\ ListOK(filterSequences, timers)
      /\ HeldOK(specialTimers, timers)
  BY <1>2, <1>3, TurnFields
<1>6. /\ TableOK(r) /\ Drops(timers, r, {})
      /\ \A key \in VolumeKeys : SameOwn(timers, r, key)
      /\ \A x : x \in Rows(r) <=> x \in Rows(timers) /\ x # timers[i]
      /\ timers[i] \in Rows(timers)
  BY <1>1, <1>4, <1>5, OtherRuns
<1>7. LastOK(NoShortcut, r)
  <2>1. ASSUME NEW x \in Rows(r), x.owner.kind = "shortcut" PROVE FALSE
    <3>1. x \in Rows(timers) /\ x # timers[i]
      BY <1>6
    <3>2. x.id = timers[i].id
      BY <1>4, <1>5, <1>6, <2>1, <3>1 DEF LastOK
    <3>3. QED
      BY <1>5, <1>6, <3>1, <3>2, RowFacts
  <2>2. QED
    BY <2>1 DEF LastOK, NoShortcut
<1>8. ListOK(filterSequences, r)
  BY <1>4, <1>5, <1>6, ListStays
<1>9. HeldOK(specialTimers, r)
  BY <1>5, <1>6, HeldStays
<1>10. PICK u : u = TurnOf(NoShortcut, keys, filterSequences, specialKeys, specialTimers, r, erased)
  OBVIOUS
<1>11. TurnOK(u)
  <2>1. NoShortcut \in Waiting
    BY DEF NoShortcut, Waiting
  <2>2. /\ keys \in Seq(Struck) /\ filterSequences \in Seq(Entries)
        /\ specialKeys \in SUBSET (PowerKeys \cup VolumeKeys)
        /\ specialTimers \in [VolumeKeys -> Seq(TimerId)] /\ erased \in BOOLEAN
        /\ Len(keys) <= MaxSequenceKeys + 1
    BY <1>2, <1>3, TurnFields
  <2>3. QED
    BY <1>6, <1>7, <1>8, <1>9, <1>10, <2>1, <2>2, TurnOfOK
<1>12. /\ u.last = NoShortcut /\ u.keys = keys /\ u.filter = filterSequences
       /\ u.special = specialKeys /\ u.table = r /\ u.erased = erased
  BY <1>10, TurnOfFacts
<1>13. InOrder(r, seen, specialKeys, pressed, irregular)
  BY <1>2, <1>3, <1>6, SameInOrder DEF HandlerOK
<1>14. NoShortcut.shortcut = {}
  BY DEF NoShortcut
<1>15. HandlerOK(u, pressed, repeating, irregular, seen)
  BY <1>2, <1>3, <1>11, <1>12, <1>13, <1>14 DEF HandlerOK
<1>16. Turn' = u
  BY <1>4, <1>10 DEF Turn, TurnOf
<1>17. HandlerOK(Turn', pressed', repeating', irregular', seen')
  BY <1>4, <1>15, <1>16
<1>18. QED
  BY <1>17 DEF CommandInv

LEMMA SequenceTimerKeeps ==
  ASSUME CommandInv, NEW i \in DOMAIN timers, SequenceTimerRuns(i)
  PROVE  CommandInv'
<1>1. PICK t, r : t = Turn /\ r = RemoveAt(timers, i)
  OBVIOUS
<1>2. /\ t.last = lastMatchedKey /\ t.keys = keys /\ t.filter = filterSequences
      /\ t.special = specialKeys /\ t.held = specialTimers /\ t.table = timers /\ t.erased = erased
  BY <1>1, TurnIs, TurnOfFacts
<1>3. HandlerOK(t, pressed, repeating, irregular, seen) /\ TurnOK(t)
  BY <1>1 DEF CommandInv, HandlerOK
<1>4. /\ timers[i].owner.kind = "sequence" /\ timers' = r /\ lastMatchedKey' = lastMatchedKey
      /\ keys' = <<>> /\ filterSequences' = <<>> /\ specialKeys' = specialKeys
      /\ specialTimers' = specialTimers /\ erased' = FALSE /\ pressed' = pressed
      /\ repeating' = repeating /\ irregular' = irregular /\ seen' = seen
  BY <1>1 DEF SequenceTimerRuns, EndTurn, ResetSequenceKeys, Turn
<1>5. /\ TableOK(timers) /\ LastOK(lastMatchedKey, timers) /\ HeldOK(specialTimers, timers)
  BY <1>2, <1>3, TurnFields
<1>6. /\ TableOK(r) /\ Drops(timers, r, {})
      /\ \A key \in VolumeKeys : SameOwn(timers, r, key)
      /\ \A x : x \in Rows(r) <=> x \in Rows(timers) /\ x # timers[i]
  BY <1>1, <1>4, <1>5, OtherRuns
<1>7. LastOK(lastMatchedKey, r)
  <2>1. ASSUME NEW c \in lastMatchedKey.shortcut
        PROVE  /\ c.trigger = "down"
               /\ [id |-> lastMatchedKey.timerId, owner |-> ShortcutTimer(c)] \in Rows(r)
    <3>1. PICK x : x = [id |-> lastMatchedKey.timerId, owner |-> ShortcutTimer(c)]
      OBVIOUS
    <3>2. c.trigger = "down" /\ x \in Rows(timers)
      BY <1>5, <3>1 DEF LastOK
    <3>3. x.owner.kind = "shortcut"
      BY <3>1 DEF ShortcutTimer
    <3>4. x # timers[i]
      BY <1>4, <3>3
    <3>5. QED
      BY <1>6, <3>1, <3>2, <3>4
  <2>2. QED
    BY <1>5, <1>6, <2>1 DEF LastOK
<1>8. HeldOK(specialTimers, r)
  BY <1>5, <1>6, HeldStays
<1>9. PICK u : u = TurnOf(lastMatchedKey, <<>>, <<>>, specialKeys, specialTimers, r, FALSE)
  OBVIOUS
<1>10. TurnOK(u)
  <2>1. /\ lastMatchedKey \in Waiting
        /\ specialKeys \in SUBSET (PowerKeys \cup VolumeKeys)
        /\ specialTimers \in [VolumeKeys -> Seq(TimerId)]
    BY <1>2, <1>3, TurnFields
  <2>2. Len(<<>>) <= MaxSequenceKeys + 1 /\ <<>> \in Seq(Struck) /\ <<>> \in Seq(Entries)
    BY KeyCommandAssumption
  <2>3. ListOK(<<>>, r)
    BY EmptyList
  <2>4. QED
    BY <1>6, <1>7, <1>8, <1>9, <2>1, <2>2, <2>3, TurnOfOK
<1>11. /\ u.last = lastMatchedKey /\ u.keys = <<>> /\ u.filter = <<>>
       /\ u.special = specialKeys /\ u.table = r
  BY <1>9 DEF TurnOf
<1>12. InOrder(r, seen, specialKeys, pressed, irregular)
  BY <1>2, <1>3, <1>6, SameInOrder DEF HandlerOK
<1>13. ListCurrent(<<>>, <<>>) /\ KeysTell(<<>>, pressed, irregular)
  BY EmptyList, NoKeysTell
<1>14. HandlerOK(u, pressed, repeating, irregular, seen)
  BY <1>2, <1>3, <1>10, <1>11, <1>12, <1>13 DEF HandlerOK
<1>15. Turn' = u
  BY <1>4, <1>9 DEF Turn, TurnOf
<1>16. HandlerOK(Turn', pressed', repeating', irregular', seen')
  BY <1>4, <1>14, <1>15
<1>17. QED
  BY <1>16 DEF CommandInv

(* The oldest event of a key is the first one listed. *)
LEMMA ListsPop ==
  ASSUME NEW table, TableOK(table), NEW r, TableOK(r), NEW e \in Rows(table),
         \A x : x \in Rows(r) <=> x \in Rows(table) /\ x # e,
         \A x, y : Before(r, x, y) <=> Before(table, x, y) /\ x \in Rows(r) /\ y \in Rows(r),
         NEW key, IsOwn(e.owner, key),
         \A x \in Rows(table) : IsOwn(x.owner, key) => ~Before(table, x, e),
         NEW ids \in Seq(TimerId), Lists(ids, table, key)
  PROVE  PopFront(ids) \in Seq(TimerId) /\ Lists(PopFront(ids), r, key)
<1>1. PICK n : n = Len(ids)
  OBVIOUS
<1>2. n \in Nat /\ DOMAIN ids = 1..n /\ (ids = <<>> <=> n = 0)
  BY <1>1, SeqFacts
<1>3. PICK m \in 1..n : ids[m] = e.id
  BY <1>2 DEF Lists
<1>4. 1 \in 1..n /\ n # 0
  BY <1>2, <1>3
<1>5. ids[1] = e.id
  <2>1. PICK y \in Rows(table) : IsOwn(y.owner, key) /\ y.id = ids[1]
    BY <1>2, <1>4 DEF Lists
  <2>2. 1 < m <=> Before(table, y, e)
    BY <1>2, <1>3, <1>4, <2>1 DEF Lists
  <2>3. ~(1 < m)
    BY <2>1, <2>2
  <2>4. m = 1
    BY <1>3, <2>3
  <2>5. QED
    BY <1>3, <2>4
<1>6. PICK l : l = Tail(ids)
  OBVIOUS
<1>7. PopFront(ids) = l
  BY <1>2, <1>4, <1>6 DEF PopFront
<1>8. /\ l \in Seq(TimerId) /\ Len(l) = n - 1 /\ DOMAIN l = 1..n - 1
      /\ \A k \in 1..n - 1 : l[k] = ids[k + 1]
  <2>1. ids # <<>>
    BY <1>2, <1>4
  <2>2. l \in Seq(TimerId) /\ Len(l) = n - 1 /\ \A k \in 1..Len(l) : l[k] = ids[k + 1]
    BY <1>1, <1>6, <2>1, HeadTailProperties
  <2>3. QED
    BY <2>2, SeqFacts
<1>9. \A k \in 1..n - 1 : k + 1 \in 1..n /\ 1 < k + 1
  BY <1>2
<1>10. ASSUME NEW k \in 1..n - 1, NEW x \in Rows(table), x.id = l[k] PROVE x # e
  <2>1. k + 1 \in DOMAIN ids /\ 1 \in DOMAIN ids /\ 1 < k + 1 /\ x.id = ids[k + 1]
    BY <1>2, <1>4, <1>8, <1>9, <1>10
  <2>2. Before(table, e, x)
    BY <1>5, <2>1 DEF Lists
  <2>3. QED
    BY <2>2, RowFacts
<1>11. ASSUME NEW x \in Rows(r), IsOwn(x.owner, key) PROVE \E k \in 1..n - 1 : l[k] = x.id
  <2>1. x \in Rows(table) /\ x # e
    OBVIOUS
  <2>2. PICK k \in 1..n : ids[k] = x.id
    BY <1>2, <1>11, <2>1 DEF Lists
  <2>3. k # 1
    BY <1>5, <2>1, <2>2, RowFacts
  <2>4. k - 1 \in 1..n - 1 /\ (k - 1) + 1 = k
    BY <1>2, <2>3
  <2>5. l[k - 1] = x.id
    BY <1>8, <2>2, <2>4
  <2>6. QED
    BY <2>4, <2>5
<1>12. ASSUME NEW k \in 1..n - 1 PROVE \E x \in Rows(r) : IsOwn(x.owner, key) /\ x.id = l[k]
  <2>1. k + 1 \in DOMAIN ids /\ l[k] = ids[k + 1]
    BY <1>2, <1>8, <1>9
  <2>2. PICK x \in Rows(table) : IsOwn(x.owner, key) /\ x.id = ids[k + 1]
    BY <2>1 DEF Lists
  <2>3. x # e
    BY <1>10, <2>1, <2>2
  <2>4. QED
    BY <2>1, <2>2, <2>3
<1>13. ASSUME NEW j \in 1..n - 1, NEW k \in 1..n - 1, NEW x \in Rows(r), NEW y \in Rows(r),
              x.id = l[j], y.id = l[k]
       PROVE  j < k <=> Before(r, x, y)
  <2>1. /\ j + 1 \in DOMAIN ids /\ k + 1 \in DOMAIN ids
        /\ x.id = ids[j + 1] /\ y.id = ids[k + 1]
    BY <1>2, <1>8, <1>9, <1>13
  <2>2. j + 1 < k + 1 <=> Before(table, x, y)
    BY <2>1 DEF Lists
  <2>3. j + 1 < k + 1 <=> j < k
    OBVIOUS
  <2>4. QED
    BY <2>2, <2>3
<1>14. Lists(l, r, key)
  BY <1>8, <1>11, <1>12, <1>13 DEF Lists
<1>15. QED
  BY <1>7, <1>8, <1>14

LEMMA SpecialTimerKeeps ==
  ASSUME CommandInv, NEW i \in DOMAIN timers, SpecialTimerRuns(i)
  PROVE  CommandInv'
<1>1. PICK t, r, e, key : t = Turn /\ r = RemoveAt(timers, i) /\ e = timers[i] /\ key = e.owner.key
  OBVIOUS
<1>2. /\ t.last = lastMatchedKey /\ t.keys = keys /\ t.filter = filterSequences
      /\ t.special = specialKeys /\ t.held = specialTimers /\ t.table = timers /\ t.erased = erased
  BY <1>1, TurnIs, TurnOfFacts
<1>3. HandlerOK(t, pressed, repeating, irregular, seen) /\ TurnOK(t)
  BY <1>1 DEF CommandInv, HandlerOK
<1>4. PICK h : h = [specialTimers EXCEPT ![key] = PopFront(@)]
  OBVIOUS
<1>5. /\ e.owner.kind = "special" /\ timers' = r /\ lastMatchedKey' = lastMatchedKey
      /\ \A j \in 1..(i - 1) : timers[j].owner.kind # "special"
      /\ keys' = keys /\ filterSequences' = filterSequences /\ specialKeys' = specialKeys
      /\ specialTimers' = h /\ erased' = erased /\ pressed' = pressed
      /\ repeating' = repeating /\ irregular' = irregular /\ seen' = Told(e.owner)
  BY <1>1, <1>4 DEF SpecialTimerRuns
<1>6. /\ TableOK(timers) /\ LastOK(lastMatchedKey, timers) /\ ListOK(filterSequences, timers)
      /\ HeldOK(specialTimers, timers) /\ specialTimers \in [VolumeKeys -> Seq(TimerId)]
  BY <1>2, <1>3, TurnFields
<1>7. /\ TableOK(r) /\ e \in Rows(timers)
      /\ \A x : x \in Rows(r) <=> x \in Rows(timers) /\ x # e
      /\ \A x, y : Before(r, x, y) <=> Before(timers, x, y) /\ x \in Rows(r) /\ y \in Rows(r)
  BY <1>1, <1>6, TableRemove
<1>8. key \in VolumeKeys /\ e.owner.action \in Action /\ IsOwn(e.owner, key)
  <2>1. e \in Timer
    BY <1>6, <1>7, RowFacts
  <2>2. QED
    BY <1>1, <1>5, <2>1, TimerKinds DEF IsOwn
<1>9. ASSUME NEW x \in Rows(timers), IsOwn(x.owner, key), Before(timers, x, e) PROVE FALSE
  <2>1. PICK a, b \in DOMAIN timers : a < b /\ timers[a] = x /\ timers[b] = e
    BY <1>9 DEF Before
  <2>2. b = i
    BY <1>1, <1>6, <2>1 DEF TableOK, DistinctIds
  <2>3. a \in 1..(i - 1)
    <3>1. Len(timers) \in Nat /\ DOMAIN timers = 1..Len(timers)
      BY <1>6, SeqFacts DEF TableOK
    <3>2. QED
      BY <2>1, <2>2, <3>1
  <2>4. QED
    BY <1>5, <1>9, <2>1, <2>3 DEF IsOwn
<1>10. ASSUME NEW k, k # key PROVE SameOwn(timers, r, k)
  <2>1. ~IsOwn(e.owner, k)
    BY <1>1, <1>10 DEF IsOwn
  <2>2. QED
    BY <1>7, <2>1 DEF SameOwn
<1>11. ListOK(filterSequences, r)
  BY <1>5, <1>6, <1>7, ListStays
<1>12. LastOK(lastMatchedKey, r)
  <2>1. ASSUME NEW c \in lastMatchedKey.shortcut
        PROVE  /\ c.trigger = "down"
               /\ [id |-> lastMatchedKey.timerId, owner |-> ShortcutTimer(c)] \in Rows(r)
    <3>1. PICK x : x = [id |-> lastMatchedKey.timerId, owner |-> ShortcutTimer(c)]
      OBVIOUS
    <3>2. c.trigger = "down" /\ x \in Rows(timers)
      BY <1>6, <3>1 DEF LastOK
    <3>3. x.owner.kind = "shortcut"
      BY <3>1 DEF ShortcutTimer
    <3>4. x # e
      BY <1>5, <3>3
    <3>5. QED
      BY <1>7, <3>1, <3>2, <3>4
  <2>2. QED
    BY <1>6, <1>7, <2>1 DEF LastOK
<1>13. h \in [VolumeKeys -> Seq(TimerId)] /\ HeldOK(h, r)
  <2>1. specialTimers[key] \in Seq(TimerId) /\ Lists(specialTimers[key], timers, key)
    BY <1>6, <1>8 DEF HeldOK
  <2>2. PopFront(specialTimers[key]) \in Seq(TimerId) /\ Lists(PopFront(specialTimers[key]), r, key)
    BY <1>6, <1>7, <1>8, <1>9, <2>1, ListsPop
  <2>3. /\ h \in [VolumeKeys -> Seq(TimerId)] /\ h[key] = PopFront(specialTimers[key])
        /\ \A k \in VolumeKeys : k # key => h[k] = specialTimers[k]
    BY <1>4, <1>6, <1>8, <2>2
  <2>4. ASSUME NEW k \in VolumeKeys, k # key PROVE Lists(h[k], r, k)
    <3>1. Lists(specialTimers[k], timers, k) /\ h[k] = specialTimers[k]
      BY <1>6, <2>3, <2>4 DEF HeldOK
    <3>2. SameOwn(timers, r, k)
      BY <1>10, <2>4
    <3>3. QED
      BY <1>6, <1>7, <3>1, <3>2, ListsStay
  <2>5. QED
    BY <2>2, <2>3, <2>4 DEF HeldOK
<1>14. PICK u : u = TurnOf(lastMatchedKey, keys, filterSequences, specialKeys, h, r, erased)
  OBVIOUS
<1>15. TurnOK(u)
  <2>1. /\ keys \in Seq(Struck) /\ filterSequences \in Seq(Entries) /\ lastMatchedKey \in Waiting
        /\ specialKeys \in SUBSET (PowerKeys \cup VolumeKeys) /\ erased \in BOOLEAN
        /\ Len(keys) <= MaxSequenceKeys + 1
    BY <1>2, <1>3, TurnFields
  <2>2. QED
    BY <1>7, <1>11, <1>12, <1>13, <1>14, <2>1, TurnOfOK
<1>16. /\ u.last = lastMatchedKey /\ u.keys = keys /\ u.filter = filterSequences
       /\ u.special = specialKeys /\ u.table = r /\ u.erased = erased
  BY <1>14, TurnOfFacts
<1>17. /\ Told(e.owner) \in [VolumeKeys -> {"down", "up", "stray"}]
       /\ \A k \in VolumeKeys :
            Told(e.owner)[k] = IF k = key THEN Now(seen[k], e.owner.action) ELSE seen[k]
  <2>1. seen \in [VolumeKeys -> {"down", "up", "stray"}]
    BY <1>3 DEF HandlerOK
  <2>2. QED
    BY <1>1, <1>8, <2>1, ToldIs
<1>18. PICK now : now = Told(e.owner)
  OBVIOUS
<1>19. InOrder(r, now, specialKeys, pressed, irregular)
  <2>1. ASSUME NEW k \in VolumeKeys \ (irregular \cup Lone)
        PROVE  /\ Follows(r, k, now[k])
               /\ k \in pressed /\ k \notin specialKeys => EndsDown(r, k, now[k])
    <3>1. /\ Follows(timers, k, seen[k])
          /\ k \in pressed /\ k \notin specialKeys => EndsDown(timers, k, seen[k])
      BY <1>2, <1>3 DEF HandlerOK, InOrder
    <3>2. CASE k = key
      <4>1. now[k] = Now(seen[key], e.owner.action)
        BY <1>17, <1>18, <3>2
      <4>2. /\ Follows(r, key, Now(seen[key], e.owner.action))
            /\ EndsDown(timers, key, seen[key]) => EndsDown(r, key, Now(seen[key], e.owner.action))
        BY <1>6, <1>7, <1>8, <1>9, <3>1, <3>2, OldestIsTold
      <4>3. QED
        BY <3>1, <3>2, <4>1, <4>2
    <3>3. CASE k # key
      <4>1. now[k] = seen[k] /\ SameOwn(timers, r, k)
        BY <1>10, <1>17, <1>18, <3>3
      <4>2. QED
        BY <3>1, <4>1, FollowsStays, EndsDownStays
    <3>4. QED
      BY <3>2, <3>3
  <2>2. QED
    BY <2>1 DEF InOrder
<1>20. HandlerOK(u, pressed, repeating, irregular, now)
  BY <1>2, <1>3, <1>15, <1>16, <1>17, <1>18, <1>19 DEF HandlerOK
<1>21. Turn' = u
  BY <1>5, <1>14 DEF Turn, TurnOf
<1>22. HandlerOK(Turn', pressed', repeating', irregular', seen')
  BY <1>5, <1>18, <1>20, <1>21
<1>23. QED
  BY <1>22 DEF CommandInv

-----------------------------------------------------------------------------
(* The invariant *)

LEMMA CommandStarts == Init => CommandInv
<1> SUFFICES ASSUME Init PROVE CommandInv
  OBVIOUS
<1>1. PICK held : held = [key \in VolumeKeys |-> <<>>]
  OBVIOUS
<1>2. /\ lastMatchedKey = NoShortcut /\ keys = <<>> /\ filterSequences = <<>> /\ specialKeys = {}
      /\ specialTimers = held /\ timers = <<>> /\ pressed = {} /\ repeating = {}
      /\ irregular = {} /\ seen = [key \in VolumeKeys |-> "up"] /\ erased = FALSE
  BY <1>1 DEF Init
<1>3. Rows(<<>>) = {}
  BY DEF Rows
<1>4. TableOK(<<>>)
  BY DEF TableOK, DistinctIds
<1>5. NoShortcut \in Waiting /\ LastOK(NoShortcut, <<>>) /\ NoShortcut.shortcut = {}
  BY <1>3 DEF NoShortcut, Waiting, LastOK
<1>6. held \in [VolumeKeys -> Seq(TimerId)] /\ HeldOK(held, <<>>)
  <2>1. \A key : Lists(<<>>, <<>>, key)
    BY <1>3 DEF Lists
  <2>2. <<>> \in Seq(TimerId)
    OBVIOUS
  <2>3. QED
    BY <1>1, <2>1, <2>2 DEF HeldOK
<1>7. ListOK(<<>>, <<>>) /\ ListCurrent(<<>>, <<>>) /\ KeysTell(<<>>, {}, {})
  BY EmptyList, NoKeysTell
<1>8. PICK u : u = TurnOf(NoShortcut, <<>>, <<>>, {}, held, <<>>, FALSE)
  OBVIOUS
<1>9. TurnOK(u)
  <2>1. Len(<<>>) <= MaxSequenceKeys + 1 /\ <<>> \in Seq(Struck) /\ <<>> \in Seq(Entries)
    BY KeyCommandAssumption
  <2>2. {} \in SUBSET (PowerKeys \cup VolumeKeys) /\ FALSE \in BOOLEAN
    OBVIOUS
  <2>3. QED
    BY <1>4, <1>5, <1>6, <1>7, <1>8, <2>1, <2>2, TurnOfOK
<1>10. /\ u.last = NoShortcut /\ u.keys = <<>> /\ u.filter = <<>> /\ u.special = {} /\ u.table = <<>>
  BY <1>8 DEF TurnOf
<1>11. PICK told : told = [key \in VolumeKeys |-> "up"]
  OBVIOUS
<1>12. InOrder(<<>>, told, {}, {}, {})
  BY <1>3, <1>11 DEF InOrder, Follows
<1>13. told \in [VolumeKeys -> {"down", "up", "stray"}]
  BY <1>11
<1>14. HandlerOK(u, {}, {}, {}, told)
  BY <1>5, <1>7, <1>9, <1>10, <1>12, <1>13 DEF HandlerOK
<1>15. Turn = u /\ seen = told
  BY <1>2, <1>8, <1>11, TurnIs
<1>16. HandlerOK(Turn, pressed, repeating, irregular, seen)
  BY <1>2, <1>14, <1>15
<1>17. QED
  BY <1>16 DEF CommandInv

LEMMA CommandGoesOn == CommandInv /\ [Next]_vars => CommandInv'
<1> SUFFICES ASSUME CommandInv, [Next]_vars PROVE CommandInv'
  OBVIOUS
<1>1. ASSUME NEW key \in Keys, KeyDown(key) PROVE CommandInv'
  BY <1>1, KeyDownKeeps
<1>2. ASSUME NEW key \in Keys, KeyUp(key) PROVE CommandInv'
  BY <1>2, KeyUpKeeps
<1>3. ASSUME NEW key \in Keys, KeyRepeats(key) PROVE CommandInv'
  BY <1>3, KeyRepeatsKeeps
<1>4. ASSUME NEW injected \in Injected, InjectKeyEvent(injected) PROVE CommandInv'
  BY <1>4, InjectKeeps
<1>5. ASSUME NEW i \in DOMAIN timers, ShortcutTimerRuns(i) PROVE CommandInv'
  BY <1>5, ShortcutTimerKeeps
<1>6. ASSUME NEW i \in DOMAIN timers, SequenceTimerRuns(i) PROVE CommandInv'
  BY <1>6, SequenceTimerKeeps
<1>7. ASSUME NEW i \in DOMAIN timers, SpecialTimerRuns(i) PROVE CommandInv'
  BY <1>7, SpecialTimerKeeps
<1>8. ASSUME UNCHANGED vars PROVE CommandInv'
  <2>1. /\ Turn' = Turn /\ pressed' = pressed /\ repeating' = repeating
        /\ irregular' = irregular /\ seen' = seen
    BY <1>8 DEF vars, handlerVars, Turn
  <2>2. HandlerOK(Turn', pressed', repeating', irregular', seen')
    BY <2>1 DEF CommandInv
  <2>3. QED
    BY <2>2 DEF CommandInv
<1>9. QED
  BY <1>1, <1>2, <1>3, <1>4, <1>5, <1>6, <1>7, <1>8 DEF Next

(* The inductive invariant: what the members say of the timers, and what
   they and the timers say of the keys that are down. *)
THEOREM CommandInvariant == Spec => []CommandInv
<1>1. Init => CommandInv
  BY CommandStarts
<1>2. CommandInv /\ [Next]_vars => CommandInv'
  BY CommandGoesOn
<1>3. QED
  BY <1>1, <1>2, PTL DEF Spec

LEMMA MembersOK ==
  ASSUME CommandInv
  PROVE  /\ lastMatchedKey \in Waiting /\ keys \in Seq(Struck) /\ filterSequences \in Seq(Entries)
         /\ specialKeys \subseteq PowerKeys \cup VolumeKeys
         /\ specialTimers \in [VolumeKeys -> Seq(TimerId)] /\ erased \in BOOLEAN
         /\ Len(keys) <= MaxSequenceKeys + 1 /\ TableOK(timers)
         /\ LastOK(lastMatchedKey, timers) /\ ListOK(filterSequences, timers)
         /\ HeldOK(specialTimers, timers)
<1>1. PICK t : t = Turn
  OBVIOUS
<1>2. /\ t.last = lastMatchedKey /\ t.keys = keys /\ t.filter = filterSequences
      /\ t.special = specialKeys /\ t.held = specialTimers /\ t.table = timers /\ t.erased = erased
  BY <1>1, TurnIs, TurnOfFacts
<1>3. TurnOK(t)
  BY <1>1 DEF CommandInv, HandlerOK
<1>4. QED
  BY <1>2, <1>3, TurnFields

LEMMA TimerRows ==
  ASSUME CommandInv
  PROVE  /\ Rows(timers) = {timers[i] : i \in DOMAIN timers}
         /\ \A i \in DOMAIN timers : timers[i] \in Timer /\ timers[i] \in Rows(timers)
         /\ \A i, j \in DOMAIN timers : Before(timers, timers[i], timers[j]) <=> i < j
<1>1. TableOK(timers)
  BY MembersOK
<1>2. \A i \in DOMAIN timers : timers[i] \in Timer /\ timers[i] \in Rows(timers)
  BY <1>1, SeqFacts DEF TableOK, Rows
<1>3. ASSUME NEW i \in DOMAIN timers, NEW j \in DOMAIN timers, Before(timers, timers[i], timers[j])
      PROVE  i < j
  <2>1. PICK k, l \in DOMAIN timers : k < l /\ timers[k] = timers[i] /\ timers[l] = timers[j]
    BY <1>3 DEF Before
  <2>2. k = i /\ l = j
    BY <1>1, <2>1 DEF TableOK, DistinctIds
  <2>3. QED
    BY <2>1, <2>2
<1>4. QED
  BY <1>2, <1>3 DEF Rows, Before

(* The members have their types, and keys_ its bound. *)
THEOREM CommandTypesCorrect == Spec => []TypeOK
<1>1. ASSUME CommandInv PROVE TypeOK
  <2>1. /\ lastMatchedKey \in Waiting /\ keys \in Seq(Struck) /\ filterSequences \in Seq(Entries)
        /\ specialKeys \subseteq PowerKeys \cup VolumeKeys
        /\ specialTimers \in [VolumeKeys -> Seq(TimerId)] /\ erased \in BOOLEAN
        /\ Len(keys) <= MaxSequenceKeys + 1
    BY <1>1, MembersOK
  <2>2. /\ pressed \subseteq Keys /\ repeating \subseteq pressed /\ irregular \subseteq Keys
        /\ seen \in [VolumeKeys -> {"down", "up", "stray"}]
    BY <1>1 DEF CommandInv, HandlerOK
  <2>3. \A i \in DOMAIN keys : keys[i] \in Struck
    BY <2>1, SeqFacts
  <2>4. \A k \in DOMAIN filterSequences : filterSequences[k] \in Entries
    BY <2>1, SeqFacts
  <2>5. \A i \in DOMAIN timers : timers[i].id \in TimerId
    BY <1>1, TimerRows DEF Timer
  <2>6. QED
    BY <2>1, <2>2, <2>3, <2>4, <2>5 DEF TypeOK, Waiting, Struck, Entries
<1>2. QED
  BY <1>1, CommandInvariant, PTL

(* The ids that the handler keeps are those of its own timers, so that
   RemoveTimer stops no other one although ids are used again; the events of
   a volume key are listed in the order in which their timers run; and there
   is no timer of a shortcut but the one that can be stopped. *)
THEOREM KeptIdsNameOwnTimers == Spec => []IdsNameOwnTimers
<1>1. ASSUME CommandInv PROVE IdsNameOwnTimers
  <2>1. /\ TableOK(timers) /\ LastOK(lastMatchedKey, timers) /\ ListOK(filterSequences, timers)
        /\ HeldOK(specialTimers, timers)
    BY <1>1, MembersOK
  <2>2. /\ Rows(timers) = {timers[i] : i \in DOMAIN timers}
        /\ \A i \in DOMAIN timers : timers[i] \in Timer /\ timers[i] \in Rows(timers)
        /\ \A i, j \in DOMAIN timers : Before(timers, timers[i], timers[j]) <=> i < j
    BY <1>1, TimerRows
  <2>3. DistinctIds(timers)
    BY <2>1 DEF TableOK
  <2>4. ASSUME NEW id, NEW owner, [id |-> id, owner |-> owner] \in Rows(timers)
        PROVE  HasTimer(id, owner)
    <3>1. PICK i \in DOMAIN timers : timers[i] = [id |-> id, owner |-> owner]
      BY <2>2, <2>4
    <3>2. timers[i].id = id /\ timers[i].owner = owner
      BY <3>1
    <3>3. QED
      BY <3>2 DEF HasTimer
  <2>5. \A c \in lastMatchedKey.shortcut : HasTimer(lastMatchedKey.timerId, ShortcutTimer(c))
    BY <2>1, <2>4 DEF LastOK
  <2>6. ASSUME NEW entry \in ToSet(filterSequences), entry.timerId # NoTimer
        PROVE  HasTimer(entry.timerId, SequenceTimer(entry.seq))
    <3>1. PICK k \in DOMAIN filterSequences : entry = filterSequences[k]
      BY DEF ToSet
    <3>2. SequenceRow(entry) \in Rows(timers)
      BY <2>1, <2>6, <3>1 DEF ListOK
    <3>3. QED
      BY <2>4, <3>2 DEF SequenceRow
  <2>7. ASSUME NEW key \in VolumeKeys PROVE ListsInOrder(specialTimers[key], key)
    <3>1. PICK ids : ids = specialTimers[key]
      OBVIOUS
    <3>2. Lists(ids, timers, key)
      BY <2>1, <3>1 DEF HeldOK
    <3>3. \A i \in DOMAIN timers :
            IsOwn(timers[i].owner, key) => \E n \in DOMAIN ids : ids[n] = timers[i].id
      BY <2>2, <3>2 DEF Lists
    <3>4. \A n \in DOMAIN ids :
            \E i \in DOMAIN timers : timers[i].id = ids[n] /\ IsOwn(timers[i].owner, key)
      BY <2>2, <3>2 DEF Lists
    <3>5. ASSUME NEW m \in DOMAIN ids, NEW n \in DOMAIN ids,
                 NEW i \in DOMAIN timers, NEW j \in DOMAIN timers,
                 ids[m] = timers[i].id, ids[n] = timers[j].id
          PROVE  m < n <=> i < j
      <4>1. timers[i] \in Rows(timers) /\ timers[j] \in Rows(timers)
        BY <2>2
      <4>2. m < n <=> Before(timers, timers[i], timers[j])
        BY <3>2, <3>5, <4>1 DEF Lists
      <4>3. QED
        BY <2>2, <4>2
    <3>6. ListsInOrder(ids, key)
      BY <3>3, <3>4, <3>5 DEF ListsInOrder
    <3>7. QED
      BY <3>1, <3>6
  <2>8. \A i \in DOMAIN timers :
          timers[i].owner.kind = "shortcut" => lastMatchedKey.timerId = timers[i].id
    BY <2>1, <2>2 DEF LastOK
  <2>9. QED
    BY <2>3, <2>5, <2>6, <2>7, <2>8 DEF IdsNameOwnTimers
<1>2. QED
  BY <1>1, CommandInvariant, PTL

(* A launch that is pending is for what is down now: HandleShortKeys and
   InterruptTimers end every other wait. *)
THEOREM LaunchesAreCurrent == Spec => []PendingLaunchIsCurrent
<1>1. ASSUME CommandInv PROVE PendingLaunchIsCurrent
  <2>1. PICK t : t = Turn
    OBVIOUS
  <2>2. t.last = lastMatchedKey /\ t.keys = keys /\ t.filter = filterSequences /\ t.erased = erased
    BY <2>1, TurnIs, TurnOfFacts
  <2>3. /\ \A c \in lastMatchedKey.shortcut : Current(c, pressed, irregular)
        /\ ~erased => ListCurrent(filterSequences, keys)
    BY <1>1, <2>1, <2>2 DEF CommandInv, HandlerOK
  <2>4. TableOK(timers) /\ lastMatchedKey \in Waiting /\ LastOK(lastMatchedKey, timers)
    BY <1>1, MembersOK
  <2>5. ASSUME NEW i \in DOMAIN timers, timers[i].owner.kind = "shortcut"
        PROVE  LET c == timers[i].owner.shortcut
                   chord == c.preKeys \cup {c.finalKey}
               IN  c.finalKey \in irregular
                   \/ (pressed \ chord) \cup (chord \ pressed) \subseteq irregular
    <3>1. timers[i].owner.shortcut \in lastMatchedKey.shortcut
      BY <1>1, <2>4, <2>5, OneWaits, TimerRows
    <3>2. Current(timers[i].owner.shortcut, pressed, irregular)
      BY <2>3, <3>1
    <3>3. QED
      BY <3>2 DEF Current
  <2>6. ASSUME NEW entry \in ToSet(filterSequences), entry.timerId # NoTimer, ~erased
        PROVE  /\ Len(keys) = Len(SequenceKeys(entry))
               /\ MatchesSequence(keys, SequenceKeys(entry))
    <3>1. PICK k \in DOMAIN filterSequences : entry = filterSequences[k]
      BY DEF ToSet
    <3>2. Complete(entry, keys)
      BY <2>3, <2>6, <3>1 DEF ListCurrent
    <3>3. QED
      BY <3>2 DEF Complete
  <2>7. QED
    BY <2>5, <2>6 DEF PendingLaunchIsCurrent
<1>2. QED
  BY <1>1, CommandInvariant, PTL

(* A key that a launch has taken is given back when it is released, but for
   the releases that OnHandleEvent consumes before. *)
THEOREM TakenKeysAreHeld == Spec => []SpecialKeysAreHeld
<1>1. ASSUME CommandInv PROVE SpecialKeysAreHeld
  <2>1. PICK t : t = Turn
    OBVIOUS
  <2>2. t.special = specialKeys
    BY <2>1, TurnIs, TurnOfFacts
  <2>3. specialKeys \subseteq pressed \cup irregular \cup Stuck
    BY <1>1, <2>1, <2>2 DEF CommandInv, HandlerOK
  <2>4. QED
    BY <2>3 DEF SpecialKeysAreHeld, Stuck
<1>2. QED
  BY <1>1, CommandInvariant, PTL

(* The subscribers are told of no release without its press, whatever is held
   back, dropped and told late of a volume key. *)
THEOREM PressesComeFirst == Spec => []ReleasesFollowPresses
<1>1. ASSUME CommandInv PROVE ReleasesFollowPresses
  <2>1. PICK t : t = Turn
    OBVIOUS
  <2>2. InOrder(t.table, seen, t.special, pressed, irregular)
    BY <1>1, <2>1 DEF CommandInv, HandlerOK
  <2>3. \A key \in VolumeKeys \ (irregular \cup Lone) : seen[key] # "stray"
    BY <2>2 DEF InOrder, Follows
  <2>4. {key \in VolumeKeys : seen[key] = "stray"} \subseteq irregular \cup Lone
    BY <2>3
  <2>5. QED
    BY <2>4 DEF ReleasesFollowPresses, Lone
<1>2. QED
  BY <1>1, CommandInvariant, PTL
=============================================================================
