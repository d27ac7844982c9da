---------------------------- MODULE TouchChainProofs ----------------------------
(***************************************************************************)
(* Theorems about TouchChain for any fingers, windows and gestures: what   *)
(* the windows believe agrees with the fingers that are down, as long as   *)
(* nothing unusual has happened to the gesture.                            *)
(***************************************************************************)
EXTENDS TouchChain, FiniteSetTheorems, SequenceTheorems, TLAPS

(* The types again, as far as a proof needs them to look into functions. *)
Map(f, S, T) == DOMAIN f \subseteq S /\ f \in [DOMAIN f -> T]

StateOK ==
  /\ windows \subseteq Windows
  /\ Map(items, Fingers, Windows \cup {None}) /\ IsFiniteSet(DOMAIN items)
  /\ event \in [pointer : Fingers \cup {None}, window : Windows \cup {None}]
  /\ Map(downInfos, Fingers, Windows)
  /\ consumed \in BOOLEAN /\ marked \in BOOLEAN /\ stray \in BOOLEAN
  /\ gesture \in 0..MaxGestures /\ (items # Empty => gesture # 0)
  /\ eventIds \subseteq 1..gesture
  /\ touching \in [Windows -> SUBSET Fingers]

-----------------------------------------------------------------------------
(* The fingers it, the windows di they went down in, the windows ws there
   are and what the windows to were told agree.  A finger that has no entry
   in di is in a window that has gone, and that was told that its touches
   are cancelled. *)
Sound(ws, it, di, to) ==
  /\ \A f \in DOMAIN it : it[f] \in Windows
  /\ \A w \in Windows : \A f \in to[w] : f \in DOMAIN it /\ it[f] = w /\ f \in DOMAIN di
  /\ \A f \in DOMAIN di : f \in DOMAIN it /\ di[f] = it[f]
  /\ \A f \in DOMAIN it \ DOMAIN di : it[f] \notin ws /\ to[it[f]] = {}
  /\ \A f \in DOMAIN it : it[f] \in ws => f \in to[it[f]]

AllUntouched == \A w \in Windows : touching[w] = {}

(* The gesture of nothing unusual: until it is consumed all agrees, and from
   then on no window knows of a touch. *)
WindowsAgree ==
  /\ odd = {} /\ ~consumed => Sound(windows, items, downInfos, touching)
  /\ odd = {} /\ consumed => AllUntouched

NothingIsStale == items = Empty /\ "stale" \notin odd => downInfos = Empty
AstrayIsConsumed == odd = {"astray"} => consumed

(* The events of an untouched gesture are the only ones that can be marked. *)
IdsAreOfGesture == items # Empty /\ "taken" \notin odd => eventIds \subseteq {gesture}

TouchInv ==
  /\ StateOK /\ WindowsAgree /\ NothingIsStale /\ AstrayIsConsumed /\ IdsAreOfGesture
  /\ OnlyMarkedIsConsumed /\ NothingOutOfTheBlue

-----------------------------------------------------------------------------
(* Functions *)

LEMMA WithApplies ==
  ASSUME NEW f, NEW k, NEW v
  PROVE  /\ DOMAIN With(f, k, v) = DOMAIN f \cup {k}
         /\ With(f, k, v)[k] = v
         /\ \A x \in DOMAIN f : x # k => With(f, k, v)[x] = f[x]
BY DEF With

LEMMA WithoutApplies ==
  ASSUME NEW f, NEW k
  PROVE  /\ DOMAIN Without(f, k) = DOMAIN f \ {k}
         /\ \A x \in DOMAIN f : x # k => Without(f, k)[x] = f[x]
BY DEF Without

LEMMA MapWith ==
  ASSUME NEW S, NEW T, NEW f, Map(f, S, T), NEW k \in S, NEW v \in T
  PROVE  Map(With(f, k, v), S, T) /\ Map(Insert(f, k, v), S, T)
<1>1. Map(With(f, k, v), S, T)
  BY DEF Map, With
<1>2. QED
  BY <1>1 DEF Insert

LEMMA MapWithout ==
  ASSUME NEW S, NEW T, NEW f, Map(f, S, T), NEW k
  PROVE  Map(Without(f, k), S, T)
BY DEF Map, Without

LEMMA EmptyIsMap ==
  /\ DOMAIN Empty = {}
  /\ \A S, T : Map(Empty, S, T)
  /\ \A S, T, f : Map(f, S, T) /\ DOMAIN f = {} => f = Empty
<1>1. DOMAIN Empty = {}
  BY DEF Empty
<1>2. ASSUME NEW S, NEW T, NEW f, Map(f, S, T), DOMAIN f = {} PROVE f = Empty
  <2>1. f \in [1..0 -> T]
    BY <1>2 DEF Map
  <2>2. f \in Seq(T)
    BY <2>1, SeqDef
  <2>3. Len(f) = 0
    <3>1. Len(f) \in Nat /\ DOMAIN f = 1..Len(f)
      BY <2>2, LenProperties
    <3>2. CASE Len(f) # 0
      BY <1>2, <3>1, <3>2
    <3>3. QED
      BY <3>2
  <2>4. QED
    BY <2>2, <2>3, EmptySeq DEF Empty
<1>3. ASSUME NEW S, NEW T PROVE Map(Empty, S, T)
  <2>1. Empty \in Seq(T) /\ Len(Empty) = 0
    BY EmptySeq DEF Empty
  <2>2. Empty \in [1..0 -> T]
    BY <2>1, LenProperties
  <2>3. QED
    BY <1>1, <2>2 DEF Map
<1>4. QED
  BY <1>1, <1>2, <1>3

LEMMA NoneIsNothing == None \notin Windows /\ None \notin Fingers
BY TouchAssumption

LEMMA GetIs ==
  ASSUME NEW S, NEW T, NEW f, Map(f, S, T), NEW k
  PROVE  /\ k \in DOMAIN f => Get(f, k) = f[k] /\ f[k] \in T
         /\ k \notin DOMAIN f => Get(f, k) = None
BY DEF Map, Get

-----------------------------------------------------------------------------
(* One touch: UpdateTouchScreenTarget *)

(* Where a touch goes that has window own, when it is told as t. *)
TargetGoes(t, action, finger, own, under) ==
  /\ t.window \in Windows \cup {None} /\ t.action \in {action, "cancel"}
  /\ t = [action |-> t.action, window |-> t.window]
  /\ action = "down" => t.action = "down"
  /\ own \in windows => t = [action |-> action, window |-> own]
  /\ own = None /\ action = "down" => t = [action |-> action, window |-> under]
  /\ own \in Windows \ windows /\ action # "down" =>
       /\ finger \notin DOMAIN downInfos => t = [action |-> action, window |-> None]
       /\ finger \in DOMAIN downInfos => t = [action |-> "cancel", window |-> downInfos[finger]]

LEMMA TargetIs ==
  ASSUME StateOK, NEW action \in {"down", "move", "up", "cancel"}, NEW finger \in Fingers,
         NEW targets, Map(targets, Fingers, Windows \cup {None}), finger \in DOMAIN targets,
         NEW under \in windows \cup {None}, NEW t, t = Target(action, finger, targets, under)
  PROVE  TargetGoes(t, action, finger, targets[finger], under)
<1>1. PICK own, ws, gone :
        /\ own = Get(targets, finger) /\ gone = Get(downInfos, finger)
        /\ ws = (IF own # None THEN {own} ELSE {under}) \cap windows
  OBVIOUS
<1>2. t = IF ws # {} THEN [action |-> action, window |-> CHOOSE w \in ws : TRUE]
          ELSE IF action = "down" \/ gone = None THEN [action |-> action, window |-> None]
          ELSE [action |-> "cancel", window |-> gone]
  BY <1>1 DEF Target
<1>3. own = targets[finger] /\ own \in Windows \cup {None} /\ windows \subseteq Windows
      /\ None \notin Windows /\ None \notin windows
  BY <1>1, GetIs, NoneIsNothing DEF StateOK
<1>4. /\ finger \in DOMAIN downInfos => gone = downInfos[finger] /\ gone \in Windows /\ gone # None
      /\ finger \notin DOMAIN downInfos => gone = None
  BY <1>1, <1>3, GetIs DEF StateOK
<1>5. CASE own \in windows
  <2>1. ws = {own}
    BY <1>1, <1>3, <1>5
  <2>2. t = [action |-> action, window |-> own]
    BY <1>2, <2>1
  <2>3. QED
    BY <1>3, <1>5, <2>2 DEF TargetGoes
<1>6. CASE own = None /\ under # None
  <2>1. ws = {under}
    BY <1>1, <1>3, <1>6
  <2>2. t = [action |-> action, window |-> under]
    BY <1>2, <2>1
  <2>3. QED
    BY <1>3, <1>6, <2>2 DEF TargetGoes
<1>7. CASE own = None /\ under = None
  <2>1. ws = {}
    BY <1>1, <1>3, <1>7
  <2>2. t = IF action = "down" \/ gone = None THEN [action |-> action, window |-> None]
            ELSE [action |-> "cancel", window |-> gone]
    BY <1>2, <2>1
  <2>3. CASE action = "down" \/ gone = None
    BY <1>3, <1>4, <1>7, <2>2, <2>3 DEF TargetGoes
  <2>4. CASE ~(action = "down" \/ gone = None)
    BY <1>3, <1>4, <1>7, <2>2, <2>4 DEF TargetGoes
  <2>5. QED
    BY <2>3, <2>4
<1>8. CASE own \in Windows \ windows
  <2>1. ws = {}
    BY <1>1, <1>3, <1>8
  <2>2. t = IF action = "down" \/ gone = None THEN [action |-> action, window |-> None]
            ELSE [action |-> "cancel", window |-> gone]
    BY <1>2, <2>1
  <2>3. CASE action = "down" \/ gone = None
    BY <1>3, <1>4, <1>8, <2>2, <2>3 DEF TargetGoes
  <2>4. CASE ~(action = "down" \/ gone = None)
    BY <1>3, <1>4, <1>8, <2>2, <2>4 DEF TargetGoes
  <2>5. QED
    BY <2>3, <2>4
<1>9. QED
  BY <1>3, <1>5, <1>6, <1>7, <1>8

(* GetClientFd and HandlePointerEventInner, as far as types go. *)
LEMMA ReceiverIs ==
  ASSUME StateOK, NEW e, NEW infos, Map(infos, Fingers, Windows)
  PROVE  Receiver(e, infos) \in Windows \cup {None}
BY GetIs, NoneIsNothing DEF Receiver, StateOK

LEMMA DispatchIsTyped ==
  ASSUME StateOK, NEW e, NEW infos, Map(infos, Fingers, Windows), e.action = "down" => e.pointer \in Fingers,
         NEW before \in [Windows -> SUBSET Fingers], Dispatch(e, infos, before)
  PROVE  /\ Map(downInfos', Fingers, Windows) /\ stray' \in BOOLEAN
         /\ touching' \in [Windows -> SUBSET Fingers]
<1>1. PICK w : w = Receiver(e, infos) /\ w \in Windows \cup {None}
  BY ReceiverIs
<1>2. PICK v : v = CASE e.action = "down"   -> before[w] \cup {e.pointer}
                     [] e.action = "up"     -> before[w] \ {e.pointer}
                     [] e.action = "cancel" -> {}
                     [] OTHER               -> before[w]
  OBVIOUS
<1>3. touching' = IF w = None THEN before ELSE [before EXCEPT ![w] = v]
  BY <1>1, <1>2 DEF Dispatch
<1>4. w # None => v \in SUBSET Fingers
  <2>1. SUFFICES ASSUME w # None PROVE v \in SUBSET Fingers
    OBVIOUS
  <2>2. before[w] \in SUBSET Fingers
    BY <1>1, <2>1
  <2>3. CASE e.action = "down"
    BY <1>2, <2>2, <2>3
  <2>4. CASE e.action = "up"
    BY <1>2, <2>2, <2>4
  <2>5. CASE e.action = "cancel"
    BY <1>2, <2>5
  <2>6. CASE e.action \notin {"down", "up", "cancel"}
    BY <1>2, <2>2, <2>6
  <2>7. QED
    BY <2>3, <2>4, <2>5, <2>6
<1>5. touching' \in [Windows -> SUBSET Fingers]
  BY <1>1, <1>3, <1>4
<1>6. Map(downInfos', Fingers, Windows) /\ stray' \in BOOLEAN
  BY MapWithout DEF Dispatch, LookedUp
<1>7. QED
  BY <1>5, <1>6

-----------------------------------------------------------------------------
(* What the steps of a touch do to Sound *)

LEMMA SoundDown ==
  ASSUME NEW ws \in SUBSET Windows, NEW it, NEW di, NEW to \in [Windows -> SUBSET Fingers],
         Sound(ws, it, di, to), NEW f \in Fingers, f \notin DOMAIN it, NEW w \in ws
  PROVE  Sound(ws, With(it, f, w), With(di, f, w), [to EXCEPT ![w] = @ \cup {f}])
<1>1. PICK it2, di2, to2 :
        it2 = With(it, f, w) /\ di2 = With(di, f, w) /\ to2 = [to EXCEPT ![w] = @ \cup {f}]
  OBVIOUS
<1>2. /\ DOMAIN it2 = DOMAIN it \cup {f} /\ it2[f] = w
      /\ \A x \in DOMAIN it : x # f => it2[x] = it[x]
  BY <1>1 DEF With
<1>3. /\ DOMAIN di2 = DOMAIN di \cup {f} /\ di2[f] = w
      /\ \A x \in DOMAIN di : x # f => di2[x] = di[x]
  BY <1>1 DEF With
<1>4. to2[w] = to[w] \cup {f} /\ \A v \in Windows : v # w => to2[v] = to[v]
  BY <1>1
<1>5. \A x \in DOMAIN it2 : it2[x] \in Windows
  BY <1>2 DEF Sound
<1>6. ASSUME NEW v \in Windows, NEW x \in to2[v] PROVE x \in DOMAIN it2 /\ it2[x] = v /\ x \in DOMAIN di2
  <2>1. CASE x \in to[v]
    BY <2>1, <1>2, <1>3 DEF Sound
  <2>2. CASE x \notin to[v]
    BY <1>2, <1>3, <1>4, <1>6, <2>2
  <2>3. QED
    BY <2>1, <2>2
<1>7. \A x \in DOMAIN di2 : x \in DOMAIN it2 /\ di2[x] = it2[x]
  BY <1>2, <1>3 DEF Sound
<1>8. ASSUME NEW x \in DOMAIN it2 \ DOMAIN di2 PROVE it2[x] \notin ws /\ to2[it2[x]] = {}
  <2>1. x \in DOMAIN it \ DOMAIN di /\ x # f
    BY <1>2, <1>3, <1>8
  <2>2. it[x] \notin ws /\ to[it[x]] = {} /\ it[x] \in Windows
    BY <2>1 DEF Sound
  <2>3. QED
    BY <1>2, <1>4, <2>1, <2>2
<1>9. ASSUME NEW x \in DOMAIN it2, it2[x] \in ws PROVE x \in to2[it2[x]]
  <2>1. CASE x = f
    BY <1>2, <1>4, <2>1
  <2>2. CASE x # f
    <3>1. x \in DOMAIN it /\ it[x] = it2[x] /\ it[x] \in Windows
      BY <1>2, <1>9, <2>2
    <3>2. x \in to[it[x]]
      BY <1>9, <3>1 DEF Sound
    <3>3. QED
      BY <1>4, <3>1, <3>2
  <2>3. QED
    BY <2>1, <2>2
<1>10. Sound(ws, it2, di2, to2)
  BY <1>5, <1>6, <1>7, <1>8, <1>9 DEF Sound
<1>11. QED
  BY <1>1, <1>10

LEMMA SoundUp ==
  ASSUME NEW ws \in SUBSET Windows, NEW it, NEW di, NEW to \in [Windows -> SUBSET Fingers],
         Sound(ws, it, di, to), NEW f \in DOMAIN it, it[f] \in ws
  PROVE  /\ f \in to[it[f]]
         /\ Sound(ws, Without(it, f), Without(di, f), [to EXCEPT ![it[f]] = @ \ {f}])
<1>1. PICK w, it2, di2, to2 :
        /\ w = it[f]
        /\ it2 = Without(it, f) /\ di2 = Without(di, f) /\ to2 = [to EXCEPT ![w] = @ \ {f}]
  OBVIOUS
<1>2. DOMAIN it2 = DOMAIN it \ {f} /\ \A x \in DOMAIN it : x # f => it2[x] = it[x]
  BY <1>1, WithoutApplies
<1>3. DOMAIN di2 = DOMAIN di \ {f} /\ \A x \in DOMAIN di : x # f => di2[x] = di[x]
  BY <1>1, WithoutApplies
<1>4. w \in Windows /\ to2[w] = to[w] \ {f} /\ \A v \in Windows : v # w => to2[v] = to[v]
  BY <1>1
<1>5. \A x \in DOMAIN it2 : it2[x] \in Windows
  BY <1>2 DEF Sound
<1>6. ASSUME NEW v \in Windows, NEW x \in to2[v] PROVE x \in DOMAIN it2 /\ it2[x] = v /\ x \in DOMAIN di2
  <2>1. x \in to[v]
    BY <1>4, <1>6
  <2>2. x \in DOMAIN it /\ it[x] = v /\ x \in DOMAIN di
    BY <2>1 DEF Sound
  <2>3. x # f
    BY <1>1, <1>4, <1>6, <2>2
  <2>4. QED
    BY <1>2, <1>3, <2>2, <2>3
<1>7. \A x \in DOMAIN di2 : x \in DOMAIN it2 /\ di2[x] = it2[x]
  BY <1>2, <1>3 DEF Sound
<1>8. ASSUME NEW x \in DOMAIN it2 \ DOMAIN di2 PROVE it2[x] \notin ws /\ to2[it2[x]] = {}
  <2>1. x \in DOMAIN it \ DOMAIN di /\ x # f
    BY <1>2, <1>3, <1>8
  <2>2. it[x] \notin ws /\ to[it[x]] = {} /\ it[x] \in Windows
    BY <2>1 DEF Sound
  <2>3. QED
    BY <1>1, <1>2, <1>4, <2>1, <2>2
<1>9. ASSUME NEW x \in DOMAIN it2, it2[x] \in ws PROVE x \in to2[it2[x]]
  <2>1. x \in DOMAIN it /\ it[x] = it2[x] /\ it[x] \in Windows /\ x # f
    BY <1>2, <1>9
  <2>2. x \in to[it[x]]
    BY <1>9, <2>1 DEF Sound
  <2>3. QED
    BY <1>4, <2>1, <2>2
<1>10. Sound(ws, it2, di2, to2)
  BY <1>5, <1>6, <1>7, <1>8, <1>9 DEF Sound
<1>11. f \in to[it[f]]
  BY DEF Sound
<1>12. QED
  BY <1>1, <1>10, <1>11

LEMMA SoundDropped ==
  ASSUME NEW ws \in SUBSET Windows, NEW it, NEW di, NEW to \in [Windows -> SUBSET Fingers],
         Sound(ws, it, di, to), NEW f \in DOMAIN it \ DOMAIN di
  PROVE  Sound(ws, Without(it, f), di, to)
<1>1. PICK it2 : it2 = Without(it, f)
  OBVIOUS
<1>2. DOMAIN it2 = DOMAIN it \ {f} /\ \A x \in DOMAIN it : x # f => it2[x] = it[x]
  BY <1>1, WithoutApplies
<1>3. \A v \in Windows : \A x \in to[v] : x \in DOMAIN it2 /\ it2[x] = v /\ x \in DOMAIN di
  BY <1>2 DEF Sound
<1>4. \A x \in DOMAIN di : x \in DOMAIN it2 /\ di[x] = it2[x]
  BY <1>2 DEF Sound
<1>5. \A x \in DOMAIN it2 : it2[x] \in Windows
  BY <1>2 DEF Sound
<1>6. \A x \in DOMAIN it2 \ DOMAIN di : it2[x] \notin ws /\ to[it2[x]] = {}
  BY <1>2 DEF Sound
<1>7. \A x \in DOMAIN it2 : it2[x] \in ws => x \in to[it2[x]]
  BY <1>2 DEF Sound
<1>8. QED
  BY <1>1, <1>3, <1>4, <1>5, <1>6, <1>7 DEF Sound

LEMMA SoundCancel ==
  ASSUME NEW ws \in SUBSET Windows, NEW it, NEW di, NEW to \in [Windows -> SUBSET Fingers],
         Sound(ws, it, di, to), NEW f \in DOMAIN di, it[f] \notin ws
  PROVE  /\ f \in DOMAIN it /\ di[f] = it[f] /\ it[f] \in Windows
         /\ Sound(ws, it, Without(di, f), [to EXCEPT ![it[f]] = {}])
<1>1. f \in DOMAIN it /\ di[f] = it[f] /\ it[f] \in Windows
  BY DEF Sound
<1>2. PICK w, di2, to2 : w = it[f] /\ di2 = Without(di, f) /\ to2 = [to EXCEPT ![w] = {}]
  OBVIOUS
<1>3. DOMAIN di2 = DOMAIN di \ {f} /\ \A x \in DOMAIN di : x # f => di2[x] = di[x]
  BY <1>2, WithoutApplies
<1>4. w \in Windows /\ to2[w] = {} /\ \A v \in Windows : v # w => to2[v] = to[v]
  BY <1>1, <1>2
<1>5. ASSUME NEW v \in Windows, NEW x \in to2[v] PROVE x \in DOMAIN it /\ it[x] = v /\ x \in DOMAIN di2
  <2>1. v # w /\ x \in to[v]
    BY <1>4, <1>5
  <2>2. x \in DOMAIN it /\ it[x] = v /\ x \in DOMAIN di
    BY <2>1 DEF Sound
  <2>3. QED
    BY <1>2, <1>3, <2>1, <2>2
<1>6. \A x \in DOMAIN di2 : x \in DOMAIN it /\ di2[x] = it[x]
  BY <1>3 DEF Sound
<1>7. ASSUME NEW x \in DOMAIN it \ DOMAIN di2 PROVE it[x] \notin ws /\ to2[it[x]] = {}
  <2>1. CASE x = f
    BY <1>2, <1>4, <2>1
  <2>2. CASE x # f
    <3>1. x \in DOMAIN it \ DOMAIN di
      BY <1>3, <1>7, <2>2
    <3>2. it[x] \notin ws /\ to[it[x]] = {} /\ it[x] \in Windows
      BY <3>1 DEF Sound
    <3>3. QED
      BY <1>4, <3>2
  <2>3. QED
    BY <2>1, <2>2
<1>8. ASSUME NEW x \in DOMAIN it, it[x] \in ws PROVE x \in to2[it[x]]
  <2>1. x \in to[it[x]] /\ it[x] # w /\ it[x] \in Windows
    BY <1>2, <1>8 DEF Sound
  <2>2. QED
    BY <1>4, <2>1
<1>9. \A x \in DOMAIN it : it[x] \in Windows
  BY DEF Sound
<1>10. Sound(ws, it, di2, to2)
  BY <1>5, <1>6, <1>7, <1>8, <1>9 DEF Sound
<1>11. QED
  BY <1>1, <1>2, <1>10

LEMMA SoundWindows ==
  ASSUME NEW ws, NEW it, NEW di, NEW to, Sound(ws, it, di, to), NEW ws2,
         ws2 \subseteq ws \/ DOMAIN it = {}
  PROVE  Sound(ws2, it, di, to)
BY DEF Sound

LEMMA SoundAtFirst ==
  ASSUME NEW ws, NEW to, \A w \in Windows : to[w] = {}
  PROVE  Sound(ws, Empty, Empty, to)
BY EmptyIsMap DEF Sound

-----------------------------------------------------------------------------
(* The fingers of a touch, and whether it is the first of its gesture. *)
Targets(action, finger) == IF action = "down" THEN With(items, finger, None) ELSE items
Action == {"down", "move", "up"}

LEMMA TargetsAreMap ==
  ASSUME StateOK, NEW action \in Action, NEW finger \in Fingers
  PROVE  /\ Map(Targets(action, finger), Fingers, Windows \cup {None})
         /\ IsFiniteSet(DOMAIN Targets(action, finger))
         /\ DOMAIN Targets(action, finger) =
              IF action = "down" THEN DOMAIN items \cup {finger} ELSE DOMAIN items
<1>1. CASE action = "down"
  <2>1. Targets(action, finger) = With(items, finger, None)
    BY <1>1 DEF Targets
  <2>2. Map(With(items, finger, None), Fingers, Windows \cup {None})
    BY MapWith DEF StateOK
  <2>3. DOMAIN With(items, finger, None) = DOMAIN items \cup {finger}
    BY DEF With
  <2>4. IsFiniteSet(DOMAIN items \cup {finger})
    BY FS_AddElement DEF StateOK
  <2>5. QED
    BY <1>1, <2>1, <2>2, <2>3, <2>4
<1>2. CASE action # "down"
  BY <1>2 DEF Targets, StateOK
<1>3. QED
  BY <1>1, <1>2

LEMMA FirstIs ==
  ASSUME StateOK, NEW action \in Action, NEW finger \in Fingers,
         action = "down" <=> finger \notin DOMAIN items,
         NEW e, e.action \in {action, "cancel"}, action = "down" => e.action = "down"
  PROVE  First(e, DOMAIN Targets(action, finger)) <=> items = Empty
<1>1. IsFiniteSet(DOMAIN items) /\ (DOMAIN items = {} <=> items = Empty)
  BY EmptyIsMap DEF StateOK
<1>2. PICK fingers : fingers = DOMAIN Targets(action, finger)
  OBVIOUS
<1>3. CASE action = "down"
  <2>1. fingers = DOMAIN items \cup {finger} /\ e.action = "down" /\ finger \notin DOMAIN items
    BY <1>2, <1>3, TargetsAreMap
  <2>2. Cardinality(fingers) = Cardinality(DOMAIN items) + 1 /\ Cardinality(DOMAIN items) \in Nat
    BY <1>1, <2>1, FS_AddElement, FS_CardinalityType
  <2>3. Cardinality(DOMAIN items) = 0 <=> DOMAIN items = {}
    BY <1>1, FS_EmptySet
  <2>4. Cardinality(fingers) = 1 <=> items = Empty
    BY <1>1, <2>2, <2>3
  <2>5. QED
    BY <1>2, <2>1, <2>4 DEF First
<1>4. CASE action # "down"
  <2>1. finger \in DOMAIN items
    BY <1>4
  <2>2. items # Empty
    BY <1>1, <2>1
  <2>3. e.action # "down"
    BY <1>4
  <2>4. QED
    BY <2>2, <2>3 DEF First
<1>5. QED
  BY <1>3, <1>4

(* One touch that a window is told of, in a gesture of which the windows
   know what there is to know. *)
LEMMA SoundTouch ==
  ASSUME StateOK, NEW action \in Action, NEW finger \in Fingers,
         action = "down" <=> finger \notin DOMAIN items,
         NEW under \in windows \cup {None},
         NEW before \in [Windows -> SUBSET Fingers], Sound(windows, items, downInfos, before),
         NEW targets, targets = Targets(action, finger),
         NEW t, t = Target(action, finger, targets, under),
         NEW window, window = IF t.window = None THEN event.window ELSE t.window,
         ~(t.window = None /\ (action = "down" \/ window \in windows)),
         NEW newItems, newItems = IF t.window = None THEN targets
                                  ELSE [targets EXCEPT ![finger] = t.window],
         NEW left, left = IF action = "up" THEN Without(newItems, finger) ELSE newItems,
         Dispatch([action |-> t.action, pointer |-> finger, window |-> window],
                  DownInfos(t, finger), before)
  PROVE  Sound(windows, left, downInfos', touching') /\ ~stray'
<1>1. PICK e, infos, w :
        /\ e = [action |-> t.action, pointer |-> finger, window |-> window]
        /\ infos = DownInfos(t, finger)
        /\ w = Receiver(e, infos)
  OBVIOUS
<1>2. windows \in SUBSET Windows /\ None \notin Windows /\ None \notin windows
  BY NoneIsNothing DEF StateOK
<1>3. /\ Map(targets, Fingers, Windows \cup {None})
      /\ DOMAIN targets = IF action = "down" THEN DOMAIN items \cup {finger} ELSE DOMAIN items
  BY TargetsAreMap
<1>4. finger \in DOMAIN targets
  BY <1>3
<1>5. TargetGoes(t, action, finger, targets[finger], under)
  <2>1. action \in {"down", "move", "up", "cancel"}
    BY DEF Action
  <2>2. QED
    BY <1>3, <1>4, <2>1, TargetIs
<1>6. /\ e.action = t.action /\ e.pointer = finger /\ e.window = window
  BY <1>1
<1>7. /\ downInfos' = IF e.window \notin windows /\ e.action = "cancel"
                      THEN Without(infos, e.pointer) ELSE infos
      /\ stray' = (w # None /\ e.action \in {"move", "up"} /\ e.pointer \notin before[w])
      /\ w = None => touching' = before
      /\ w # None /\ e.action = "down" => touching' = [before EXCEPT ![w] = @ \cup {e.pointer}]
      /\ w # None /\ e.action = "up" => touching' = [before EXCEPT ![w] = @ \ {e.pointer}]
      /\ w # None /\ e.action = "cancel" => touching' = [before EXCEPT ![w] = {}]
      /\ w # None /\ e.action = "move" => touching' = before
  <2>1. Dispatch(e, infos, before)
    BY <1>1
  <2>2. PICK v : v = CASE e.action = "down"   -> before[w] \cup {e.pointer}
                       [] e.action = "up"     -> before[w] \ {e.pointer}
                       [] e.action = "cancel" -> {}
                       [] OTHER               -> before[w]
    OBVIOUS
  <2>3. touching' = IF w = None THEN before ELSE [before EXCEPT ![w] = v]
    BY <1>1, <2>1, <2>2 DEF Dispatch
  <2>4. e.action = "down" => v = before[w] \cup {e.pointer}
    BY <2>2
  <2>5. e.action = "up" => v = before[w] \ {e.pointer}
    BY <2>2
  <2>6. e.action = "cancel" => v = {}
    BY <2>2
  <2>7. e.action = "move" => v = before[w]
    BY <2>2
  <2>8. [before EXCEPT ![w] = before[w]] = before
    OBVIOUS
  <2>9. /\ downInfos' = IF e.window \notin windows /\ e.action = "cancel"
                        THEN Without(infos, e.pointer) ELSE infos
        /\ stray' = (w # None /\ e.action \in {"move", "up"} /\ e.pointer \notin before[w])
    BY <1>1, <2>1 DEF Dispatch, LookedUp
  <2>10. w = None => touching' = before
    BY <2>3
  <2>11. w # None /\ e.action = "down" => touching' = [before EXCEPT ![w] = @ \cup {e.pointer}]
    BY <2>3, <2>4
  <2>12. w # None /\ e.action = "up" => touching' = [before EXCEPT ![w] = @ \ {e.pointer}]
    BY <2>3, <2>5
  <2>13. w # None /\ e.action = "cancel" => touching' = [before EXCEPT ![w] = {}]
    BY <2>3, <2>6
  <2>14. w # None /\ e.action = "move" => touching' = before
    BY <2>3, <2>7, <2>8
  <2>15. QED
    BY <2>9, <2>10, <2>11, <2>12, <2>13, <2>14
<1>8. /\ e.window \in windows => w = e.window
      /\ e.window \notin windows /\ e.action # "cancel" => w = None
      /\ e.window \notin windows /\ e.action = "cancel" => w = Get(infos, finger)
  BY <1>1, <1>6 DEF Receiver
<1>9. CASE action = "down"
  <2>1. finger \notin DOMAIN items /\ targets = With(items, finger, None)
    BY <1>9 DEF Targets
  <2>2. targets[finger] = None
    BY <2>1 DEF With
  <2>3. t = [action |-> "down", window |-> under]
    BY <1>5, <1>9, <2>2 DEF TargetGoes
  <2>4. under \in windows /\ window = under /\ t.window # None /\ t.window = under /\ t.action = "down"
    BY <1>2, <1>9, <2>3
  <2>5. left = With(items, finger, under)
    <3>1. newItems = [targets EXCEPT ![finger] = under] /\ left = newItems
      BY <1>9, <2>4
    <3>2. [targets EXCEPT ![finger] = under] = With(items, finger, under)
      BY <2>1 DEF With
    <3>3. QED
      BY <3>1, <3>2
  <2>6. infos = With(downInfos, finger, under)
    <3>1. finger \notin DOMAIN downInfos
      BY <2>1 DEF Sound
    <3>2. infos = Insert(downInfos, finger, under)
      BY <1>1, <1>2, <2>3, <2>4 DEF DownInfos
    <3>3. QED
      BY <3>1, <3>2 DEF Insert
  <2>7. w = under /\ e.window \in windows /\ w # None
    BY <1>2, <1>6, <1>8, <2>4
  <2>8. downInfos' = With(downInfos, finger, under)
    BY <1>7, <2>6, <2>7
  <2>9. touching' = [before EXCEPT ![under] = @ \cup {finger}]
    BY <1>6, <1>7, <2>4, <2>7
  <2>10. stray' = FALSE
    BY <1>6, <1>7, <2>4
  <2>11. Sound(windows, With(items, finger, under), With(downInfos, finger, under),
               [before EXCEPT ![under] = @ \cup {finger}])
    BY <1>2, <2>1, <2>4, SoundDown
  <2>12. QED
    BY <2>5, <2>8, <2>9, <2>10, <2>11
<1>10. CASE action # "down"
  <2>1. action \in {"move", "up"} /\ finger \in DOMAIN items /\ targets = items
    BY <1>10 DEF Action, Targets
  <2>2. PICK own : own = items[finger] /\ own \in Windows
    BY <2>1 DEF Sound
  <2>3. [items EXCEPT ![finger] = own] = items
    BY <2>2 DEF StateOK, Map
  <2>4. CASE own \in windows
    <3>1. t = [action |-> action, window |-> own]
      BY <1>5, <2>1, <2>2, <2>4 DEF TargetGoes
    <3>2. window = own /\ t.window = own /\ t.window # None /\ t.action = action
      BY <1>2, <2>2, <3>1
    <3>3. newItems = items
      BY <2>1, <2>3, <3>2
    <3>4. w = own /\ w # None /\ e.window \in windows
      BY <1>2, <1>6, <1>8, <2>2, <2>4, <3>2
    <3>5. downInfos' = infos
      BY <1>7, <3>4
    <3>6. /\ finger \in before[own]
          /\ Sound(windows, Without(items, finger), Without(downInfos, finger),
                   [before EXCEPT ![own] = @ \ {finger}])
      BY <1>2, <2>1, <2>2, <2>4, SoundUp
    <3>7. stray' = FALSE
      BY <1>6, <1>7, <3>4, <3>6
    <3>8. CASE action = "move"
      <4>1. infos = downInfos
        BY <1>1, <3>2, <3>8 DEF DownInfos
      <4>2. touching' = before
        BY <1>6, <1>7, <3>2, <3>4, <3>8
      <4>3. left = items
        BY <3>3, <3>8
      <4>4. QED
        BY <3>5, <3>7, <4>1, <4>2, <4>3
    <3>9. CASE action = "up"
      <4>1. infos = Without(downInfos, finger)
        BY <1>1, <3>2, <3>9 DEF DownInfos
      <4>2. touching' = [before EXCEPT ![own] = @ \ {finger}]
        BY <1>6, <1>7, <3>2, <3>4, <3>9
      <4>3. left = Without(items, finger)
        BY <3>3, <3>9
      <4>4. QED
        BY <3>5, <3>6, <3>7, <4>1, <4>2, <4>3
    <3>10. QED
      BY <2>1, <3>8, <3>9
  <2>5. CASE own \notin windows /\ finger \notin DOMAIN downInfos
    <3>1. t = [action |-> action, window |-> None]
      BY <1>5, <1>10, <2>1, <2>2, <2>5 DEF TargetGoes
    <3>2. t.window = None /\ t.action = action /\ window \notin windows
      BY <3>1
    <3>3. newItems = items /\ infos = downInfos
      <4>1. newItems = items
        BY <2>1, <3>2
      <4>2. infos = downInfos
        BY <1>1, <3>2 DEF DownInfos
      <4>3. QED
        BY <4>1, <4>2
    <3>4. e.action # "cancel" /\ e.window \notin windows
      BY <1>6, <2>1, <3>2
    <3>5. w = None
      BY <1>8, <3>4
    <3>6. downInfos' = downInfos /\ touching' = before /\ stray' = FALSE
      BY <1>7, <3>3, <3>4, <3>5
    <3>7. Sound(windows, Without(items, finger), downInfos, before)
      BY <1>2, <2>1, <2>5, SoundDropped
    <3>8. left = items \/ left = Without(items, finger)
      BY <3>3
    <3>9. QED
      BY <3>6, <3>7, <3>8
  <2>6. CASE own \notin windows /\ finger \in DOMAIN downInfos
    <3>1. t = [action |-> "cancel", window |-> downInfos[finger]]
      BY <1>5, <1>10, <2>1, <2>2, <2>6 DEF TargetGoes
    <3>2. /\ downInfos[finger] = own
          /\ Sound(windows, items, Without(downInfos, finger), [before EXCEPT ![own] = {}])
      <4>1. items[finger] \notin windows
        BY <2>2, <2>6
      <4>2. Sound(windows, items, Without(downInfos, finger), [before EXCEPT ![items[finger]] = {}])
        BY <1>2, <2>6, <4>1, SoundCancel
      <4>3. downInfos[finger] = items[finger]
        BY <2>6 DEF Sound
      <4>4. QED
        BY <2>2, <4>2, <4>3
    <3>3. t.window = own /\ t.window # None /\ t.action = "cancel" /\ window = own
      BY <1>2, <2>2, <3>1, <3>2
    <3>4. newItems = items
      BY <2>1, <2>3, <3>3
    <3>5. infos = downInfos
      BY <1>1, <3>3 DEF DownInfos
    <3>6. e.action = "cancel" /\ e.window \notin windows
      BY <1>6, <2>6, <3>3
    <3>7. w = own /\ w # None
      BY <1>2, <1>8, <2>2, <2>6, <3>2, <3>5, <3>6 DEF Get
    <3>8. downInfos' = Without(downInfos, finger) /\ touching' = [before EXCEPT ![own] = {}]
      BY <1>6, <1>7, <3>5, <3>6, <3>7
    <3>9. stray' = FALSE
      BY <1>7, <3>6
    <3>10. Sound(windows, Without(items, finger), Without(downInfos, finger), [before EXCEPT ![own] = {}])
      <4>1. finger \in DOMAIN items \ DOMAIN Without(downInfos, finger)
        BY <2>1 DEF Without
      <4>2. [before EXCEPT ![own] = {}] \in [Windows -> SUBSET Fingers]
        BY <2>2
      <4>3. QED
        BY <1>2, <3>2, <4>1, <4>2, SoundDropped
    <3>11. left = items \/ left = Without(items, finger)
      BY <3>4
    <3>12. QED
      BY <3>2, <3>8, <3>9, <3>10, <3>11
  <2>7. QED
    BY <2>4, <2>5, <2>6
<1>11. QED
  BY <1>9, <1>10

-----------------------------------------------------------------------------
(* A touch keeps the invariant. *)
LEMMA TouchKeeps ==
  ASSUME TouchInv, NEW action \in Action, NEW finger \in Fingers,
         action = "down" <=> finger \notin DOMAIN items,
         items = Empty => gesture < MaxGestures,
         NEW under \in windows \cup {None},
         NEW fate \in {"taken", "lost", "dispatched"},
         Touch(action, finger, under, fate)
  PROVE  TouchInv'
<1>1. PICK first, targets, t, window, newItems, left, g, e, infos, before :
        /\ first = (items = Empty)
        /\ targets = Targets(action, finger)
        /\ t = Target(action, finger, targets, under)
        /\ window = IF t.window = None THEN event.window ELSE t.window
        /\ newItems = IF t.window = None THEN targets ELSE [targets EXCEPT ![finger] = t.window]
        /\ left = IF action = "up" THEN Without(newItems, finger) ELSE newItems
        /\ g = IF first THEN gesture + 1 ELSE gesture
        /\ e = [action |-> t.action, pointer |-> finger, window |-> window]
        /\ infos = DownInfos(t, finger)
        /\ before = IF first THEN [w \in Windows |-> {}] ELSE touching
  OBVIOUS
<1>2. /\ gesture' = g /\ items' = left
      /\ event' = IF left = Empty THEN NoEvent ELSE [pointer |-> finger, window |-> window]
      /\ Handle(e, DOMAIN targets, infos, before, g, fate)
      /\ odd' = (IF first THEN odd \cap {"stale"} ELSE odd)
                \cup ({fate} \cap {"taken", "lost"})
                \cup (IF t.window = None /\ (action = "down" \/ window \in windows) THEN {"missed"} ELSE {})
                \cup (IF left = Empty /\ downInfos' # Empty THEN {"stale"} ELSE {})
      /\ marked' = (~first /\ marked)
      /\ windows' = windows
  BY <1>1 DEF Touch, Targets
<1>3. /\ StateOK /\ WindowsAgree /\ NothingIsStale /\ AstrayIsConsumed /\ IdsAreOfGesture
      /\ OnlyMarkedIsConsumed /\ NothingOutOfTheBlue
  BY DEF TouchInv
<1>4. /\ Map(targets, Fingers, Windows \cup {None}) /\ IsFiniteSet(DOMAIN targets)
      /\ finger \in DOMAIN targets
  <2>1. /\ Map(Targets(action, finger), Fingers, Windows \cup {None})
        /\ IsFiniteSet(DOMAIN Targets(action, finger))
    BY <1>3, TargetsAreMap
  <2>2. finger \in DOMAIN Targets(action, finger)
    BY <1>3, TargetsAreMap
  <2>3. targets = Targets(action, finger)
    BY <1>1
  <2>4. QED
    BY <2>1, <2>2, <2>3
<1>5. TargetGoes(t, action, finger, targets[finger], under)
  <2>1. action \in {"down", "move", "up", "cancel"}
    BY DEF Action
  <2>2. QED
    BY <1>1, <1>3, <1>4, <2>1, TargetIs
<1>6. /\ t.window \in Windows \cup {None} /\ t.action \in {action, "cancel"}
      /\ action = "down" => t.action = "down"
  BY <1>5 DEF TargetGoes
<1>7. window \in Windows \cup {None}
  BY <1>1, <1>3, <1>6 DEF StateOK
<1>8. e.action = t.action /\ e.pointer = finger /\ e.window = window
  BY <1>1
<1>9. Map(infos, Fingers, Windows)
  <2>1. Map(downInfos, Fingers, Windows)
    BY <1>3 DEF StateOK
  <2>2. CASE t.window = None
    BY <1>1, <2>1, <2>2 DEF DownInfos
  <2>3. CASE t.window # None
    <3>1. t.window \in Windows
      BY <1>6, <2>3
    <3>2. /\ Map(Insert(downInfos, finger, t.window), Fingers, Windows)
          /\ Map(Without(downInfos, finger), Fingers, Windows)
      BY <2>1, <3>1, MapWith, MapWithout
    <3>3. infos \in {downInfos, Insert(downInfos, finger, t.window), Without(downInfos, finger)}
      BY <1>1, <2>3 DEF DownInfos
    <3>4. QED
      BY <2>1, <3>2, <3>3
  <2>4. QED
    BY <2>2, <2>3
<1>10. before \in [Windows -> SUBSET Fingers] /\ (first => \A w \in Windows : before[w] = {})
  BY <1>1, <1>3 DEF StateOK
<1>11. First(e, DOMAIN targets) <=> first
  <2>1. First(e, DOMAIN Targets(action, finger)) <=> items = Empty
    BY <1>3, <1>6, <1>8, FirstIs
  <2>2. QED
    BY <1>1, <2>1
<1>12. fate = "taken" =>
         Kept(infos, before) /\ eventIds' = eventIds /\ consumed' = consumed
  BY <1>2 DEF Handle, stateVars
<1>13. fate # "taken" =>
         /\ eventIds' = EventIds(e, DOMAIN targets, g)
         /\ consumed' = Consumed(e, DOMAIN targets)
         /\ consumed' => Kept(infos, before)
         /\ ~consumed' /\ fate = "lost" => Kept(LookedUp(e, infos), before)
         /\ ~consumed' /\ fate # "lost" => Dispatch(e, infos, before)
  BY <1>2 DEF Handle, Lose
<1>14. fate # "taken" => consumed' = IF first THEN FALSE ELSE consumed
  BY <1>11, <1>13 DEF Consumed
<1>15. \/ Kept(infos, before)
       \/ Kept(LookedUp(e, infos), before)
       \/ Dispatch(e, infos, before)
  BY <1>12, <1>13
<1>16. g \in 0..MaxGestures /\ g >= gesture /\ gesture \in Nat /\ g # 0
  <2>1. gesture \in 0..MaxGestures /\ MaxGestures \in Nat /\ (~first => gesture # 0)
    BY <1>1, <1>3, TouchAssumption DEF StateOK
  <2>2. gesture \in Nat /\ gesture <= MaxGestures /\ (first => gesture < MaxGestures)
    <3>1. gesture \in Nat /\ gesture <= MaxGestures
      BY <2>1
    <3>2. first => gesture < MaxGestures
      BY <1>1
    <3>3. QED
      BY <3>1, <3>2
  <2>3. g = IF first THEN gesture + 1 ELSE gesture
    BY <1>1
  <2>4. QED
    BY <2>1, <2>2, <2>3
<1>17. StateOK'
  <2>1. windows' \subseteq Windows
    BY <1>2, <1>3 DEF StateOK
  <2>2. Map(newItems, Fingers, Windows \cup {None}) /\ DOMAIN newItems = DOMAIN targets
    BY <1>1, <1>4, <1>6 DEF Map
  <2>3. Map(left, Fingers, Windows \cup {None}) /\ IsFiniteSet(DOMAIN left)
    <3>1. CASE action = "up"
      <4>1. left = Without(newItems, finger)
        BY <1>1, <3>1
      <4>2. Map(left, Fingers, Windows \cup {None})
        BY <2>2, <4>1, MapWithout
      <4>3. DOMAIN left = DOMAIN targets \ {finger}
        BY <2>2, <4>1 DEF Without
      <4>4. IsFiniteSet(DOMAIN targets \ {finger})
        BY <1>4, FS_RemoveElement
      <4>5. QED
        BY <4>2, <4>3, <4>4
    <3>2. CASE action # "up"
      BY <1>1, <1>4, <2>2, <3>2
    <3>3. QED
      BY <3>1, <3>2
  <2>4. event' \in [pointer : Fingers \cup {None}, window : Windows \cup {None}]
    BY <1>2, <1>7 DEF NoEvent
  <2>5. /\ Map(downInfos', Fingers, Windows) /\ stray' \in BOOLEAN
        /\ touching' \in [Windows -> SUBSET Fingers]
    <3>1. CASE Kept(infos, before)
      BY <1>9, <1>10, <3>1 DEF Kept
    <3>2. CASE Dispatch(e, infos, before)
      BY <1>3, <1>8, <1>9, <1>10, <3>2, DispatchIsTyped
    <3>3. CASE Kept(LookedUp(e, infos), before)
      <4>1. Map(LookedUp(e, infos), Fingers, Windows)
        BY <1>9, MapWithout DEF LookedUp
      <4>2. QED
        BY <1>10, <3>3, <4>1 DEF Kept
    <3>4. QED
      BY <1>15, <3>1, <3>2, <3>3
  <2>6. consumed' \in BOOLEAN /\ marked' \in BOOLEAN
    BY <1>2, <1>3, <1>12, <1>14 DEF StateOK
  <2>7. gesture' \in 0..MaxGestures /\ gesture' # 0
    BY <1>2, <1>16
  <2>8. eventIds' \subseteq 1..gesture'
    <3>1. eventIds \subseteq 1..g
      BY <1>3, <1>16 DEF StateOK
    <3>2. g \in 1..g
      BY <1>16
    <3>3. eventIds' \in {eventIds, {g}, {}, eventIds \cup {g}}
      BY <1>12, <1>13 DEF EventIds
    <3>4. QED
      BY <1>2, <3>1, <3>2, <3>3
  <2>9. QED
    BY <1>2, <2>1, <2>3, <2>4, <2>5, <2>6, <2>7, <2>8 DEF StateOK, Map
<1>18. NothingIsStale'
  <2>1. left = Empty /\ downInfos' # Empty => "stale" \in odd'
    BY <1>2
  <2>2. QED
    BY <1>2, <2>1 DEF NothingIsStale
<1>19. AstrayIsConsumed'
  <2>1. SUFFICES ASSUME odd' = {"astray"} PROVE consumed'
    BY DEF AstrayIsConsumed
  <2>2. "astray" \in odd' /\ "taken" \notin odd'
    BY <2>1
  <2>3. fate # "taken"
    BY <1>2, <2>2
  <2>4. "astray" \in odd /\ ~first
    BY <1>2, <2>2
  <2>5. odd \subseteq odd'
    BY <1>2, <2>4
  <2>6. odd = {"astray"}
    BY <2>1, <2>4, <2>5
  <2>7. QED
    BY <1>3, <1>14, <2>3, <2>4, <2>6 DEF AstrayIsConsumed
<1>20. IdsAreOfGesture'
  <2>1. SUFFICES ASSUME left # Empty, "taken" \notin odd' PROVE eventIds' \subseteq {g}
    BY <1>2 DEF IdsAreOfGesture
  <2>2. fate # "taken"
    BY <1>2, <2>1
  <2>3. CASE first
    BY <1>11, <1>13, <2>2, <2>3 DEF EventIds
  <2>4. CASE ~first
    <3>1. "taken" \notin odd /\ items # Empty /\ g = gesture
      BY <1>1, <1>2, <2>1, <2>4
    <3>2. eventIds \subseteq {g}
      BY <1>3, <3>1 DEF IdsAreOfGesture
    <3>3. eventIds' \in {{g}, {}, eventIds \cup {g}}
      BY <1>13, <2>2 DEF EventIds
    <3>4. QED
      BY <3>2, <3>3
  <2>5. QED
    BY <2>3, <2>4
<1>21. OnlyMarkedIsConsumed'
  <2>1. SUFFICES ASSUME consumed', "taken" \notin odd' PROVE marked'
    BY DEF OnlyMarkedIsConsumed
  <2>2. fate # "taken"
    BY <1>2, <2>1
  <2>3. ~first /\ consumed
    BY <1>14, <2>1, <2>2
  <2>4. "taken" \notin odd /\ items # Empty
    BY <1>1, <1>2, <2>1, <2>3
  <2>5. QED
    BY <1>2, <1>3, <2>3, <2>4 DEF OnlyMarkedIsConsumed
<1>22. ASSUME odd' \subseteq {"astray"}
       PROVE  /\ ~stray'
              /\ odd' = {} /\ ~consumed' => Sound(windows, left, downInfos', touching')
              /\ odd' = {} /\ consumed' => \A w \in Windows : touching'[w] = {}
  <2>1. /\ fate = "dispatched" /\ "stale" \notin odd
        /\ ~(t.window = None /\ (action = "down" \/ window \in windows))
    <3>1. "taken" \notin odd' /\ "lost" \notin odd' /\ "missed" \notin odd' /\ "stale" \notin odd'
      BY <1>22
    <3>2. QED
      BY <1>2, <3>1
  <2>2. CASE consumed'
    <3>1. ~first /\ consumed
      BY <1>14, <2>1, <2>2
    <3>2. Kept(infos, before)
      BY <1>13, <2>1, <2>2
    <3>3. touching' = touching /\ ~stray'
      BY <1>1, <3>1, <3>2 DEF Kept
    <3>4. ASSUME odd' = {} PROVE \A w \in Windows : touching[w] = {}
      <4>1. odd = {}
        BY <1>2, <3>1, <3>4
      <4>2. QED
        BY <1>3, <3>1, <4>1 DEF WindowsAgree, AllUntouched
    <3>5. QED
      BY <2>2, <3>3, <3>4
  <2>3. CASE ~consumed'
    <3>1. Dispatch(e, infos, before)
      BY <1>13, <2>1, <2>3
    <3>2. Sound(windows, items, downInfos, before)
      <4>1. CASE first
        <5>1. items = Empty /\ downInfos = Empty
          BY <1>1, <1>3, <2>1, <4>1 DEF NothingIsStale
        <5>2. \A w \in Windows : before[w] = {}
          BY <1>10, <4>1
        <5>3. Sound(windows, Empty, Empty, before)
          BY <5>2, SoundAtFirst
        <5>4. QED
          BY <5>1, <5>3
      <4>2. CASE ~first
        <5>1. ~consumed
          BY <1>14, <2>1, <2>3, <4>2
        <5>2. odd \subseteq {"astray"}
          BY <1>2, <1>22, <4>2
        <5>3. odd # {"astray"}
          BY <1>3, <5>1 DEF AstrayIsConsumed
        <5>4. odd = {}
          BY <5>2, <5>3
        <5>5. before = touching
          BY <1>1, <4>2
        <5>6. QED
          BY <1>3, <5>1, <5>4, <5>5 DEF WindowsAgree
      <4>3. QED
        BY <4>1, <4>2
    <3>3. Sound(windows, left, downInfos', touching') /\ ~stray'
      <4>1. Dispatch([action |-> t.action, pointer |-> finger, window |-> window],
                     DownInfos(t, finger), before)
        BY <1>1, <3>1
      <4>2. QED
        BY <1>1, <1>3, <1>10, <2>1, <3>2, <4>1, SoundTouch
    <3>4. QED
      BY <2>3, <3>3
  <2>4. QED
    BY <2>2, <2>3
<1>23. NothingOutOfTheBlue'
  BY <1>22 DEF NothingOutOfTheBlue
<1>24. WindowsAgree'
  <2>1. odd' = {} /\ ~consumed' => Sound(windows', items', downInfos', touching')
    BY <1>2, <1>22
  <2>2. odd' = {} /\ consumed' => \A w \in Windows : touching'[w] = {}
    BY <1>22
  <2>3. QED
    BY <2>1, <2>2 DEF WindowsAgree, AllUntouched, Sound
<1>25. QED
  BY <1>17, <1>18, <1>19, <1>20, <1>21, <1>23, <1>24 DEF TouchInv

-----------------------------------------------------------------------------
(* A mark keeps the invariant.  It leaves no window with a touch unless the
   cancel went astray. *)
LEMMA MarkKeeps ==
  ASSUME TouchInv, NEW g \in eventIds, NEW under \in windows \cup {None},
         NEW fate \in {"filtered", "lost", "dispatched"}, MarkConsumed(g, under, fate)
  PROVE  TouchInv'
<1>1. PICK target, window, e :
        /\ target = IF event.pointer \in DOMAIN items
                    THEN Target("cancel", event.pointer, items, under)
                    ELSE [action |-> "cancel", window |-> None]
        /\ window = IF target.window = None THEN event.window ELSE target.window
        /\ e = [action |-> "cancel", pointer |-> event.pointer, window |-> window]
  OBVIOUS
<1>2. /\ ~consumed /\ consumed' = TRUE
      /\ marked' = (marked \/ g = gesture)
      /\ fate = "filtered" => Kept(downInfos, touching)
      /\ fate = "lost" => Kept(LookedUp(e, downInfos), touching)
      /\ fate = "dispatched" => Dispatch(e, downInfos, touching)
      /\ odd' = odd \cup (IF fate = "filtered" THEN {"taken"} ELSE {})
                    \cup ({fate} \cap {"lost"})
                    \cup (IF CancelAstray(window) THEN {"astray"} ELSE {})
      /\ windows' = windows /\ items' = items /\ event' = event
      /\ eventIds' = eventIds /\ gesture' = gesture
  BY <1>1 DEF MarkConsumed, Lose, eventVars
<1>3. /\ StateOK /\ WindowsAgree /\ NothingIsStale /\ AstrayIsConsumed /\ IdsAreOfGesture
      /\ OnlyMarkedIsConsumed /\ NothingOutOfTheBlue
  BY DEF TouchInv
<1>4. e.action = "cancel" /\ e.pointer = event.pointer /\ e.window = window
  BY <1>1
<1>5. PICK w : w = Receiver(e, downInfos) /\ w \in Windows \cup {None}
  BY <1>3, ReceiverIs DEF StateOK
<1>6. fate = "dispatched" =>
        /\ downInfos' = IF window \notin windows THEN Without(downInfos, event.pointer) ELSE downInfos
        /\ w = None => touching' = touching
        /\ w # None => touching' = [touching EXCEPT ![w] = {}]
        /\ stray' = FALSE
  <2>1. SUFFICES ASSUME Dispatch(e, downInfos, touching)
                 PROVE  /\ downInfos' = IF window \notin windows THEN Without(downInfos, event.pointer)
                                        ELSE downInfos
                        /\ w = None => touching' = touching
                        /\ w # None => touching' = [touching EXCEPT ![w] = {}]
                        /\ stray' = FALSE
    BY <1>2
  <2>2. PICK v : v = CASE e.action = "down"   -> touching[w] \cup {e.pointer}
                       [] e.action = "up"     -> touching[w] \ {e.pointer}
                       [] e.action = "cancel" -> {}
                       [] OTHER               -> touching[w]
    OBVIOUS
  <2>3. v = {}
    BY <1>4, <2>2
  <2>4. touching' = IF w = None THEN touching ELSE [touching EXCEPT ![w] = v]
    BY <1>5, <2>1, <2>2 DEF Dispatch
  <2>5. stray' = FALSE /\ downInfos' = IF window \notin windows THEN Without(downInfos, event.pointer)
                                ELSE downInfos
    BY <1>4, <2>1 DEF Dispatch, LookedUp
  <2>6. QED
    BY <2>3, <2>4, <2>5
<1>7. fate # "dispatched" =>
        /\ downInfos' \in {downInfos, Without(downInfos, event.pointer)}
        /\ touching' = touching /\ stray' = FALSE
  BY <1>2, <1>4 DEF Kept, LookedUp
<1>8. /\ Map(downInfos', Fingers, Windows) /\ stray' = FALSE
      /\ touching' \in [Windows -> SUBSET Fingers]
  <2>1. Map(downInfos, Fingers, Windows) /\ touching \in [Windows -> SUBSET Fingers]
    BY <1>3 DEF StateOK
  <2>2. Map(Without(downInfos, event.pointer), Fingers, Windows)
    BY <2>1, MapWithout
  <2>3. downInfos' \in {downInfos, Without(downInfos, event.pointer)} /\ stray' = FALSE
    BY <1>6, <1>7
  <2>4. CASE touching' = touching
    BY <2>1, <2>2, <2>3, <2>4
  <2>5. CASE w # None /\ touching' = [touching EXCEPT ![w] = {}]
    BY <1>5, <2>1, <2>2, <2>3, <2>5
  <2>6. QED
    BY <1>6, <1>7, <2>4, <2>5
<1>9. StateOK'
  <2>1. marked' \in BOOLEAN /\ consumed' \in BOOLEAN /\ stray' \in BOOLEAN
    <3>1. marked' \in BOOLEAN
      BY <1>2
    <3>2. consumed' \in BOOLEAN /\ stray' \in BOOLEAN
      BY <1>2, <1>8
    <3>3. QED
      BY <3>1, <3>2
  <2>2. Map(items, Fingers, Windows \cup {None})
    BY <1>3 DEF StateOK
  <2>3. QED
    BY <1>2, <1>3, <1>8, <2>1, <2>2 DEF StateOK, Map
<1>10. NothingIsStale'
  <2>1. SUFFICES ASSUME items = Empty, "stale" \notin odd' PROVE downInfos' = Empty
    BY <1>2 DEF NothingIsStale
  <2>2. downInfos = Empty
    BY <1>2, <1>3, <2>1 DEF NothingIsStale
  <2>3. DOMAIN downInfos' = {}
    <3>1. DOMAIN downInfos = {}
      BY <2>2, EmptyIsMap
    <3>2. DOMAIN Without(downInfos, event.pointer) = {}
      BY <3>1 DEF Without
    <3>3. QED
      BY <1>6, <1>7, <3>1, <3>2
  <2>4. QED
    BY <1>8, <2>3, EmptyIsMap
<1>11. AstrayIsConsumed'
  BY <1>2 DEF AstrayIsConsumed
<1>12. IdsAreOfGesture'
  BY <1>2, <1>3 DEF IdsAreOfGesture
<1>13. OnlyMarkedIsConsumed'
  <2>1. SUFFICES ASSUME items # Empty, "taken" \notin odd' PROVE marked'
    BY <1>2 DEF OnlyMarkedIsConsumed
  <2>2. eventIds \subseteq {gesture}
    BY <1>2, <1>3, <2>1 DEF IdsAreOfGesture
  <2>3. QED
    BY <1>2, <2>2
<1>14. NothingOutOfTheBlue'
  BY <1>8 DEF NothingOutOfTheBlue
<1>15. ASSUME odd' = {} PROVE \A x \in Windows : touching'[x] = {}
  <2>1. odd = {} /\ fate = "dispatched" /\ ~CancelAstray(window)
    BY <1>2, <1>15
  <2>2. Sound(windows, items, downInfos, touching)
    BY <1>2, <1>3, <2>1 DEF WindowsAgree
  <2>3. touching \in [Windows -> SUBSET Fingers]
    BY <1>3 DEF StateOK
  <2>4. w = None => touching' = touching
    BY <1>6, <2>1
  <2>5. w # None => touching'[w] = {} /\ \A x \in Windows : x # w => touching'[x] = touching[x]
    BY <1>5, <1>6, <2>1, <2>3
  <2>6. CASE items = Empty
    <3>1. \A x \in Windows : touching[x] = {}
      BY <2>2, <2>6, EmptyIsMap DEF Sound
    <3>2. QED
      BY <1>5, <2>4, <2>5, <3>1
  <2>7. CASE items # Empty
    <3>1. /\ Range(items) = {window}
          /\ event.pointer \in DOMAIN items \/ window \in windows
      BY <2>1, <2>7 DEF CancelAstray
    <3>2. \A f \in DOMAIN items : items[f] = window
      BY <3>1 DEF Range
    <3>3. \A x \in Windows : x # window => touching[x] = {}
      BY <2>2, <3>2 DEF Sound
    <3>4. None \notin Windows /\ windows \subseteq Windows
      BY <1>3, NoneIsNothing DEF StateOK
    <3>5. CASE window \in windows
      <4>1. w = window
        BY <1>4, <1>5, <3>5 DEF Receiver
      <4>2. QED
        BY <2>5, <3>3, <3>4, <3>5, <4>1
    <3>6. CASE window \notin windows /\ event.pointer \in DOMAIN downInfos
      <4>1. downInfos[event.pointer] = window /\ window \in Windows
        BY <2>2, <3>2, <3>6 DEF Sound
      <4>2. w = window
        BY <1>4, <1>5, <3>6, <4>1 DEF Receiver, Get
      <4>3. QED
        BY <2>5, <3>3, <3>4, <4>1, <4>2
    <3>7. CASE window \notin windows /\ event.pointer \notin DOMAIN downInfos
      <4>1. event.pointer \in DOMAIN items
        BY <3>1, <3>7
      <4>2. touching[items[event.pointer]] = {}
        BY <2>2, <3>7, <4>1 DEF Sound
      <4>3. touching[window] = {}
        BY <3>2, <4>1, <4>2
      <4>4. \A x \in Windows : touching[x] = {}
        BY <3>3, <4>3
      <4>5. QED
        BY <1>5, <2>4, <2>5, <4>4
    <3>8. QED
      BY <3>5, <3>6, <3>7
  <2>8. QED
    BY <2>6, <2>7
<1>16. WindowsAgree'
  BY <1>2, <1>15 DEF WindowsAgree, AllUntouched
<1>17. QED
  BY <1>9, <1>10, <1>11, <1>12, <1>13, <1>14, <1>16 DEF TouchInv

-----------------------------------------------------------------------------
(* Windows come and go: no step of a touch, but WindowsAgree is about them. *)
LEMMA WindowsKeep ==
  ASSUME TouchInv, NEW newWindows \in SUBSET Windows, UpdateDisplayInfo(newWindows)
  PROVE  TouchInv'
<1>1. /\ windows' = newWindows
      /\ odd' = IF items # Empty /\ newWindows \ windows # {} THEN odd \cup {"opened"} ELSE odd
      /\ items' = items /\ event' = event /\ downInfos' = downInfos /\ eventIds' = eventIds
      /\ consumed' = consumed /\ gesture' = gesture /\ marked' = marked /\ touching' = touching
      /\ stray' = stray
  BY DEF UpdateDisplayInfo, eventVars, stateVars
<1>2. /\ StateOK /\ WindowsAgree /\ NothingIsStale /\ AstrayIsConsumed /\ IdsAreOfGesture
      /\ OnlyMarkedIsConsumed /\ NothingOutOfTheBlue
  BY DEF TouchInv
<1>3. StateOK'
  <2>1. Map(items, Fingers, Windows \cup {None}) /\ Map(downInfos, Fingers, Windows)
    BY <1>2 DEF StateOK
  <2>2. QED
    BY <1>1, <1>2, <2>1 DEF StateOK, Map
<1>4. odd \subseteq odd' /\ (odd' = odd \/ "opened" \in odd')
  BY <1>1
<1>5. NothingIsStale' /\ IdsAreOfGesture' /\ OnlyMarkedIsConsumed'
  BY <1>1, <1>2, <1>4 DEF NothingIsStale, IdsAreOfGesture, OnlyMarkedIsConsumed
<1>6. AstrayIsConsumed' /\ NothingOutOfTheBlue'
  BY <1>1, <1>2, <1>4 DEF AstrayIsConsumed, NothingOutOfTheBlue
<1>7. WindowsAgree'
  <2>1. SUFFICES ASSUME odd' = {}
                 PROVE  /\ ~consumed' => Sound(windows', items', downInfos', touching')
                        /\ consumed' => \A w \in Windows : touching'[w] = {}
    BY DEF WindowsAgree, AllUntouched, Sound
  <2>2. odd = {} /\ (items = Empty \/ newWindows \subseteq windows)
    BY <1>1, <2>1
  <2>3. CASE consumed
    BY <1>1, <1>2, <2>2, <2>3 DEF WindowsAgree, AllUntouched
  <2>4. CASE ~consumed
    <3>1. Sound(windows, items, downInfos, touching)
      BY <1>2, <2>2, <2>4 DEF WindowsAgree
    <3>2. newWindows \subseteq windows \/ DOMAIN items = {}
      BY <2>2, EmptyIsMap
    <3>3. Sound(newWindows, items, downInfos, touching)
      BY <3>1, <3>2, SoundWindows
    <3>4. QED
      BY <1>1, <2>4, <3>3
  <2>5. QED
    BY <1>1, <2>3, <2>4
<1>8. QED
  BY <1>3, <1>5, <1>6, <1>7 DEF TouchInv

-----------------------------------------------------------------------------
(* The invariant holds from the start and is kept by every step. *)
LEMMA TouchInvInit == Init => TouchInv
<1>1. SUFFICES ASSUME Init PROVE TouchInv
  OBVIOUS
<1>2. /\ windows = Windows /\ items = Empty /\ event = NoEvent /\ downInfos = Empty
      /\ eventIds = {} /\ consumed = FALSE /\ gesture = 0 /\ marked = FALSE
      /\ touching = [w \in Windows |-> {}] /\ stray = FALSE /\ odd = {}
  BY <1>1 DEF Init
<1>3. StateOK
  <2>1. Map(items, Fingers, Windows \cup {None}) /\ Map(downInfos, Fingers, Windows)
    BY <1>2, EmptyIsMap
  <2>2. IsFiniteSet(DOMAIN items)
    BY <1>2, EmptyIsMap, FS_EmptySet
  <2>3. gesture \in 0..MaxGestures
    BY <1>2, TouchAssumption
  <2>4. QED
    BY <1>2, <2>1, <2>2, <2>3 DEF StateOK, NoEvent
<1>4. \A w \in Windows : touching[w] = {}
  BY <1>2
<1>5. Sound(windows, Empty, Empty, touching)
  BY <1>4, SoundAtFirst
<1>6. WindowsAgree
  BY <1>2, <1>4, <1>5 DEF WindowsAgree, AllUntouched
<1>7. NothingIsStale /\ AstrayIsConsumed /\ IdsAreOfGesture
  BY <1>2 DEF NothingIsStale, AstrayIsConsumed, IdsAreOfGesture
<1>8. OnlyMarkedIsConsumed /\ NothingOutOfTheBlue
  BY <1>2 DEF OnlyMarkedIsConsumed, NothingOutOfTheBlue
<1>9. QED
  BY <1>3, <1>6, <1>7, <1>8 DEF TouchInv

LEMMA TouchInvNext == TouchInv /\ [Next]_vars => TouchInv'
<1>1. SUFFICES ASSUME TouchInv, [Next]_vars PROVE TouchInv'
  OBVIOUS
<1>2. ASSUME NEW finger \in Fingers, NEW under \in windows \cup {None},
             NEW fate \in {"taken", "lost", "dispatched"},
             \/ OnEventTouchDown(finger, under, fate)
             \/ OnEventTouchMotion(finger, under, fate)
             \/ OnEventTouchUp(finger, under, fate)
      PROVE  TouchInv'
  <2>1. PICK action \in Action :
          /\ Touch(action, finger, under, fate)
          /\ action = "down" <=> finger \notin DOMAIN items
          /\ items = Empty => gesture < MaxGestures
    <3>1. DOMAIN Empty = {}
      BY EmptyIsMap
    <3>2. CASE OnEventTouchDown(finger, under, fate)
      BY <3>2 DEF OnEventTouchDown, Action
    <3>3. CASE OnEventTouchMotion(finger, under, fate)
      <4>1. "move" \in Action /\ "move" # "down"
        BY DEF Action
      <4>2. QED
        BY <3>1, <3>3, <4>1 DEF OnEventTouchMotion
    <3>4. CASE OnEventTouchUp(finger, under, fate)
      <4>1. "up" \in Action /\ "up" # "down"
        BY DEF Action
      <4>2. QED
        BY <3>1, <3>4, <4>1 DEF OnEventTouchUp
    <3>5. QED
      BY <1>2, <3>2, <3>3, <3>4
  <2>2. QED
    BY <1>1, <2>1, TouchKeeps
<1>3. ASSUME NEW g \in eventIds, NEW under \in windows \cup {None},
             NEW fate \in {"filtered", "lost", "dispatched"}, MarkConsumed(g, under, fate)
      PROVE  TouchInv'
  BY <1>1, <1>3, MarkKeeps
<1>4. ASSUME NEW newWindows \in (SUBSET Windows) \ {windows}, UpdateDisplayInfo(newWindows)
      PROVE  TouchInv'
  BY <1>1, <1>4, WindowsKeep
<1>5. ASSUME UNCHANGED vars PROVE TouchInv'
  <2>1. /\ windows' = windows /\ items' = items /\ event' = event /\ downInfos' = downInfos
        /\ eventIds' = eventIds /\ consumed' = consumed /\ gesture' = gesture
        /\ marked' = marked /\ touching' = touching /\ stray' = stray /\ odd' = odd
    BY <1>5 DEF vars, eventVars, stateVars, historyVars
  <2>2. StateOK'
    BY <1>1, <2>1 DEF TouchInv, StateOK, Map
  <2>3. WindowsAgree'
    BY <1>1, <2>1 DEF TouchInv, WindowsAgree, Sound, AllUntouched
  <2>4. QED
    BY <1>1, <2>1, <2>2, <2>3 DEF TouchInv, NothingIsStale, AstrayIsConsumed, IdsAreOfGesture,
       OnlyMarkedIsConsumed, NothingOutOfTheBlue
<1>6. \A finger : Under(finger) \subseteq windows \cup {None}
  BY DEF Under
<1>7. QED
  BY <1>1, <1>2, <1>3, <1>4, <1>5, <1>6 DEF Next

(* In every state of the chain, TouchInv holds. *)
THEOREM TouchInvHolds == Spec => []TouchInv
<1>1. Init => TouchInv
  BY TouchInvInit
<1>2. TouchInv /\ [Next]_vars => TouchInv'
  BY TouchInvNext
<1>3. QED
  BY <1>1, <1>2, PTL DEF Spec

(* Every variable keeps its type, for any number of fingers, windows and
   gestures: in particular what was recorded at the touch downs are windows
   and never the absence of one. *)
THEOREM TouchesAreTyped == Spec => []TypeOK
<1>1. TouchInv => TypeOK
  BY DEF TouchInv, StateOK, Map, TypeOK, Range
<1>2. QED
  BY <1>1, TouchInvHolds, PTL

(* A gesture whose first event the monitors saw is kept from the windows
   only if one of its own events was marked: no mark that arrives late, of
   a gesture that is over, consumes the next one. *)
THEOREM LateMarksAreHarmless == Spec => []OnlyMarkedIsConsumed
<1>1. TouchInv => OnlyMarkedIsConsumed
  BY DEF TouchInv
<1>2. QED
  BY <1>1, TouchInvHolds, PTL

(* When the last finger of a gesture of nothing unusual is up (odd is empty:
   what it records is said at NoTouchComesFromNowhere, and here no cancel
   went astray either), every window that was told of a finger going down
   was told that it is up or that its touches are cancelled, whether a
   monitor marked the gesture or not and whichever windows were closed. *)
THEOREM NoTouchIsLeftBehind == Spec => []WindowsAreReleased
<1>1. TouchInv => WindowsAreReleased
  <2>1. SUFFICES ASSUME TouchInv, items = Empty, odd = {} PROVE AllUntouched
    BY DEF WindowsAreReleased, AllUntouched
  <2>2. CASE consumed
    BY <2>1, <2>2 DEF TouchInv, WindowsAgree
  <2>3. CASE ~consumed
    <3>1. Sound(windows, items, downInfos, touching)
      BY <2>1, <2>3 DEF TouchInv, WindowsAgree
    <3>2. QED
      BY <2>1, <3>1, EmptyIsMap DEF Sound, AllUntouched
  <2>4. QED
    BY <2>2, <2>3
<1>2. QED
  BY <1>1, TouchInvHolds, PTL

(* As long as no event of the gesture was taken by a filter or an
   interceptor, none missed its window, no window opened and no record of an
   earlier gesture was left, no window is told of a move or of the end of a
   touch that it was not told the beginning of, or that was cancelled for
   it: not even if a mark cancelled the touch in the wrong window. *)
THEOREM NoTouchComesFromNowhere == Spec => []NothingOutOfTheBlue
<1>1. TouchInv => NothingOutOfTheBlue
  BY DEF TouchInv
<1>2. QED
  BY <1>1, TouchInvHolds, PTL

=============================================================================
