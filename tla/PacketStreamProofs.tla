--------------------------- MODULE PacketStreamProofs ---------------------------
(***************************************************************************)
(* Theorems about PacketStream for packets, sockets and buffers of any     *)
(* size, any limits, and any number of packets and lost connections.       *)
(***************************************************************************)
EXTENDS PacketStream, SequenceTheorems, TLAPS

Sizes == HeadSize..MaxPacket

(* A unit: its packet, its place in it, and the size of the packet. *)
Unit == Nat \X Nat \X Sizes

(* The types again, as far as a proof needs them to look into sequences; and
   the retries are never used up between two calls of send. *)
StateOK ==
  /\ sent \in 0..MaxSent
  /\ rest \in Seq(Unit) /\ Len(rest) <= MaxPacket
  /\ retries \in Nat /\ retries < RetryLimit
  /\ reported \subseteq 1..sent
  /\ socket \in Seq(Unit) /\ Len(socket) <= SocketSize
  /\ unread \in Seq(Unit) /\ rPos \in Nat /\ wPos <= MaxStream
  /\ processed \in -1..ProcessLimit
  /\ last \in 0..sent
  /\ losses \in 0..MaxLosses
  /\ broken \subseteq {"torn", "dropped", "stale", "behind", "mixed"}

(* All units are of packets that were sent. *)
Sent(q) == \A i \in DOMAIN q : 1 <= q[i][1] /\ q[i][1] <= sent

UnitsWereSent == Sent(rest) /\ Sent(socket) /\ Sent(unread)

(* What SendMsg has left is the end of the packet that it was called with: the
   last one, unless another thread sent in between. *)
RestIsLastPacket ==
  rest # <<>> =>
    \E size \in Sizes, n \in 1..sent :
      /\ "mixed" \in broken \/ n = sent
      /\ Len(rest) <= size
      /\ \A i \in DOMAIN rest : rest[i] = <<n, size - Len(rest) + i, size>>

-----------------------------------------------------------------------------
(* The stream: what is in the buffer, then in the socket, then not sent. *)

Arrived == unread \o socket
Stream == Arrived \o rest

(* Position i of a stream q is in a packet that begins in q and ends in q and
   fills the positions around it. *)
InWholePacket(q, i) ==
  /\ 1 <= q[i][2] /\ q[i][2] <= i /\ q[i][2] <= q[i][3]
  /\ i - q[i][2] + q[i][3] <= Len(q)
  /\ \A k \in DOMAIN q :
       1 <= k - i + q[i][2] /\ k - i + q[i][2] <= q[i][3] =>
         q[k] = <<q[i][1], k - i + q[i][2], q[i][3]>>

(* The packets are in the order in which they were sent, none of them twice. *)
InOrder(q) ==
  \A i, k \in DOMAIN q :
    /\ i < k => q[i][1] <= q[k][1]
    /\ q[i][1] = q[k][1] => k - q[k][2] = i - q[i][2]

Packets(q, first, final) ==
  /\ \A i \in DOMAIN q : InWholePacket(q, i) /\ first < q[i][1] /\ q[i][1] <= final
  /\ InOrder(q)

(* A packet that was reported as sent and has not come out has arrived to its
   last unit. *)
ReportedHasArrived ==
  \A m \in reported : \E i \in DOMAIN Arrived : Arrived[i][1] = m /\ Arrived[i][2] = Arrived[i][3]

(* While nothing has cut the stream. *)
StreamInv ==
  broken \subseteq {"behind"} =>
    /\ Packets(Stream, last, sent)
    /\ losses = 0 => ReportedHasArrived

(* Between two reads there is no whole packet in the buffer. *)
NoWholePacketWaits ==
  processed = -1 /\ broken = {} /\ unread # <<>> => Len(unread) < unread[1][3]

PacketInv ==
  StateOK /\ UnitsWereSent /\ RestIsLastPacket /\ StreamInv /\ NoWholePacketWaits /\ RoomForARead
-----------------------------------------------------------------------------
(* Sequences of units *)

LEMMA UnitFields ==
  ASSUME NEW u \in Unit
  PROVE  /\ u[1] \in Nat /\ u[2] \in Nat /\ u[3] \in Nat
         /\ HeadSize <= u[3] /\ u[3] <= MaxPacket
  BY PacketAssumption DEF Unit, Sizes

LEMMA UnitsOf ==
  ASSUME NEW q \in Seq(Unit)
  PROVE  /\ Len(q) \in Nat /\ DOMAIN q = 1..Len(q) /\ (q = <<>> <=> Len(q) = 0)
         /\ \A i \in DOMAIN q :
              /\ i \in Nat /\ q[i] \in Unit
              /\ q[i][1] \in Nat /\ q[i][2] \in Nat /\ q[i][3] \in Nat
              /\ HeadSize <= q[i][3] /\ q[i][3] <= MaxPacket
<1>1. Len(q) \in Nat /\ DOMAIN q = 1..Len(q) /\ (q = <<>> <=> Len(q) = 0)
  BY LenProperties, EmptySeq
<1>2. \A i \in DOMAIN q : q[i] \in Unit
  BY <1>1, ElementOfSeq
<1>3. QED
  BY <1>1, <1>2, UnitFields

LEMMA Joined ==
  ASSUME NEW p \in Seq(Unit), NEW q \in Seq(Unit)
  PROVE  /\ p \o q \in Seq(Unit) /\ Len(p \o q) = Len(p) + Len(q)
         /\ DOMAIN (p \o q) = 1..Len(p) + Len(q)
         /\ \A i \in DOMAIN p : (p \o q)[i] = p[i]
         /\ \A i \in DOMAIN q : (p \o q)[Len(p) + i] = q[i]
         /\ \A i \in 1..Len(p) + Len(q) : i \in DOMAIN p \/ (i - Len(p) \in DOMAIN q /\ (p \o q)[i] = q[i - Len(p)])
<1>1. /\ p \o q \in Seq(Unit) /\ Len(p \o q) = Len(p) + Len(q)
      /\ \A i \in 1 .. Len(p) + Len(q) : (p \o q)[i] = IF i <= Len(p) THEN p[i] ELSE q[i - Len(p)]
  BY ConcatProperties
<1>2. /\ Len(p) \in Nat /\ Len(q) \in Nat /\ DOMAIN p = 1..Len(p) /\ DOMAIN q = 1..Len(q)
      /\ DOMAIN (p \o q) = 1..Len(p \o q)
  BY <1>1, LenProperties
<1>3. QED
  BY <1>1, <1>2

(* A sequence that is cut at k. *)
LEMMA Cut ==
  ASSUME NEW q \in Seq(Unit), NEW k \in 0..Len(q)
  PROVE  LET a == SubSeq(q, 1, k) b == SubSeq(q, k + 1, Len(q)) IN
         /\ a \in Seq(Unit) /\ Len(a) = k /\ DOMAIN a = 1..k /\ \A i \in 1..k : a[i] = q[i]
         /\ b \in Seq(Unit) /\ Len(b) = Len(q) - k /\ DOMAIN b = 1..Len(q) - k
         /\ \A i \in 1..Len(q) - k : b[i] = q[k + i]
         /\ a \o b = q
<1> DEFINE a == SubSeq(q, 1, k)
           b == SubSeq(q, k + 1, Len(q))
<1>1. Len(q) \in Nat /\ DOMAIN q = 1..Len(q) /\ \A i \in 1..Len(q) : q[i] \in Unit
  BY UnitsOf
<1>2. a \in Seq(Unit) /\ Len(a) = k /\ \A i \in 1..k : a[i] = q[i]
  BY <1>1, SubSeqProperties
<1>3. b \in Seq(Unit) /\ Len(b) = Len(q) - k /\ \A i \in 1..Len(q) - k : b[i] = q[k + i]
  <2>1. \A i \in k + 1..Len(q) : q[i] \in Unit
    BY <1>1
  <2>2. k + 1 \in Nat \ {0} /\ k + 1 \in 1..Len(q) + 1 /\ k \in Nat /\ k <= Len(q)
    BY <1>1
  <2>3. CASE k + 1 <= Len(q)
    <3>1. /\ b \in Seq(Unit) /\ Len(b) = Len(q) - (k + 1) + 1
          /\ \A i \in 1..Len(q) - (k + 1) + 1 : b[i] = q[(k + 1) + i - 1]
      BY <1>1, <2>1, <2>2, <2>3, SubSeqProperties
    <3> HIDE DEF b
    <3>2. Len(q) - (k + 1) + 1 = Len(q) - k /\ \A i \in 1..Len(q) - k : (k + 1) + i - 1 = k + i
      BY <1>1, <2>2
    <3>3. QED
      BY <3>1, <3>2
  <2>4. CASE k + 1 > Len(q)
    <3>1. k = Len(q)
      <4> HIDE DEF a, b
      <4>1. Len(q) \in Nat /\ k \in Nat /\ k <= Len(q) /\ ~(k < Len(q))
        <5>1. Len(q) \in Nat /\ k \in Nat /\ k <= Len(q)
          BY <1>1, <2>2
        <5>2. QED
          BY <5>1, <2>4
      <4>2. QED
        BY <4>1
    <3>2. b = <<>>
      BY <1>1, <2>2, <2>4, SubSeqEmpty
    <3> HIDE DEF b
    <3>3. b \in Seq(Unit) /\ Len(b) = 0
      BY <3>2, EmptySeq
    <3>4. QED
      BY <1>1, <3>1, <3>3
  <2> HIDE DEF b
  <2>5. k + 1 <= Len(q) \/ k + 1 > Len(q)
    BY <1>1, <2>2
  <2>6. QED
    BY <2>3, <2>4, <2>5
<1>4. DOMAIN a = 1..k /\ DOMAIN b = 1..Len(q) - k
  BY <1>2, <1>3, UnitsOf
<1> HIDE DEF a, b
<1>5. a \o b = q
  <2>0. Len(q) \in Nat /\ k \in Nat /\ k + (Len(q) - k) = Len(q)
    BY <1>1
  <2>1. a \o b \in Seq(Unit) /\ Len(a \o b) = Len(q)
    <3>1. a \o b \in Seq(Unit) /\ Len(a \o b) = Len(a) + Len(b)
      BY <1>2, <1>3, Joined
    <3>2. QED
      BY <1>2, <1>3, <2>0, <3>1
  <2>2. \A i \in 1..Len(q) : (a \o b)[i] = q[i]
    <3>1. SUFFICES ASSUME NEW i \in 1..Len(q) PROVE (a \o b)[i] = q[i]
      OBVIOUS
    <3>2. CASE i <= k
      BY <1>1, <1>2, <1>3, <1>4, <3>2, Joined
    <3>3. CASE i > k
      <4>1. i - k \in DOMAIN b /\ b[i - k] = q[k + (i - k)]
        BY <1>1, <1>3, <1>4, <3>3
      <4>2. (a \o b)[k + (i - k)] = b[i - k]
        BY <1>2, <1>3, <4>1, Joined
      <4>3. k + (i - k) = i
        BY <1>1
      <4>4. QED
        BY <4>1, <4>2, <4>3
    <3>4. i \in Nat /\ k \in Nat
      BY <1>1
    <3>5. i <= k \/ i > k
      BY <3>4
    <3>6. QED
      BY <3>2, <3>3, <3>5
  <2>3. QED
    BY <2>1, <2>2, SeqEqual
<1>6. QED
  BY <1>2, <1>3, <1>4, <1>5 DEF a, b

LEMMA DropPrefix ==
  ASSUME NEW p \in Seq(Unit), NEW s \in Seq(Unit)
  PROVE  SubSeq(p \o s, Len(p) + 1, Len(p \o s)) = s
<1>1. PICK q, k : q = p \o s /\ k = Len(p)
  OBVIOUS
<1>2. /\ Len(p) \in Nat /\ Len(s) \in Nat /\ q \in Seq(Unit) /\ Len(q) = k + Len(s)
      /\ DOMAIN s = 1..Len(s) /\ \A i \in DOMAIN s : q[k + i] = s[i]
  BY <1>1, LenProperties, Joined
<1>3. k \in 0..Len(q) /\ Len(q) - k = Len(s)
  BY <1>1, <1>2
<1>4. PICK b : b = SubSeq(q, k + 1, Len(q))
  OBVIOUS
<1>5. b \in Seq(Unit) /\ Len(b) = Len(s) /\ \A i \in 1..Len(s) : b[i] = q[k + i]
  <2>1. q \in Seq(Unit) /\ k \in 0..Len(q)
    BY <1>2, <1>3
  <2>2. /\ SubSeq(q, k + 1, Len(q)) \in Seq(Unit) /\ Len(SubSeq(q, k + 1, Len(q))) = Len(q) - k
        /\ \A i \in 1..Len(q) - k : SubSeq(q, k + 1, Len(q))[i] = q[k + i]
    BY <2>1, Cut
  <2>3. QED
    BY <1>3, <1>4, <2>2
<1>6. b = s
  BY <1>2, <1>5, SeqEqual
<1>7. QED
  BY <1>1, <1>4, <1>6

LEMMA PacketUnits ==
  ASSUME NEW n \in Nat, NEW size \in Sizes
  PROVE  LET p == Packet(n, size) IN
         /\ p \in Seq(Unit) /\ Len(p) = size /\ DOMAIN p = 1..size
         /\ \A i \in 1..size : p[i] = <<n, i, size>>
<1>1. size \in Nat
  BY PacketAssumption DEF Sizes
<1>2. \A i \in 1..size : <<n, i, size>> \in Unit
  BY <1>1 DEF Unit
<1>3. Packet(n, size) \in [1..size -> Unit]
  BY <1>2 DEF Packet
<1>4. Packet(n, size) \in Seq(Unit)
  BY <1>1, <1>3, SeqDef
<1>5. Len(Packet(n, size)) = size
  BY <1>1, <1>3, <1>4, LenProperties
<1>6. QED
  BY <1>3, <1>4, <1>5 DEF Packet
-----------------------------------------------------------------------------
(* Streams of packets *)

LEMMA FirstPacket ==
  ASSUME NEW q \in Seq(Unit), NEW first, NEW final, Packets(q, first, final), q # <<>>
  PROVE  /\ q[1] \in Unit /\ q[1][2] = 1 /\ q[1][3] \in Sizes
         /\ q[1][3] \in Nat /\ 1 <= q[1][3] /\ q[1][3] <= Len(q) /\ 1 \in DOMAIN q
         /\ first < q[1][1] /\ q[1][1] <= final
         /\ \A k \in 1..q[1][3] : k \in DOMAIN q /\ q[k] = <<q[1][1], k, q[1][3]>>
<1>1. /\ Len(q) \in Nat /\ DOMAIN q = 1..Len(q) /\ Len(q) # 0
      /\ 1 \in DOMAIN q /\ q[1] \in Unit /\ q[1][2] \in Nat /\ q[1][3] \in Nat
  BY UnitsOf
<1>2. InWholePacket(q, 1) /\ first < q[1][1] /\ q[1][1] <= final
  BY <1>1 DEF Packets
<1>3. q[1][2] = 1 /\ 1 <= q[1][3] /\ q[1][3] <= Len(q)
  BY <1>1, <1>2 DEF InWholePacket
<1>4. q[1][3] \in Sizes
  BY <1>1 DEF Unit
<1>5. ASSUME NEW k \in 1..q[1][3] PROVE k \in DOMAIN q /\ q[k] = <<q[1][1], k, q[1][3]>>
  <2>1. k \in Nat /\ k - 1 + q[1][2] = k /\ k \in DOMAIN q
    BY <1>1, <1>3
  <2>2. q[k] = <<q[1][1], k - 1 + q[1][2], q[1][3]>>
    BY <1>1, <1>2, <2>1 DEF InWholePacket
  <2>3. QED
    BY <2>1, <2>2
<1>6. QED
  BY <1>1, <1>2, <1>3, <1>4, <1>5

(* The receiver takes the first packet away. *)
LEMMA DropFirst ==
  ASSUME NEW q \in Seq(Unit), NEW first \in Nat, NEW final \in Nat,
         Packets(q, first, final), q # <<>>
  PROVE  Packets(SubSeq(q, q[1][3] + 1, Len(q)), q[1][1], final)
<1>1. PICK size, n : size = q[1][3] /\ n = q[1][1]
  OBVIOUS
<1>2. PICK b : b = SubSeq(q, size + 1, Len(q))
  OBVIOUS
<1>3. /\ q[1] \in Unit /\ q[1][2] = 1 /\ size \in Nat /\ 1 <= size /\ size <= Len(q)
      /\ 1 \in DOMAIN q /\ size \in DOMAIN q
      /\ q[size] = <<n, size, size>>
  BY <1>1, FirstPacket
<1>4. /\ Len(q) \in Nat /\ DOMAIN q = 1..Len(q) /\ n \in Nat
      /\ \A i \in DOMAIN q : i \in Nat /\ q[i][1] \in Nat /\ q[i][2] \in Nat /\ q[i][3] \in Nat
  BY <1>1, <1>3, UnitsOf
<1>5. /\ b \in Seq(Unit) /\ Len(b) = Len(q) - size /\ DOMAIN b = 1..Len(q) - size
      /\ \A i \in DOMAIN b : b[i] = q[size + i]
  <2>1. size \in 0..Len(q)
    BY <1>3, <1>4
  <2>2. QED
    BY <1>2, <2>1, Cut
<1>6. ASSUME NEW i \in DOMAIN b
      PROVE  /\ i \in Nat /\ 1 <= i /\ size + i \in DOMAIN q /\ b[i] = q[size + i]
             /\ InWholePacket(q, size + i)
             /\ first < q[size + i][1] /\ q[size + i][1] <= final
             /\ q[size + i][2] <= i
  <2>1. i \in Nat /\ 1 <= i /\ size + i \in DOMAIN q
    BY <1>3, <1>4, <1>5
  <2>2. /\ InWholePacket(q, size + i)
        /\ first < q[size + i][1] /\ q[size + i][1] <= final
    BY <2>1 DEF Packets
  <2>3. PICK u1, u2, u3 : u1 = q[size + i][1] /\ u2 = q[size + i][2] /\ u3 = q[size + i][3]
    OBVIOUS
  <2>4. u1 \in Nat /\ u2 \in Nat /\ u3 \in Nat
    BY <1>4, <2>1, <2>3
  <2>5. /\ u2 <= u3
        /\ 1 <= size - (size + i) + u2 /\ size - (size + i) + u2 <= u3 =>
             q[size] = <<u1, size - (size + i) + u2, u3>>
    BY <1>3, <2>2, <2>3 DEF InWholePacket
  <2>6. ASSUME u2 > i PROVE FALSE
    <3>1. 1 <= size - (size + i) + u2 /\ size - (size + i) + u2 <= u3
      BY <1>3, <2>1, <2>4, <2>5, <2>6, SMTT(30)
    <3>2. q[size] = <<u1, size - (size + i) + u2, u3>>
      BY <2>5, <3>1
    <3>3. size - (size + i) + u2 = size /\ u3 = size
      BY <1>3, <3>2
    <3>4. size \in Nat /\ u2 <= u3
      BY <1>3, <2>5
    <3>5. QED
      BY <2>1, <2>4, <3>3, <3>4
  <2>7. u2 <= i
    BY <2>1, <2>4, <2>6
  <2>8. QED
    BY <1>5, <2>1, <2>2, <2>3, <2>7
<1>7. ASSUME NEW i \in DOMAIN b PROVE InWholePacket(b, i)
  <2>1. PICK u1, u2, u3 : u1 = b[i][1] /\ u2 = b[i][2] /\ u3 = b[i][3]
    OBVIOUS
  <2>2. u1 = q[size + i][1] /\ u2 = q[size + i][2] /\ u3 = q[size + i][3]
    BY <1>6, <2>1
  <2>3. u1 \in Nat /\ u2 \in Nat /\ u3 \in Nat /\ i \in Nat
    BY <1>4, <1>6, <2>2
  <2>4. 1 <= u2 /\ u2 <= i /\ u2 <= u3 /\ (size + i) - u2 + u3 <= Len(q)
    BY <1>6, <2>2 DEF InWholePacket
  <2>5. i - u2 + u3 <= Len(b)
    BY <1>3, <1>4, <1>5, <2>3, <2>4, SMTT(30)
  <2>6. ASSUME NEW k \in DOMAIN b, 1 <= k - i + u2, k - i + u2 <= u3
        PROVE  b[k] = <<u1, k - i + u2, u3>>
    <3>1. k \in Nat /\ size + k \in DOMAIN q /\ b[k] = q[size + k]
      BY <1>6
    <3>2. (size + k) - (size + i) + u2 = k - i + u2
      BY <1>3, <2>3, <3>1
    <3>3. 1 <= (size + k) - (size + i) + u2 /\ (size + k) - (size + i) + u2 <= u3
      BY <2>6, <3>2
    <3>4. q[size + k] = <<u1, (size + k) - (size + i) + u2, u3>>
      BY <1>6, <2>2, <3>1, <3>3 DEF InWholePacket
    <3>5. QED
      BY <3>1, <3>2, <3>4
  <2>7. QED
    BY <2>1, <2>4, <2>5, <2>6 DEF InWholePacket
<1>8. ASSUME NEW i \in DOMAIN b PROVE n < b[i][1] /\ b[i][1] <= final
  <2>1. /\ 1 < size + i => q[1][1] <= q[size + i][1]
        /\ q[1][1] = q[size + i][1] => (size + i) - q[size + i][2] = 1 - q[1][2]
    BY <1>3, <1>6 DEF Packets, InOrder
  <2>2. q[1][1] <= q[size + i][1]
    BY <1>3, <1>6, <2>1
  <2>3. q[1][1] # q[size + i][1]
    <3>1. PICK u2 : u2 = q[size + i][2]
      OBVIOUS
    <3>2. u2 \in Nat /\ u2 <= i /\ i \in Nat
      BY <1>4, <1>6, <3>1
    <3>3. (size + i) - u2 # 0
      BY <1>3, <3>2
    <3>4. QED
      BY <1>3, <2>1, <3>1, <3>3
  <2>4. b[i][1] \in Nat /\ b[i][1] = q[size + i][1]
    BY <1>4, <1>6
  <2>5. QED
    BY <1>1, <1>4, <1>6, <2>2, <2>3, <2>4
<1>9. InOrder(b)
  <2>1. SUFFICES ASSUME NEW i \in DOMAIN b, NEW k \in DOMAIN b
                 PROVE  /\ i < k => b[i][1] <= b[k][1]
                        /\ b[i][1] = b[k][1] => k - b[k][2] = i - b[i][2]
    BY DEF InOrder
  <2>2. /\ i \in Nat /\ k \in Nat /\ b[i] = q[size + i] /\ b[k] = q[size + k]
        /\ size + i \in DOMAIN q /\ size + k \in DOMAIN q
    BY <1>6
  <2>3. /\ size + i < size + k => b[i][1] <= b[k][1]
        /\ b[i][1] = b[k][1] => (size + k) - b[k][2] = (size + i) - b[i][2]
    BY <2>2 DEF Packets, InOrder
  <2>4. PICK v, w : v = b[i][2] /\ w = b[k][2]
    OBVIOUS
  <2>5. v \in Nat /\ w \in Nat
    BY <1>4, <2>2, <2>4
  <2>6. (size + k) - w = (size + i) - v => k - w = i - v
    <3>1. size \in Nat /\ i \in Nat /\ k \in Nat
      BY <1>3, <2>2
    <3>2. QED
      BY <2>5, <3>1
  <2>7. i < k => size + i < size + k
    BY <1>3, <2>2
  <2>8. QED
    BY <2>3, <2>4, <2>6, <2>7
<1>10. QED
  BY <1>1, <1>2, <1>7, <1>8, <1>9 DEF Packets

(* The sender gives up the last packet before a unit of it was sent. *)
LEMMA DropLast ==
  ASSUME NEW p \in Seq(Unit), NEW r \in Seq(Unit), NEW first, NEW final,
         Packets(p \o r, first, final), r # <<>>, r[1][2] = 1
  PROVE  Packets(p, first, final)
<1>1. PICK q : q = p \o r
  OBVIOUS
<1>2. /\ Len(p) \in Nat /\ DOMAIN p = 1..Len(p) /\ Len(r) \in Nat /\ 1 \in DOMAIN r
      /\ \A i \in DOMAIN p : p[i] \in Unit /\ p[i][2] \in Nat /\ p[i][3] \in Nat
      /\ DOMAIN q = 1..Len(p) + Len(r)
      /\ (\A i \in DOMAIN p : q[i] = p[i])
      /\ q[Len(p) + 1] = r[1]
  BY <1>1, UnitsOf, Joined
<1>3. ASSUME NEW i \in DOMAIN p PROVE i \in DOMAIN q /\ q[i] = p[i] /\ i \in Nat /\ i <= Len(p)
  BY <1>2
<1>4. ASSUME NEW i \in DOMAIN p PROVE InWholePacket(p, i)
  <2>1. InWholePacket(q, i)
    BY <1>1, <1>3 DEF Packets
  <2>2. PICK u1, u2, u3 : u1 = p[i][1] /\ u2 = p[i][2] /\ u3 = p[i][3]
    OBVIOUS
  <2>3. /\ u1 = q[i][1] /\ u2 = q[i][2] /\ u3 = q[i][3]
        /\ u2 \in Nat /\ u3 \in Nat /\ i \in Nat /\ i <= Len(p)
    BY <1>2, <1>3, <2>2
  <2>4. /\ 1 <= u2 /\ u2 <= i /\ u2 <= u3
        /\ \A k \in DOMAIN q :
             1 <= k - i + u2 /\ k - i + u2 <= u3 => q[k] = <<u1, k - i + u2, u3>>
    BY <2>1, <2>3 DEF InWholePacket
  <2>5. ASSUME i - u2 + u3 > Len(p) PROVE FALSE
    <3>1. PICK k : k = Len(p) + 1
      OBVIOUS
    <3>2. k \in DOMAIN q /\ k \in Nat /\ k > i /\ q[k][2] = 1
      BY <1>2, <2>3, <3>1
    <3>3. 1 < k - i + u2 /\ k - i + u2 <= u3
      <4>1. Len(p) \in Nat /\ u2 \in Nat /\ u3 \in Nat /\ i \in Nat /\ i <= Len(p) /\ 1 <= u2
        BY <1>2, <2>3, <2>4
      <4>2. QED
        BY <2>5, <3>1, <4>1
    <3>4. k - i + u2 = 1
      <4>1. q[k] = <<u1, k - i + u2, u3>>
        BY <2>3, <2>4, <3>2, <3>3
      <4>2. QED
        BY <3>2, <4>1
    <3>5. QED
      BY <2>3, <3>2, <3>3, <3>4
  <2>6. i - u2 + u3 <= Len(p)
    BY <1>2, <2>3, <2>5, SMTT(30)
  <2>7. ASSUME NEW k \in DOMAIN p, 1 <= k - i + u2, k - i + u2 <= u3
        PROVE  p[k] = <<u1, k - i + u2, u3>>
    BY <1>3, <2>4, <2>7
  <2>8. QED
    BY <2>2, <2>4, <2>6, <2>7 DEF InWholePacket
<1>5. ASSUME NEW i \in DOMAIN p PROVE first < p[i][1] /\ p[i][1] <= final
  BY <1>1, <1>3 DEF Packets
<1>6. InOrder(p)
  <2>1. InOrder(q)
    BY <1>1 DEF Packets
  <2>2. QED
    BY <1>3, <2>1 DEF InOrder
<1>7. QED
  BY <1>4, <1>5, <1>6 DEF Packets

(* SendMsg adds a packet. *)
LEMMA AddLast ==
  ASSUME NEW q \in Seq(Unit), NEW first \in Nat, NEW final \in Nat, first <= final,
         Packets(q, first, final), NEW size \in Sizes
  PROVE  Packets(q \o Packet(final + 1, size), first, final + 1)
<1>1. PICK p, s : p = Packet(final + 1, size) /\ s = q \o Packet(final + 1, size)
  OBVIOUS
<1>2. /\ p \in Seq(Unit) /\ Len(p) = size /\ DOMAIN p = 1..size
      /\ \A i \in 1..size : p[i] = <<final + 1, i, size>>
  BY <1>1, PacketUnits
<1>3. /\ Len(q) \in Nat /\ DOMAIN q = 1..Len(q) /\ size \in Nat /\ size >= 1
      /\ Len(s) = Len(q) + size /\ DOMAIN s = 1..Len(q) + size
      /\ \A i \in DOMAIN q :
           /\ i \in Nat /\ s[i] = q[i]
           /\ q[i][1] \in Nat /\ q[i][2] \in Nat /\ q[i][3] \in Nat
  BY <1>1, <1>2, UnitsOf, Joined, PacketAssumption DEF Sizes
<1>4. ASSUME NEW j \in 1..size PROVE s[Len(q) + j] = <<final + 1, j, size>>
  <2>1. s[Len(q) + j] = p[j]
    BY <1>1, <1>2, Joined
  <2>2. QED
    BY <1>2, <2>1
<1>5. ASSUME NEW i \in DOMAIN s
      PROVE  \/ i \in DOMAIN q
             \/ \E j \in 1..size : i = Len(q) + j
  <2>1. CASE i <= Len(q)
    BY <1>3, <2>1
  <2>2. CASE i > Len(q)
    <3>1. i - Len(q) \in 1..size /\ i = Len(q) + (i - Len(q))
      BY <1>3, <2>2
    <3>2. QED
      BY <3>1
  <2>3. QED
    BY <1>3, <2>1, <2>2
<1>6. ASSUME NEW i \in DOMAIN q
      PROVE  InWholePacket(s, i) /\ first < s[i][1] /\ s[i][1] <= final /\ s[i][1] \in Nat
  <2>1. InWholePacket(q, i) /\ first < q[i][1] /\ q[i][1] <= final
    BY DEF Packets
  <2>2. PICK u1, u2, u3 : u1 = q[i][1] /\ u2 = q[i][2] /\ u3 = q[i][3]
    OBVIOUS
  <2>3. /\ u1 = s[i][1] /\ u2 = s[i][2] /\ u3 = s[i][3]
        /\ u1 \in Nat /\ u2 \in Nat /\ u3 \in Nat /\ i \in Nat
    BY <1>3, <2>2
  <2>4. /\ 1 <= u2 /\ u2 <= i /\ u2 <= u3 /\ i - u2 + u3 <= Len(q)
        /\ \A k \in DOMAIN q :
             1 <= k - i + u2 /\ k - i + u2 <= u3 => q[k] = <<u1, k - i + u2, u3>>
    BY <2>1, <2>2 DEF InWholePacket
  <2>5. i - u2 + u3 <= Len(s)
    <3>1. /\ i - u2 + u3 <= Len(q) /\ Len(s) = Len(q) + size
          /\ Len(q) \in Nat /\ size \in Nat /\ u2 \in Nat /\ u3 \in Nat /\ i \in Nat
      BY <1>3, <2>3, <2>4
    <3>2. QED
      BY <3>1
  <2>6. ASSUME NEW k \in DOMAIN s, 1 <= k - i + u2, k - i + u2 <= u3
        PROVE  s[k] = <<u1, k - i + u2, u3>>
    <3>1. k \in Nat /\ k >= 1 /\ Len(q) \in Nat
      BY <1>3
    <3>2. k <= Len(q)
      <4>1. i - u2 + u3 <= Len(q) /\ u2 \in Nat /\ u3 \in Nat /\ i \in Nat
        BY <2>3, <2>4
      <4>2. QED
        BY <2>6, <3>1, <4>1
    <3>3. k \in DOMAIN q
      BY <1>3, <3>1, <3>2
    <3>4. QED
      BY <1>3, <2>4, <2>6, <3>3
  <2>7. InWholePacket(s, i)
    BY <2>3, <2>4, <2>5, <2>6 DEF InWholePacket
  <2>8. QED
    BY <2>1, <2>2, <2>3, <2>7
<1>7. ASSUME NEW j \in 1..size PROVE InWholePacket(s, Len(q) + j)
  <2>1. PICK i : i = Len(q) + j
    OBVIOUS
  <2>2. s[i][1] = final + 1 /\ s[i][2] = j /\ s[i][3] = size
    BY <1>4, <2>1
  <2>3. 1 <= j /\ j <= i /\ j <= size /\ i - j + size <= Len(s) /\ j \in Nat /\ i \in Nat
    BY <1>3, <2>1
  <2>4. ASSUME NEW k \in DOMAIN s, 1 <= k - i + j, k - i + j <= size
        PROVE  s[k] = <<final + 1, k - i + j, size>>
    <3>1. k \in Nat /\ Len(q) \in Nat /\ size \in Nat
      BY <1>3
    <3>2. k - i + j = k - Len(q) /\ Len(q) + (k - Len(q)) = k /\ k - i + j \in Int
      BY <2>1, <2>3, <3>1
    <3>3. k - Len(q) \in 1..size
      BY <2>4, <3>1, <3>2
    <3>4. s[Len(q) + (k - Len(q))] = <<final + 1, k - Len(q), size>>
      BY <1>4, <3>3
    <3>5. QED
      BY <3>2, <3>4
  <2>5. InWholePacket(s, i)
    BY <2>2, <2>3, <2>4 DEF InWholePacket
  <2>6. QED
    BY <2>1, <2>5
<1>8. \A i \in DOMAIN s : InWholePacket(s, i)
  BY <1>5, <1>6, <1>7
<1>9. ASSUME NEW i \in DOMAIN s PROVE first < s[i][1] /\ s[i][1] <= final + 1
  <2>1. CASE i \in DOMAIN q
    BY <1>6, <2>1
  <2>2. ASSUME NEW j \in 1..size, i = Len(q) + j PROVE first < s[i][1] /\ s[i][1] <= final + 1
    <3>1. s[i][1] = final + 1
      BY <1>4, <2>2
    <3>2. QED
      BY <3>1
  <2>3. QED
    BY <1>5, <2>1, <2>2
<1>10. InOrder(s)
  <2>1. SUFFICES ASSUME NEW i \in DOMAIN s, NEW k \in DOMAIN s
                 PROVE  /\ i < k => s[i][1] <= s[k][1]
                        /\ s[i][1] = s[k][1] => k - s[k][2] = i - s[i][2]
    BY DEF InOrder
  <2>2. CASE i \in DOMAIN q /\ k \in DOMAIN q
    <3>1. s[i] = q[i] /\ s[k] = q[k] /\ InOrder(q)
      BY <1>3, <2>2 DEF Packets
    <3>2. QED
      BY <2>2, <3>1 DEF InOrder
  <2>3. ASSUME i \in DOMAIN q, NEW j \in 1..size, k = Len(q) + j
        PROVE  /\ i < k => s[i][1] <= s[k][1]
               /\ s[i][1] = s[k][1] => k - s[k][2] = i - s[i][2]
    <3>1. s[i][1] \in Nat /\ s[i][1] <= final /\ s[k][1] = final + 1
      BY <1>4, <1>6, <2>3
    <3>2. QED
      BY <3>1
  <2>4. ASSUME k \in DOMAIN q, NEW j \in 1..size, i = Len(q) + j
        PROVE  /\ i < k => s[i][1] <= s[k][1]
               /\ s[i][1] = s[k][1] => k - s[k][2] = i - s[i][2]
    <3>1. s[k][1] \in Nat /\ s[k][1] <= final /\ s[i][1] = final + 1
      BY <1>4, <1>6, <2>4
    <3>2. ~(i < k)
      BY <1>3, <2>4
    <3>3. QED
      BY <3>1, <3>2
  <2>5. ASSUME NEW j \in 1..size, i = Len(q) + j, NEW l \in 1..size, k = Len(q) + l
        PROVE  /\ i < k => s[i][1] <= s[k][1]
               /\ s[i][1] = s[k][1] => k - s[k][2] = i - s[i][2]
    <3>1. s[i][1] = final + 1 /\ s[k][1] = final + 1 /\ s[i][2] = j /\ s[k][2] = l
      BY <1>4, <2>5
    <3>2. k - l = Len(q) /\ i - j = Len(q)
      BY <1>3, <2>5
    <3>3. QED
      BY <3>1, <3>2
  <2>6. QED
    BY <1>5, <2>2, <2>3, <2>4, <2>5
<1>11. QED
  BY <1>1, <1>8, <1>9, <1>10 DEF Packets

-----------------------------------------------------------------------------
(* The buffer and the stream *)

LEMMA StreamParts ==
  ASSUME StateOK
  PROVE  /\ Arrived \in Seq(Unit) /\ Len(Arrived) = Len(unread) + Len(socket)
         /\ Stream \in Seq(Unit) /\ Len(Stream) = Len(Arrived) + Len(rest)
         /\ \A i \in DOMAIN unread : i \in DOMAIN Arrived /\ Arrived[i] = unread[i]
         /\ \A i \in DOMAIN Arrived : i \in DOMAIN Stream /\ Stream[i] = Arrived[i]
<1>1. unread \in Seq(Unit) /\ socket \in Seq(Unit) /\ rest \in Seq(Unit)
  BY DEF StateOK
<1>2. /\ Arrived \in Seq(Unit) /\ Len(Arrived) = Len(unread) + Len(socket)
      /\ DOMAIN Arrived = 1..Len(unread) + Len(socket)
      /\ \A i \in DOMAIN unread : Arrived[i] = unread[i]
  BY <1>1, Joined DEF Arrived
<1>3. /\ Stream \in Seq(Unit) /\ Len(Stream) = Len(Arrived) + Len(rest)
      /\ DOMAIN Stream = 1..Len(Arrived) + Len(rest)
      /\ \A i \in DOMAIN Arrived : Stream[i] = Arrived[i]
  BY <1>1, <1>2, Joined DEF Stream
<1>4. /\ Len(unread) \in Nat /\ Len(socket) \in Nat /\ Len(rest) \in Nat
      /\ DOMAIN unread = 1..Len(unread) /\ DOMAIN Arrived = 1..Len(Arrived)
  BY <1>1, <1>2, UnitsOf
<1>5. QED
  BY <1>2, <1>3, <1>4

(* The units at the read position are those of the packet that is next. *)
LEMMA HeadIsFirst ==
  ASSUME StateOK, Packets(Stream, last, sent), unread # <<>>
  PROVE  /\ Stream # <<>> /\ Stream[1] = unread[1] /\ 1 \in DOMAIN unread
         /\ unread[1][1] \in Nat /\ last < unread[1][1] /\ unread[1][1] <= sent
         /\ unread[1][3] \in Sizes
         /\ \A k \in 1..unread[1][3] :
              k <= Len(unread) => k \in DOMAIN unread /\ unread[k] = <<unread[1][1], k, unread[1][3]>>
<1>1. unread \in Seq(Unit) /\ Stream \in Seq(Unit)
  BY StreamParts DEF StateOK
<1>2. /\ Len(unread) \in Nat /\ DOMAIN unread = 1..Len(unread) /\ 1 \in DOMAIN unread
      /\ unread[1][1] \in Nat
  BY <1>1, UnitsOf
<1>3. ASSUME NEW k \in DOMAIN unread PROVE k \in DOMAIN Stream /\ Stream[k] = unread[k]
  BY StreamParts
<1>4. Stream # <<>> /\ Stream[1] = unread[1]
  <2>1. 1 \in DOMAIN Stream /\ Stream[1] = unread[1]
    BY <1>2, <1>3
  <2>2. QED
    BY <1>1, <2>1, UnitsOf
<1>5. /\ unread[1][3] \in Sizes /\ unread[1][3] \in Nat
      /\ last < unread[1][1] /\ unread[1][1] <= sent
      /\ \A k \in 1..unread[1][3] : Stream[k] = <<unread[1][1], k, unread[1][3]>>
  BY <1>1, <1>4, FirstPacket
<1>6. ASSUME NEW k \in 1..unread[1][3], k <= Len(unread)
      PROVE  k \in DOMAIN unread /\ unread[k] = <<unread[1][1], k, unread[1][3]>>
  <2>1. k \in DOMAIN unread
    <3>1. k \in Nat /\ 1 <= k
      BY <1>5
    <3>2. QED
      BY <1>2, <1>6, <3>1
  <2>2. QED
    BY <1>3, <1>5, <2>1
<1>7. QED
  BY <1>2, <1>4, <1>5, <1>6

LEMMA UnitsOfHead ==
  ASSUME StateOK, Packets(Stream, last, sent), unread # <<>>,
         NEW k \in 0..Len(unread), k <= unread[1][3]
  PROVE  SubSeq(unread, 1, k) = SubSeq(Packet(unread[1][1], unread[1][3]), 1, k)
<1>1. PICK n, size, p : n = unread[1][1] /\ size = unread[1][3] /\ p = Packet(n, size)
  OBVIOUS
<1>2. /\ n \in Nat /\ size \in Sizes
      /\ \A i \in 1..size : i <= Len(unread) => unread[i] = <<n, i, size>>
  BY <1>1, HeadIsFirst
<1>3. p \in Seq(Unit) /\ Len(p) = size /\ \A i \in 1..size : p[i] = <<n, i, size>>
  BY <1>1, <1>2, PacketUnits
<1>4. unread \in Seq(Unit) /\ Len(unread) \in Nat /\ size \in Nat /\ k \in Nat /\ k <= size /\ k <= Len(unread)
  <2>1. unread \in Seq(Unit)
    BY DEF StateOK
  <2>2. Len(unread) \in Nat /\ size \in Nat
    BY <2>1, <1>2, UnitsOf, PacketAssumption DEF Sizes
  <2>3. k \in Nat /\ k <= Len(unread)
    BY <2>2
  <2>4. QED
    BY <1>1, <2>1, <2>2, <2>3
<1>5. /\ SubSeq(unread, 1, k) \in Seq(Unit) /\ Len(SubSeq(unread, 1, k)) = k
      /\ \A i \in 1..k : SubSeq(unread, 1, k)[i] = unread[i]
  BY <1>4, Cut
<1>6. /\ SubSeq(p, 1, k) \in Seq(Unit) /\ Len(SubSeq(p, 1, k)) = k
      /\ \A i \in 1..k : SubSeq(p, 1, k)[i] = p[i]
  <2>1. k \in 0..Len(p)
    BY <1>3, <1>4
  <2>2. QED
    BY <1>3, <2>1, Cut
<1>7. PICK a, b : a = SubSeq(unread, 1, k) /\ b = SubSeq(p, 1, k)
  OBVIOUS
<1>8. ASSUME NEW i \in 1..k PROVE a[i] = b[i]
  <2>1. i \in 1..size /\ i <= Len(unread)
    BY <1>4
  <2>2. unread[i] = <<n, i, size>> /\ p[i] = <<n, i, size>>
    BY <1>2, <1>3, <2>1
  <2>3. a[i] = unread[i] /\ b[i] = p[i]
    BY <1>5, <1>6, <1>7
  <2>4. QED
    BY <2>2, <2>3
<1>9. a = b
  BY <1>5, <1>6, <1>7, <1>8, SeqEqual
<1>10. QED
  BY <1>1, <1>7, <1>9

(* The head says how large the packet is. *)
LEMMA HeadIsRead ==
  ASSUME StateOK, Packets(Stream, last, sent), unread # <<>>
  PROVE  HeadSays = IF Len(unread) < HeadSize THEN {} ELSE {unread[1][3]}
<1>1. CASE Len(unread) < HeadSize
  BY <1>1 DEF HeadSays
<1>2. CASE ~(Len(unread) < HeadSize)
  <2>1. unread \in Seq(Unit) /\ Len(unread) \in Nat /\ HeadSize \in Nat /\ unread[1][3] \in Sizes
    BY HeadIsFirst, UnitsOf, PacketAssumption DEF StateOK
  <2>2. HeadSize \in 0..Len(unread) /\ HeadSize <= unread[1][3]
    BY <1>2, <2>1, PacketAssumption DEF Sizes
  <2>3. SubSeq(unread, 1, HeadSize) = SubSeq(Packet(unread[1][1], unread[1][3]), 1, HeadSize)
    BY <2>2, UnitsOfHead
  <2>4. QED
    BY <1>2, <2>3 DEF HeadSays
<1>3. QED
  BY <1>1, <1>2

(* What a packet that is read is, if nothing has cut the stream. *)
LEMMA ReadIsFirst ==
  ASSUME StateOK, Packets(Stream, last, sent), NEW size, ReadPacket(size)
  PROVE  /\ unread # <<>> /\ size = unread[1][3] /\ size \in Sizes /\ size \in 1..Len(unread)
         /\ SubSeq(unread, 1, size) = Packet(unread[1][1], size)
<1>1. /\ unread \in Seq(Unit) /\ Len(unread) \in Nat /\ HeadSize \in Nat \ {0}
      /\ (unread = <<>> <=> Len(unread) = 0)
  BY UnitsOf, PacketAssumption DEF StateOK
<1>2. size \in HeadSays /\ ~Short(size)
  BY DEF ReadPacket
<1>3. unread # <<>> /\ ~(Len(unread) < HeadSize)
  BY <1>1, <1>2 DEF HeadSays
<1>4. size = unread[1][3] /\ size \in Sizes
  BY <1>2, <1>3, HeadIsRead, HeadIsFirst
<1>5. size \in Nat /\ size >= 1 /\ size <= Len(unread)
  <2>1. size \in Nat /\ size >= 1
    BY <1>4, PacketAssumption DEF Sizes
  <2>2. QED
    BY <1>1, <1>2, <2>1 DEF Short
<1>6. SubSeq(unread, 1, size) = SubSeq(Packet(unread[1][1], size), 1, size)
  <2>1. size \in 0..Len(unread) /\ size <= unread[1][3]
    BY <1>1, <1>4, <1>5
  <2>2. QED
    BY <1>3, <1>4, <2>1, UnitsOfHead
<1>7. SubSeq(Packet(unread[1][1], size), 1, size) = Packet(unread[1][1], size)
  <2>1. unread[1][1] \in Nat
    BY <1>3, HeadIsFirst
  <2>2. Packet(unread[1][1], size) \in Seq(Unit) /\ Len(Packet(unread[1][1], size)) = size
    BY <1>4, <2>1, PacketUnits
  <2>3. QED
    BY <2>2, SubSeqFull
<1>8. QED
  BY <1>1, <1>3, <1>4, <1>5, <1>6, <1>7

-----------------------------------------------------------------------------
(* The sender's steps *)

LEMMA SendMsgStep ==
  ASSUME PacketInv, NEW size \in Sizes, SendMsg(size)
  PROVE  PacketInv'
<1>1. StateOK /\ UnitsWereSent /\ StreamInv /\ NoWholePacketWaits /\ RoomForARead
  BY DEF PacketInv
<1>2. /\ rest = <<>> /\ sent < MaxSent /\ sent' = sent + 1 /\ rest' = Packet(sent + 1, size)
      /\ retries' = 0 /\ socket' = socket /\ unread' = unread /\ rPos' = rPos
      /\ processed' = processed /\ losses' = losses /\ reported' = reported
      /\ last' = last /\ broken' = broken
  BY DEF SendMsg, receiverVars, historyVars
<1>3. /\ sent \in Nat /\ MaxSent \in Nat /\ sent + 1 \in 0..MaxSent /\ sent + 1 \in Nat
      /\ last \in Nat /\ last <= sent
  BY <1>1, <1>2, PacketAssumption DEF StateOK
<1>4. /\ rest' \in Seq(Unit) /\ Len(rest') = size /\ DOMAIN rest' = 1..size
      /\ \A i \in 1..size : rest'[i] = <<sent + 1, i, size>>
  BY <1>2, <1>3, PacketUnits
<1>5. size \in Nat /\ size <= MaxPacket
  BY PacketAssumption DEF Sizes
<1>6. StateOK'
  <2>1. reported \subseteq 1..sent + 1 /\ last \in 0..sent + 1
    BY <1>1, <1>3 DEF StateOK
  <2>2. 0 < RetryLimit /\ 0 \in Nat
    BY PacketAssumption
  <2>3. wPos' = wPos
    BY <1>2 DEF wPos
  <2>4. QED
    BY <1>1, <1>2, <1>3, <1>4, <1>5, <2>1, <2>2, <2>3 DEF StateOK
<1>7. UnitsWereSent'
  <2>1. ASSUME NEW q \in Seq(Unit), \A i \in DOMAIN q : 1 <= q[i][1] /\ q[i][1] <= sent
        PROVE  \A i \in DOMAIN q : 1 <= q[i][1] /\ q[i][1] <= sent + 1
    BY <1>3, <2>1, UnitsOf
  <2>2. \A i \in DOMAIN rest' : 1 <= rest'[i][1] /\ rest'[i][1] <= sent + 1
    BY <1>3, <1>4
  <2>3. socket \in Seq(Unit) /\ unread \in Seq(Unit)
    BY <1>1 DEF StateOK
  <2>4. QED
    BY <1>1, <1>2, <2>1, <2>2, <2>3 DEF UnitsWereSent, Sent
<1>8. RestIsLastPacket'
  <2>1. \A i \in DOMAIN rest' : rest'[i] = <<sent', size - Len(rest') + i, size>>
    <3>1. ASSUME NEW i \in DOMAIN rest' PROVE rest'[i] = <<sent', size - Len(rest') + i, size>>
      <4>1. i \in 1..size /\ i \in Nat /\ size - Len(rest') + i = i
        BY <1>4, <1>5
      <4>2. QED
        BY <1>2, <1>4, <4>1
    <3>2. QED
      BY <3>1
  <2>2. Len(rest') <= size
    BY <1>4, <1>5
  <2>3. sent' \in 1..sent'
    BY <1>2, <1>3
  <2>4. QED
    BY <2>1, <2>2, <2>3 DEF RestIsLastPacket
<1>9. StreamInv'
  <2>1. SUFFICES ASSUME broken \subseteq {"behind"}
                 PROVE  Packets(Stream', last', sent') /\ (losses' = 0 => ReportedHasArrived')
    BY <1>2 DEF StreamInv
  <2>2. Packets(Stream, last, sent) /\ (losses = 0 => ReportedHasArrived)
    BY <1>1, <2>1 DEF StreamInv
  <2>3. Arrived' = Arrived /\ Arrived \in Seq(Unit)
    BY <1>1, <1>2, StreamParts DEF Arrived
  <2>4. Stream = Arrived /\ Stream' = Stream \o Packet(sent + 1, size)
    BY <1>2, <2>3, ConcatEmptySeq DEF Stream
  <2>5. Packets(Stream', last, sent + 1)
    BY <1>3, <2>2, <2>3, <2>4, AddLast
  <2>6. QED
    BY <1>2, <2>2, <2>3, <2>5 DEF ReportedHasArrived
<1>10. NoWholePacketWaits' /\ RoomForARead'
  BY <1>1, <1>2 DEF NoWholePacketWaits, RoomForARead
<1>11. QED
  BY <1>6, <1>7, <1>8, <1>9, <1>10 DEF PacketInv

(* What one send() does: rest is cut at k, and a goes into the socket. *)
SendCuts(k, a, b) ==
  /\ k \in 0..Len(rest) /\ k <= SocketSize - Len(socket)
  /\ a \in Seq(Unit) /\ Len(a) = k /\ \A i \in 1..k : a[i] = rest[i]
  /\ b \in Seq(Unit) /\ Len(b) = Len(rest) - k /\ \A i \in 1..Len(rest) - k : b[i] = rest[k + i]
  /\ rest = a \o b
  /\ socket' = socket \o a
  /\ \/ /\ rest' = b /\ broken' = broken
        /\ reported' = IF b = <<>> THEN reported \cup {rest[1][1]} ELSE reported
        /\ retries' = IF b = <<>> THEN 0 ELSE retries + 1
        /\ retries + 1 # RetryLimit
     \/ /\ rest' = <<>> /\ retries' = 0 /\ reported' = reported
        /\ broken' = IF Len(b) \in 1..rest[1][3] - 1 THEN broken \cup {"torn"} ELSE broken

LEMMA SendIsACut ==
  ASSUME StateOK, Send
  PROVE  \E k, a, b : SendCuts(k, a, b)
<1>1. PICK room : room = SocketSize - Len(socket)
  OBVIOUS
<1>2. PICK b : b = SubSeq(rest, room + 1, Len(rest))
  OBVIOUS
<1>3. PICK k : k = Len(rest) - Len(b)
  OBVIOUS
<1>4. PICK a : a = SubSeq(rest, 1, k)
  OBVIOUS
<1>5. /\ rest # <<>> /\ socket' = socket \o a
      /\ rest' = IF retries + 1 = RetryLimit THEN <<>> ELSE b
      /\ retries' = IF rest' = <<>> THEN 0 ELSE retries + 1
      /\ reported' = IF b = <<>> /\ ~(retries + 1 = RetryLimit) THEN reported \cup {rest[1][1]} ELSE reported
      /\ broken' = IF retries + 1 = RetryLimit /\ Len(b) \in 1..rest[1][3] - 1
                   THEN broken \cup {"torn"} ELSE broken
  BY <1>1, <1>2, <1>3, <1>4 DEF Send
<1>6. /\ rest \in Seq(Unit) /\ Len(rest) \in Nat
      /\ room \in Nat
  <2>1. rest \in Seq(Unit) /\ socket \in Seq(Unit) /\ Len(socket) <= SocketSize
    BY DEF StateOK
  <2>2. Len(socket) \in Nat /\ SocketSize \in Nat
    BY <2>1, UnitsOf, PacketAssumption
  <2>3. QED
    BY <1>1, <2>1, <2>2, UnitsOf
<1>7. /\ k \in 0..Len(rest) /\ k <= room /\ b = SubSeq(rest, k + 1, Len(rest))
  <2>1. CASE room <= Len(rest)
    <3>1. room \in 0..Len(rest)
      BY <1>6, <2>1
    <3>2. Len(b) = Len(rest) - room
      BY <1>2, <1>6, <3>1, Cut
    <3>3. k = room
      BY <1>3, <1>6, <3>2
    <3>4. QED
      BY <1>2, <1>6, <3>1, <3>3
  <2>2. CASE room > Len(rest)
    <3>1. room + 1 \in Int /\ Len(rest) \in Int /\ Len(rest) < room + 1
      BY <1>6, <2>2
    <3>2. b = <<>>
      BY <1>2, <3>1, SubSeqEmpty
    <3>3. Len(b) = 0
      BY <3>2
    <3>4. k = Len(rest)
      BY <1>3, <1>6, <3>3
    <3>5. k + 1 \in Int /\ Len(rest) < k + 1
      BY <1>6, <3>4
    <3>6. SubSeq(rest, k + 1, Len(rest)) = <<>>
      BY <3>1, <3>5, SubSeqEmpty
    <3>7. QED
      BY <1>6, <2>2, <3>2, <3>4, <3>6
  <2>3. QED
    BY <1>6, <2>1, <2>2
<1>8. /\ a \in Seq(Unit) /\ Len(a) = k /\ (\A i \in 1..k : a[i] = rest[i])
      /\ b \in Seq(Unit) /\ Len(b) = Len(rest) - k /\ (\A i \in 1..Len(rest) - k : b[i] = rest[k + i])
      /\ rest = a \o b
  BY <1>4, <1>6, <1>7, Cut
<1>9. \/ /\ rest' = b /\ broken' = broken
         /\ reported' = IF b = <<>> THEN reported \cup {rest[1][1]} ELSE reported
         /\ retries' = IF b = <<>> THEN 0 ELSE retries + 1
         /\ retries + 1 # RetryLimit
      \/ /\ rest' = <<>> /\ retries' = 0 /\ reported' = reported
         /\ broken' = IF Len(b) \in 1..rest[1][3] - 1 THEN broken \cup {"torn"} ELSE broken
  <2>1. CASE retries + 1 = RetryLimit
    BY <1>5, <2>1
  <2>2. CASE retries + 1 # RetryLimit
    BY <1>5, <2>2
  <2>3. QED
    BY <2>1, <2>2
<1>10. SendCuts(k, a, b)
  BY <1>1, <1>5, <1>7, <1>8, <1>9 DEF SendCuts
<1>11. QED
  BY <1>10

LEMMA SendStep ==
  ASSUME PacketInv, Send
  PROVE  PacketInv'
<1>1. /\ StateOK /\ UnitsWereSent /\ RestIsLastPacket /\ StreamInv /\ NoWholePacketWaits
      /\ RoomForARead
  BY DEF PacketInv
<1>2. PICK k, a, b : SendCuts(k, a, b)
  BY <1>1, SendIsACut
<1>3. /\ rest # <<>> /\ sent' = sent /\ unread' = unread /\ rPos' = rPos
      /\ processed' = processed /\ losses' = losses /\ last' = last
  BY DEF Send, receiverVars
<1>4. /\ rest \in Seq(Unit) /\ socket \in Seq(Unit) /\ unread \in Seq(Unit)
      /\ a \in Seq(Unit) /\ b \in Seq(Unit) /\ rest = a \o b
  BY <1>1, <1>2 DEF StateOK, SendCuts
<1>5. /\ Len(rest) \in Nat /\ Len(socket) \in Nat /\ Len(a) \in Nat /\ Len(b) \in Nat
      /\ Len(a) = k /\ Len(b) = Len(rest) - k /\ k \in Nat /\ k <= Len(rest)
      /\ DOMAIN rest = 1..Len(rest) /\ Len(rest) # 0
      /\ DOMAIN a = 1..Len(a) /\ DOMAIN b = 1..Len(b)
      /\ (b = <<>> <=> Len(b) = 0) /\ (a = <<>> <=> Len(a) = 0)
  <2>1. Len(rest) \in Nat /\ Len(a) = k /\ Len(b) = Len(rest) - k /\ k \in 0..Len(rest)
    BY <1>2, <1>4, UnitsOf DEF SendCuts
  <2>2. k \in Nat /\ k <= Len(rest)
    BY <2>1
  <2>3. QED
    BY <1>3, <1>4, <2>1, <2>2, UnitsOf
<1>6. PICK size \in Sizes, n \in 1..sent :
        /\ "mixed" \in broken \/ n = sent
        /\ Len(rest) <= size
        /\ \A i \in DOMAIN rest : rest[i] = <<n, size - Len(rest) + i, size>>
  BY <1>1, <1>3 DEF RestIsLastPacket
<1>7. /\ size \in Nat /\ rest[1][1] = n /\ rest[1][3] = size
      /\ rest[1][2] = size - Len(rest) + 1
      /\ 1 \in DOMAIN rest
  <2>1. 1 \in DOMAIN rest
    BY <1>5
  <2>2. rest[1] = <<n, size - Len(rest) + 1, size>>
    BY <1>6, <2>1
  <2>3. QED
    BY <2>1, <2>2, PacketAssumption DEF Sizes
<1>8. rest' = b \/ rest' = <<>>
  BY <1>2 DEF SendCuts
<1>9. sent \in Nat /\ n \in 1..sent
  BY <1>1, <1>6, PacketAssumption DEF StateOK
<1>10. StateOK'
  <2>1. rest' \in Seq(Unit) /\ Len(rest') <= MaxPacket
    <3>1. Len(rest) <= MaxPacket /\ MaxPacket \in Nat
      BY <1>1, PacketAssumption DEF StateOK
    <3>2. Len(b) <= MaxPacket
      BY <1>5, <3>1
    <3>3. <<>> \in Seq(Unit) /\ Len(<<>>) = 0
      BY EmptySeq
    <3>4. QED
      <4>1. CASE rest' = b
        BY <1>4, <3>2, <4>1
      <4>2. CASE rest' = <<>>
        <5>1. 0 <= MaxPacket
          BY <3>1
        <5>2. QED
          BY <3>3, <4>2, <5>1
      <4>3. QED
        BY <1>8, <4>1, <4>2
  <2>2. retries' \in Nat /\ retries' < RetryLimit
    <3>1. retries \in Nat /\ retries < RetryLimit /\ RetryLimit \in Nat /\ 0 < RetryLimit
      BY <1>1, PacketAssumption DEF StateOK
    <3>2. retries' = 0 \/ (retries' = retries + 1 /\ retries + 1 # RetryLimit)
      BY <1>2 DEF SendCuts
    <3>3. QED
      BY <3>1, <3>2
  <2>3. reported' \subseteq 1..sent
    <3>1. reported \subseteq 1..sent
      BY <1>1 DEF StateOK
    <3>2. reported' = reported \/ reported' = reported \cup {n}
      BY <1>2, <1>7 DEF SendCuts
    <3>3. QED
      BY <1>9, <3>1, <3>2
  <2>4. socket' \in Seq(Unit) /\ Len(socket') <= SocketSize
    <3>1. socket' = socket \o a /\ k <= SocketSize - Len(socket) /\ SocketSize \in Nat
      BY <1>2, PacketAssumption DEF SendCuts
    <3>2. socket' \in Seq(Unit) /\ Len(socket') = Len(socket) + k
      BY <1>4, <1>5, <3>1, Joined
    <3>3. QED
      BY <1>5, <3>1, <3>2
  <2>5. broken' \subseteq {"torn", "dropped", "stale", "behind", "mixed"}
    <3>1. broken' = broken \/ broken' = broken \cup {"torn"}
      BY <1>2 DEF SendCuts
    <3>2. QED
      BY <1>1, <3>1 DEF StateOK
  <2>6. wPos' = wPos
    BY <1>3 DEF wPos
  <2>7. QED
    BY <1>1, <1>3, <2>1, <2>2, <2>3, <2>4, <2>5, <2>6 DEF StateOK
<1>11. \A i \in 1..k : i \in DOMAIN rest /\ a[i] = rest[i]
  BY <1>2, <1>5 DEF SendCuts
<1>12. \A i \in DOMAIN b : k + i \in DOMAIN rest /\ b[i] = rest[k + i]
  <2>1. \A i \in 1..Len(rest) - k : b[i] = rest[k + i]
    BY <1>2 DEF SendCuts
  <2>2. \A i \in DOMAIN b : k + i \in DOMAIN rest /\ i \in 1..Len(rest) - k
    BY <1>5
  <2>3. QED
    BY <2>1, <2>2
<1>13. UnitsWereSent'
  <2>1. Sent(rest) /\ Sent(socket) /\ Sent(unread)
    BY <1>1 DEF UnitsWereSent
  <2>2. \A i \in DOMAIN a : 1 <= a[i][1] /\ a[i][1] <= sent
    BY <1>5, <1>11, <2>1 DEF Sent
  <2>3. \A i \in DOMAIN b : 1 <= b[i][1] /\ b[i][1] <= sent
    BY <1>12, <2>1 DEF Sent
  <2>4. \A i \in DOMAIN rest' : 1 <= rest'[i][1] /\ rest'[i][1] <= sent
    <3>1. CASE rest' = b
      BY <2>3, <3>1
    <3>2. CASE rest' = <<>>
      <4>1. DOMAIN rest' = {}
        BY <3>2, EmptySeq, LenProperties
      <4>2. QED
        BY <4>1
    <3>3. QED
      BY <1>8, <3>1, <3>2
  <2>5. ASSUME NEW i \in DOMAIN (socket \o a) PROVE 1 <= (socket \o a)[i][1] /\ (socket \o a)[i][1] <= sent
    <3>1. i \in 1..Len(socket) + Len(a)
      BY <1>4, Joined
    <3>2. CASE i \in DOMAIN socket
      BY <1>4, <2>1, <3>2, Joined DEF Sent
    <3>3. CASE i - Len(socket) \in DOMAIN a /\ (socket \o a)[i] = a[i - Len(socket)]
      BY <2>2, <3>3
    <3>4. QED
      BY <1>4, <3>1, <3>2, <3>3, Joined
  <2>6. socket' = socket \o a
    BY <1>2 DEF SendCuts
  <2>7. QED
    BY <1>3, <2>1, <2>4, <2>5, <2>6 DEF UnitsWereSent, Sent
<1>14. RestIsLastPacket'
  <2>1. CASE rest' = <<>>
    BY <2>1 DEF RestIsLastPacket
  <2>2. CASE rest' = b
    <3>1. ASSUME NEW i \in DOMAIN b PROVE b[i] = <<n, size - Len(b) + i, size>>
      <4>1. b[i] = <<n, size - Len(rest) + (k + i), size>>
        BY <1>6, <1>12
      <4>2. i \in Nat
        BY <1>5
      <4>3. size - Len(rest) + (k + i) = size - Len(b) + i
        BY <1>5, <1>7, <4>2
      <4>4. QED
        BY <4>1, <4>3
    <3>2. Len(b) <= size
      BY <1>5, <1>6, <1>7
    <3>3. "mixed" \in broken' \/ n = sent
      BY <1>2, <1>6 DEF SendCuts
    <3>4. QED
      BY <1>3, <1>9, <2>2, <3>1, <3>2, <3>3 DEF RestIsLastPacket
  <2>3. QED
    BY <1>8, <2>1, <2>2
<1>15. Arrived \in Seq(Unit) /\ Len(Arrived) \in Nat /\ Arrived' = Arrived \o a
  <2>1. Arrived \in Seq(Unit)
    BY <1>1, StreamParts
  <2>2. Arrived' = unread \o (socket \o a)
    BY <1>2, <1>3 DEF Arrived, SendCuts
  <2>3. Arrived' = (unread \o socket) \o a
    <3>1. (unread \o socket) \o a = unread \o (socket \o a)
      BY <1>4, ConcatAssociative, SMTT(30)
    <3>2. QED
      BY <2>2, <3>1
  <2>4. QED
    BY <2>1, <2>3, UnitsOf DEF Arrived
<1>16. ReportedHasArrived => ReportedHasArrived'
  <2>1. SUFFICES ASSUME ReportedHasArrived, NEW m \in reported'
                 PROVE  \E i \in DOMAIN Arrived' : Arrived'[i][1] = m /\ Arrived'[i][2] = Arrived'[i][3]
    BY DEF ReportedHasArrived
  <2>2. DOMAIN Arrived' = 1..Len(Arrived) + Len(a) /\ DOMAIN Arrived = 1..Len(Arrived)
    BY <1>4, <1>15, Joined, UnitsOf
  <2>3. CASE m \in reported
    <3>1. PICK i \in DOMAIN Arrived : Arrived[i][1] = m /\ Arrived[i][2] = Arrived[i][3]
      BY <2>1, <2>3 DEF ReportedHasArrived
    <3>2. Arrived'[i] = Arrived[i]
      BY <1>4, <1>15, Joined
    <3>3. i \in DOMAIN Arrived'
      BY <1>5, <1>15, <2>2
    <3>4. QED
      BY <3>1, <3>2, <3>3
  <2>4. CASE m \notin reported
    <3>1. m = n /\ b = <<>>
      BY <1>2, <1>7, <2>1, <2>4 DEF SendCuts
    <3>2. k = Len(rest) /\ k \in DOMAIN a /\ k \in DOMAIN rest
      BY <1>5, <3>1
    <3>3. Arrived'[Len(Arrived) + k] = a[k]
      BY <1>4, <1>15, <3>2, Joined
    <3>4. a[k] = <<n, size - Len(rest) + k, size>>
      BY <1>5, <1>6, <1>11, <3>2
    <3>5. size - Len(rest) + k = size
      BY <1>5, <1>7, <3>2
    <3>6. Len(Arrived) + k \in DOMAIN Arrived'
      BY <1>5, <1>15, <2>2, <3>2
    <3>7. QED
      BY <3>1, <3>3, <3>4, <3>5, <3>6
  <2>5. QED
    BY <2>3, <2>4
<1>17. StreamInv'
  <2>1. SUFFICES ASSUME broken' \subseteq {"behind"}
                 PROVE  Packets(Stream', last, sent) /\ (losses = 0 => ReportedHasArrived')
    BY <1>3 DEF StreamInv
  <2>2. broken' = broken
    <3>1. broken' = broken \/ broken' = broken \cup {"torn"}
      BY <1>2 DEF SendCuts
    <3>2. QED
      BY <2>1, <3>1
  <2>3. Packets(Stream, last, sent) /\ (losses = 0 => ReportedHasArrived)
    BY <1>1, <2>1, <2>2 DEF StreamInv
  <2>4. Packets(Stream', last, sent)
    <3>1. CASE rest' = b
      <4>1. Stream' = (Arrived \o a) \o b
        BY <1>15, <3>1 DEF Stream
      <4>2. Stream' = Arrived \o (a \o b)
        <5>1. (Arrived \o a) \o b = Arrived \o (a \o b)
          <6>1. Arrived \in Seq(Unit) /\ a \in Seq(Unit) /\ b \in Seq(Unit)
            BY <1>4, <1>15
          <6>2. QED
            BY <6>1, ConcatAssociative, SMTT(30)
        <5>2. QED
          BY <4>1, <5>1
      <4>3. Stream' = Stream
        BY <1>4, <4>2 DEF Stream
      <4>4. QED
        BY <2>3, <4>3
    <3>2. CASE rest' # b
      <4>1. /\ rest' = <<>> /\ b # <<>>
            /\ broken' = IF Len(b) \in 1..rest[1][3] - 1 THEN broken \cup {"torn"} ELSE broken
        BY <1>2, <3>2 DEF SendCuts
      <4>2. Len(b) \notin 1..rest[1][3] - 1
        BY <2>1, <4>1
      <4>3. Len(b) >= size
        <5>1. Len(b) # 0
          BY <1>5, <4>1
        <5>2. QED
          BY <1>5, <1>7, <4>2, <5>1
      <4>4. Len(rest) = size /\ k = 0
        BY <1>5, <1>6, <1>7, <4>3
      <4>5. Stream' = Arrived
        <5>1. a = <<>>
          BY <1>5, <4>4
        <5>2. Arrived' = Arrived
          BY <1>15, <5>1, ConcatEmptySeq
        <5>3. QED
          BY <1>15, <4>1, <5>2, ConcatEmptySeq DEF Stream
      <4>6. rest[1][2] = 1
        BY <1>7, <4>4
      <4>7. Packets(Arrived \o rest, last, sent)
        BY <2>3 DEF Stream
      <4>8. Packets(Arrived, last, sent)
        BY <1>3, <1>4, <1>15, <4>6, <4>7, DropLast
      <4>9. QED
        BY <4>5, <4>8
    <3>3. QED
      BY <3>1, <3>2
  <2>5. QED
    BY <1>16, <2>3, <2>4
<1>18. NoWholePacketWaits' /\ RoomForARead'
  <2>1. broken' = broken \/ broken' = broken \cup {"torn"}
    BY <1>2 DEF SendCuts
  <2>2. QED
    BY <1>1, <1>3, <2>1 DEF NoWholePacketWaits, RoomForARead
<1>19. QED
  BY <1>10, <1>13, <1>14, <1>17, <1>18 DEF PacketInv

(* Another thread's send() between two of this one's. *)
LEMMA SendBetweenStep ==
  ASSUME PacketInv, NEW size \in Sizes, SendBetween(size)
  PROVE  PacketInv'
<1>1. /\ StateOK /\ UnitsWereSent /\ RestIsLastPacket
  BY DEF PacketInv
<1>2. PICK room : room = SocketSize - Len(socket)
  OBVIOUS
<1>3. PICK count : count = IF size < room THEN size ELSE room
  OBVIOUS
<1>4. PICK p : p = Packet(sent + 1, size)
  OBVIOUS
<1>5. PICK a : a = SubSeq(p, 1, count)
  OBVIOUS
<1>6. /\ rest # <<>> /\ sent < MaxSent /\ count > 0
      /\ sent' = sent + 1 /\ socket' = socket \o a
      /\ reported' = reported \/ reported' = reported \cup {sent + 1}
      /\ broken' = broken \cup {"mixed"}
      /\ rest' = rest /\ retries' = retries /\ unread' = unread /\ rPos' = rPos
      /\ processed' = processed /\ losses' = losses /\ last' = last
  <2>1. /\ rest # <<>> /\ sent < MaxSent /\ sent' = sent + 1
        /\ broken' = broken \cup {"mixed"}
        /\ rest' = rest /\ retries' = retries /\ unread' = unread /\ rPos' = rPos
        /\ processed' = processed /\ losses' = losses /\ last' = last
    BY DEF SendBetween, receiverVars
  <2>2. count > 0 /\ socket' = socket \o a
    BY <1>2, <1>3, <1>4, <1>5 DEF SendBetween
  <2>3. reported' = reported \/ reported' = reported \cup {sent + 1}
    BY DEF SendBetween
  <2>4. QED
    BY <2>1, <2>2, <2>3
<1>7. /\ sent \in Nat /\ MaxSent \in Nat /\ sent + 1 \in 0..MaxSent
      /\ size \in Nat /\ SocketSize \in Nat
      /\ socket \in Seq(Unit) /\ Len(socket) \in Nat /\ Len(socket) <= SocketSize
      /\ rest \in Seq(Unit) /\ unread \in Seq(Unit)
  <2>1. /\ socket \in Seq(Unit) /\ Len(socket) <= SocketSize /\ sent \in 0..MaxSent
        /\ rest \in Seq(Unit) /\ unread \in Seq(Unit)
    BY <1>1 DEF StateOK
  <2>2. sent \in Nat /\ MaxSent \in Nat /\ sent + 1 \in 0..MaxSent /\ size \in Nat /\ SocketSize \in Nat
    BY <1>6, <2>1, PacketAssumption DEF Sizes
  <2>3. QED
    BY <2>1, <2>2, UnitsOf
<1>8. /\ p \in Seq(Unit) /\ Len(p) = size /\ \A i \in 1..size : p[i] = <<sent + 1, i, size>>
  BY <1>4, <1>7, PacketUnits
<1>9. count \in 0..size /\ count \in Nat /\ count <= SocketSize - Len(socket)
  BY <1>2, <1>3, <1>6, <1>7
<1>10. a \in Seq(Unit) /\ Len(a) = count /\ DOMAIN a = 1..count /\ \A i \in 1..count : a[i][1] = sent + 1
  <2>1. count \in 0..Len(p)
    BY <1>8, <1>9
  <2>2. a \in Seq(Unit) /\ Len(a) = count /\ DOMAIN a = 1..count /\ \A i \in 1..count : a[i] = p[i]
    BY <1>5, <1>8, <2>1, Cut
  <2>3. \A i \in 1..count : i \in 1..size
    BY <1>7, <1>9
  <2>4. QED
    BY <1>8, <2>2, <2>3
<1>11. socket' \in Seq(Unit) /\ Len(socket') = Len(socket) + count
  BY <1>6, <1>7, <1>10, Joined
<1>12. StateOK'
  <2>1. reported' \subseteq 1..sent + 1 /\ last \in 0..sent + 1
    <3>1. reported \subseteq 1..sent /\ last \in 0..sent
      BY <1>1 DEF StateOK
    <3>2. reported \subseteq 1..sent + 1 /\ sent + 1 \in 1..sent + 1 /\ last \in 0..sent + 1
      BY <1>7, <3>1
    <3>3. QED
      BY <1>6, <3>2
  <2>2. Len(socket') <= SocketSize
    BY <1>7, <1>9, <1>11
  <2>3. wPos' = wPos
    BY <1>6 DEF wPos
  <2>4. QED
    BY <1>1, <1>6, <1>7, <1>11, <2>1, <2>2, <2>3 DEF StateOK
<1>13. UnitsWereSent'
  <2>1. ASSUME NEW q \in Seq(Unit), \A i \in DOMAIN q : 1 <= q[i][1] /\ q[i][1] <= sent
        PROVE  \A i \in DOMAIN q : 1 <= q[i][1] /\ q[i][1] <= sent + 1
    BY <1>7, <2>1, UnitsOf
  <2>2. Sent(rest) /\ Sent(socket) /\ Sent(unread)
    BY <1>1 DEF UnitsWereSent
  <2>3. \A i \in DOMAIN socket : 1 <= socket[i][1] /\ socket[i][1] <= sent + 1
    BY <1>7, <2>1, <2>2 DEF Sent
  <2>4. ASSUME NEW i \in DOMAIN (socket \o a)
        PROVE  1 <= (socket \o a)[i][1] /\ (socket \o a)[i][1] <= sent + 1
    <3>1. i \in 1..Len(socket) + Len(a)
      BY <1>7, <1>10, Joined
    <3>2. CASE i \in DOMAIN socket
      BY <1>7, <1>10, <2>3, <3>2, Joined
    <3>3. CASE i - Len(socket) \in DOMAIN a /\ (socket \o a)[i] = a[i - Len(socket)]
      BY <1>7, <1>10, <3>3
    <3>4. QED
      BY <1>7, <1>10, <3>1, <3>2, <3>3, Joined
  <2>5. \A i \in DOMAIN rest : 1 <= rest[i][1] /\ rest[i][1] <= sent + 1
    BY <1>7, <2>1, <2>2 DEF Sent
  <2>6. \A i \in DOMAIN unread : 1 <= unread[i][1] /\ unread[i][1] <= sent + 1
    BY <1>7, <2>1, <2>2 DEF Sent
  <2>7. QED
    BY <1>6, <2>4, <2>5, <2>6 DEF UnitsWereSent, Sent
<1>14. RestIsLastPacket'
  <2>1. PICK s \in Sizes, n \in 1..sent :
          Len(rest) <= s /\ \A i \in DOMAIN rest : rest[i] = <<n, s - Len(rest) + i, s>>
    BY <1>1, <1>6 DEF RestIsLastPacket
  <2>2. n \in 1..sent'
    BY <1>6, <1>7
  <2>3. QED
    BY <1>6, <2>1, <2>2 DEF RestIsLastPacket
<1>15. StreamInv' /\ NoWholePacketWaits' /\ RoomForARead'
  BY <1>6 DEF StreamInv, NoWholePacketWaits, RoomForARead
<1>16. QED
  BY <1>12, <1>13, <1>14, <1>15 DEF PacketInv

-----------------------------------------------------------------------------
(* The receiver's steps *)

LEMMA RecvStep ==
  ASSUME PacketInv, Recv
  PROVE  PacketInv'
<1>1. /\ StateOK /\ UnitsWereSent /\ RestIsLastPacket /\ StreamInv /\ NoWholePacketWaits
      /\ RoomForARead
  BY DEF PacketInv
<1>2. PICK size : size = IF Len(socket) < MaxPacket THEN Len(socket) ELSE MaxPacket
  OBVIOUS
<1>3. PICK a, b : a = SubSeq(socket, 1, size) /\ b = SubSeq(socket, size + 1, Len(socket))
  OBVIOUS
<1>4. /\ processed = -1 /\ size > 0 /\ socket' = b
      /\ unread' = IF Fits(size) THEN unread \o a ELSE unread
      /\ rPos' = IF size > MaxStream - wPos THEN 0 ELSE rPos
      /\ broken' = IF Fits(size) THEN broken ELSE broken \cup {"dropped"}
      /\ processed' = 0 /\ losses' = losses /\ reported' = reported /\ last' = last
      /\ sent' = sent /\ rest' = rest /\ retries' = retries
  BY <1>2, <1>3 DEF Recv, senderVars
<1>5. /\ unread \in Seq(Unit) /\ socket \in Seq(Unit) /\ rest \in Seq(Unit)
      /\ Len(unread) \in Nat /\ Len(socket) \in Nat /\ rPos \in Nat /\ MaxPacket \in Nat
      /\ wPos = rPos + Len(unread) /\ rPos + Len(unread) <= MaxStream
      /\ MaxStream = 2 * MaxPacket
  <2>1. unread \in Seq(Unit) /\ socket \in Seq(Unit) /\ rest \in Seq(Unit) /\ rPos \in Nat /\ wPos <= MaxStream
    BY <1>1 DEF StateOK
  <2>2. QED
    BY <2>1, UnitsOf, PacketAssumption DEF wPos, MaxStream
<1>6. size \in Nat /\ size <= Len(socket) /\ size <= MaxPacket /\ size \in 0..Len(socket)
  BY <1>2, <1>5
<1>7. /\ a \in Seq(Unit) /\ Len(a) = size /\ DOMAIN a = 1..size
      /\ \A i \in 1..size : a[i] = socket[i]
      /\ b \in Seq(Unit) /\ Len(b) = Len(socket) - size /\ DOMAIN b = 1..Len(socket) - size
      /\ \A i \in 1..Len(socket) - size : b[i] = socket[size + i]
      /\ a \o b = socket
  BY <1>3, <1>5, <1>6, Cut
<1>8. /\ DOMAIN socket = 1..Len(socket)
      /\ \A i \in DOMAIN a : i \in DOMAIN socket /\ a[i] = socket[i]
      /\ \A i \in DOMAIN b : size + i \in DOMAIN socket /\ b[i] = socket[size + i]
  <2>1. DOMAIN socket = 1..Len(socket)
    BY <1>5, UnitsOf
  <2>2. \A i \in 1..size : i \in 1..Len(socket)
    BY <1>5, <1>6
  <2>3. \A i \in 1..Len(socket) - size : size + i \in 1..Len(socket)
    BY <1>5, <1>6
  <2>4. QED
    BY <1>7, <2>1, <2>2, <2>3
<1>9. unread \o a \in Seq(Unit) /\ Len(unread \o a) = Len(unread) + size
  BY <1>5, <1>7, Joined
<1>10. StateOK'
  <2>1. socket' \in Seq(Unit) /\ Len(socket') <= SocketSize
    <3>1. Len(socket) <= SocketSize /\ SocketSize \in Nat
      BY <1>1, PacketAssumption DEF StateOK
    <3>2. Len(b) <= SocketSize
      BY <1>5, <1>6, <1>7, <3>1
    <3>3. QED
      BY <1>4, <1>7, <3>2
  <2>2. rPos' \in Nat
    BY <1>4, <1>5
  <2>3. unread' \in Seq(Unit)
    BY <1>4, <1>5, <1>9
  <2>4. rPos' + Len(unread') <= MaxStream
    <3>1. CASE ~Fits(size)
      <4>1. unread' = unread /\ rPos' \in Nat /\ rPos' <= rPos
        BY <1>4, <1>5, <3>1
      <4>2. QED
        BY <1>5, <4>1
    <3>2. CASE Fits(size)
      <4>1. Len(unread') = Len(unread) + size
        BY <1>4, <1>9, <3>2
      <4>2. CASE size <= MaxStream - wPos
        <5>1. rPos' = rPos
          BY <1>4, <1>5, <1>6, <4>2
        <5>2. QED
          BY <1>5, <1>6, <4>1, <4>2, <5>1
      <4>3. CASE ~(size <= MaxStream - wPos)
        <5>1. size <= MaxStream - Len(unread)
          BY <3>2, <4>3 DEF Fits
        <5>2. rPos' = 0
          BY <1>4, <1>5, <1>6, <4>3
        <5>3. QED
          BY <1>5, <1>6, <4>1, <5>1, <5>2
      <4>4. QED
        BY <4>2, <4>3
    <3>3. QED
      BY <3>1, <3>2
  <2>5. wPos' <= MaxStream
    BY <2>4 DEF wPos, MaxStream
  <2>6. processed' \in -1..ProcessLimit
    BY <1>4, PacketAssumption
  <2>7. broken' \subseteq {"torn", "dropped", "stale", "behind", "mixed"}
    BY <1>1, <1>4 DEF StateOK
  <2>8. QED
    BY <1>1, <1>4, <2>1, <2>2, <2>3, <2>5, <2>6, <2>7 DEF StateOK
<1>11. UnitsWereSent'
  <2>1. Sent(rest) /\ Sent(socket) /\ Sent(unread)
    BY <1>1 DEF UnitsWereSent
  <2>2. \A i \in DOMAIN a : 1 <= a[i][1] /\ a[i][1] <= sent
    BY <1>8, <2>1 DEF Sent
  <2>3. \A i \in DOMAIN b : 1 <= b[i][1] /\ b[i][1] <= sent
    BY <1>8, <2>1 DEF Sent
  <2>4. ASSUME NEW i \in DOMAIN (unread \o a) PROVE 1 <= (unread \o a)[i][1] /\ (unread \o a)[i][1] <= sent
    <3>1. i \in 1..Len(unread) + Len(a)
      BY <1>5, <1>7, Joined
    <3>2. CASE i \in DOMAIN unread
      BY <1>5, <1>7, <2>1, <3>2, Joined DEF Sent
    <3>3. CASE i - Len(unread) \in DOMAIN a /\ (unread \o a)[i] = a[i - Len(unread)]
      BY <2>2, <3>3
    <3>4. QED
      BY <1>5, <1>7, <3>1, <3>2, <3>3, Joined, SMTT(30)
  <2>5. \A i \in DOMAIN unread' : 1 <= unread'[i][1] /\ unread'[i][1] <= sent
    <3>1. unread' = unread \/ unread' = unread \o a
      BY <1>4
    <3>2. QED
      BY <2>1, <2>4, <3>1 DEF Sent
  <2>6. QED
    BY <1>4, <2>1, <2>3, <2>5 DEF UnitsWereSent, Sent
<1>12. RestIsLastPacket'
  BY <1>1, <1>4 DEF RestIsLastPacket
<1>13. Fits(size) => Arrived' = Arrived
  <2>1. (unread \o a) \o b = unread \o (a \o b)
    <3>1. unread \in Seq(Unit) /\ a \in Seq(Unit) /\ b \in Seq(Unit)
      BY <1>5, <1>7
    <3>2. QED
      BY <3>1, ConcatAssociative, SMTT(30)
  <2>2. QED
    BY <1>4, <1>7, <2>1 DEF Arrived
<1>14. StreamInv'
  <2>1. CASE Fits(size)
    <3>1. Arrived' = Arrived /\ Stream' = Stream /\ broken' = broken
      BY <1>4, <1>13, <2>1 DEF Stream
    <3>2. ReportedHasArrived' <=> ReportedHasArrived
      BY <1>4, <3>1 DEF ReportedHasArrived
    <3>3. QED
      BY <1>1, <1>4, <3>1, <3>2 DEF StreamInv
  <2>2. CASE ~Fits(size)
    BY <1>4, <2>2 DEF StreamInv
  <2>3. QED
    BY <2>1, <2>2
<1>15. NoWholePacketWaits'
  BY <1>4 DEF NoWholePacketWaits
<1>16. RoomForARead'
  <2>1. CASE Fits(size)
    BY <1>1, <1>4, <2>1 DEF RoomForARead
  <2>2. ASSUME ~Fits(size), broken \cap {"behind", "torn", "stale", "mixed"} = {} PROVE FALSE
    <3>1. broken = {}
      BY <1>1, <2>2 DEF StateOK, RoomForARead
    <3>2. unread = <<>> \/ Len(unread) < unread[1][3]
      BY <1>1, <1>4, <3>1 DEF NoWholePacketWaits
    <3>3. Len(unread) <= MaxPacket
      <4>1. CASE unread = <<>>
        <5>1. Len(unread) = 0
          BY <4>1
        <5>2. QED
          BY <1>5, <5>1
      <4>2. CASE unread # <<>> /\ Len(unread) < unread[1][3]
        <5>1. 1 \in DOMAIN unread
          BY <1>5, <4>2, UnitsOf
        <5>2. unread[1][3] \in Nat /\ unread[1][3] <= MaxPacket
          BY <1>5, <5>1, UnitsOf
        <5>3. QED
          BY <1>5, <4>2, <5>2
      <4>3. QED
        BY <3>2, <4>1, <4>2
    <3>4. size <= MaxStream - Len(unread)
      BY <1>5, <1>6, <3>3
    <3>5. rPos = 0 => size <= MaxStream - wPos
      BY <1>5, <1>6, <3>4
    <3>6. QED
      BY <1>5, <2>2, <3>4, <3>5 DEF Fits
  <2>3. CASE broken \cap {"behind", "torn", "stale", "mixed"} # {}
    BY <1>4, <2>3 DEF RoomForARead
  <2>4. QED
    BY <2>1, <2>2, <2>3
<1>17. QED
  BY <1>10, <1>11, <1>12, <1>14, <1>15, <1>16 DEF PacketInv

LEMMA WaitStep ==
  ASSUME PacketInv, processed >= 0, Wait, UNCHANGED <<senderVars, socket, losses>>
  PROVE  PacketInv'
<1>1. /\ StateOK /\ UnitsWereSent /\ RestIsLastPacket /\ StreamInv /\ NoWholePacketWaits
      /\ RoomForARead
  BY DEF PacketInv
<1>2. /\ sent' = sent /\ rest' = rest /\ retries' = retries /\ socket' = socket /\ losses' = losses
      /\ unread' = unread /\ rPos' = rPos /\ reported' = reported /\ last' = last
      /\ processed' = -1
      /\ broken' = IF processed = ProcessLimit /\ \E size \in HeadSays : ~Short(size)
                   THEN broken \cup {"behind"} ELSE broken
  BY DEF Wait, senderVars
<1>3. broken' = broken \/ broken' = broken \cup {"behind"}
  BY <1>2
<1>4. StateOK'
  <2>1. broken' \subseteq {"torn", "dropped", "stale", "behind", "mixed"}
    BY <1>1, <1>3 DEF StateOK
  <2>2. processed' \in -1..ProcessLimit /\ wPos' = wPos
    BY <1>2, PacketAssumption DEF wPos
  <2>3. QED
    BY <1>1, <1>2, <2>1, <2>2 DEF StateOK
<1>5. UnitsWereSent' /\ RestIsLastPacket'
  BY <1>1, <1>2 DEF UnitsWereSent, Sent, RestIsLastPacket
<1>6. StreamInv'
  <2>1. Arrived' = Arrived /\ Stream' = Stream
    BY <1>2 DEF Arrived, Stream
  <2>2. ReportedHasArrived' <=> ReportedHasArrived
    BY <1>2, <2>1 DEF ReportedHasArrived
  <2>3. broken' \subseteq {"behind"} => broken \subseteq {"behind"}
    BY <1>3
  <2>4. QED
    BY <1>1, <1>2, <2>1, <2>2, <2>3 DEF StreamInv
<1>7. NoWholePacketWaits'
  <2>1. SUFFICES ASSUME broken' = {}, unread # <<>>
                 PROVE  Len(unread) < unread[1][3]
    BY <1>2 DEF NoWholePacketWaits
  <2>2. broken = {} /\ ~(processed = ProcessLimit /\ \E size \in HeadSays : ~Short(size))
    BY <1>2, <1>3, <2>1
  <2>3. Packets(Stream, last, sent)
    BY <1>1, <2>2 DEF StreamInv
  <2>4. /\ HeadSays = IF Len(unread) < HeadSize THEN {} ELSE {unread[1][3]}
        /\ unread[1][3] \in Sizes
    BY <1>1, <2>1, <2>3, HeadIsRead, HeadIsFirst
  <2>5. Len(unread) \in Nat /\ unread[1][3] \in Nat /\ HeadSize \in Nat /\ HeadSize <= unread[1][3]
    BY <1>1, <2>4, UnitsOf, PacketAssumption DEF StateOK, Sizes
  <2>6. CASE Len(unread) < HeadSize
    BY <2>5, <2>6
  <2>7. CASE ~(Len(unread) < HeadSize)
    <3>1. HeadSays = {unread[1][3]}
      BY <2>4, <2>7
    <3>2. Short(unread[1][3])
      <4>1. processed = ProcessLimit \/ \E size \in HeadSays : Short(size)
        BY <3>1 DEF Wait
      <4>2. QED
        BY <2>2, <3>1, <4>1
    <3>3. QED
      BY <3>2 DEF Short
  <2>8. QED
    BY <2>6, <2>7
<1>8. RoomForARead'
  BY <1>1, <1>3 DEF RoomForARead
<1>9. QED
  BY <1>4, <1>5, <1>6, <1>7, <1>8 DEF PacketInv

LEMMA ResetBufferStep ==
  ASSUME PacketInv, processed >= 0, ResetBuffer, UNCHANGED <<senderVars, socket, losses>>
  PROVE  PacketInv'
<1>1. /\ StateOK /\ UnitsWereSent /\ RestIsLastPacket /\ StreamInv /\ RoomForARead
  BY DEF PacketInv
<1>2. /\ sent' = sent /\ rest' = rest /\ retries' = retries /\ socket' = socket /\ losses' = losses
      /\ reported' = reported /\ last' = last /\ broken' = broken
      /\ unread' = <<>> /\ rPos' = 0 /\ processed' = -1 /\ -1 \in HeadSays
  BY DEF ResetBuffer, senderVars, historyVars
<1>3. StateOK'
  <2>1. <<>> \in Seq(Unit) /\ Len(<<>>) = 0
    BY EmptySeq
  <2>2. rPos' + Len(unread') <= MaxStream
    <3>1. MaxStream \in Nat
      BY PacketAssumption DEF MaxStream
    <3>2. QED
      BY <1>2, <2>1, <3>1
  <2>3. wPos' <= MaxStream' /\ unread' \in Seq(Unit) /\ rPos' \in Nat /\ processed' \in -1..ProcessLimit
    BY <1>2, <2>1, <2>2, PacketAssumption DEF wPos, MaxStream
  <2>4. QED
    BY <1>1, <1>2, <2>3 DEF StateOK
<1>4. UnitsWereSent' /\ RestIsLastPacket'
  <2>1. DOMAIN unread' = {}
    BY <1>2
  <2>2. QED
    BY <1>1, <1>2, <2>1 DEF UnitsWereSent, Sent, RestIsLastPacket
<1>5. ~(broken \subseteq {"behind"})
  <2>1. SUFFICES ASSUME broken \subseteq {"behind"} PROVE FALSE
    OBVIOUS
  <2>2. Packets(Stream, last, sent)
    BY <1>1, <2>1 DEF StreamInv
  <2>3. HeadSize \in Nat \ {0}
    BY PacketAssumption
  <2>4. unread # <<>>
    <3>1. ~(Len(unread) < HeadSize)
      BY <1>2 DEF HeadSays
    <3>2. QED
      BY <2>3, <3>1
  <2>5. -1 = unread[1][3] /\ unread[1][3] \in Sizes
    BY <1>1, <1>2, <2>2, <2>4, HeadIsRead, HeadIsFirst
  <2>6. QED
    BY <2>5, PacketAssumption DEF Sizes
<1>6. StreamInv' /\ NoWholePacketWaits' /\ RoomForARead'
  BY <1>1, <1>2, <1>5 DEF StreamInv, NoWholePacketWaits, RoomForARead
<1>7. QED
  BY <1>3, <1>4, <1>6 DEF PacketInv

LEMMA ReadPacketStep ==
  ASSUME PacketInv, processed >= 0, NEW size, ReadPacket(size),
         UNCHANGED <<senderVars, socket, losses>>
  PROVE  PacketInv'
<1>1. /\ StateOK /\ UnitsWereSent /\ RestIsLastPacket /\ StreamInv /\ RoomForARead
  BY DEF PacketInv
<1>2. /\ sent' = sent /\ rest' = rest /\ retries' = retries /\ socket' = socket /\ losses' = losses
      /\ broken' = broken /\ processed < ProcessLimit
      /\ size \in HeadSays \ {-1} /\ ~(size > Len(unread))
      /\ last' = unread[1][1] /\ reported' = reported \ {unread[1][1]}
      /\ unread' = SubSeq(unread, size + 1, Len(unread))
      /\ rPos' = IF size = Len(unread) THEN 0 ELSE rPos + size
      /\ processed' = IF size = Len(unread) THEN -1 ELSE processed + 1
  BY DEF ReadPacket, senderVars, Seek, Short
<1>3. /\ unread \in Seq(Unit) /\ socket \in Seq(Unit) /\ Len(unread) \in Nat /\ Len(socket) \in Nat
      /\ DOMAIN unread = 1..Len(unread)
      /\ (unread = <<>> <=> Len(unread) = 0)
      /\ \A i \in DOMAIN unread : unread[i][1] \in Nat /\ unread[i][3] \in Nat /\ HeadSize <= unread[i][3]
  BY <1>1, UnitsOf DEF StateOK
<1>4. HeadSize \in Nat /\ HeadSize > 0 /\ MaxPacket \in Nat
  BY PacketAssumption
<1>5. ~(Len(unread) < HeadSize) /\ 1 \in DOMAIN unread /\ unread # <<>>
  <2>1. ~(Len(unread) < HeadSize)
    BY <1>2 DEF HeadSays
  <2>2. QED
    BY <1>3, <1>4, <2>1
<1>6. size \in Nat /\ size >= 1 /\ size <= Len(unread)
  <2>1. size \in {unread[1][3]} \/ size \in HeadSize..HeadSize + MaxPacket
    BY <1>2, <1>5 DEF HeadSays
  <2>2. unread[1][3] \in Nat /\ HeadSize <= unread[1][3]
    BY <1>3, <1>5
  <2>3. size \in Nat /\ HeadSize <= size
    BY <1>4, <2>1, <2>2
  <2>4. ~(size > Len(unread)) /\ Len(unread) \in Nat
    BY <1>2, <1>3
  <2>5. QED
    BY <1>4, <2>3, <2>4
<1>7. PICK b : b = unread'
  OBVIOUS
<1>8. /\ b \in Seq(Unit) /\ Len(b) = Len(unread) - size /\ DOMAIN b = 1..Len(unread) - size
      /\ (\A i \in 1..Len(unread) - size : b[i] = unread[size + i])
      /\ SubSeq(unread, 1, size) \in Seq(Unit) /\ Len(SubSeq(unread, 1, size)) = size
      /\ SubSeq(unread, 1, size) \o b = unread
  <2>1. size \in 0..Len(unread)
    BY <1>3, <1>6
  <2>2. b = SubSeq(unread, size + 1, Len(unread)) /\ unread \in Seq(Unit)
    BY <1>2, <1>3, <1>7
  <2>3. QED
    BY <2>1, <2>2, Cut
<1>9. StateOK'
  <2>1. last' \in 0..sent
    <3>1. unread[1][1] \in Nat /\ unread[1][1] <= sent /\ sent \in Nat
      BY <1>1, <1>3, <1>5 DEF UnitsWereSent, Sent, StateOK
    <3>2. QED
      BY <1>2, <3>1
  <2>2. rPos' \in Nat /\ rPos' + Len(b) <= MaxStream
    <3>1. rPos \in Nat /\ rPos + Len(unread) <= MaxStream /\ MaxStream \in Nat
      BY <1>1, <1>4 DEF StateOK, wPos, MaxStream
    <3>2. Len(b) = Len(unread) - size
      BY <1>8
    <3>3. CASE size = Len(unread)
      BY <1>2, <1>3, <3>1, <3>2, <3>3
    <3>4. CASE size # Len(unread)
      <4>1. rPos' = rPos + size
        BY <1>2, <3>4
      <4>2. QED
        BY <1>3, <1>6, <3>1, <3>2, <4>1
    <3>5. QED
      BY <3>3, <3>4
  <2>3. wPos' <= MaxStream'
    BY <1>7, <2>2 DEF wPos, MaxStream
  <2>4. processed' \in -1..ProcessLimit
    <3>1. processed \in -1..ProcessLimit /\ ProcessLimit \in Nat
      BY <1>1, PacketAssumption DEF StateOK
    <3>2. processed' = -1 \/ processed' = processed + 1
      BY <1>2
    <3>3. QED
      BY <1>2, <3>1, <3>2
  <2>5. reported' \subseteq 1..sent
    BY <1>1, <1>2 DEF StateOK
  <2>6. MaxStream' = MaxStream /\ unread' \in Seq(Unit)
    BY <1>7, <1>8 DEF MaxStream
  <2>7. QED
    BY <1>1, <1>2, <2>1, <2>2, <2>3, <2>4, <2>5, <2>6 DEF StateOK
<1>10. UnitsWereSent' /\ RestIsLastPacket'
  <2>1. Sent(unread)'
    <3>1. ASSUME NEW i \in DOMAIN b PROVE 1 <= b[i][1] /\ b[i][1] <= sent
      <4>1. i \in Nat /\ size + i \in DOMAIN unread /\ b[i] = unread[size + i]
        BY <1>3, <1>6, <1>8
      <4>2. QED
        BY <1>1, <4>1 DEF UnitsWereSent, Sent
    <3>2. QED
      BY <1>2, <1>7, <3>1 DEF Sent
  <2>2. QED
    BY <1>1, <1>2, <2>1 DEF UnitsWereSent, Sent, RestIsLastPacket
<1>11. StreamInv'
  <2>1. SUFFICES ASSUME broken \subseteq {"behind"}
                 PROVE  Packets(Stream', unread[1][1], sent) /\ (losses = 0 => ReportedHasArrived')
    BY <1>2 DEF StreamInv
  <2>2. Packets(Stream, last, sent) /\ (losses = 0 => ReportedHasArrived)
    BY <1>1, <2>1 DEF StreamInv
  <2>3. size = unread[1][3] /\ Stream # <<>> /\ Stream[1] = unread[1]
        /\ \A k \in 1..size : k <= Len(unread) => unread[k] = <<unread[1][1], k, size>>
    BY <1>1, <1>5, <2>2, ReadIsFirst, HeadIsFirst
  <2>4. PICK p : p = SubSeq(unread, 1, size)
    OBVIOUS
  <2>5. /\ Arrived \in Seq(Unit) /\ Stream \in Seq(Unit) /\ rest \in Seq(Unit)
        /\ p \in Seq(Unit) /\ b \in Seq(Unit) /\ socket \in Seq(Unit) /\ Len(p) = size
        /\ p \o b = unread
    BY <1>1, <1>3, <1>8, <2>4, StreamParts DEF StateOK
  <2>6. Arrived' = b \o socket /\ Arrived' \in Seq(Unit) /\ Arrived = p \o Arrived'
    <3>1. Arrived' = b \o socket
      BY <1>2, <1>7 DEF Arrived
    <3>2. (p \o b) \o socket = p \o (b \o socket)
      <4>1. p \in Seq(Unit) /\ b \in Seq(Unit) /\ socket \in Seq(Unit)
        BY <2>5
      <4>2. QED
        BY <4>1, ConcatAssociative
    <3>3. b \o socket \in Seq(Unit)
      BY <2>5, ConcatProperties
    <3>4. QED
      BY <2>5, <3>1, <3>2, <3>3 DEF Arrived
  <2>7. Stream' = Arrived' \o rest /\ Stream' \in Seq(Unit) /\ Stream = p \o Stream'
    <3>1. Stream' = Arrived' \o rest
      BY <1>2 DEF Stream
    <3>2. (p \o Arrived') \o rest = p \o (Arrived' \o rest)
      <4>1. p \in Seq(Unit) /\ Arrived' \in Seq(Unit) /\ rest \in Seq(Unit)
        BY <2>5, <2>6
      <4>2. QED
        BY <4>1, ConcatAssociative
    <3>3. Arrived' \o rest \in Seq(Unit)
      BY <2>5, <2>6, ConcatProperties
    <3>4. QED
      BY <2>6, <3>1, <3>2, <3>3 DEF Stream
  <2>8. Packets(Stream', unread[1][1], sent)
    <3>1. PICK q, s : q = Stream /\ s = Stream'
      OBVIOUS
    <3>2. SubSeq(q, size + 1, Len(q)) = s
      <4>1. q = p \o s /\ p \in Seq(Unit) /\ s \in Seq(Unit) /\ Len(p) = size
        BY <2>5, <2>7, <3>1
      <4>2. SubSeq(p \o s, Len(p) + 1, Len(p \o s)) = s
        BY <4>1, DropPrefix
      <4>3. QED
        BY <4>1, <4>2
    <3>3. last \in Nat /\ sent \in Nat
      BY <1>1 DEF StateOK
    <3>4. Packets(SubSeq(q, q[1][3] + 1, Len(q)), q[1][1], sent)
      BY <2>2, <2>3, <2>5, <3>1, <3>3, DropFirst
    <3>5. QED
      BY <2>3, <3>1, <3>2, <3>4
  <2>9. losses = 0 => ReportedHasArrived'
    <3>1. SUFFICES ASSUME losses = 0, NEW m \in reported'
                   PROVE  \E i \in DOMAIN Arrived' : Arrived'[i][1] = m /\ Arrived'[i][2] = Arrived'[i][3]
      BY DEF ReportedHasArrived
    <3>2. m \in reported /\ m # unread[1][1]
      BY <1>2
    <3>3. PICK i \in DOMAIN Arrived : Arrived[i][1] = m /\ Arrived[i][2] = Arrived[i][3]
      BY <2>2, <3>1, <3>2 DEF ReportedHasArrived
    <3>4. PICK r : r = Arrived'
      OBVIOUS
    <3>5. Arrived = p \o r /\ r \in Seq(Unit)
      BY <2>6, <3>4
    <3>6. i \in 1..Len(p) + Len(r)
      BY <2>5, <3>5, Joined
    <3>7. CASE i \in DOMAIN p
      <4>1. i \in 1..size /\ i <= Len(unread)
        <5>1. i \in 1..Len(p)
          BY <2>5, <3>7, LenProperties
        <5>2. QED
          BY <1>3, <1>6, <2>5, <5>1
      <4>2. unread[i] = <<unread[1][1], i, size>>
        BY <2>3, <4>1
      <4>3. Arrived[i] = unread[i]
        <5>1. i \in DOMAIN unread
          BY <1>3, <1>6, <4>1
        <5>2. QED
          BY <1>1, <5>1, StreamParts
      <4>4. QED
        BY <3>2, <3>3, <4>2, <4>3
    <3>8. CASE i - Len(p) \in DOMAIN r /\ (p \o r)[i] = r[i - Len(p)]
      BY <3>3, <3>4, <3>5, <3>8
    <3>9. QED
      BY <2>5, <3>5, <3>6, <3>7, <3>8, Joined
  <2>10. QED
    BY <2>8, <2>9
<1>12. NoWholePacketWaits'
  <2>1. CASE size = Len(unread)
    <3>1. Len(b) = 0
      BY <1>3, <1>8, <2>1
    <3>2. unread' = <<>>
      BY <1>7, <1>8, <3>1, UnitsOf
    <3>3. QED
      BY <3>2 DEF NoWholePacketWaits
  <2>2. CASE size # Len(unread)
    <3>1. processed' = processed + 1 /\ processed \in Int
      BY <1>1, <1>2, <2>2 DEF StateOK
    <3>2. processed' # -1
      BY <3>1
    <3>3. QED
      BY <3>2 DEF NoWholePacketWaits
  <2>3. QED
    BY <2>1, <2>2
<1>13. RoomForARead'
  BY <1>1, <1>2 DEF RoomForARead
<1>14. QED
  BY <1>9, <1>10, <1>11, <1>12, <1>13 DEF PacketInv

LEMMA ReconnectStep ==
  ASSUME PacketInv, Reconnect
  PROVE  PacketInv'
<1>1. /\ StateOK /\ UnitsWereSent /\ RoomForARead
  BY DEF PacketInv
<1>2. /\ sent' = sent /\ reported' = reported /\ last' = last /\ unread' = unread /\ rPos' = rPos
      /\ processed' = processed /\ socket' = <<>> /\ rest' = <<>> /\ retries' = 0
      /\ losses < MaxLosses /\ losses' = losses + 1
      /\ broken' = IF unread = <<>> THEN broken ELSE broken \cup {"stale"}
  BY DEF Reconnect, receiverVars
<1>3. <<>> \in Seq(Unit) /\ Len(<<>>) = 0 /\ <<>> \o <<>> = <<>> /\ DOMAIN <<>> = {}
  BY EmptySeq, ConcatEmptySeq
<1>4. losses \in Nat /\ losses' \in 0..MaxLosses /\ losses' # 0
  BY <1>1, <1>2, PacketAssumption DEF StateOK
<1>5. StateOK'
  <2>1. 0 <= MaxPacket /\ 0 <= SocketSize /\ 0 < RetryLimit
    BY PacketAssumption
  <2>2. broken' \subseteq {"torn", "dropped", "stale", "behind", "mixed"} /\ wPos' = wPos
    BY <1>1, <1>2 DEF StateOK, wPos
  <2>3. QED
    BY <1>1, <1>2, <1>3, <1>4, <2>1, <2>2 DEF StateOK
<1>6. UnitsWereSent' /\ RestIsLastPacket'
  <2>1. Sent(rest)' /\ Sent(socket)'
    <3>1. DOMAIN rest' = {} /\ DOMAIN socket' = {}
      BY <1>2, <1>3
    <3>2. QED
      BY <3>1 DEF Sent
  <2>2. QED
    BY <1>1, <1>2, <2>1 DEF UnitsWereSent, Sent, RestIsLastPacket
<1>7. StreamInv'
  <2>1. CASE unread = <<>>
    <3>1. Stream' = <<>>
      BY <1>2, <1>3, <2>1 DEF Stream, Arrived
    <3>2. DOMAIN Stream' = {}
      BY <1>3, <3>1
    <3>3. QED
      BY <1>4, <3>2 DEF StreamInv, Packets, InOrder
  <2>2. CASE unread # <<>>
    BY <1>2, <2>2 DEF StreamInv
  <2>3. QED
    BY <2>1, <2>2
<1>8. NoWholePacketWaits' /\ RoomForARead'
  BY <1>1, <1>2 DEF NoWholePacketWaits, RoomForARead
<1>9. QED
  BY <1>5, <1>6, <1>7, <1>8 DEF PacketInv

-----------------------------------------------------------------------------
(* The invariant *)

LEMMA PacketInit ==
  ASSUME Init
  PROVE  PacketInv
<1>1. <<>> \in Seq(Unit) /\ Len(<<>>) = 0 /\ <<>> \o <<>> = <<>> /\ DOMAIN <<>> = {}
  BY EmptySeq, ConcatEmptySeq
<1>2. /\ sent = 0 /\ rest = <<>> /\ retries = 0 /\ reported = {} /\ socket = <<>> /\ unread = <<>>
      /\ rPos = 0 /\ processed = -1 /\ last = 0 /\ losses = 0 /\ broken = {}
  BY DEF Init
<1>3. StateOK
  <2>1. wPos <= MaxStream
    <3>1. wPos = 0
      BY <1>1, <1>2 DEF wPos
    <3>2. MaxStream \in Nat
      BY PacketAssumption DEF MaxStream
    <3>3. QED
      BY <3>1, <3>2
  <2>2. QED
    BY <1>1, <1>2, <2>1, PacketAssumption DEF StateOK
<1>4. UnitsWereSent /\ RestIsLastPacket
  BY <1>1, <1>2 DEF UnitsWereSent, Sent, RestIsLastPacket
<1>5. StreamInv
  <2>1. DOMAIN Stream = {}
    BY <1>1, <1>2 DEF Stream, Arrived
  <2>2. QED
    BY <1>2, <2>1 DEF StreamInv, Packets, InOrder, ReportedHasArrived
<1>6. NoWholePacketWaits /\ RoomForARead
  BY <1>2 DEF NoWholePacketWaits, RoomForARead
<1>7. QED
  BY <1>3, <1>4, <1>5, <1>6 DEF PacketInv

LEMMA PacketStep ==
  ASSUME PacketInv, [Next]_vars
  PROVE  PacketInv'
<1>1. ASSUME NEW size \in HeadSize..MaxPacket, SendMsg(size) PROVE PacketInv'
  BY <1>1, SendMsgStep DEF Sizes
<1>2. CASE Send
  BY <1>2, SendStep
<1>3. CASE Recv
  BY <1>3, RecvStep
<1>4. CASE OnReadPackets
  <2>1. processed >= 0 /\ UNCHANGED <<senderVars, socket, losses>>
    BY <1>4 DEF OnReadPackets
  <2>2. CASE Wait
    BY <2>1, <2>2, WaitStep
  <2>3. CASE ResetBuffer
    BY <2>1, <2>3, ResetBufferStep
  <2>4. ASSUME NEW size, ReadPacket(size) PROVE PacketInv'
    BY <2>1, <2>4, ReadPacketStep
  <2>5. QED
    BY <1>4, <2>2, <2>3, <2>4 DEF OnReadPackets
<1>5. CASE Reconnect
  BY <1>5, ReconnectStep
<1>6. CASE UNCHANGED vars
  <2>1. /\ sent' = sent /\ rest' = rest /\ retries' = retries /\ reported' = reported
        /\ socket' = socket /\ unread' = unread /\ rPos' = rPos /\ processed' = processed
        /\ last' = last /\ losses' = losses /\ broken' = broken
    BY <1>6 DEF vars, senderVars, receiverVars, historyVars
  <2>2. Arrived' = Arrived /\ Stream' = Stream /\ wPos' = wPos
    BY <2>1 DEF Arrived, Stream, wPos
  <2>3. StateOK' /\ UnitsWereSent' /\ RestIsLastPacket' /\ NoWholePacketWaits' /\ RoomForARead'
    BY <2>1, <2>2 DEF PacketInv, StateOK, UnitsWereSent, Sent, RestIsLastPacket, NoWholePacketWaits, RoomForARead
  <2>4. StreamInv'
    BY <2>1, <2>2 DEF PacketInv, StreamInv, ReportedHasArrived
  <2>5. QED
    BY <2>3, <2>4 DEF PacketInv
<1>7. ASSUME NEW size \in HeadSize..MaxPacket, SendBetween(size) PROVE PacketInv'
  BY <1>7, SendBetweenStep DEF Sizes
<1>8. QED
  BY <1>1, <1>2, <1>3, <1>4, <1>5, <1>6, <1>7 DEF Next

LEMMA PacketInvariant == Spec => []PacketInv
<1>1. Init => PacketInv
  BY PacketInit
<1>2. PacketInv /\ [Next]_vars => PacketInv'
  BY PacketStep
<1>3. QED
  BY <1>1, <1>2, PTL DEF Spec

(* What is unread never leaves the buffer, what is in the socket never exceeds
   it, and SendMsg never tries more than SEND_RETRY_LIMIT times: for buffers,
   packets and limits of any size. *)
THEOREM BufferIsNotLeft == Spec => []TypeOK
<1>1. PacketInv => TypeOK
  <2>1. SUFFICES ASSUME PacketInv PROVE TypeOK
    OBVIOUS
  <2>2. StateOK
    BY <2>1 DEF PacketInv
  <2>3. retries \in 0..RetryLimit /\ rPos >= 0
    BY <2>2, PacketAssumption DEF StateOK
  <2>4. QED
    BY <2>2, <2>3 DEF TypeOK, StateOK
<1>2. QED
  BY <1>1, PacketInvariant, PTL

(* When the socket is empty and OnReadPackets has returned, every packet that
   SendMsg has reported as sent was given to the callback, unless something has
   cut the stream or the limit of one read has left packets behind; and
   CheckWrite refuses units only after one of those. *)
THEOREM NothingReportedWaits == Spec => []QuietMeansDelivered
<1>1. PacketInv => QuietMeansDelivered
  <2>1. SUFFICES ASSUME PacketInv PROVE QuietMeansDelivered
    OBVIOUS
  <2>2. StateOK /\ StreamInv /\ NoWholePacketWaits /\ RoomForARead
    BY <2>1 DEF PacketInv
  <2>3. ASSUME socket = <<>>, processed = -1, broken = {}, losses = 0, NEW m \in reported
        PROVE  FALSE
    <3>1. Packets(Stream, last, sent) /\ ReportedHasArrived
      BY <2>2, <2>3 DEF StreamInv
    <3>2. PICK i \in DOMAIN Arrived : Arrived[i][2] = Arrived[i][3]
      BY <2>3, <3>1 DEF ReportedHasArrived
    <3>3. unread \in Seq(Unit) /\ Arrived = unread
      <4>1. unread \in Seq(Unit)
        BY <2>2 DEF StateOK
      <4>2. QED
        BY <2>3, <4>1, ConcatEmptySeq DEF Arrived
    <3>4. i \in DOMAIN unread /\ Len(unread) \in Nat /\ i \in 1..Len(unread) /\ unread # <<>>
      BY <3>2, <3>3, UnitsOf
    <3>5. Len(unread) < unread[1][3] /\ unread[1][3] \in Sizes
      BY <2>2, <2>3, <3>1, <3>4, HeadIsFirst DEF NoWholePacketWaits
    <3>6. unread[1][3] \in Nat /\ i \in Nat /\ 1 <= i /\ i <= Len(unread)
      BY <3>4, <3>5, PacketAssumption DEF Sizes
    <3>7. i \in 1..unread[1][3] /\ i < unread[1][3]
      BY <3>4, <3>5, <3>6
    <3>8. unread[i] = <<unread[1][1], i, unread[1][3]>>
      BY <2>2, <3>1, <3>4, <3>6, <3>7, HeadIsFirst
    <3>9. QED
      BY <3>2, <3>3, <3>7, <3>8
  <2>4. QED
    BY <2>2, <2>3 DEF QuietMeansDelivered
<1>2. QED
  BY <1>1, PacketInvariant, PTL

(* OnReadPackets gives the callback each packet as SendMsg got it, in the order
   in which they were sent, none twice, and passes over none that was reported
   as sent before a connection was lost: wherever the socket has cut the packets
   and however many the buffer holds. *)
THEOREM PacketsAreWhole == Spec => PacketsComeOutWhole
<1>1. ASSUME PacketInv, processed >= 0, NEW size, ReadPacket(size), broken \subseteq {"behind"}
      PROVE  LET n == unread[1][1] IN
             /\ SubSeq(unread, 1, size) = Packet(n, size)
             /\ last < n
             /\ losses = 0 => \A m \in reported : m >= n
  <2>1. StateOK /\ Packets(Stream, last, sent) /\ (losses = 0 => ReportedHasArrived)
    BY <1>1 DEF PacketInv, StreamInv
  <2>2. unread # <<>> /\ SubSeq(unread, 1, size) = Packet(unread[1][1], size)
    BY <1>1, <2>1, ReadIsFirst
  <2>3. last < unread[1][1] /\ Stream # <<>> /\ Stream[1] = unread[1] /\ unread[1][1] \in Nat
    BY <2>1, <2>2, HeadIsFirst
  <2>4. ASSUME losses = 0, NEW m \in reported PROVE m >= unread[1][1]
    <3>1. PICK i \in DOMAIN Arrived : Arrived[i][1] = m
      BY <2>1, <2>4 DEF ReportedHasArrived
    <3>2. Stream \in Seq(Unit) /\ i \in DOMAIN Stream /\ Stream[i][1] = m
      BY <2>1, <3>1, StreamParts
    <3>3. i \in Nat /\ 1 <= i /\ 1 \in DOMAIN Stream /\ m \in Nat
      BY <3>2, UnitsOf
    <3>4. 1 < i => Stream[1][1] <= Stream[i][1]
      BY <2>1, <3>2, <3>3 DEF Packets, InOrder
    <3>5. QED
      BY <2>3, <3>2, <3>3, <3>4
  <2>5. QED
    BY <2>2, <2>3, <2>4
<1>2. PacketInv =>
        [\A size \in HeadSize..HeadSize + MaxPacket :
           (processed >= 0 /\ ReadPacket(size)) /\ broken \subseteq {"behind"} =>
             LET n == unread[1][1] IN
             /\ SubSeq(unread, 1, size) = Packet(n, size)
             /\ last < n
             /\ losses = 0 => \A m \in reported : m >= n]_vars
  BY <1>1
<1>3. QED
  BY <1>2, PacketInvariant, PTL DEF PacketsComeOutWhole
=============================================================================
