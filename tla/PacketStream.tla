----------------------------- MODULE PacketStream -----------------------------
(***************************************************************************)
(* One direction of a socket pair: packets, with a head that says how much *)
(* follows, are cut by the sender into what the socket takes and put       *)
(* together again by the receiver from what it gets.  The sender is        *)
(* UDSSession (or UDSClient), the receiver MMIClient (or UDSServer).       *)
(*                                                                         *)
(* Packets are cut anywhere: a packet is a sequence of units.  The socket  *)
(* is a bounded queue of units.  MMIClient keeps its buffer when the       *)
(* connection is lost and made anew; the server makes a new one.           *)
(***************************************************************************)
EXTENDS Integers, Sequences, FiniteSets

CONSTANTS
  HeadSize,      \* sizeof(PackHead)
  MaxPacket,     \* MAX_PACKET_BUF_SIZE
  RetryLimit,    \* SEND_RETRY_LIMIT
  ProcessLimit,  \* ONCE_PROCESS_NETPACKET_LIMIT
  SocketSize,    \* SO_SNDBUF
  MaxSent,       \* packets that are sent
  MaxLosses      \* connections that are lost

MaxStream == 2 * MaxPacket  \* MAX_STREAM_BUF_SIZE

ASSUME PacketAssumption ==
  /\ HeadSize \in Nat \ {0} /\ MaxPacket \in Nat /\ MaxPacket >= HeadSize
  /\ RetryLimit \in Nat \ {0} /\ ProcessLimit \in Nat \ {0} /\ SocketSize \in Nat \ {0}
  /\ MaxSent \in Nat /\ MaxLosses \in Nat

VARIABLES
  sent,       \* packets that SendMsg was called with
  rest,       \* units of the last of them that are still to be sent
  retries,    \* retryCount
  reported,   \* history: packets reported as sent that have not come out
  socket,     \* units in the socket
  unread,     \* units from rPos_ to wPos_
  rPos,       \* rPos_
  processed,  \* i of OnReadPackets, or -1 if it is not running
  last,       \* history: the packet that was given to the callback last
  losses,     \* connections that were lost
  broken      \* history: what has cut the stream of packets

senderVars == <<sent, rest, retries>>
receiverVars == <<unread, rPos, processed>>
historyVars == <<reported, last, broken>>
vars == <<senderVars, socket, receiverVars, losses, historyVars>>

wPos == rPos + Len(unread)

(* A unit knows its packet, its place in it, and the size of the packet. *)
Packet(n, size) == [i \in 1..size |-> <<n, i, size>>]

Init ==
  /\ sent = 0 /\ rest = <<>> /\ retries = 0 /\ reported = {}
  /\ socket = <<>>
  /\ unread = <<>> /\ rPos = 0 /\ processed = -1 /\ last = 0
  /\ losses = 0
  /\ broken = {}

-----------------------------------------------------------------------------
(* SendMsg *)

(* A packet that is too large is refused, and nothing is sent. *)
SendMsg(size) ==
  /\ rest = <<>> /\ sent < MaxSent
  /\ sent' = sent + 1
  /\ rest' = Packet(sent + 1, size)
  /\ retries' = 0
  /\ UNCHANGED <<socket, receiverVars, losses, historyVars>>

(* One send(): the socket takes the units it has room for, or none if it is
   full.  SendMsg returns when all is sent or the retries are used up: false
   if they are, whatever was sent. *)
Send ==
  LET room == SocketSize - Len(socket)
      left == SubSeq(rest, room + 1, Len(rest))
      limit == retries + 1 = RetryLimit
  IN  /\ rest # <<>>
      /\ socket' = socket \o SubSeq(rest, 1, Len(rest) - Len(left))
      /\ rest' = IF limit THEN <<>> ELSE left
      /\ retries' = IF rest' = <<>> THEN 0 ELSE retries + 1
      /\ reported' = IF left = <<>> /\ ~limit THEN reported \cup {rest[1][1]} ELSE reported
      /\ broken' = IF limit /\ Len(left) \in 1..rest[1][3] - 1 THEN broken \cup {"torn"} ELSE broken
      /\ UNCHANGED <<sent, receiverVars, losses, last>>

(* SendMsg takes no lock: another thread's send() comes between two of this
   one's, when the socket has taken a part of its packet.  (If it took none,
   the other thread is simply the first.)  Nothing is claimed of packets that
   are mixed, so the other packet is followed for its first send() only. *)
SendBetween(size) ==
  LET room == SocketSize - Len(socket)
      count == IF size < room THEN size ELSE room
  IN  /\ rest # <<>> /\ Len(rest) < rest[1][3]
      /\ sent < MaxSent /\ count > 0
      /\ sent' = sent + 1
      /\ socket' = socket \o SubSeq(Packet(sent + 1, size), 1, count)
      /\ reported' = IF count = size /\ RetryLimit > 1 THEN reported \cup {sent + 1} ELSE reported
      /\ broken' = broken \cup {"mixed"}
      /\ UNCHANGED <<rest, retries, receiverVars, losses, last>>

-----------------------------------------------------------------------------
(* OnRecvMsg, OnEpollRecv *)

(* Mutant: CheckWrite does not move what is unread to the front. *)
FitsInPlace(size) == size <= MaxStream - wPos

(* Mutant: the size is compared with the whole buffer. *)
FitsAtAll(size) == size <= MaxStream

(* CheckWrite *)
Fits(size) ==
  \/ size <= MaxStream - wPos
  \/ rPos > 0 /\ size <= MaxStream - Len(unread)

(* Write, with CopyDataToBegin if the units do not fit behind the others.
   What does not fit is lost. *)
Recv ==
  LET size == IF Len(socket) < MaxPacket THEN Len(socket) ELSE MaxPacket
  IN  /\ processed = -1 /\ size > 0
      /\ socket' = SubSeq(socket, size + 1, Len(socket))
      /\ unread' = IF Fits(size) THEN unread \o SubSeq(socket, 1, size) ELSE unread
      /\ rPos' = IF size > MaxStream - wPos THEN 0 ELSE rPos
      /\ broken' = IF Fits(size) THEN broken ELSE broken \cup {"dropped"}
      /\ processed' = 0
      /\ UNCHANGED <<senderVars, losses, reported, last>>

-----------------------------------------------------------------------------
(* OnReadPackets *)

(* What the head at the read position, if there is one, says of the size of
   its packet: anything if the units there are not those of a head. *)
HeadSays ==
  IF Len(unread) < HeadSize THEN {}
  ELSE LET n == unread[1][1]  size == unread[1][3] IN
       IF SubSeq(unread, 1, HeadSize) = SubSeq(Packet(n, size), 1, HeadSize)
       THEN {size} ELSE {-1} \cup HeadSize..HeadSize + MaxPacket

(* Mutant: a buffer that is full to the last unit of a packet waits. *)
ShortByOne(size) == size >= Len(unread)

(* The body of the packet has not arrived. *)
Short(size) == size > Len(unread)

(* There is no whole packet, or enough were processed: the others wait for
   the next units. *)
Wait ==
  /\ \/ processed = ProcessLimit
     \/ HeadSays = {}
     \/ \E size \in HeadSays : Short(size)
  /\ processed' = -1
  /\ broken' = IF processed = ProcessLimit /\ \E size \in HeadSays : ~Short(size)
               THEN broken \cup {"behind"} ELSE broken
  /\ UNCHANGED <<unread, rPos, reported, last>>

(* The head makes no sense, and what is unread is forgotten. *)
ResetBuffer ==
  /\ processed < ProcessLimit
  /\ -1 \in HeadSays
  /\ unread' = <<>> /\ rPos' = 0
  /\ processed' = -1
  /\ UNCHANGED historyVars

(* Mutant: the head stays in the buffer. *)
SeekPastData(size) == size - HeadSize

(* SeekReadPos *)
Seek(size) == size

ReadPacket(size) ==
  /\ processed < ProcessLimit
  /\ size \in HeadSays \ {-1} /\ ~Short(size)
  /\ last' = unread[1][1]
  /\ reported' = reported \ {unread[1][1]}
  /\ unread' = SubSeq(unread, Seek(size) + 1, Len(unread))
  /\ rPos' = IF Seek(size) = Len(unread) THEN 0 ELSE rPos + Seek(size)
  /\ processed' = IF Seek(size) = Len(unread) THEN -1 ELSE processed + 1
  /\ UNCHANGED broken

OnReadPackets ==
  /\ processed >= 0
  /\ Wait \/ ResetBuffer \/ \E size \in HeadSays : ReadPacket(size)
  /\ UNCHANGED <<senderVars, socket, losses>>

-----------------------------------------------------------------------------
(* The sender dies between two calls of send, or before, and another takes
   its place on a new socket. *)
Reconnect ==
  /\ processed = -1 /\ losses < MaxLosses
  /\ losses' = losses + 1
  /\ socket' = <<>> /\ rest' = <<>> /\ retries' = 0
  /\ broken' = IF unread = <<>> THEN broken ELSE broken \cup {"stale"}
  /\ UNCHANGED <<sent, reported, last, receiverVars>>

Next ==
  \/ \E size \in HeadSize..MaxPacket : SendMsg(size)
  \/ Send
  \/ \E size \in HeadSize..MaxPacket : SendBetween(size)
  \/ Recv
  \/ OnReadPackets
  \/ Reconnect

Spec == Init /\ [][Next]_vars

-----------------------------------------------------------------------------
(* Types; what is unread is inside of the buffer. *)
TypeOK ==
  /\ sent \in 0..MaxSent
  /\ Len(rest) <= MaxPacket /\ Len(socket) <= SocketSize
  /\ retries \in 0..RetryLimit
  /\ reported \subseteq 1..sent
  /\ rPos >= 0 /\ wPos <= MaxStream
  /\ processed \in -1..ProcessLimit
  /\ last \in 0..sent
  /\ losses \in 0..MaxLosses
  /\ broken \subseteq {"torn", "dropped", "stale", "behind", "mixed"}

(* A packet comes out as it went in, and in its turn, however it was cut and
   whichever others waited in the buffer: between two packets there are only
   some that were not reported as sent, or were lost with a connection.  Not
   so once a packet was given up half-way, two threads' packets were mixed,
   units found no room, or the connection was lost with a packet half
   received. *)
PacketsComeOutWhole ==
  [][\A size \in HeadSize..HeadSize + MaxPacket :
       (processed >= 0 /\ ReadPacket(size)) /\ broken \subseteq {"behind"} =>
         LET n == unread[1][1] IN
         /\ SubSeq(unread, 1, size) = Packet(n, size)
         /\ last < n
         /\ losses = 0 => \A m \in reported : m >= n]_vars

(* The buffer has room for a read as long as all its packets are processed:
   only packets left by the limit of one read can fill it. *)
RoomForARead ==
  "dropped" \in broken => broken \cap {"behind", "torn", "stale", "mixed"} # {}

(* When nothing is in the socket and the receiver waits for it to become
   readable, every packet that was reported as sent has come out: none waits
   in the buffer for another packet to be sent, unless the limit of one read
   left it behind or the stream was cut.  And RoomForARead: none was dropped. *)
QuietMeansDelivered ==
  /\ RoomForARead
  /\ socket = <<>> /\ processed = -1 /\ broken = {} /\ losses = 0 => reported = {}

(* For TLC: nothing is claimed of a stream that was cut, and it is followed
   only until it is cut twice, or a connection is lost after it was cut. *)
CutOnce ==
  /\ Cardinality(broken \ {"behind"}) <= 1
  /\ losses > 0 => broken \subseteq {"stale", "behind"}
=============================================================================
