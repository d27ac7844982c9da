SPECIFICATION Spec
CONSTANTS
  HeadSize = 2
  MaxPacket = 3
  RetryLimit = 2
  ProcessLimit = 1
  SocketSize = 3
  MaxSent = 8
  MaxLosses = 1
INVARIANTS
  TypeOK
  QuietMeansDelivered
PROPERTY PacketsComeOutWhole
CONSTRAINT CutOnce
CHECK_DEADLOCK FALSE
