CONSTANTS
  me = me
  s1 = s1
  s2 = s2
  p1 = p1
  p2 = p2
  a = a
  b = b
  none = none
  Host <- MCHost
  Port <- MCPort
  Byte <- MCByte
  SeqMod = 4
  LocalIp = me
  Target <- MCTarget
  InitialSeq <- MCInitialSeq
  NoConnection = none
  MaxSynRetries = 1
  InjectResults = {TRUE, FALSE}
  Inbound <- MCInbound
  Request <- MCRequest
  MaxTx = 4
  MaxRx = 2
  MaxQueue = 2
SPECIFICATION Spec
CONSTRAINT Bounds
INVARIANTS
  TypeOK
  WireOrder
  WireContiguous
  QueueOrder
  DataFromPeer
  CallbackOrder
  Lifecycle
PROPERTIES
  Forward
  ImplementsService
