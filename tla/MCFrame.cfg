CONSTANTS
  a = 255
  b = 1
  LocalMac <- MCLocalMac
  GatewayMac <- MCGatewayMac
  StackSegment <- MCStackSegment
  PeerSegment <- MCPeerSegment
  PeerChoices <- MCPeerChoices
  PadBytes = {0, 255}
  Damages = {1, 128}
  FirstId = 65534
  LastId = 1
  NoSegment = none
SPECIFICATION LinkSpec
INVARIANTS
  LinkTypeOK
  InjectedVerifies
  CapturedIsSent
  BadHeaderDropped
