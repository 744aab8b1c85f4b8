CONSTANTS
  me = me
  server = server
  p1 = p1
  p2 = p2
  none = none
  Host <- MCHost
  Port <- MCPort
  Byte <- MCChar
  SeqMod = 64
  LocalIp = me
  Target <- MCTarget
  InitialSeq <- MCInitialSeq
  NoConnection = none
  MaxSynRetries = 3
  InjectResults = {TRUE}
  Inbound <- NoSegment
  Request <- NoRequest
  MaxPacketsPerLoop = 2
  ServerIp = server
  ServerPort = p2
  ServerIss <- MCServerIss
  Response <- MCResponse
  ServerAnswer <- MCAnswer
  SegmentEnds <- CutBeforeBody
  PushChoices = {TRUE}
  FinChoices = {FALSE}
  MaxRetransmit = 0
  Char <- MCChar
  CR = "CR"
  LF = "LF"
  SP = "SP"
  COLON = ":"
  SLASH = "/"
  GET = "GET"
  HTTP11 = "HTTP/1.1"
  HOST = "Host"
  FixedHeaders <- MCFixedHeaders
  ToLower <- MCToLower
  ValueOf <- MCValueOf
  DashI <- MCDashI
  Help <- MCHelp
  PortModulus = 65536
  IndexHtml <- MCIndexHtml
  DownloadDat <- MCDownloadDat
  OldContent = old
  Argv <- MCArgv
  LocalPort = p1
  Faults = {"duplicate"}
  MaxFaults = 1
  Timely = TRUE
SPECIFICATION ProgramSpec
PROPERTIES
  FinalAckCoversFin
CHECK_DEADLOCK FALSE
