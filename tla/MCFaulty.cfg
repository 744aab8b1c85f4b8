CONSTANTS
  me = me
  server = server
  p1 = p1
  p2 = p2
  none = none
  Host <- MCHost
  Port <- MCPort
  Byte <- MCChar
  SeqMod = 64
  LocalIp = me
  Target <- MCTarget
  InitialSeq <- MCInitialSeq
  NoConnection = none
  MaxSynRetries = 1
  InjectResults = {TRUE}
  Inbound <- NoSegment
  Request <- NoRequest
  MaxPacketsPerLoop = 1
  ServerIp = server
  ServerPort = p2
  ServerIss <- MCServerIss
  Response <- MCResponse
  ServerAnswer <- MCAnswer
  SegmentEnds <- CutInStatusLine
  PushChoices = {TRUE}
  FinChoices = {FALSE}
  MaxRetransmit = 0
  Char <- MCChar
  CR = "CR"
  LF = "LF"
  SP = "SP"
  COLON = ":"
  SLASH = "/"
  GET = "GET"
  HTTP11 = "HTTP/1.1"
  HOST = "Host"
  FixedHeaders <- MCFixedHeaders
  ToLower <- MCToLower
  ValueOf <- MCValueOf
  DashI <- MCDashI
  Help <- MCHelp
  PortModulus = 65536
  IndexHtml <- MCIndexHtml
  DownloadDat <- MCDownloadDat
  OldContent = old
  Argv <- MCArgv
  LocalPort = p1
  Faults = {"lose", "duplicate", "reorder", "pcap_error"}
  MaxFaults = 1
  Timely = FALSE
SPECIFICATION ProgramSpec
INVARIANTS
  NothingLeftOpen
PROPERTIES
  Terminates
CHECK_DEADLOCK FALSE
