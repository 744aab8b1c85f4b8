CONSTANTS
  Char <- MCChar
  CR = "CR"
  LF = "LF"
  SP = "SP"
  COLON = ":"
  SLASH = "/"
  GET = "GET"
  HTTP11 = "HTTP/1.1"
  HOST = "Host"
  FixedHeaders <- MCFixedHeaders
  ToLower <- MCToLower
  ValueOf <- MCValueOf
  DashI <- MCDashI
  Help <- MCHelp
  PortModulus = 65536
  IndexHtml <- MCIndexHtml
  DownloadDat <- MCDownloadDat
  OldContent = old
  Chunk <- MCChunk
  Argv <- MCArgv
  Answer <- MCAnswer
  MaxQueue = 1
SPECIFICATION HttpSpec
INVARIANTS
  HttpTypeOK
  ReportIsAnswer
  OutcomeIsAnswers
  FileIsAnswer
  SavedHere
PROPERTIES
  DownloadEnds
CHECK_DEADLOCK FALSE
