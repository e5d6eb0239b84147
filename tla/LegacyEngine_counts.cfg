\* A bad memory access ends the process.
CHECK_DEADLOCK FALSE
SPECIFICATION Spec
CONSTANTS
  NumLBs = 2
  FpsPerLb = 1
  QueueCap = 2
  Hash <- MCHash
  Captures <- MCCaptures
  StartRules <- MCStartRules
  MaxChanges = 1
  Tuples <- MCTuples
  TcpTuples <- MCTuples
  SrcIP <- MCSrcIP
  SrcPort <- MCSrcPort
  DstPort <- MCDstPort
  Names <- MCNames
  EmptyName = ""
  AppTypes <- MCAppTypes
  UNKNOWN = "UNKNOWN"
  HTTP = "HTTP"
  HTTPS = "HTTPS"
  DNS = "DNS"
  NameApp <- MCNameApp
  Covers <- MCCovers
  AllRules <- MCRules
  MaxConnections = 2
INVARIANT
  PerFpCounted
