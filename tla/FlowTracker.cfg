SPECIFICATION Spec
CONSTANTS
  Tuples <- MCTuples
  TcpTuples <- MCTcp
  SrcIP <- MCSrcIP
  SrcPort <- MCSrcPort
  DstPort <- MCDstPort
  Names <- MCNames
  EmptyName = ""
  AppTypes <- MCAppTypes
  UNKNOWN = "UNKNOWN"
  HTTP = "HTTP"
  HTTPS = "HTTPS"
  DNS = "DNS"
  NameApp <- MCNameApp
  Covers <- MCCovers
  AllRules <- MCRules
  Packets <- MCPackets
  MaxConnections = 2
  StaleAge = 1
  MaxClock = 2
  PacketLimit = 4
INVARIANTS
  TypeOK
  RecentFlowsKept
PROPERTIES
  LeakNeedsReset
  IdentityKept
  ForwardedIsAllowed
