SPECIFICATION Spec
CONSTANTS
  NumLBs = 1
  FpsPerLb = 2
  QueueCap = 1
  Flows <- MCFlows
  TcpFlows <- MCTcpFlows
  Hash <- MCHash
  SrcIP <- MCSrcIP
  SrcPort <- MCSrcPort
  DstPort <- MCDstPort
  Names <- MCNames
  EmptyName = ""
  NoHost = "none"
  AppTypes <- MCAppTypes
  UNKNOWN = "Unknown"
  HTTP = "HTTP"
  HTTPS = "HTTPS"
  DNS = "DNS"
  NameApp <- MCNameApp
  BlockedIPs <- MCBlockedIPs
  BlockedApps <- MCBlockedApps
  BlockedNames <- MCBlockedNames
  Limit <- MCLimit
  StartUsages <- MCStart
  Captures <- MCCaptures
INVARIANT
  Drained
