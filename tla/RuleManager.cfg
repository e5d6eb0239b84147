SPECIFICATION Spec
CONSTANTS
  Checkers = {"fp"}
  Queries <- MCQueries
  Octets = 2
  PortWord = 4
  NumApps = 3
  AppName <- MCAppName
  Labels <- MCLabels
  Starred = {"*", "s*"}
  Wild = "*"
  Bracketed = {"[::1]"}
  Lower <- MCLower
  BlockedIPs = {6}
  BlockedPorts = {2}
  BlockedApps = {2}
  BlockedNames <- MCNames
  HandFiles <- MCHandFiles
  NoNumber = NoNumber
  ChangeLimit = 2
  TaskLimit = 3
INVARIANTS
  TypeOK
  VerdictJustified
  MostSpecificReason
PROPERTY
  RoundTrip
