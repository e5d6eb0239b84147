SPECIFICATION Spec
CONSTANTS
  Files <- MCFiles
  Engines = {"mt", "first"}
INVARIANTS
  ReadsWithin
  Dispatched
  NameRight
CHECK_DEADLOCK FALSE
