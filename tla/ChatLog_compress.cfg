SPECIFICATION LogSpec
CONSTANTS
  ProtectFirst = 3
  Slack = 2
  MinTail = 2
  MaxRequests = 2
  MaxCalls = 3
  MaxLog = 8
  None = None
INVARIANTS
  LogTypeOK
  AskedWellFormed
PROPERTIES
  RequestKept
CHECK_DEADLOCK FALSE
