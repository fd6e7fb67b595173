SPECIFICATION FairSpec
CONSTANTS
  Convs = {c, d}
  Runs = {r, s}
  a = a
  p = p
  Calls = {a, p}
  Tool <- MCTool
  Specs <- MCSpecs
  Warn = 2
  Repeat = 3
  Stop = 3
  MaxKernelSteps = 2
  MaxCont = 2
  MaxTrace = 2
  MaxToolUsage = 2
  MaxFlight = 1
  MaxCalls = 3
  None = None
INVARIANTS
  TypeOK
  StopBound
  NoCallForgotten
  FlagMeansKernel
PROPERTIES
  TurnsEnd
CHECK_DEADLOCK FALSE
