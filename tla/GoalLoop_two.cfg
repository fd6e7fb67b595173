SPECIFICATION Spec
CONSTANTS
  Convs = {c1, c2}
  Runs = {r1, r2}
  Ids = {1}
  Inputs = {"set", "stop", "pause"}
  Transports = {"pipeline"}
  LoopBound = 1
  MaxHooks = 2
  MaxTurns = 0
  MaxParseFailures = 1
  NoGoal = NoGoal
  NoRun = NoRun
SYMMETRY RunSymmetry
INVARIANTS
  LoopsMatchFlags
PROPERTIES
  OnlyResumeReactivates
  NoNewContinuation
