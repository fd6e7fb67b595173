SPECIFICATION Spec
CONSTANTS
  Convs = {c1}
  Runs = {r1, r2}
  Ids = {g1, g2}
  Inputs = {"set", "resume", "stop", "new"}
  Transports = {"detached"}
  LoopBound = 1
  MaxHooks = 2
  MaxTurns = 0
  MaxParseFailures = 1
  NoGoal = NoGoal
  NoRun = NoRun
SYMMETRY Symmetry
INVARIANTS
  TypeOK
  CompletedHasNoPrompt
  RegistryNamesLiveRun
