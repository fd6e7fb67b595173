SPECIFICATION FairSpec
CONSTANTS
  Convs = {c1}
  Runs = {r1, r2}
  Ids = {1}
  Inputs = {"turn", "set", "clear", "stop"}
  Transports = {"detached"}
  LoopBound = 1
  MaxHooks = 2
  MaxTurns = 0
  MaxParseFailures = 1
  NoGoal = NoGoal
  NoRun = NoRun
PROPERTIES
  RunsEnd
