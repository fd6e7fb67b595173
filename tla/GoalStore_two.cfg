SPECIFICATION Spec
CONSTANTS
  Convs = {c1}
  Names = {g1}
  Ops = {o1, o2}
  Ids = {1, 2, 3, 4}
  Wants = {"set", "pause", "resume", "clear", "evaluate"}
  MaxTurns = 0
  MaxParseFailures = 1
  NoGoal = NoGoal
  NoEntry = NoEntry
SYMMETRY OpSymmetry
INVARIANTS
  ActiveMeansJudgeable
  QuietFileIsMemory
