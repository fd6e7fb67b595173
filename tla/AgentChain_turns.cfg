SPECIFICATION FairSpec
CONSTANTS
  a1 = a1
  a2 = a2
  Convs = {c}
  Fallback <- TwoAgents
  MaxRetries = 1
  MaxCompress = 1
  Kinds = {pairs}
  MaxTurns = 2
INVARIANTS TypeOK CallBudget
PROPERTIES ExhaustedMeansAsked TurnsEnd
CHECK_DEADLOCK FALSE
