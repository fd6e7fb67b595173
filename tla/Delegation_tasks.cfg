SPECIFICATION FairSpec
CONSTANTS
  Convs = {p, q}
  Tasks = {1, 2}
  MaxBatch = 2
  MaxTurns = 2
  None = None
INVARIANTS TypeOK RegistryMatchesRuns
PROPERTIES InterruptSeen TasksEnd ImplementsService
CHECK_DEADLOCK FALSE
