SPECIFICATION Spec
CONSTANTS
  early = early
  late = late
  Patterns = {early, late}
  MemoryKey <- TwoHours
  Calls = {c, d}
  Frequency = 1
  Capacity = 1
  MaxCalls = 6
  Note = Note
  None = None
SYMMETRY Symmetry
INVARIANTS
  TypeOK
  HandledOnce
  LearnedWasOffered
CHECK_DEADLOCK FALSE
