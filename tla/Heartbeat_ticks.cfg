SPECIFICATION FairSpec
CONSTANTS
  i = i
  c = c
  Tasks <- MCTasks
  Schedule <- MCSchedule
  Ticks = {k, l}
  Edits = {e}
  Minute = 2
  Day = 2
  MaxAge = 2
  MaxEdits = 1
  None = None
INVARIANTS
  TypeOK
  OneTick
  LateOnce
  CronOnce
PROPERTIES
  KeepsRunning
CHECK_DEADLOCK FALSE
