SPECIFICATION Spec
CONSTANTS
  i = i
  c = c
  Tasks <- MCTasks
  Schedule <- MCSchedule
  Ticks = {k, l}
  Edits = {e}
  Minute = 2
  Day = 2
  MaxAge = 2
  MaxEdits = 1
  None = None
INVARIANTS
  HooksRevert
CHECK_DEADLOCK FALSE
