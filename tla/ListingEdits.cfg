SPECIFICATION Spec
CONSTANTS
  Writers = {1}
  Refreshers = {r1}
  Edits = {e1}
  Retention = 0
  MaxClock = 2
  MaxRestarts = 0
  None = None
PROPERTIES EditsArrive
CHECK_DEADLOCK FALSE
