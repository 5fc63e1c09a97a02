SPECIFICATION Spec
CONSTANTS
  SourceIds = {1, 2, 3}
  Exts = {jpg}
  Requests = {r1, r2}
  MaxRequests = 4
  None = None
INVARIANTS AlwaysHasSource
CHECK_DEADLOCK FALSE
