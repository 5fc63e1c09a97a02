SPECIFICATION Spec
CONSTANTS
  Ids = {1, 2}
  Hosts = {h1}
  MaxCalls = 2
  Torn = Torn
  None = None
PROPERTIES ServedIsTicked
CHECK_DEADLOCK FALSE
