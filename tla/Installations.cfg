SPECIFICATION MCSpec
CONSTANTS
  Processes = {1, 2, 3}
  Goroutines = {1, 2, 3}
  Home <- OneEach
  Shelves = {a, b}
  u1 = u1
  u2 = u2
  Retries = {u1, u2}
  Rescanners = {u3}
  Starter = start
  Exporter = exporter
  Instances = {"p", "q"}
  FolderEdits <- MCEdits
  Requests = {"r", "s", "t"}
  Host <- MCHost
  MaxAsked = 2
  MaxUpsets = 1
  e1 = e1
  None = None
INVARIANTS Serialized NothingLeaks StatesAreClean
PROPERTIES RequestsEnd SourceReturns NoBlindEdit EditsGetThrough EditsArriveByExports
CHECK_DEADLOCK FALSE
