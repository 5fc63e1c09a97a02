SPECIFICATION MCSpec
SYMMETRY Symmetry
CONSTANTS
  Shelves = {s1}
  Reader = book
  Books = {b1, b2}
  Apps = {desktop, reader}
  Callers = {c1, c2}
  AppOf <- MCAppOf
  Retention = 1
  MaxPerDay = 2
  MaxDay = 2
  Limits = {0, 1}
  Followed = {b1}
  Offsets = {1}
  Ats = {1, 2}
  MaxAdded = 2
  Left = {p, q}
  Right = {m, n}
  c1 = c1
  c2 = c2
  desktop = desktop
  reader = reader
  FreshIds = {n1}
  Named = {"root"}
  MaxOutside = 1
  Remotes = {v1}
  SourceScopes = {s1}
  HandleCalls = {r1}
  MaxStarts = 2
  DesktopIds = {1, 2}
  DesktopCalls = 2
  DownloadCalls = {d1, d2}
  MaxVersions = 2
  MaxIncidents = 2
  Torn = Torn
  None = None
INVARIANTS RecordsKept CopiesServe TransfersKeep ShelvesKept AnsweredByRunning DesktopAgrees
PROPERTIES OneAfterAnother OfflineInUseKept
CHECK_DEADLOCK FALSE
