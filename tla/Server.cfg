SPECIFICATION MCSpec
SYMMETRY Symmetry
CONSTANTS
  Left = {p, q}
  Right = {m, n}
  MaxUsed = 1
  MaxCrossed = 4
  n1 = n1
  i1 = i1
  None = None
  Ids = {p, q}
  FolderNames = {m, n}
  PackageNames = {t, u}
  Goroutines = {g1, g2}
  Checker = bg
  MaxDepth = 1
  MaxEdits = 0
  Outside = FALSE
  BookCheck = TRUE
  Writers = {p, q}
  Configured = 1
  Windows = {0}
  MaxDay = 3
  MaxLines = 1
  Callers = {p, q}
  Secrets = {m, n}
  MaxAttempts = 2
  MaxRedirects = 2
  Walkers = {p, q}
  Names = {n1, n2}
  FolderIds = {i1, i2}
  MaxAge = 1
  Latency = 1
  MaxClock = 4
  MaxChanges = 1
  Root = Root
INVARIANTS  KeepsBooks LogsFollowRetention CredentialsFollow QuietWalksAreExact
