SPECIFICATION MCSpec
SYMMETRY Symmetry
CONSTANTS
  Requests = {r1, r2}
  Readers = {s1, s2}
  Objects = {o1, o2, o3, o4, o5}
  Sources = {a, b}
  Kinds = {"edit", "point", "rewrite"}
  Overlap = TRUE
  MaxOps = 3
  Left = {p, q}
  Right = {m, n}
  AloneSources = {a, b}
  AloneOps = 6
  r1 = r1
  SourceIds = {1, 2, 3}
  Exts = {jpg, png}
  MaxRequests = 5
  MaxPages = 2
  MaxEdits = 3
  PrintedBooks = {b1}
  RacyWindow = 1
  PrintsClock = 4
  MaxRuns = 2
  Kids = {k1}
  WalkClock = 3
  MaxWalks = 3
  MaxChanges = 2
  Segments = {"a", "A", "b"}
  Paths <- MCPaths
  Fold <- MCFold
  Rulings <- MCRulings
  MaxDrift = 1
  None = None
INVARIANTS EditsBuildUp CountIsCurrent CurrentIsThere PrintsAreCurrent QuietWalkIsExact
PROPERTIES BooksStayWhole PageEditsAreSafe NothingRevealed
CHECK_DEADLOCK FALSE
