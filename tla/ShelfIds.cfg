SPECIFICATION SpecInTurn
CONSTANTS
  None = None
  Ids = {x, y}
  FolderNames = {a, b}
  PackageNames = {t, u}
  Goroutines = {g1}
  Checker = bg
  MaxDepth = 1
  MaxEdits = 0
  Outside = FALSE
  BookCheck = FALSE
INVARIANTS IdsMeanTheirBook
