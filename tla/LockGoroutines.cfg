SPECIFICATION Spec
CONSTANTS
  Processes = {1}
  Goroutines = {1, 2}
  Home <- AllInOne
  Shelves = {a}
  None = None
INVARIANT Serialized
