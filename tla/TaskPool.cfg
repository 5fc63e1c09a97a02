SPECIFICATION MCSpec
CONSTANTS
  Keys = {k1, k2}
  NoKey = NoKey
  Kinds = {"empty_trash", "fingerprint_sources", "book_batch", "book_transfer", "folder_transfer"}
  MaxLen = 1
  MaxKeep = 1
  MaxItems = 2
  MaxChains = 3
INVARIANTS RetentionBound OneActivePerKey ActiveIsScheduled HonestStatus ClosedMeansIdle
PROPERTIES SettledStays WorkEnds
CHECK_DEADLOCK FALSE
