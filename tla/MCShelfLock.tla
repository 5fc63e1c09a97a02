---------------------------- MODULE MCShelfLock ----------------------------
EXTENDS ShelfLock

\* All requests in one process.
AllInOne == [g \in Goroutines |-> 1]
=============================================================================
