----------------------------- MODULE MCTaskPool -----------------------------
(***************************************************************************)
(* The task pool for TLC.  A behaviour is of one of two parts: many chains *)
(* of one kind whose keys collide, or two chains of any kinds without keys.*)
(***************************************************************************)
EXTENDS TaskPool

VARIABLE part

Keyed == INSTANCE TaskPool WITH Kinds <- {"book_batch"}, MaxItems <- 1
Unkeyed == INSTANCE TaskPool WITH Keys <- {}

MCInit == Init /\ part \in {"keys", "kinds"}

MCNext ==
    /\ \/ part = "keys" /\ Keyed!Next
       \/ part = "kinds" /\ Unkeyed!Next /\ submitted' <= 2
    /\ UNCHANGED part

\* The fairness of FairSpec: the worker goroutine runs, and a Close once begun.
MCSpec ==
    /\ MCInit /\ [][MCNext]_<<vars, part>>
    /\ WF_vars(Work) /\ WF_vars(CloseCancels \/ CloseReturns)

\* Every accepted chain settles, whatever fails, panics or is cancelled, and Close
\* returns (Worker.work, Worker.Close).
WorkEnds == EveryChainSettles /\ CloseEnds
=============================================================================
