------------------------------ MODULE TaskPool ------------------------------
(***************************************************************************)
(* The task pool (internal/taskutil) and the tasks it runs (server/task).  *)
(* HTTP handlers submit chains to a bounded channel; one worker goroutine  *)
(* takes them in order and runs the single task each one carries, item by  *)
(* item; Cancel and Close may come at any moment.                          *)
(*                                                                         *)
(* A chain is named by its place in the order of accepted submissions, so  *)
(* Pool.order is the set `kept` in increasing order and Pool.byID is `kept`*)
(* too: Submit and removeLocked always change the two together.  A refused *)
(* submission changes nothing and is no step.                              *)
(***************************************************************************)
EXTENDS Integers, Sequences, FiniteSets

CONSTANTS Keys,       \* non-empty TaskChain.Key values
          NoKey,      \* the key "": such a chain never counts as a duplicate
          Kinds,      \* which task constructors are used
          MaxLen,     \* Worker.maxLen, capacity of the channel
          MaxKeep,    \* Pool.maxKeep
          MaxItems,   \* bound: books per task
          MaxChains   \* bound: accepted submissions

ListingKinds == {"empty_trash", "refresh_content_stats", "fingerprint_sources"}
PlannedKinds == {"book_batch", "book_transfer", "folder_transfer"}

ASSUME ConstantsAssumption ==
    /\ NoKey \notin Keys
    /\ Kinds # {} /\ Kinds \subseteq ListingKinds \cup PlannedKinds
    /\ MaxLen \in Nat \ {0}
    /\ MaxKeep \in Nat \ {0}
    /\ MaxItems \in Nat
    /\ MaxChains \in Nat

VARIABLES submitted,  \* how many chains have been accepted
          kept,       \* Pool.byID and Pool.order
          chain,      \* the accepted TaskChain objects and their tasks
          queue,      \* Worker.chains
          current,    \* the chain the worker goroutine holds, 0 for none
          pc,         \* where that goroutine is
          closing,    \* Worker.Close: how far it has come
          live        \* the worker goroutine has not returned

vars == <<submitted, kept, chain, queue, current, pc, closing, live>>

Chains == 1..MaxChains
Accepted == 1..submitted
Statuses == {"pending", "running", "partially_completed", "completed", "failed"}
IsTerminal(s) == s \in {"partially_completed", "completed", "failed"}

TaskRecord ==
    [key : Keys \cup {NoKey}, kind : ListingKinds \cup PlannedKinds,
     status : Statuses, total : Nat, ok : Nat, failed : Nat,
     folderFailed : BOOLEAN, panicked : BOOLEAN, cancelled : BOOLEAN]

Fresh(key, kind, total) ==
    [key |-> key, kind |-> kind, status |-> "pending", total |-> total,
     ok |-> 0, failed |-> 0, folderFailed |-> FALSE,
     panicked |-> FALSE, cancelled |-> FALSE]

Blank == Fresh(NoKey, CHOOSE k \in Kinds : TRUE, 0)

Init ==
    /\ submitted = 0
    /\ kept = {}
    /\ chain = [c \in Chains |-> Blank]
    /\ queue = <<>>
    /\ current = 0
    /\ pc = "idle"
    /\ closing = "open"
    /\ live = TRUE

-----------------------------------------------------------------------------
\* TaskChain.Status of a chain with one task.
Status(c) == IF chain[c].panicked THEN "failed" ELSE chain[c].status
Active(c) == ~IsTerminal(Status(c))

\* ctx.Err() != nil: the chain's own cancel, or the worker's context's.
Interrupted(c) == chain[c].cancelled \/ closing \in {"cancelled", "returned"}

Processed(c) == chain[c].ok + chain[c].failed

\* Fault: a chain still in the channel does not count.
FindActiveRunningOnly(key) == {c \in kept : chain[c].key = key /\ Status(c) = "running"}

FindActive(key) == {c \in kept : chain[c].key = key /\ Active(c)}

\* Fault: a panicked chain never counts as settled.
EvictByTaskStatus(ids) ==
    LET settled == {c \in ids : IsTerminal(chain[c].status)}
        surplus == Cardinality(ids) - MaxKeep
    IN  {c \in settled : Cardinality({d \in settled : d <= c}) <= surplus}

\* Fault: unfinished chains are evicted too.
EvictAnyOldest(ids) ==
    {c \in ids : Cardinality({d \in ids : d <= c}) <= Cardinality(ids) - MaxKeep}

\* Pool.evictLocked: the oldest settled chains go, one for each chain over
\* MaxKeep; when too few are settled it stops early.
Evict(ids) ==
    LET settled == {c \in ids : ~Active(c)}
        surplus == Cardinality(ids) - MaxKeep
    IN  {c \in settled : Cardinality({d \in settled : d <= c}) <= surplus}

\* Pool.Submit with Worker.TryEnqueue.  The chain is Pending when evictLocked
\* looks at it, so it is never its own victim.
Submit(key, kind, total) ==
    LET c == submitted + 1 IN
    /\ submitted < MaxChains
    /\ key # NoKey => FindActive(key) = {}
    /\ closing = "open"
    /\ Len(queue) < MaxLen
    /\ submitted' = c
    /\ chain' = [chain EXCEPT ![c] = Fresh(key, kind, total)]
    /\ queue' = Append(queue, c)
    /\ kept' = (kept \ Evict(kept \cup {c})) \cup {c}
    /\ UNCHANGED <<current, pc, closing, live>>

\* Fault: Cancel settles the chain itself, settled or not.
CancelFailsChain(c) ==
    /\ c \in kept
    /\ chain' = [chain EXCEPT ![c].cancelled = TRUE, ![c].status = "failed"]
    /\ UNCHANGED <<submitted, kept, queue, current, pc, closing, live>>

\* Pool.Cancel on a chain it still knows and that has not settled.
Cancel(c) ==
    /\ c \in kept
    /\ Active(c)
    /\ chain' = [chain EXCEPT ![c].cancelled = TRUE]
    /\ UNCHANGED <<submitted, kept, queue, current, pc, closing, live>>

-----------------------------------------------------------------------------
\* Worker.work: the goroutine receives the next chain ...
Take ==
    /\ pc = "idle" /\ live
    /\ queue # <<>>
    /\ current' = Head(queue)
    /\ queue' = Tail(queue)
    /\ pc' = "start"
    /\ UNCHANGED <<submitted, kept, chain, closing, live>>

\* ... and, its task returned, cancels the chain's context and loops.
Done ==
    /\ pc = "done"
    /\ chain' = [chain EXCEPT ![current].cancelled = TRUE]
    /\ current' = 0
    /\ pc' = "idle"
    /\ UNCHANGED <<submitted, kept, queue, closing, live>>

\* Fault: the goroutine returns with chains left in the channel.
ExitUndrained ==
    /\ pc = "idle" /\ live
    /\ closing # "open"
    /\ live' = FALSE
    /\ UNCHANGED <<submitted, kept, chain, queue, current, pc, closing>>

\* range over a closed, drained channel ends the goroutine.
Exit ==
    /\ pc = "idle" /\ live
    /\ closing # "open" /\ queue = <<>>
    /\ live' = FALSE
    /\ UNCHANGED <<submitted, kept, chain, queue, current, pc, closing>>

\* One step of the running task: it moves on to `next` and updates its fields.
TaskStep(next, task) ==
    /\ chain' = [chain EXCEPT ![current] = task]
    /\ pc' = next
    /\ UNCHANGED <<submitted, kept, queue, current, closing, live>>

Settle(s) == TaskStep("done", [chain[current] EXCEPT !.status = s])

\* Run begins: the task reports itself running.  A planned task knows its
\* total; a listing task first asks the shelf for its books.
Start ==
    /\ pc = "start"
    /\ TaskStep(IF chain[current].kind \in ListingKinds THEN "list"
                ELSE IF chain[current].kind = "folder_transfer" THEN "tree"
                ELSE "loop",
                [chain[current] EXCEPT !.status = "running"])

\* ListTrashedBookIDs or ListBooks (and OpenFingerprintCache): the books found,
\* or an error that fails the task.  With no book to do, all but fingerprinting
\* are finished without looking at the context again.
List(n) ==
    /\ pc = "list"
    /\ LET nothing == n = 0 /\ chain[current].kind # "fingerprint_sources"
       IN  TaskStep(IF nothing THEN "done" ELSE "loop",
                    [chain[current] EXCEPT !.total = n,
                         !.status = IF nothing THEN "completed" ELSE @])

\* The shelf could not list its books.
ListFails ==
    /\ pc = "list"
    /\ Settle("failed")

\* interruptedStatus of the planned tasks; the sweeps are always "partly".
InterruptedStatus(c) ==
    IF chain[c].kind \in PlannedKinds /\ Processed(c) = 0
    THEN "failed" ELSE "partially_completed"

\* Fault: one book that succeeded completes the task.
FinishStatusAnySuccess(c) ==
    IF chain[c].ok > 0 THEN "completed" ELSE "failed"

\* finishStatus of the planned tasks, settleFinishedSweep of the listing ones.
FinishStatus(c) ==
    IF chain[c].failed = 0 /\ ~chain[c].folderFailed THEN "completed"
    ELSE IF chain[c].kind \in PlannedKinds /\ chain[c].ok = 0 THEN "failed"
    ELSE "partially_completed"

\* folderTransferTask.Run: a look at the context, then reproduceFolderTree,
\* where any folder may fail to be created without stopping the rest.
Tree(fails) ==
    /\ pc = "tree"
    /\ ~Interrupted(current)
    /\ TaskStep("loop", [chain[current] EXCEPT !.folderFailed = fails])

\* The loop looks at the context before every book, never inside one.
Check ==
    /\ pc = "loop"
    /\ ~Interrupted(current)
    /\ Processed(current) < chain[current].total
    /\ TaskStep("item", chain[current])

\* One book: processBook or transferBook succeeds, or its error is counted.
Item(ok) ==
    /\ pc = "item"
    /\ TaskStep("loop", IF ok THEN [chain[current] EXCEPT !.ok = @ + 1]
                              ELSE [chain[current] EXCEPT !.failed = @ + 1])

\* Fault: an interrupted task returns without a final status.
InterruptUnsettled ==
    /\ \/ pc = "tree"
       \/ pc = "loop" /\ Processed(current) < chain[current].total
    /\ Interrupted(current)
    /\ TaskStep("done", chain[current])

\* The context is found cancelled between two books.
Interrupt ==
    /\ \/ pc = "tree"
       \/ pc = "loop" /\ Processed(current) < chain[current].total
    /\ Interrupted(current)
    /\ Settle(InterruptedStatus(current))

\* Every book is done: the context is not looked at any more.
Finish ==
    /\ pc = "loop"
    /\ Processed(current) = chain[current].total
    /\ Settle(FinishStatus(current))

\* fingerprintSourcesTask.save after the last book may fail the whole task.
SaveFails ==
    /\ pc = "loop"
    /\ chain[current].kind = "fingerprint_sources"
    /\ Processed(current) = chain[current].total
    /\ Settle("failed")

\* runTask recovers a panic of the task, which then no longer speaks for itself.
Panic ==
    /\ pc \in {"list", "tree", "item"}
    /\ TaskStep("done", [chain[current] EXCEPT !.panicked = TRUE])

-----------------------------------------------------------------------------
\* Worker.Close: no submission is accepted once the channel is closed, then
\* every chain's context is cancelled, then Close waits for the goroutine.
CloseChannel ==
    /\ closing = "open"
    /\ closing' = "closed"
    /\ UNCHANGED <<submitted, kept, chain, queue, current, pc, live>>

CloseCancels ==
    /\ closing = "closed"
    /\ closing' = "cancelled"
    /\ UNCHANGED <<submitted, kept, chain, queue, current, pc, live>>

CloseReturns ==
    /\ closing = "cancelled" /\ ~live
    /\ closing' = "returned"
    /\ UNCHANGED <<submitted, kept, chain, queue, current, pc, live>>

\* What the goroutine does next by itself.
Work ==
    \/ Take \/ Done \/ Exit
    \/ Start \/ ListFails \/ Check \/ Interrupt \/ Finish \/ SaveFails \/ Panic
    \/ \E n \in 0..MaxItems : List(n)
    \/ \E fails \in BOOLEAN : Tree(fails)
    \/ \E ok \in BOOLEAN : Item(ok)

\* The books a planned chain is made with: a transfer always moves one.
Totals(kind) == IF kind \in ListingKinds THEN {0}
                ELSE IF kind = "book_transfer" THEN {1} ELSE 0..MaxItems

Handlers ==
    \/ \E key \in Keys \cup {NoKey}, kind \in Kinds :
          \E total \in Totals(kind) : Submit(key, kind, total)
    \/ \E c \in Chains : Cancel(c)

Close == CloseChannel \/ CloseCancels \/ CloseReturns

Next == Handlers \/ Work \/ Close

Spec == Init /\ [][Next]_vars

\* The Go scheduler keeps running the worker goroutine, and a Close once begun;
\* nothing makes a client submit, cancel or close.
FairSpec == Spec /\ WF_vars(Work) /\ WF_vars(CloseCancels \/ CloseReturns)

-----------------------------------------------------------------------------
\* Type invariant: Pool and Worker fields, and that what the pool knows and the
\* channel holds are accepted chains.
TypeOK ==
    /\ submitted \in 0..MaxChains
    /\ kept \subseteq Accepted
    /\ chain \in [Chains -> TaskRecord]
    /\ queue \in Seq(Accepted)
    /\ current \in 0..submitted
    /\ pc \in {"idle", "start", "list", "tree", "loop", "item", "done"}
    /\ closing \in {"open", "closed", "cancelled", "returned"}
    /\ live \in BOOLEAN

\* Two chains with the same key are never both unfinished: a second "empty
\* trash" is answered 409 with the running chain, whatever has been evicted.
OneActivePerKey ==
    \A c, d \in Accepted :
        (Active(c) /\ Active(d) /\ chain[c].key = chain[d].key
            /\ chain[c].key # NoKey) => c = d

\* A chain that has not settled is waiting in the channel or held by the
\* worker, and the pool still knows it: it can be queried and cancelled, and
\* Busy reports it.
ActiveIsScheduled ==
    \A c \in Accepted : Active(c) =>
        /\ c \in kept
        /\ c = current \/ \E i \in 1..Len(queue) : queue[i] = c

\* The pool's memory is bounded although unfinished chains are never evicted.
RetentionBound ==
    Cardinality(kept) <= (IF MaxKeep > MaxLen + 1 THEN MaxKeep ELSE MaxLen + 1)

\* "completed" is said only of a task whose every book succeeded, and "failed"
\* of a planned one only when no book was changed (unless it panicked).
HonestStatus ==
    \A c \in Accepted :
        /\ Status(c) = "completed" =>
              /\ chain[c].failed = 0 /\ ~chain[c].folderFailed
              /\ chain[c].ok = chain[c].total
        /\ Status(c) = "failed" /\ chain[c].kind \in PlannedKinds
              /\ ~chain[c].panicked => chain[c].ok = 0

\* A settled chain is never reported otherwise again, by cancel or close.
SettledStays ==
    [][\A c \in Accepted : ~Active(c) => Status(c)' = Status(c)]_vars

\* When Close returns, nothing is left running over shelves about to be closed.
ClosedMeansIdle ==
    closing = "returned" => pc = "idle" /\ \A c \in Accepted : ~Active(c)

\* Every accepted chain settles, even through a Close.
EveryChainSettles ==
    \A c \in Chains : (c <= submitted) ~> (c <= submitted /\ ~Active(c))

\* Worker.Close returns.
CloseEnds == (closing = "closed") ~> (closing = "returned")
=============================================================================
