--------------------------- MODULE ShelfLifecycle ---------------------------
(***************************************************************************)
(* The life of one open shelf (shelf/shelf.go): startShelf lists it in the *)
(* background, requests and rescans retry while the source of a remote     *)
(* shelf is away, background work is tracked, and Close waits for it.      *)
(*                                                                         *)
(* How a listing goes is chosen when it is made: it succeeds, the source   *)
(* is away (ErrSourceUnavailable, ErrNotAShelf: worth a retry), or it      *)
(* fails for another reason.  What it lists is in Shelf and RemoteListing. *)
(***************************************************************************)
EXTENDS Integers, FiniteSets

CONSTANTS Retries,    \* the goroutines retryInitSoon can have under way
          Rescanners, \* requests that call rescan
          Exporter,   \* the goroutine of startBookCacheWork(exporting)
          Starter,    \* the goroutine of startShelf
          None

Tracked == Retries \cup {Starter, Exporter}
Listers == Retries \cup Rescanners \cup {Starter}

VARIABLES remote,     \* a shelf made by NewShelfFromFS
          source,     \* "there", "away", or "broken": any other failure
          ready, initErr, awaiting,   \* atomics of Shelf; initErr is None or the failure
          readyCh,    \* readyCh is closed
          listed,     \* the cache holds a listing
          due,        \* initRetryInterval has passed since lastInitTry
          retryMu,    \* who holds initRetryMu
          pc,         \* what each goroutine and rescan is about
          exporting,  \* bookCache.exporting
          closing, closed,
          panicked    \* there is at most one panic

lvars == <<remote, source, ready, initErr, awaiting, readyCh, listed, due,
           retryMu, pc, exporting, closing, closed, panicked>>
init == <<ready, initErr, awaiting, readyCh>>
ending == <<closing, closed, panicked>>

Background == {g \in Tracked : pc[g] # "none"}

\* startShelf, after makeStructure: goBackground(initCache).
Init ==
    /\ remote \in BOOLEAN
    /\ source = "there"
    /\ ready = FALSE /\ initErr = None /\ awaiting = FALSE /\ readyCh = FALSE
    /\ listed = FALSE
    /\ due = FALSE
    /\ retryMu = None
    /\ pc = [g \in Tracked \cup Rescanners |-> IF g = Starter THEN "list" ELSE "none"]
    /\ exporting = FALSE
    /\ closing = FALSE /\ closed = FALSE /\ panicked = FALSE

Goto(g, step) == pc' = [pc EXCEPT ![g] = step]

Awaited(failure) == failure = "away"

-----------------------------------------------------------------------------
(* initCache and retryInit.                                                *)

\* refreshRemoteBookCache or scanToBookCache; a failed one goes on with its reason.
List(g) ==
    /\ pc[g] = "list"
    /\ IF source = "there"
         THEN listed' = TRUE /\ Goto(g, IF g = Starter THEN "ready" ELSE "clear")
         ELSE listed' = listed /\ Goto(g, source)
    /\ UNCHANGED <<remote, source, init, due, retryMu, exporting, ending>>

\* initCache fails: the error is stored first, and whether to retry second.
InitFails ==
    /\ pc[Starter] \in {"away", "broken"}
    /\ initErr' = pc[Starter]
    /\ Goto(Starter, "await")
    /\ UNCHANGED <<remote, source, ready, awaiting, readyCh, listed, due, retryMu, exporting,
                   ending>>

InitAwaits ==
    /\ pc[Starter] = "await"
    /\ awaiting' = (remote /\ Awaited(initErr))
    /\ due' = FALSE
    /\ readyCh' = TRUE
    /\ Goto(Starter, "none")
    /\ UNCHANGED <<remote, source, ready, initErr, listed, retryMu, exporting, ending>>

\* initCache succeeds, exports and saves the scan cache.
InitDone ==
    /\ pc[Starter] = "ready"
    /\ ready' = TRUE
    /\ readyCh' = TRUE
    /\ Goto(Starter, "none")
    /\ UNCHANGED <<remote, source, initErr, awaiting, listed, due, retryMu, exporting, ending>>

\* retryInit fails.
RetryFails(g) ==
    /\ pc[g] \in {"away", "broken"} /\ g # Starter
    /\ initErr' = pc[g]
    /\ awaiting' = (awaiting /\ Awaited(initErr'))
    /\ Goto(g, "unlock")
    /\ UNCHANGED <<remote, source, ready, readyCh, listed, due, retryMu, exporting, ending>>

\* retryInit succeeds: three atomics, one after the other.
ClearErr(g) ==
    /\ pc[g] = "clear"
    /\ initErr' = None
    /\ Goto(g, "setready")
    /\ UNCHANGED <<remote, source, ready, awaiting, readyCh, listed, due, retryMu, exporting,
                   ending>>

SetReady(g) ==
    /\ pc[g] = "setready"
    /\ ready' = TRUE
    /\ Goto(g, "unawait")
    /\ UNCHANGED <<remote, source, initErr, awaiting, readyCh, listed, due, retryMu, exporting,
                   ending>>

Unawait(g) ==
    /\ pc[g] = "unawait"
    /\ awaiting' = FALSE
    /\ Goto(g, "unlock")
    /\ UNCHANGED <<remote, source, ready, initErr, readyCh, listed, due, retryMu, exporting,
                   ending>>

-----------------------------------------------------------------------------
(* Requests.                                                               *)

\* Fault: lastInitTry is stored before it is looked at.
RequestDating(g) ==
    /\ ~ ready /\ awaiting /\ pc[g] = "none"
    /\ due' = FALSE
    /\ UNCHANGED <<remote, source, init, listed, retryMu, pc, exporting, ending>>

\* A request finds the shelf not ready: notReady, retryInitSoon, goBackground.
Request(g) ==
    /\ ~ ready /\ awaiting
    /\ due
    /\ ~ closing
    /\ pc[g] = "none"
    /\ Goto(g, "trylock")
    /\ UNCHANGED <<remote, source, init, listed, due, retryMu, exporting, ending>>

\* The retry gives up when another one is under way or has succeeded.
TryLock(g) ==
    /\ pc[g] = "trylock"
    /\ IF retryMu = None /\ ~ ready
         THEN retryMu' = g /\ Goto(g, "list")
         ELSE retryMu' = retryMu /\ Goto(g, "none")
    /\ due' = IF pc'[g] = "list" THEN FALSE ELSE due
    /\ UNCHANGED <<remote, source, init, listed, exporting, ending>>

\* rescan waits for the lock ...
Rescan(r) ==
    /\ pc[r] = "none"
    /\ ~ ready /\ awaiting
    /\ Goto(r, "lock")
    /\ UNCHANGED <<remote, source, init, listed, due, retryMu, exporting, ending>>

\* ... and retries unless the shelf has become ready meanwhile.
LockRetry(r) ==
    /\ pc[r] = "lock"
    /\ retryMu = None
    /\ retryMu' = r
    /\ Goto(r, IF ready THEN "unlock" ELSE "list")
    /\ due' = IF ready THEN due ELSE FALSE
    /\ UNCHANGED <<remote, source, init, listed, exporting, ending>>

Unlock(g) ==
    /\ pc[g] = "unlock"
    /\ retryMu' = None
    /\ Goto(g, "none")
    /\ UNCHANGED <<remote, source, init, listed, due, exporting, ending>>

\* A panic while listing is recovered by goBackground, and the deferred Unlock runs.
Panic(g) ==
    /\ ~ panicked
    /\ pc[g] = "list"
    /\ panicked' = TRUE
    /\ Goto(g, IF g = Starter THEN "none" ELSE "unlock")
    /\ UNCHANGED <<remote, source, init, listed, due, retryMu, exporting, closing, closed>>

\* startBookCacheWork: the flag is taken, and given back when goBackground refuses.
ScheduleExport ==
    /\ ready /\ ~ remote
    /\ ~ exporting
    /\ ~ closing
    /\ exporting' = TRUE
    /\ Goto(Exporter, "export")
    /\ UNCHANGED <<remote, source, init, listed, due, retryMu, ending>>

ExportDone ==
    /\ pc[Exporter] = "export"
    /\ exporting' = FALSE
    /\ Goto(Exporter, "none")
    /\ UNCHANGED <<remote, source, init, listed, due, retryMu, ending>>

-----------------------------------------------------------------------------
\* stopBackground
CloseBegins ==
    /\ ~ closing
    /\ closing' = TRUE
    /\ UNCHANGED <<remote, source, init, listed, due, retryMu, pc, exporting, closed, panicked>>

\* Fault: Close does not wait.
CloseAtOnce ==
    /\ closing /\ ~ closed
    /\ closed' = TRUE
    /\ UNCHANGED <<remote, source, init, listed, due, retryMu, pc, exporting, closing, panicked>>

\* The background work is over: Close exports, saves and closes the root and the lock.
CloseEnds ==
    /\ closing /\ ~ closed
    /\ Background = {}
    /\ closed' = TRUE
    /\ UNCHANGED <<remote, source, init, listed, due, retryMu, pc, exporting, closing, panicked>>

SourceChanges ==
    /\ source' \in {"there", "away", "broken"} \ {source}
    /\ UNCHANGED <<remote, init, listed, due, retryMu, pc, exporting, ending>>

IntervalPasses ==
    /\ ~ due
    /\ due' = TRUE
    /\ UNCHANGED <<remote, source, init, listed, retryMu, pc, exporting, ending>>

Step(g) ==
    \/ List(g) \/ RetryFails(g) \/ ClearErr(g) \/ SetReady(g) \/ Unawait(g) \/ Unlock(g)
    \/ g = Starter /\ (InitFails \/ InitAwaits \/ InitDone)
    \/ g \in Retries /\ TryLock(g)
    \/ g \in Rescanners /\ LockRetry(g)

Next ==
    \/ \E g \in Listers : Step(g)
    \/ \E g \in Retries : Request(g) \/ Panic(g)
    \/ Panic(Starter)
    \/ \E r \in Rescanners : Rescan(r)
    \/ ScheduleExport \/ ExportDone
    \/ CloseBegins \/ CloseEnds
    \/ SourceChanges \/ IntervalPasses

\* Goroutines run, time passes, and users keep asking for a shelf that is not there.
Fairness ==
    /\ \A g \in Listers : WF_lvars(Step(g))
    /\ WF_lvars(ExportDone)
    /\ WF_lvars(IntervalPasses)
    /\ WF_lvars(\E g \in Retries : Request(g))
    /\ WF_lvars(CloseEnds)

Spec == Init /\ [][Next]_lvars /\ Fairness

-----------------------------------------------------------------------------
\* A ready shelf has a listing and no error left from an earlier try, whatever requests
\* and rescans retried at the same time (retryInit under initRetryMu).
ReadyIsClean == ready => listed /\ initErr = None

\* Once Close has returned no goroutine of the shelf runs, and none is started by a
\* request that still holds it (goBackground, stopBackground).
ClosedIsQuiet == closed => Background = {} /\ ~ exporting

\* When the source of a waiting shelf comes back for good, users who keep asking get
\* their shelf, unless it is closed or a try meanwhile failed in a way not worth another.
SourceReturns ==
    (<>[](source = "there")) => [](awaiting => <>(ready \/ closing \/ ~ awaiting))
=============================================================================
