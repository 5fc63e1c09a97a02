--------------------------- MODULE RemoteListing ---------------------------
(***************************************************************************)
(* How a change of a shelf reaches a remote reader: installations that     *)
(* share the shelf export their listing to app/book-cache-{writer}.json    *)
(* (shelf/shelf_cache_export.go), and a reader without a file system of    *)
(* its own takes the newest export for its listing                         *)
(* (shelf/shelf_cache_snapshot.go).                                        *)
(*                                                                         *)
(* What a listing holds is the set of edits it reflects; its digest is the *)
(* set itself.  Time is in seconds, as in the exports.                     *)
(***************************************************************************)
EXTENDS Integers, FiniteSets

CONSTANTS Writers,     \* a set of numbers: the order of the file names
          Refreshers,  \* requests of the reader that refresh its listing
          Edits,
          Retention,   \* bookCacheRetention
          MaxClock, MaxRestarts,  \* bounds of the clock, and of restarts and absences
          None

VARIABLES clock,
          tree,        \* the edits on disk
          seen, scanned, exported,  \* per writer: cache, lastScanStart, lastExportDigest
          export,      \* per writer: its file
          away,        \* the writers that are switched off or not used
          listing, scanStart, digest,  \* the reader's cache, lastScanStart, remoteDigest
          snapshot,    \* the reader's snapshot.json
          pcr, found,  \* where each refresh is, and the export it has read
          rescanned,   \* the reader has walked the source by itself
          restarts     \* of the writers and the reader, so far

rlvars == <<clock, tree, seen, scanned, exported, export, away, listing, scanStart,
            digest, snapshot, pcr, found, rescanned, restarts>>
writer == <<seen, scanned, exported, export, away>>
applied == <<listing, scanStart, digest, snapshot>>
refresh == <<pcr, found>>

Init ==
    /\ clock = 1
    /\ tree = {}
    /\ seen = [w \in Writers |-> {}]
    /\ scanned = [w \in Writers |-> 1]
    /\ exported = [w \in Writers |-> None]
    /\ export = [w \in Writers |-> None]
    /\ away = {}
    /\ listing = {} /\ scanStart = 0 /\ digest = None
    /\ snapshot = None
    /\ pcr = [r \in Refreshers |-> "idle"]
    /\ found = [r \in Refreshers |-> None]
    /\ rescanned = FALSE /\ restarts = 0

Tick ==
    /\ clock < MaxClock
    /\ clock' = clock + 1
    /\ UNCHANGED <<tree, writer, applied, refresh, rescanned, restarts>>

-----------------------------------------------------------------------------
(* The writers.                                                            *)

\* An edit made with an installation is in its cache at once; lastScanStart stays.
Edit(w, e) ==
    /\ w \notin away
    /\ e \notin tree
    /\ tree' = tree \cup {e}
    /\ seen' = [seen EXCEPT ![w] = @ \cup {e}]
    /\ UNCHANGED <<clock, scanned, exported, export, away, applied, refresh, rescanned, restarts>>

\* scanToBookCache
Scan(w) ==
    /\ w \notin away
    /\ seen' = [seen EXCEPT ![w] = tree]
    /\ scanned' = [scanned EXCEPT ![w] = clock]
    /\ UNCHANGED <<clock, tree, exported, export, away, applied, refresh, rescanned, restarts>>

\* WriteFileAtomic, and pruneStaleBookCaches: other writers' old files go.
WriteExport(w, content, at) ==
    /\ exported' = [exported EXCEPT ![w] = content]
    /\ export' = [x \in Writers |->
                    IF x = w THEN [at |-> at, content |-> content]
                    ELSE IF export[x] # None /\ export[x].at < clock - Retention THEN None
                    ELSE export[x]]

\* exportBookCache(false): after the initial scan, at the interval and on Close.
Export(w) ==
    /\ w \notin away
    /\ seen[w] # exported[w]
    /\ WriteExport(w, seen[w], scanned[w])
    /\ UNCHANGED <<clock, tree, seen, scanned, away, applied, refresh, rescanned, restarts>>

\* ExportBookCache: a walk, and a write in any case.
ForceExport(w) ==
    /\ w \notin away
    /\ seen' = [seen EXCEPT ![w] = tree]
    /\ scanned' = [scanned EXCEPT ![w] = clock]
    /\ WriteExport(w, tree, clock)
    /\ UNCHANGED <<clock, tree, away, applied, refresh, rescanned, restarts>>

\* The machine is switched off, or nobody uses the installation: no request refreshes
\* its cache, and nothing is exported.
Rest(w) ==
    /\ w \notin away
    /\ restarts < MaxRestarts
    /\ restarts' = restarts + 1
    /\ away' = away \cup {w}
    /\ UNCHANGED <<clock, tree, seen, scanned, exported, export, applied, refresh, rescanned>>

\* It is used again.
Return(w) ==
    /\ w \in away
    /\ away' = away \ {w}
    /\ UNCHANGED <<clock, tree, seen, scanned, exported, export, applied, refresh,
                   rescanned, restarts>>

\* A restarted installation knows of no export: it scans and writes.
RestartWriter(w) ==
    /\ restarts < MaxRestarts
    /\ restarts' = restarts + 1
    /\ away' = away \ {w}
    /\ seen' = [seen EXCEPT ![w] = tree]
    /\ scanned' = [scanned EXCEPT ![w] = clock]
    /\ exported' = [exported EXCEPT ![w] = None]
    /\ UNCHANGED <<clock, tree, export, applied, refresh, rescanned>>

-----------------------------------------------------------------------------
(* The reader.                                                             *)

\* newestExportedBookCache: the latest, and of those the greatest name.
IsNewest(w) ==
    /\ export[w] # None
    /\ \A x \in Writers :
          export[x] # None => \/ export[x].at < export[w].at
                              \/ export[x].at = export[w].at /\ x <= w

Newest == IF \A w \in Writers : export[w] = None THEN None
          ELSE export[CHOOSE w \in Writers : IsNewest(w)]

Look(r) ==
    /\ pcr[r] = "idle"
    /\ Newest # None
    /\ found' = [found EXCEPT ![r] = Newest]
    /\ pcr' = [pcr EXCEPT ![r] = "compare"]
    /\ UNCHANGED <<clock, tree, writer, applied, rescanned, restarts>>

\* Fault: an export of the second of the listing is taken for the one applied.
NotNewerBySecond(x) == scanStart # 0 /\ x.at <= scanStart

\* exportIsNotNewer
NotNewer(x) ==
    scanStart # 0 /\ (x.at < scanStart \/ (x.at = scanStart /\ x.content = digest))

Compare(r) ==
    /\ pcr[r] = "compare"
    /\ IF NotNewer(found[r])
       THEN pcr' = [pcr EXCEPT ![r] = "idle"] /\ found' = [found EXCEPT ![r] = None]
       ELSE pcr' = [pcr EXCEPT ![r] = "apply"] /\ UNCHANGED found
    /\ UNCHANGED <<clock, tree, writer, applied, rescanned, restarts>>

\* refreshRemoteFromSource applies what it compared before, and afterRemoteListing saves it.
Apply(r) ==
    /\ pcr[r] = "apply"
    /\ listing' = found[r].content
    /\ scanStart' = found[r].at
    /\ digest' = found[r].content
    /\ snapshot' = found[r]
    /\ pcr' = [pcr EXCEPT ![r] = "idle"]
    /\ found' = [found EXCEPT ![r] = None]
    /\ UNCHANGED <<clock, tree, writer, rescanned, restarts>>

\* rescan, or a first open without an export: scanToBookCache on the source itself.
Walk ==
    /\ scanStart = 0 => Newest = None
    /\ rescanned' = TRUE
    /\ listing' = tree
    /\ scanStart' = clock
    /\ snapshot' = [at |-> clock, content |-> tree]
    /\ UNCHANGED <<clock, tree, writer, digest, refresh, restarts>>

\* The reader starts again while the source is away: listFromOfflineSnapshot.
RestartReader ==
    /\ restarts < MaxRestarts
    /\ restarts' = restarts + 1
    /\ snapshot # None
    /\ listing' = snapshot.content
    /\ scanStart' = snapshot.at
    /\ digest' = None
    /\ pcr' = [r \in Refreshers |-> "idle"]
    /\ found' = [r \in Refreshers |-> None]
    /\ UNCHANGED <<clock, tree, writer, snapshot, rescanned>>

Next ==
    \/ Tick
    \/ \E w \in Writers :
          \/ \E e \in Edits : Edit(w, e)
          \/ Scan(w) \/ Export(w) \/ ForceExport(w)
          \/ Rest(w) \/ Return(w) \/ RestartWriter(w)
    \/ \E r \in Refreshers : Look(r) \/ Compare(r) \/ Apply(r)
    \/ Walk \/ RestartReader

\* An installation that is not away is used, so that it scans and exports at its
\* intervals, and so is the reader, which refreshes at its own.
Fairness ==
    /\ \A w \in Writers : WF_rlvars(Scan(w)) /\ WF_rlvars(Export(w))
    /\ \A r \in Refreshers : WF_rlvars(Look(r) \/ Compare(r) \/ Apply(r))

Spec == Init /\ [][Next]_rlvars /\ Fairness

-----------------------------------------------------------------------------
\* Every edit reaches the reader's listing, once the writers have scanned and exported
\* and the reader has refreshed (src/docs/concepts/shelf-cache-and-io.md).
EditsArrive == <>[](listing = tree)

\* The edits are hidden: no installation is at work that could tell, or the newest
\* export lacks them and is of an installation that is away.
Hidden ==
    \/ away = Writers
    \/ \E w \in away : IsNewest(w) /\ export[w].content # tree

\* So it is for a reader that never walks the source by itself, however refreshes overlap,
\* edits come within one second or the reader restarts from its snapshot, and whoever is
\* away, unless they stay hidden: the export of an absent installation with a later date
\* than those of the others hides what these have to tell.
EditsArriveByExports == <>[](listing = tree) \/ <>rescanned \/ <>[]Hidden
=============================================================================
