-------------------------- MODULE MCInstallations --------------------------
(***************************************************************************)
(* What the installations that share a shelf do to each other, for TLC:    *)
(* the file lock (ShelfLock), a shelf's start, retries and end             *)
(* (ShelfLifecycle), a folder's metadata edited by requests to two of them *)
(* (FolderMeta) and the listing one exports and another reads              *)
(* (RemoteListing).  A behaviour is of one of them, which `part` names; the*)
(* lock's variables then keep their first values, and the others' are None.*)
(***************************************************************************)
EXTENDS ShelfLock

CONSTANTS Retries, Rescanners, Starter, Exporter, \* goroutines of a shelf
          Instances, Requests, Host, FolderEdits, MaxAsked, MaxUpsets, \* of a folder's metadata
          u1, u2, e1

ASSUME LifeAssumption ==
    /\ Retries \cap Rescanners = {} /\ Starter # Exporter
    /\ {Starter, Exporter, None} \cap (Retries \cup Rescanners) = {}

ASSUME MetaAssumption == "free" \notin Instances /\ Host \in [Requests -> Instances]

VARIABLES part,
          remote, source, ready, initErr, awaiting, readyCh, listed, due, retryMu,
          lpc, exporting, closing, closed, panicked,
          name, file, holder, cached, at, req, data, shared, asked, upsets,
          clock, tree, seen, scanned, exported, export, away, listing, scanStart, digest,
          snapshot, pcr, found, rescanned, restarts

lifevars == <<remote, source, ready, initErr, awaiting, readyCh, listed, due, retryMu,
              lpc, exporting, closing, closed, panicked>>
metavars == <<name, file, holder, cached, at, req, data, shared, asked, upsets>>
listvars == <<clock, tree, seen, scanned, exported, export, away, listing, scanStart, digest,
              snapshot, pcr, found, rescanned, restarts>>

\* One request at a time in each process.
OneEach == [g \in Goroutines |-> g]
\* Two requests at a time in one installation, and one in the other.
MCHost == [r \in Requests |-> IF r = "r" THEN "q" ELSE "p"]
MCEdits == {<<"icon", "none">>, <<"key", "first">>}

Life == INSTANCE ShelfLifecycle WITH pc <- lpc
Meta == INSTANCE FolderMeta WITH Edits <- FolderEdits
Remote == INSTANCE RemoteListing WITH
    Writers <- {1, 2}, Refreshers <- {u1}, Edits <- {e1}, Retention <- 0,
    MaxClock <- 2, MaxRestarts <- 1
\* One writer, and a reader whose refreshes overlap.
Readers == INSTANCE RemoteListing WITH
    Writers <- {1}, Refreshers <- {u1, u2}, Edits <- {e1}, Retention <- 0,
    MaxClock <- 2, MaxRestarts <- 1

NoLife ==
    /\ remote = None /\ source = None /\ ready = None /\ initErr = None /\ awaiting = None
    /\ readyCh = None /\ listed = None /\ due = None /\ retryMu = None /\ lpc = None
    /\ exporting = None /\ closing = None /\ closed = None /\ panicked = None
NoMeta ==
    /\ name = None /\ file = None /\ holder = None /\ cached = None /\ at = None
    /\ req = None /\ data = None /\ shared = None /\ asked = None /\ upsets = None
NoListing ==
    /\ clock = None /\ tree = None /\ seen = None /\ scanned = None /\ exported = None
    /\ export = None /\ away = None /\ listing = None /\ scanStart = None /\ digest = None
    /\ snapshot = None /\ pcr = None /\ found = None /\ rescanned = None /\ restarts = None

MCInit ==
    /\ part \in {"lock", "life", "meta", "listing", "readers"}
    /\ Init
    /\ IF part = "life" THEN Life!Init ELSE NoLife
    /\ IF part = "meta" THEN Meta!Init ELSE NoMeta
    /\ CASE part = "listing" -> Remote!Init
         [] part = "readers" -> Readers!Init
         [] OTHER -> NoListing

MCNext ==
    /\ UNCHANGED part
    /\ \/ part = "lock" /\ Next /\ UNCHANGED <<lifevars, metavars, listvars>>
       \/ part = "life" /\ Life!Next /\ UNCHANGED <<vars, metavars, listvars>>
       \/ part = "meta" /\ Meta!Next /\ UNCHANGED <<vars, lifevars, listvars>>
       \/ /\ \/ part = "listing" /\ Remote!Next
             \/ part = "readers" /\ Readers!Next
          /\ UNCHANGED <<vars, lifevars, metavars>>

\* The fairness that each module states, for the behaviours that are of it.
LifeFair ==
    /\ \A g \in Retries \cup Rescanners \cup {Starter} :
          WF_lifevars(part = "life" /\ Life!Step(g))
    /\ WF_lifevars(part = "life" /\ Life!ExportDone)
    /\ WF_lifevars(part = "life" /\ Life!IntervalPasses)
    /\ WF_lifevars(part = "life" /\ \E g \in Retries : Life!Request(g))
    /\ WF_lifevars(part = "life" /\ Life!CloseEnds)
MetaFair ==
    \A r \in Requests :
        /\ WF_metavars(part = "meta" /\ Meta!Repeat(r))
        /\ WF_metavars(part = "meta" /\ Meta!Onward(r))
        /\ SF_metavars(part = "meta" /\ Meta!Lock(r))
ListFair ==
    /\ \A w \in {1, 2} : /\ WF_listvars(part = "listing" /\ Remote!Scan(w))
                         /\ WF_listvars(part = "listing" /\ Remote!Export(w))
    /\ WF_listvars(part = "listing" /\
          (Remote!Look(u1) \/ Remote!Compare(u1) \/ Remote!Apply(u1)))
    /\ WF_listvars(part = "readers" /\ Readers!Scan(1))
    /\ WF_listvars(part = "readers" /\ Readers!Export(1))
    /\ \A r \in {u1, u2} : WF_listvars(part = "readers" /\
          (Readers!Look(r) \/ Readers!Compare(r) \/ Readers!Apply(r)))

LockFair == \A g \in Goroutines : WF_vars(Step(g))

MCSteps == MCInit /\ [][MCNext]_<<part, vars, lifevars, metavars, listvars>>
MCSpec == MCSteps /\ LockFair /\ LifeFair /\ MetaFair /\ ListFair

\* A shelf that answers has a listing and no failure left from its first try
\* (initCache, retryInit), and once Close has returned no goroutine of it runs or is
\* started (goBackground, stopBackground).
StatesAreClean == part = "life" => Life!ReadyIsClean /\ Life!ClosedIsQuiet

Returned == part = "life" => source = "there"
Waiting == part = "life" /\ awaiting
Answered == part = "life" /\ (ready \/ closing \/ ~awaiting)

\* Life!SourceReturns: when the source of a waiting shelf is back for good, users
\* who keep asking get their shelf, or are told why not (retryInitSoon).
SourceReturns == <>[]Returned => [](Waiting => <>Answered)

\* updateFolderMeta: no request overwrites a folder.json that changed since it was shown
\* to the client, unless its turn with the lock was broken into; and that never begins
\* with another installation, only with a second request or a scan of the server that
\* has the lock, or with a server that got in after it.
NoBlindEdit == [][part = "meta" => Meta!ComparesFirst]_metavars

OthersQuiet(r) == part = "meta" => \A s \in Requests \ {r} : at'[s] = at[s]
Edited(r) == part = "meta" => req[r] = Meta!NoRequest

\* Meta!EditsGetThrough: a client that repeats a refused edit gets through, as long
\* as the others are quiet, because the refusal refreshes the listing.
EditsGetThrough ==
    \A r \in Requests : (<>[][OthersQuiet(r)]_metavars) => []<>Edited(r)

Arrived == listing = tree
Walked == rescanned = TRUE

Hidden == (part = "listing" /\ Remote!Hidden) \/ (part = "readers" /\ Readers!Hidden)

\* Remote!EditsArriveByExports: an edit reaches the reader through the export, unless
\* the reader walks the source itself (exportIsNotNewer), or all the installations are
\* away, or one that is away left the newest export and that lacks the edit.
EditsArriveByExports == <>[]Arrived \/ <>Walked \/ <>[]Hidden
=============================================================================
