----------------------------- MODULE MCLibrary -----------------------------
(***************************************************************************)
(* What surrounds the books of a shelf, for TLC: the reading records two   *)
(* apps share (ReadingRecords), offline copies of remote books (Offline),  *)
(* books that move to another shelf (Transfer), and the shelves of the     *)
(* mobile and the desktop app (MobileApp, DesktopShelves with LanShare).   *)
(* A behaviour is of one of them, which `part` names; the records then     *)
(* keep their first values and the variables of the others are None.       *)
(***************************************************************************)
EXTENDS ReadingRecords, TLC

CONSTANTS Left, Right, \* pairs of interchangeable values
          c1, c2, desktop, reader, Torn,
          FreshIds, Named, MaxOutside,
          Remotes, SourceScopes, HandleCalls, MaxStarts,
          DesktopIds, DesktopCalls,
          DownloadCalls, MaxVersions, MaxIncidents

ASSUME MobileAssumption ==
    /\ Right \cap Remotes = {}
    /\ None \notin Left \cup Right \cup {"empty", "books"}
    /\ None \notin {"save", "register", "rename", "close", "delete"}

VARIABLES part,
          remote, cache, refresh, downloads, byPath, local, downloadsFile, snapshotFile,
          downloadMu, dl, events, torn,
          tree, trash, dir, meta, job, pct, tstaged, carried, plan, latest, outside,
          arrived, dropped, overtaken, slipped,
          shelves, scopes,
          mfile, conf, root, virtual, offline, share, epoch, state, op, req, task, made, unwanted,
          lconf, lfile, srv, shared, addrs, applying, ticked,
          dfile, secrets, up, dcall, calls, reported

offlinevars == <<remote, cache, refresh, downloads, byPath, local, downloadsFile,
                 snapshotFile, downloadMu, dl, events, torn>>
transfervars == <<tree, trash, dir, meta, job, pct, tstaged, carried, plan, latest, outside,
                  arrived, dropped, overtaken, slipped>>
managervars == <<shelves, scopes, unwanted>>
mobilevars == <<mfile, conf, root, virtual, offline, share, epoch, state, op, req, task, made>>
desktopvars == <<lconf, lfile, srv, shared, addrs, applying, ticked, dfile, secrets, up,
                 dcall, calls, reported>>

MCAppOf == c1 :> desktop @@ c2 :> reader

Copies == INSTANCE Offline WITH
    Books <- Left, Paths <- Right, Calls <- DownloadCalls, MaxVersion <- MaxVersions,
    MaxEvents <- MaxIncidents
Moves == INSTANCE Transfer WITH
    Books <- Left, Fresh <- FreshIds, Metas <- Right, staged <- tstaged
Mobile == INSTANCE MobileApp WITH
    Ids <- Right \cup Remotes, Locals <- Right, Scopes <- SourceScopes,
    Names <- Left, Requests <- HandleCalls, file <- mfile
Desktop == INSTANCE DesktopShelves WITH
    Ids <- DesktopIds, Hosts <- Left, MaxCalls <- DesktopCalls, file <- dfile, call <- dcall

ASSUME MoveAssumption == Named \subseteq Moves!Folders \cup {"root"}

ASSUME CopyAssumption ==
    /\ MaxVersions \in Nat \ {0}
    /\ None \notin DownloadCalls \cup [path : Right, version : 1..MaxVersions]
    /\ None \notin [id : Left, meta : 1..MaxVersions, of : Left, text : 1..MaxVersions]

ASSUME DesktopAssumption ==
    /\ DesktopIds \subseteq Nat
    /\ Torn \notin [DesktopIds -> Desktop!Entries \cup {None}]
    /\ None \notin Desktop!Entries \cup [conf : Desktop!Entries, open : BOOLEAN]
    /\ None \notin {"register", "save", "modify", "saveRemoval", "close", "forget", "listen"}

NoCopies ==
    /\ remote = None /\ cache = None /\ refresh = None /\ downloads = None /\ byPath = None
    /\ local = None /\ downloadsFile = None /\ snapshotFile = None /\ downloadMu = None
    /\ dl = None /\ events = None /\ torn = None
NoMoves ==
    /\ tree = None /\ trash = None /\ dir = None /\ meta = None /\ job = None /\ pct = None
    /\ tstaged = None /\ carried = None /\ plan = None /\ latest = None /\ outside = None
    /\ arrived = None /\ dropped = None /\ overtaken = None /\ slipped = None
NoMobile ==
    /\ mfile = None /\ conf = None /\ root = None /\ virtual = None /\ offline = None
    /\ share = None /\ epoch = None /\ state = None /\ op = None /\ req = None
    /\ task = None /\ made = None
NoDesktop ==
    /\ lconf = None /\ lfile = None /\ srv = None /\ shared = None /\ addrs = None
    /\ applying = None /\ ticked = None /\ dfile = None /\ secrets = None /\ up = None
    /\ dcall = None /\ calls = None /\ reported = None

MCInit ==
    /\ part \in {"records", "copies", "moves", "mobile", "desktop"}
    /\ Init /\ (part # "records" => kind = "progress")
    /\ IF part = "copies" THEN Copies!Init ELSE NoCopies
    /\ IF part = "moves" THEN Moves!Init ELSE NoMoves
    /\ IF part = "mobile" THEN Mobile!Init ELSE NoMobile
    /\ IF part = "desktop" THEN Desktop!Init ELSE NoDesktop
    /\ part \notin {"mobile", "desktop"} => shelves = None /\ scopes = None /\ unwanted = None

MCNext ==
    /\ UNCHANGED part
    /\ \/ /\ part = "records" /\ Next
          /\ UNCHANGED <<offlinevars, transfervars, managervars, mobilevars, desktopvars>>
       \/ /\ part = "copies" /\ Copies!Next
          /\ UNCHANGED <<rvars, transfervars, managervars, mobilevars, desktopvars>>
       \/ /\ part = "moves" /\ Moves!Next
          /\ UNCHANGED <<rvars, offlinevars, managervars, mobilevars, desktopvars>>
       \/ /\ part = "mobile" /\ Mobile!Next
          /\ UNCHANGED <<rvars, offlinevars, transfervars, desktopvars>>
       \/ /\ part = "desktop" /\ Desktop!Next
          /\ UNCHANGED <<rvars, offlinevars, transfervars, mobilevars>>

MCSpec ==
    MCInit /\ [][MCNext]_<<part, rvars, offlinevars, transfervars, managervars,
                           mobilevars, desktopvars>>

Symmetry == Permutations(Left) \cup Permutations(Right) \cup Permutations(DownloadCalls)

\* No write, projection or late flush takes reading progress back, the seconds read
\* are neither lost nor counted twice, and a history has no entry twice (MergeNewest,
\* Project, Stager).
RecordsKept == ProgressKept /\ TimeConserved /\ HistoryListed

\* A copy that is served as current has the version that was recorded for it, and a
\* path is routed to a copy only while it is on the device, unless a replacement of that
\* copy ended, or failed twice, between its two renames (offlineFS.route, commit,
\* reconcile, replaceDirKeepingPrevious; and the type invariant of Offline).
CopiesServe ==
    part = "copies" => Copies!TypeOK /\ Copies!CurrentCopies /\ Copies!RoutedExists

\* A book on its way to another shelf is always on one of them, and an ID is never
\* twice on a shelf, whichever step fails or is the last (CopyBookFrom, MoveBookFrom),
\* unless it was restored while ensureBookIDFreeAfterRescan looked for it.
\* The metadata of a folder goes with its books, and a version that has not gone is not
\* dropped with the emptied folder (createFolder, pruneEmptiedSource), unless it was
\* written between PruneFolder's comparison and its removal.
TransfersKeep ==
    part = "moves" => Moves!BooksKept /\ Moves!UniqueIds /\ Moves!MetaCarried

\* A shelf of the device whose creation was reported stays listed until its removal is
\* asked for, and a listed shelf has its books (addShelf, RemoveShelf).
ShelvesKept == part = "mobile" => Mobile!ShelvesKept

\* What answers belongs to the running instance (Handle, Stop).
AnsweredByRunning == part = "mobile" => Mobile!AnsweredByRunning

\* Offline copies are deleted only while no shelf serves them (RemoveVirtualShelfOffline).
OfflineInUseKept ==
    [][part = "mobile" => Mobile!KeepsOfflineInUse]_<<managervars, mobilevars>>

\* Between two calls of the desktop app, shelves.json, the open shelves and the
\* keychain agree, unless a call has said that they do not (AddShelf, ModifyShelf,
\* RemoveShelf).  What the listener may serve is in lan_share.json and in shelves.json
\* (saveBeforeWidening, ForgetShelf).
DesktopAgrees ==
    part = "desktop" =>
        Desktop!SettingsAgree /\ Desktop!ShareIsSaved /\ Desktop!SharedIsListed
=============================================================================
