------------------------------- MODULE MCBook -------------------------------
(***************************************************************************)
(* What is kept of one book, for TLC: the metadata and its cached objects  *)
(* (BookMeta), its sources and cover (BookSources), the pages of a source  *)
(* (SourcePages), the fingerprints of its texts (Fingerprints), the        *)
(* listings of the directories around it (ScanCache) and whether it is in  *)
(* view (Visibility).  They are different files with different writers, so *)
(* a behaviour is of one of them: `part` names it, and the variables of    *)
(* the others are None.                                                    *)
(***************************************************************************)
EXTENDS BookMeta, Sequences, TLC

CONSTANTS Left, Right,  \* interchangeable values
          AloneSources, AloneOps,
          r1, SourceIds, Exts, MaxRequests,
          MaxPages, MaxEdits,
          PrintedBooks, RacyWindow, PrintsClock, MaxRuns,
          Kids, WalkClock, MaxWalks, MaxChanges,
          Segments, Paths, Fold(_), Rulings, MaxDrift

ASSUME SourcesAssumption ==
    /\ SourceIds \subseteq Nat /\ \E m \in SourceIds : \A i \in SourceIds : i <= m
    /\ None \notin SourceIds \cup Exts /\ MaxRequests \in Nat

ASSUME PagesAssumption == None \notin Right /\ MaxPages \in Nat

ASSUME TimesAssumption == RacyWindow \in Nat /\ None \notin Nat

ASSUME ViewAssumption ==
    /\ Paths \subseteq Seq(Segments)
    /\ \A p \in Paths : \A k \in 0 .. Len(p) : SubSeq(p, 1, k) \in Paths

VARIABLES part,
          place, sources, temps, images, bookJson, covers, at, rq, begun,
          list, assets, meta, pageEdits, epc, ed, edits, overtaken,
          now, source, temp, hash, stored, task, runs,
          root, dirs, cache, saved, walk, walks, changes, quiet,
          rules, tops, shelf, home, marked, listed, show

sourcevars == <<place, sources, temps, images, bookJson, covers, at, rq, begun>>
pagevars == <<list, assets, meta, pageEdits, epc, ed, edits, overtaken>>
printvars == <<source, temp, hash, stored, task, runs>>
walkvars == <<root, dirs, cache, saved, walk, walks, changes, quiet>>
viewvars == <<rules, tops, shelf, home, marked, listed, show>>

MCFold(n) == IF n = "A" THEN "a" ELSE n
MCPaths == {<<>>, <<"A">>, <<"b">>, <<"b", "A">>}
MCRulings == {{<<"a">>}, {<<"b", "a">>}}

\* One request or scan at a time, the pointer moving as well.
Alone == INSTANCE BookMeta WITH
    Sources <- AloneSources, Kinds <- AllKinds, Overlap <- FALSE, MaxOps <- AloneOps
Srcs == INSTANCE BookSources WITH Requests <- {r1}
Pages == INSTANCE SourcePages WITH Names <- Left, Editors <- Right, pc <- epc
Prints == INSTANCE Fingerprints WITH
    Books <- PrintedBooks, Contents <- Left, Machines <- Right,
    MaxClock <- PrintsClock, clock <- now
Walks == INSTANCE ScanCache WITH
    Names <- Left, Dirs <- Right, MaxClock <- WalkClock, clock <- now
View == INSTANCE Visibility WITH Books <- Left, dirs <- tops, place <- shelf

NoMetadata ==
    /\ disk = None /\ words = None /\ heap = None /\ entry = None /\ pc = None
    /\ kind = None /\ book = None /\ copy = None /\ stat = None /\ clock = None
    /\ ops = None /\ acked = None /\ crossed = None
NoSources ==
    /\ place = None /\ sources = None /\ temps = None /\ images = None /\ rq = None
    /\ bookJson = None /\ covers = None /\ at = None /\ begun = None
NoPages ==
    /\ list = None /\ assets = None /\ meta = None /\ pageEdits = None
    /\ epc = None /\ ed = None /\ edits = None /\ overtaken = None
NoPrints ==
    /\ source = None /\ temp = None /\ hash = None /\ stored = None
    /\ task = None /\ runs = None
NoWalks ==
    /\ root = None /\ dirs = None /\ cache = None /\ saved = None /\ walk = None
    /\ walks = None /\ changes = None /\ quiet = None
NoView ==
    /\ rules = None /\ tops = None /\ shelf = None /\ home = None /\ marked = None
    /\ listed = None /\ show = None

MCInit ==
    /\ part \in {"counts", "alone", "sources", "pages", "prints", "walks", "view"}
    /\ CASE part = "counts" -> Init
         [] part = "alone" -> Alone!Init
         [] OTHER -> NoMetadata
    /\ IF part = "sources" THEN Srcs!Init ELSE NoSources
    /\ IF part = "pages" THEN Pages!Init ELSE NoPages
    /\ IF part = "prints" THEN Prints!Init ELSE NoPrints
    /\ IF part = "walks" THEN Walks!Init ELSE NoWalks
    /\ IF part = "view" THEN View!Init ELSE NoView
    /\ part \notin {"prints", "walks"} => now = None

MCNext ==
    /\ UNCHANGED part
    /\ \/ /\ \/ part = "counts" /\ Next
             \/ part = "alone" /\ Alone!Next
          /\ UNCHANGED <<now, sourcevars, pagevars, printvars, walkvars, viewvars>>
       \/ /\ part = "sources" /\ Srcs!Next
          /\ UNCHANGED <<vars, now, pagevars, printvars, walkvars, viewvars>>
       \/ /\ part = "pages" /\ Pages!Next
          /\ UNCHANGED <<vars, now, sourcevars, printvars, walkvars, viewvars>>
       \/ /\ part = "prints" /\ Prints!Next
          /\ UNCHANGED <<vars, sourcevars, pagevars, walkvars, viewvars>>
       \/ /\ part = "walks" /\ Walks!Next
          /\ UNCHANGED <<vars, sourcevars, pagevars, printvars, viewvars>>
       \/ /\ part = "view" /\ View!Next
          /\ UNCHANGED <<vars, now, sourcevars, pagevars, printvars, walkvars>>

MCSpec ==
    MCInit /\ [][MCNext]_<<part, vars, now, sourcevars, pagevars, printvars, walkvars,
                           viewvars>>

Symmetry == Permutations(Left) \cup Permutations(Right)

\* One request or scan at a time, an answered edit stays in book.json: setMeta
\* and SetCurrentSource build on the metadata that is there, and lookups and listings
\* show it.
EditsBuildUp == part = "alone" => Alone!EditsKept /\ Alone!CacheCurrent

\* Once the requests that changed a source or moved the pointer have been answered, the
\* cached count is that of the current source, whichever scans RefreshBookCharCount and
\* keepNewerCharCount raced; a pointer move that crosses what another actor read before
\* is excepted, and there is none where requests and scans follow one another.
CountIsCurrent ==
    /\ part = "counts" => CountCurrent
    /\ part = "alone" => ~crossed /\ Alone!CountCurrent

\* handOverCurrentSource: a listed book's pointer always names a source that opens
\* (and the type invariant of BookSources).
CurrentIsThere == part = "sources" => Srcs!TypeOK /\ Srcs!CurrentIsThere

\* An import lists a book only when it can be read (newPlainTextBook, importCBZ), and
\* replacing a cover never leaves a book without one (SetCover).
BooksStayWhole == [][part = "sources" => Srcs!ImportsWhole /\ Srcs!KeepsCover]_sourcevars

\* No page edit takes away the image of a page that stays listed (InsertPage,
\* DeletePage, ReplacePages), and it replaces exactly the list its client edited
\* (editablePageNames), unless a content request wrote source.txt between the edit's
\* reading of the list and its write or deletion.
PageEditsAreSafe ==
    [][part = "pages" => Pages!KeepsListedImages /\ Pages!BuildsOnItsList]_pagevars

\* A source answered from its modification time alone has the recorded content,
\* and its sketch is recorded with it (fingerprintSourcesTask, PruneCache).
PrintsAreCurrent ==
    part = "prints" => Prints!StatTellsContent /\ Prints!RecordedHasSketch

\* A walk that nothing disturbed found the tree as it is, whichever listings it
\* reused (scancache).
QuietWalkIsExact == part = "walks" => Walks!QuietWalkIsExact

\* refuseUnconfirmedReveal: no request brings what is hidden into view, unless the
\* client confirmed it; a request that went by a listing which its rescan failed to
\* bring up to date (bestEffortRescanForPreflight) keeps what that listing has right.
NothingRevealed == [][part = "view" => View!RevealsNothing]_viewvars
=============================================================================
