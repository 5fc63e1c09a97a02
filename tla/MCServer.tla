------------------------------ MODULE MCServer ------------------------------
(***************************************************************************)
(* What a server does with the files it reads and writes, for TLC: the     *)
(* requests of a shelf (Shelf), one after another over several books and   *)
(* folders, or overlapping and failing over few of them; its log files     *)
(* (LogFiles); and a shelf that it reads over the network by WebDAV        *)
(* (DavFS) or from pCloud (PCloudTree).  A behaviour is of one of them,    *)
(* which `part` names; Shelf then keeps its first values, and the          *)
(* variables of the others are None.                                       *)
(***************************************************************************)
EXTENDS Shelf, TLC

CONSTANTS Left, Right, \* pairs of interchangeable values
          MaxUsed, \* bound: books, folders and names that overlapping requests use
          MaxCrossed, \* bound: books and folders while a check overlaps requests
          Writers, Configured, Windows, MaxDay, MaxLines,
          Callers, Secrets, MaxAttempts, MaxRedirects,
          Walkers, Names, FolderIds, MaxAge, Latency, MaxClock, MaxChanges, Root,
          n1, i1

ASSUME LogAssumption ==
    /\ Configured \in Nat /\ Windows \subseteq Nat /\ None \notin Nat \cup {"linked", "unlinked", "closed"}
    /\ MaxDay \in Nat \ {0} /\ MaxLines \in Nat

ASSUME DavAssumption == MaxAttempts \in Nat \ {0} /\ MaxRedirects \in Nat

\* None is no date, folder, node, tree or listing.
ASSUME PCloudAssumption ==
    LET Nodes == [id : FolderIds, at : Nat \cup {None}, full : BOOLEAN]
    IN  /\ MaxAge \in Nat /\ Latency \in Nat /\ Root \notin Names
        /\ None \notin Nat \cup FolderIds \cup Walkers \cup Nodes
        /\ None \notin [at : Nat, kids : [Names -> Nodes \cup {None}]]
        /\ None \notin [began : Nat, kids : [Names -> Nodes \cup {None}]]
        /\ None \notin [began : Nat, kids : [Names -> FolderIds \cup {None}]]
        /\ None \notin [began : Nat, full : BOOLEAN]

VARIABLES part,
          today, latest, files, acked, cur, open, at, date, saved, window, asked, used,
          accepted, store, credential, call, sends, steady,
          clock, folder, full, changed, changes, tree, mu, reply, walk

logvars == <<today, latest, files, acked, cur, open, at, date, saved, window, asked, used>>
davvars == <<accepted, store, credential, call, sends, steady>>
pcvars == <<clock, folder, full, changed, changes, tree, mu, reply, walk>>

Logs == INSTANCE LogFiles
Dav == INSTANCE DavFS
PCloud == INSTANCE PCloudTree

NoLogs ==
    /\ today = None /\ latest = None /\ files = None /\ acked = None /\ cur = None
    /\ open = None /\ at = None /\ date = None /\ saved = None /\ window = None
    /\ asked = None /\ used = None
NoDav ==
    /\ accepted = None /\ store = None /\ credential = None /\ call = None
    /\ sends = None /\ steady = None
NoPCloud ==
    /\ clock = None /\ folder = None /\ full = None /\ changed = None
    /\ changes = None /\ tree = None /\ mu = None /\ reply = None /\ walk = None

\* The bound on what overlapping requests use; the background check, which changes
\* nothing on disk, is left out.
Small ==
    LET Used(S) == Cardinality(S) <= MaxUsed
        Known == {p \in Paths : \/ books[p] # None
                               \/ \E i \in Ids : trash[i].home = p
                               \/ \E w \in Workers : op[w].path = p}
    IN  /\ At(Checker, "idle")
        /\ Used((born \cup {op[w].id : w \in Workers}) \ {None})
        /\ Used((dirs \cup cfolders \cup {op[w].dir : w \in Workers}) \ {<<>>})
        /\ Used({p[2] : p \in Known})

\* The bound on what there is, or what requests under way and restores will add, while
\* a background check runs and until the books that crossed it are found again.
Few ==
    LET Homes == {trash[i].home : i \in Ids} \ {None}
        Known == dirs \cup {op[w].dir : w \in Workers} \cup {p[1] : p \in Homes}
        Coming == {w \in Goroutines : op[w].kind \in {"new", "copy"} /\ ~At(w, "reopen")}
    IN  \/ At(Checker, "idle") /\ crossed = {}
        \/ Cardinality(Known) + Cardinality(born) + Cardinality(Coming) <= MaxCrossed

MCInit ==
    /\ part \in {"alone", "pair", "logs", "dav", "pcloud"}
    /\ Init
    /\ IF part = "logs" THEN Logs!LogInit ELSE NoLogs
    /\ IF part = "dav" THEN Dav!DavInit ELSE NoDav
    /\ IF part = "pcloud"
       THEN PCloud!PCInit /\ folder = [n \in Names |-> IF n = n1 THEN i1 ELSE None]
       ELSE NoPCloud

MCNext ==
    /\ UNCHANGED part
    /\ \/ /\ \/ part = "alone" /\ InTurn /\ Few'
             \/ part = "pair" /\ Next /\ Small'
          /\ UNCHANGED <<logvars, davvars, pcvars>>
       \/ part = "logs" /\ Logs!LogNext /\ UNCHANGED <<vars, davvars, pcvars>>
       \/ part = "dav" /\ Dav!DavNext /\ UNCHANGED <<vars, logvars, pcvars>>
       \/ part = "pcloud" /\ PCloud!PCNext /\ UNCHANGED <<vars, logvars, davvars>>

MCSpec == MCInit /\ [][MCNext]_<<part, vars, logvars, davvars, pcvars>>

Symmetry == Permutations(Left) \cup Permutations(Right) \cup Permutations(PackageNames) \cup Permutations(Goroutines)

\* A listing that no other request overlapped (listFoldersFromCache,
\* listBookListingsFromCache) shows the folders that there are, and every book
\* where it is, after any sequence of requests; a background check that overlapped
\* the change of a book's place (onlyRefreshBooksInCache) may leave that book out
\* until the next full scan.
ListingsExact == part = "alone" => FoldersListed /\ BooksListed

\* A published book that nobody removed for good is in exactly one place, in a
\* folder that exists or in the trash, whatever requests, failures and crashes
\* overlap (and the type invariant of Shelf).
KeepsBooks == part = "pair" => TypeOK /\ BooksConserved /\ PackagesInFolders

\* The lines written on a day that the retention has not passed are in the file of
\* that day, whichever logger rotates and however the clock moves, and the loggers go
\* by the retention that was saved last or, where it could not be read, by the
\* configured one (DailyFileWriter, applyLogRetention).
LogsFollowRetention == part = "logs" => Logs!KeepsRecent /\ Logs!NoReplacedWindow

\* A request ends in 401 only if the password changed while it was under way or the
\* secret store did not have the server's or did not answer it, and it is sent a bounded
\* number of times (davfs FS.do).
CredentialsFollow == part = "dav" => Dav!RefusedForACause /\ Dav!SendsAreBounded

\* Walks of a pCloud shelf that has been left alone long enough find what is there,
\* whichever cached listings they meet (pcloud FS).
QuietWalksAreExact == part = "pcloud" => PCloud!QuietWalksAreExact
=============================================================================
