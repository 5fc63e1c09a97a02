------------------------------- MODULE Offline -------------------------------
(***************************************************************************)
(* Offline copies of the books of a remote shelf (shelf/shelf_offline.go): *)
(* downloads, their removal, the routing of reads to the local copy, the   *)
(* snapshot a shelf without its source is listed from, and what a process  *)
(* that ends leaves for the next one.                                      *)
(*                                                                         *)
(* A package is two files, book.json (id, meta) and the text (of, text),   *)
(* each with the book and the version it was copied from; copyTree copies  *)
(* one after the other while the source may change.                        *)
(* What a listing is read from (an export, or a walk) is in RemoteListing: *)
(* here a refresh takes the tree as it is.  Whether the source answers is  *)
(* chosen at each read.                                                    *)
(***************************************************************************)
EXTENDS Integers

CONSTANTS Books, Paths,
          Calls,       \* DownloadBook and RemoveDownload requests in progress
          MaxVersion,  \* bound of the versions of a book at the source
          MaxEvents,   \* bound of the changes of the source, failures and restarts
          None

VARIABLES remote,      \* the package at each path of the source
          cache,       \* bookCache.cache: path and version of each listed book
          refresh,     \* where refreshRemoteBookCache is
          downloads, byPath,   \* offlineStore, in memory
          local,       \* the packages in the offline directory
          downloadsFile, snapshotFile,
          downloadMu,  \* the call that holds it
          dl,          \* the calls
          events,      \* how many there were
          torn         \* paths whose copy replaceDirKeepingPrevious moved aside and left there

ovars == <<remote, cache, refresh, downloads, byPath, local,
           downloadsFile, snapshotFile, downloadMu, dl, events, torn>>
listing == <<cache, refresh>>
store == <<downloads, byPath>>
disk == <<local, downloadsFile, snapshotFile>>

Unlisted == [b \in Books |-> None]
NoCall == [pc |-> "idle", book |-> None, path |-> None, version |-> 0,
           staging |-> None, previous |-> None, old |-> None]

TypeOK ==
    LET Package == [id : Books, meta : 1..MaxVersion, of : Books, text : 1..MaxVersion]
        Record == [path : Paths, version : 1..MaxVersion]
    IN  /\ remote \in [Paths -> Package \cup {None}]
        /\ local \in [Paths -> Package \cup {None}]
        /\ cache \in [Books -> Record \cup {None}]
        /\ downloads \in [Books -> Record \cup {None}]
        /\ byPath \in [Paths -> Books \cup {None}]
        /\ downloadsFile \in [Books -> Record \cup {None}]
        /\ torn \subseteq Paths

Init ==
    /\ \E place \in [Books -> Paths] :
          /\ \A a, b \in Books : place[a] = place[b] => a = b
          /\ remote = [p \in Paths |->
                IF \E b \in Books : place[b] = p
                  THEN LET b == CHOOSE b \in Books : place[b] = p
                       IN  [id |-> b, meta |-> 1, of |-> b, text |-> 1]
                  ELSE None]
    /\ cache = Unlisted
    /\ refresh = "start"
    /\ downloads = Unlisted
    /\ byPath = [p \in Paths |-> None]
    /\ local = [p \in Paths |-> None]
    /\ downloadsFile = Unlisted
    /\ snapshotFile = None
    /\ downloadMu = None
    /\ dl = [c \in Calls |-> NoCall]
    /\ events = 0
    /\ torn = {}

-----------------------------------------------------------------------------
(* The source.                                                             *)

Event == events < MaxEvents /\ events' = events + 1

RemoteEdit(p) ==
    /\ remote[p] # None
    /\ remote[p].meta < MaxVersion
    /\ remote' = [remote EXCEPT ![p] = [@ EXCEPT !.meta = remote[p].meta + 1,
                                                !.text = remote[p].text + 1]]
    /\ Event
    /\ UNCHANGED <<listing, store, disk, downloadMu, dl, torn>>

RemoteMove(p, q) ==
    /\ remote[p] # None
    /\ remote[q] = None
    /\ remote' = [remote EXCEPT ![p] = None, ![q] = remote[p]]
    /\ Event
    /\ UNCHANGED <<listing, store, disk, downloadMu, dl, torn>>

RemoteDelete(p) ==
    /\ remote[p] # None
    /\ remote' = [remote EXCEPT ![p] = None]
    /\ Event
    /\ UNCHANGED <<listing, store, disk, downloadMu, dl, torn>>

-----------------------------------------------------------------------------
(* refreshRemoteBookCache.                                                 *)

ListingOf(tree) ==
    [b \in Books |->
        IF \E p \in Paths : tree[p] # None /\ tree[p].id = b
          THEN LET p == CHOOSE p \in Paths : tree[p] # None /\ tree[p].id = b
               IN  [path |-> p, version |-> tree[p].meta]
          ELSE None]

\* The source is read and the cache replaced.
List ==
    /\ refresh \in {"start", "idle"}
    /\ cache' = ListingOf(remote)
    /\ refresh' = "reconcile"
    /\ UNCHANGED <<remote, store, disk, downloadMu, dl, events, torn>>

\* listFromOfflineSnapshot: only a shelf that has listed nothing yet uses the snapshot.
ListFromSnapshot ==
    /\ refresh = "start"
    /\ snapshotFile # None
    /\ cache' = snapshotFile
    /\ refresh' = "reconcile"
    /\ UNCHANGED <<remote, store, disk, downloadMu, dl, events, torn>>

\* A record serves its path unless the listing has the book elsewhere, or another book there.
Routable(b, record) ==
    /\ record # None
    /\ cache[b] # None => cache[b].path = record.path
    /\ \A other \in Books \ {b} : cache[other] # None => cache[other].path # record.path

\* byPath after a loop over downloads: of two records with one path, either may win.
Routes(records, served) ==
    {r \in [Paths -> Books \cup {None}] :
        \A p \in Paths :
            LET at == {b \in served : records[b] # None /\ records[b].path = p}
            IN  IF at = {} THEN r[p] = None ELSE r[p] \in at}

\* reconcileDownloads
Reconcile ==
    /\ refresh = "reconcile"
    /\ byPath' \in Routes(downloads, {b \in Books : Routable(b, downloads[b])})
    /\ refresh' = "save"
    /\ UNCHANGED <<remote, cache, downloads, disk, downloadMu, dl, events, torn>>

\* saveOfflineSnapshot; a failed write is only logged.
SaveSnapshot ==
    /\ refresh = "save"
    /\ snapshotFile' \in {cache, snapshotFile}
    /\ refresh' = "idle"
    /\ UNCHANGED <<remote, cache, store, local, downloadsFile, downloadMu, dl, events, torn>>

-----------------------------------------------------------------------------
(* DownloadBook.                                                           *)

Becomes(c, call) == dl' = [dl EXCEPT ![c] = call]
Goto(c, pc) == Becomes(c, [dl[c] EXCEPT !.pc = pc])

\* The handler, and the record that DownloadBook takes from the cache before it waits.
Download(c, b) ==
    /\ dl[c].pc = "idle"
    /\ refresh # "start"
    /\ cache[b] # None
    /\ Becomes(c, [NoCall EXCEPT !.pc = "lock", !.book = b,
                                 !.path = cache[b].path, !.version = cache[b].version])
    /\ UNCHANGED <<remote, listing, store, disk, downloadMu, events, torn>>

Lock(c) ==
    /\ dl[c].pc \in {"lock", "remove"}
    /\ downloadMu = None
    /\ downloadMu' = c
    /\ Goto(c, IF dl[c].pc = "lock" THEN "copy" ELSE "forget")
    /\ UNCHANGED <<remote, listing, store, disk, events, torn>>

Finish(c) ==
    /\ Becomes(c, NoCall)
    /\ downloadMu' = None

WithText(package, source) == [package EXCEPT !.of = source.of, !.text = source.text]

\* Fault: the version is taken when the copy starts to be made known.
CopyRestDated(c) ==
    LET p == dl[c].path IN
    /\ dl[c].pc = "rest"
    /\ remote[p] # None
    /\ Becomes(c, [dl[c] EXCEPT !.staging = WithText(dl[c].staging, remote[p]), !.pc = "retire",
                                !.version = IF cache[dl[c].book] # None
                                              THEN cache[dl[c].book].version ELSE @])
    /\ UNCHANGED <<remote, listing, store, disk, downloadMu, events, torn>>

\* copyTree: the first file ...
CopyFirst(c) ==
    LET p == dl[c].path IN
    /\ dl[c].pc = "copy"
    /\ remote[p] # None
    /\ Becomes(c, [dl[c] EXCEPT !.staging = remote[p], !.pc = "rest"])
    /\ UNCHANGED <<remote, listing, store, disk, downloadMu, events, torn>>

\* ... and the second.
CopyRest(c) ==
    LET p == dl[c].path IN
    /\ dl[c].pc = "rest"
    /\ remote[p] # None
    /\ Becomes(c, [dl[c] EXCEPT !.staging = WithText(dl[c].staging, remote[p]), !.pc = "retire"])
    /\ UNCHANGED <<remote, listing, store, disk, downloadMu, events, torn>>

\* Copying or MkdirAll fails: the staging folder is removed.
CopyFails(c) ==
    /\ dl[c].pc \in {"copy", "rest", "retire"}
    /\ Finish(c)
    /\ Event
    /\ UNCHANGED <<remote, listing, store, disk, torn>>

\* replaceDirKeepingPrevious moves an existing copy aside ...
Retire(c) ==
    LET p == dl[c].path IN
    /\ dl[c].pc = "retire"
    /\ Becomes(c, [dl[c] EXCEPT !.previous = local[p], !.pc = "swap"])
    /\ local' = [local EXCEPT ![p] = None]
    /\ UNCHANGED <<remote, listing, store, downloadsFile, snapshotFile, downloadMu, events, torn>>

\* ... and renames the new one into its place ...
Swap(c) ==
    /\ dl[c].pc = "swap"
    /\ local' = [local EXCEPT ![dl[c].path] = dl[c].staging]
    /\ torn' = torn \ {dl[c].path}
    /\ Goto(c, "commit")
    /\ UNCHANGED <<remote, listing, store, downloadsFile, snapshotFile, downloadMu, events>>

\* ... or, when that fails, the old one back; an error of this rename is dropped, and the
\* old copy then stays aside.
SwapFails(c) ==
    /\ dl[c].pc = "swap"
    /\ \/ /\ local' = [local EXCEPT ![dl[c].path] = dl[c].previous]
          /\ UNCHANGED torn
       \/ /\ dl[c].previous # None
          /\ torn' = torn \cup {dl[c].path}
          /\ UNCHANGED local
    /\ Finish(c)
    /\ Event
    /\ UNCHANGED <<remote, listing, store, downloadsFile, snapshotFile>>

\* The record replaces the book's old one and every other one with its path.
Commit(c) ==
    LET b == dl[c].book
        p == dl[c].path
        old == downloads[b]
        records == [x \in Books |->
                      IF x = b THEN [path |-> p, version |-> dl[c].version]
                      ELSE IF downloads[x] # None /\ downloads[x].path = p THEN None
                      ELSE downloads[x]]
        unused == old # None /\ old.path # p
                    /\ \A x \in Books : records[x] # None => records[x].path # old.path
    IN  /\ dl[c].pc = "commit"
        /\ downloads' = records
        /\ byPath' = [q \in Paths |->
                        IF q = p THEN b
                        ELSE IF old # None /\ q = old.path /\ byPath[q] = b THEN None
                        ELSE byPath[q]]
        /\ Becomes(c, [dl[c] EXCEPT !.pc = "write", !.old = IF unused THEN old.path ELSE None])
        /\ UNCHANGED <<remote, listing, disk, downloadMu, events, torn>>

\* writeDownloadsUnderDownloadMu
WriteDownloads(c) ==
    /\ dl[c].pc = "write"
    /\ downloadsFile' = downloads
    /\ Goto(c, "clean")
    /\ UNCHANGED <<remote, listing, store, local, snapshotFile, downloadMu, events, torn>>

\* The call returns the error; what it has done in memory stays.
WriteFails(c) ==
    /\ dl[c].pc = "write"
    /\ Finish(c)
    /\ Event
    /\ UNCHANGED <<remote, listing, store, disk, torn>>

\* RemoveAll of the package that no record needs any more.
Clean(c) ==
    /\ dl[c].pc = "clean"
    /\ local' = IF dl[c].old = None THEN local ELSE [local EXCEPT ![dl[c].old] = None]
    /\ Finish(c)
    /\ UNCHANGED <<remote, listing, store, downloadsFile, snapshotFile, events, torn>>

-----------------------------------------------------------------------------
(* RemoveDownload.                                                         *)

Remove(c, b) ==
    /\ dl[c].pc = "idle"
    /\ Becomes(c, [NoCall EXCEPT !.pc = "remove", !.book = b])
    /\ UNCHANGED <<remote, listing, store, disk, downloadMu, events, torn>>

Forget(c) ==
    LET b == dl[c].book
        record == downloads[b]
        shared == \E x \in Books \ {b} : downloads[x] # None /\ downloads[x].path = record.path
    IN  /\ dl[c].pc = "forget" /\ record # None
        /\ downloads' = [downloads EXCEPT ![b] = None]
        /\ byPath' = IF byPath[record.path] = b THEN [byPath EXCEPT ![record.path] = None]
                     ELSE byPath
        /\ Becomes(c, [dl[c] EXCEPT !.pc = "write", !.old = IF shared THEN None ELSE record.path])
        /\ UNCHANGED <<remote, listing, disk, downloadMu, events, torn>>

NothingToForget(c) ==
    /\ dl[c].pc = "forget" /\ downloads[dl[c].book] = None
    /\ Finish(c)
    /\ UNCHANGED <<remote, listing, store, disk, events, torn>>

-----------------------------------------------------------------------------
\* The process ends, and openOfflineStore of the next one wipes the staging folder and
\* loads downloads.json.
Restart ==
    /\ torn' = torn \cup {p \in Paths : \E c \in Calls : dl[c].pc = "swap" /\ dl[c].path = p
                                                          /\ dl[c].previous # None}
    /\ cache' = Unlisted
    /\ refresh' = "start"
    /\ downloads' = downloadsFile
    /\ byPath' \in Routes(downloadsFile, Books)
    /\ downloadMu' = None
    /\ dl' = [c \in Calls |-> NoCall]
    /\ Event
    /\ UNCHANGED <<remote, disk>>

Next ==
    \/ \E p \in Paths : RemoteEdit(p) \/ RemoteDelete(p) \/ \E q \in Paths : RemoteMove(p, q)
    \/ List \/ ListFromSnapshot \/ Reconcile \/ SaveSnapshot
    \/ \E c \in Calls :
          \/ \E b \in Books : Download(c, b) \/ Remove(c, b)
          \/ Lock(c) \/ CopyFirst(c) \/ CopyRest(c) \/ CopyFails(c)
          \/ Retire(c) \/ Swap(c) \/ SwapFails(c) \/ Commit(c)
          \/ WriteDownloads(c) \/ WriteFails(c) \/ Clean(c)
          \/ Forget(c) \/ NothingToForget(c)
    \/ Restart

Spec == Init /\ [][Next]_ovars

-----------------------------------------------------------------------------
\* downloadFor
State(b) ==
    IF downloads[b] = None THEN "not_downloaded"
    ELSE IF cache[b] # None /\ cache[b] # downloads[b] THEN "update_available"
    ELSE "downloaded"

\* offlineFS: what opening the package at a path finds, in the offline directory or at the
\* source.
Open(p) == IF byPath[p] # None THEN local[p] ELSE remote[p]

Quiet == refresh = "idle" /\ downloadMu = None

\* A book that is shown as downloaded, by a listing that agrees with the source, has the
\* source's contents in its copy: no edit that overlapped the copying is missed for good,
\* whatever was interrupted (DownloadBook records the version it listed before it copied).
\* A copy whose files are of two books, because another book was at the path while it was
\* made, is not told apart: RoutedExists is all that is said of it.
CurrentCopies ==
    cache = ListingOf(remote) =>
        \A b \in Books :
            LET r == downloads[b] IN
            (State(b) = "downloaded" /\ cache[b] # None
               /\ local[r.path] # None /\ local[r.path].id = b /\ local[r.path].of = b)
                => local[r.path] = remote[r.path]

\* A path whose reads go to the offline directory has a package there, unless a replacement
\* of that very copy moved it aside and neither rename brought a package back: the process
\* ended between them, or the second rename and its roll-back both failed (route,
\* replaceDirKeepingPrevious).  The next download of the path that succeeds mends it.
RoutedExists ==
    Quiet => \A p \in Paths \ torn : byPath[p] # None => Open(p) # None
=============================================================================
