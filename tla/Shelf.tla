-------------------------------- MODULE Shelf --------------------------------
(***************************************************************************)
(* One open shelf (shelf/shelf*.go, shelf/trash.go): the packages and      *)
(* folders on disk, the trash, the in-memory bookCache, the requests that  *)
(* change them and the scans that refresh the cache.                       *)
(*                                                                         *)
(* Every HTTP request runs in a goroutine of its own.  The shelf lock does *)
(* not order goroutines of one process (module ShelfLock), so the requests *)
(* below interleave freely between their disk operations; bookCache's own  *)
(* mutex makes each cache access one step.  `Outside` is whatever else     *)
(* touches the directory: a file manager, a sync tool, another instance.   *)
(***************************************************************************)
EXTENDS Integers, Sequences, FiniteSets

CONSTANTS Ids,          \* book IDs newBookID can draw
          FolderNames,  \* names a folder may have
          PackageNames, \* names of .bookpkg directories
          Goroutines,   \* requests in progress at a time
          Checker,      \* the background per-book check's goroutine
          None,
          MaxDepth,     \* bound: nesting of folders
          MaxEdits,     \* bound: rewrites of one book.json
          Outside,      \* does anything else touch the directory?
          BookCheck     \* may book_check_interval elapse?

Folders == UNION {[1..n -> FolderNames] : n \in 0..MaxDepth}
Paths == Folders \X PackageNames
Workers == Goroutines \cup {Checker}
Entries == [path : Paths, id : Ids, version : 0..MaxEdits]

ASSUME ShelfAssumption ==
    /\ None \notin Ids \cup Paths \cup Entries
    /\ Checker \notin Goroutines
    /\ MaxDepth \in Nat /\ MaxEdits \in Nat
    /\ Outside \in BOOLEAN /\ BookCheck \in BOOLEAN

VARIABLES books,    \* books/: the ID in the package at each path, or None
          dirs,     \* books/: the folders there
          trash,    \* trash/books/<id>.bookpkg: the package and trash.json
          version,  \* size and mtime of each book's book.json
          born,     \* IDs drawn for a book that was published
          gone,     \* books removed for good
          cache,    \* bookCache.cache
          cfolders, \* bookCache.folders
          due,      \* bookCache.treeDirty, or no full scan yet
          op,       \* what each goroutine is doing
          crossed   \* history: the books whose package changed place during a
                    \* background check, until a full scan that no check overlaps

disk == <<books, dirs, trash, version, born, gone>>
mem == <<cache, cfolders, due>>
vars == <<disk, mem, op, crossed>>

NoEntries == [i \in Ids |-> None]
EmptySlot == [book |-> None, home |-> None]

Idle == [pc |-> "idle", kind |-> None, id |-> None, dir |-> <<>>, path |-> None,
         alone |-> TRUE, found |-> NoEntries, drop |-> {}, todo |-> {}, seen |-> {}]

Prefixes(f) == {SubSeq(f, 1, n) : n \in 0..Len(f)}
Under(f, top) == top \in Prefixes(f)
Children(f) == {d \in dirs : d # <<>> /\ SubSeq(d, 1, Len(d) - 1) = f}

Init ==
    /\ books = [p \in Paths |-> None]
    /\ dirs = {<<>>}
    /\ trash = [i \in Ids |-> EmptySlot]
    /\ version = [i \in Ids |-> 0]
    /\ born = {}
    /\ gone = {}
    /\ cache = NoEntries
    /\ cfolders = {}
    /\ due = TRUE
    /\ op = [w \in Workers |-> Idle]
    /\ crossed = {}

-----------------------------------------------------------------------------
\* bookpkg.Open of a package that is there; folders and path come with it.
EntryAt(p) == [path |-> p, id |-> books[p], version |-> version[books[p]]]

\* Book.IsStale: the stat of book.json at the remembered path is another one.
IsStale(e) == books[e.path] # e.id \/ version[e.id] # e.version

\* Where the book is.
Shelved(i) == {p \in Paths : books[p] = i}

\* The folder exists and the name in it is free.
Free(p) == p[1] \in dirs /\ books[p] = None

At(w, pc) == op[w].pc = pc
Goto(w, pc) == op' = [op EXCEPT ![w].pc = pc]
Return(w) == op' = [op EXCEPT ![w] = Idle]

\* Where a request continues once it has found its book.
AfterLookup(kind) == CASE kind = "move"  -> "mkdir"
                       [] kind = "copy"  -> "copytree"
                       [] kind = "trash" -> "totrash"
                       [] kind = "get"   -> "answer"

FirstStep(kind) == CASE kind \in {"move", "copy", "trash", "get"} -> "lookup"
                     [] kind = "new"     -> "decide"
                     [] kind = "list"    -> "schedule"
                     [] kind = "restore" -> "find"
                     [] kind = "purge"   -> "purge"
                     [] kind = "mkdir"   -> "mkdir"
                     [] kind = "rmdir"   -> "rmdir"
                     [] kind = "mvdir"   -> "mvdir"

\* A request arrives.  `alone` is history: no other request overlapped it.
Begin(w, kind, id, dir) ==
    /\ At(w, "idle")
    /\ op' = [v \in Workers |->
                IF v = w THEN [Idle EXCEPT !.pc = FirstStep(kind), !.kind = kind,
                                    !.id = id, !.dir = dir,
                                    !.alone = \A g \in Goroutines : At(g, "idle")]
                ELSE IF v = Checker THEN op[v]
                ELSE [op[v] EXCEPT !.alone = At(v, "idle")]]
    /\ UNCHANGED <<disk, mem>>

-----------------------------------------------------------------------------
(* Reading the cache, and refreshing it.                                   *)

\* getUpdatedBookFromBookID, first half: a fresh entry is returned; a stale
\* one is replaced by whatever package is at its path; with none there the
\* entry goes and the cache is refreshed.
Lookup(w) ==
    LET i == op[w].id
        e == cache[i]
    IN
    /\ At(w, "lookup")
    /\ \/ /\ e # None /\ ~IsStale(e)
          /\ op' = [op EXCEPT ![w].pc = AfterLookup(op[w].kind), ![w].path = e.path]
          /\ UNCHANGED cache
       \/ /\ e # None /\ IsStale(e) /\ books[e.path] # None
          /\ cache' = [cache EXCEPT ![i] = EntryAt(e.path)]
          /\ op' = [op EXCEPT ![w].pc = AfterLookup(op[w].kind), ![w].path = e.path]
       \/ /\ e # None => IsStale(e) /\ books[e.path] = None
          /\ cache' = [cache EXCEPT ![i] = None]
          /\ Goto(w, "decide")
    /\ UNCHANGED <<disk, cfolders, due>>

\* refreshBookCacheIfNeeded(false): a full scan when the tree is dirty or
\* scan_interval has elapsed, else the per-book check.
Decide(w) ==
    /\ At(w, "decide")
    /\ \/ op' = [op EXCEPT ![w].pc = "walk", ![w].todo = {<<>>}]
       \/ ~due /\ Goto(w, "snapshot")
    /\ UNCHANGED <<disk, mem>>

\* scheduleBookCacheRefreshIfNeeded: the same choice for a listing, except that
\* the per-book check is left to a background goroutine, one at a time.
Schedule(w) ==
    /\ At(w, "schedule")
    /\ \/ op' = [op EXCEPT ![w].pc = "walk", ![w].todo = {<<>>}]
       \/ ~due /\ Goto(w, "answer")
       \/ /\ ~due /\ BookCheck /\ At(Checker, "idle")
          /\ op' = [op EXCEPT ![w].pc = "answer",
                              ![Checker] = [Idle EXCEPT !.pc = "snapshot", !.kind = "check"]]
    /\ UNCHANGED <<disk, mem>>

\* scanToBookCache: iterateShelfTree visits one folder after another, without
\* the cache's mutex, and remembers the last package it saw of each ID ...
Walk(w, f) ==
    /\ At(w, "walk")
    /\ f \in op[w].todo
    /\ LET here == {p \in Paths : p[1] = f /\ books[p] # None}
           found == [i \in Ids |->
                       IF \E p \in here : books[p] = i
                       THEN EntryAt(CHOOSE p \in here : books[p] = i)
                       ELSE op[w].found[i]]
       IN  op' = [op EXCEPT ![w].todo = (@ \ {f}) \cup Children(f),
                            ![w].seen = IF f \in dirs THEN @ \cup {f} ELSE @,
                            ![w].found = IF f \in dirs THEN found ELSE @]
    /\ UNCHANGED <<disk, mem>>

\* Fault: merges what the scan found into the cache instead of replacing it.
PublishMerging(w) ==
    /\ At(w, "walk")
    /\ op[w].todo = {}
    /\ cache' = [i \in Ids |-> IF op[w].found[i] # None THEN op[w].found[i] ELSE cache[i]]
    /\ cfolders' = op[w].seen
    /\ due' = FALSE
    /\ op' = [op EXCEPT ![w].pc = IF op[w].kind = "list" THEN "answer" ELSE "again",
                        ![w].found = NoEntries, ![w].seen = {}]
    /\ UNCHANGED disk

\* ... and then replaces the whole cache and calls the tree clean.
Publish(w) ==
    /\ At(w, "walk")
    /\ op[w].todo = {}
    /\ cache' = op[w].found
    /\ cfolders' = op[w].seen
    /\ due' = FALSE
    /\ op' = [op EXCEPT ![w].pc = IF op[w].kind = "list" THEN "answer" ELSE "again",
                        ![w].found = NoEntries, ![w].seen = {}]
    /\ UNCHANGED disk

\* onlyRefreshBooksInCache: a copy of the cache is taken, ...
Snapshot(w) ==
    /\ At(w, "snapshot")
    /\ op' = [op EXCEPT ![w].pc = "check", ![w].found = cache]
    /\ UNCHANGED <<disk, mem>>

\* ... its stale books are reopened (a path that is empty or holds another
\* book now counts as removed), ...
Check(w) ==
    LET Known(i) == op[w].found[i] # None
        Stale(i) == Known(i) /\ IsStale(op[w].found[i])
        There(i) == books[op[w].found[i].path] = op[w].found[i].id
    IN
    /\ At(w, "check")
    /\ op' = [op EXCEPT ![w].pc = "apply",
                 ![w].drop = {i \in Ids : Stale(i) /\ ~There(i)},
                 ![w].found = [i \in Ids |-> IF Stale(i) /\ There(i)
                                             THEN EntryAt(@[i].path) ELSE None]]
    /\ UNCHANGED <<disk, mem>>

\* ... and the verdicts are applied to whatever the cache holds by then.
Apply(w) ==
    /\ At(w, "apply")
    /\ cache' = [i \in Ids |-> IF i \in op[w].drop THEN None
                               ELSE IF op[w].found[i] # None THEN op[w].found[i]
                               ELSE cache[i]]
    /\ op' = [op EXCEPT ![w] = IF w = Checker THEN Idle
                               ELSE [@ EXCEPT !.pc = "again", !.drop = {},
                                              !.found = NoEntries]]
    /\ UNCHANGED <<disk, cfolders, due>>

\* getUpdatedBookFromBookID, second half.  For a new book not finding the ID
\* drawn is the good case (drawUnusedBookID).
Again(w) ==
    /\ At(w, "again")
    /\ LET e == IF op[w].kind = "new" THEN None ELSE cache[op[w].id]
       IN  op' = [op EXCEPT ![w] =
                    IF @.kind = "new" THEN [@ EXCEPT !.pc = "mkdir"]
                    ELSE IF e # None
                    THEN [@ EXCEPT !.pc = AfterLookup(op[w].kind), !.path = e.path]
                    ELSE Idle]
    /\ UNCHANGED <<disk, mem>>

\* The response of a listing or of GetBook is made from the cache.
Answer(w) ==
    /\ At(w, "answer")
    /\ Return(w)
    /\ UNCHANGED <<disk, mem>>

-----------------------------------------------------------------------------
(* Changing the shelf.                                                     *)

\* MkdirAll of the target folder and addFolderToBookCache.
Mkdir(w) ==
    /\ At(w, "mkdir")
    /\ dirs' = dirs \cup Prefixes(op[w].dir)
    /\ cfolders' = cfolders \cup Prefixes(op[w].dir)
    /\ IF op[w].kind = "mkdir" THEN Return(w) ELSE Goto(w, "rename")
    /\ UNCHANGED <<books, trash, version, born, gone, cache, due>>

\* Fault: the package is copied to its new place and stays at the old one.
RenameMovedCopying(w) ==
    LET from == op[w].path
        to == <<op[w].dir, from[2]>>
    IN
    /\ At(w, "rename") /\ op[w].kind = "move"
    /\ IF books[from] # None /\ (Free(to) \/ to = from)
       THEN /\ books' = [books EXCEPT ![to] = books[from]]
            /\ op' = [op EXCEPT ![w].pc = "reopen", ![w].path = to]
       ELSE UNCHANGED books /\ Return(w)
    /\ UNCHANGED <<dirs, trash, version, born, gone, mem>>

\* MoveBook: the package keeps its name, and Rename fails if that is taken or
\* the package is no longer where it was found.
RenameMoved(w) ==
    LET from == op[w].path
        to == <<op[w].dir, from[2]>>
    IN
    /\ At(w, "rename") /\ op[w].kind = "move"
    /\ IF books[from] # None /\ (Free(to) \/ to = from)
       THEN /\ books' = [books EXCEPT ![from] = None, ![to] = books[from]]
            /\ op' = [op EXCEPT ![w].pc = "reopen", ![w].path = to]
       ELSE UNCHANGED books /\ Return(w)
    /\ UNCHANGED <<dirs, trash, version, born, gone, mem>>

\* publishBookCopy stages a copy of the package, and goes on as a new book does.
CopyTree(w) ==
    /\ At(w, "copytree")
    /\ op' = [op EXCEPT ![w] = IF books[@.path] = None THEN Idle
                               ELSE [@ EXCEPT !.kind = "new", !.pc = "decide",
                                              !.id = None, !.path = None]]
    /\ UNCHANGED <<disk, mem>>

\* NewBookWith and publishBookCopy: the staged package, under a fresh ID, takes
\* a free name in the folder.
RenameStaged(w, i, name) ==
    LET to == <<op[w].dir, name>> IN
    /\ At(w, "rename") /\ op[w].kind = "new"
    /\ i \notin born
    /\ Free(to)
    /\ books' = [books EXCEPT ![to] = i]
    /\ born' = born \cup {i}
    /\ op' = [op EXCEPT ![w].pc = "reopen", ![w].path = to]
    /\ UNCHANGED <<dirs, trash, version, gone, mem>>

\* RestoreTrashedBook finds the package and where it came from; without a
\* trash.json it goes to the top level.
Find(w) ==
    LET slot == trash[op[w].id] IN
    /\ At(w, "find")
    /\ IF slot.book # None
       THEN op' = [op EXCEPT ![w].pc = "mkdir", ![w].path = slot.home,
                       ![w].dir = IF slot.home = None THEN <<>> ELSE slot.home[1]]
       ELSE Return(w)
    /\ UNCHANGED <<disk, mem>>

\* resolveBookPathCollision keeps the old name if it can; then the package is
\* renamed back and its trash.json removed.
RenameRestored(w, name) ==
    LET i == op[w].id
        to == <<op[w].dir, name>>
        old == IF op[w].path = None THEN None ELSE <<op[w].dir, op[w].path[2]>>
    IN
    /\ At(w, "rename") /\ op[w].kind = "restore"
    /\ trash[i].book # None
    /\ Free(to)
    /\ old # None /\ Free(old) => to = old
    /\ books' = [books EXCEPT ![to] = trash[i].book]
    /\ trash' = [trash EXCEPT ![i] = EmptySlot]
    /\ op' = [op EXCEPT ![w].pc = "reopen", ![w].path = to]
    /\ UNCHANGED <<dirs, version, born, gone, mem>>

\* Fault: updateBookCacheEntry is not called.
ReopenOnly(w) ==
    /\ At(w, "reopen")
    /\ Return(w)
    /\ UNCHANGED <<disk, mem>>

\* The package at its new path is opened and updateBookCacheEntry records it
\* under the ID found there.
Reopen(w) ==
    LET p == op[w].path IN
    /\ At(w, "reopen")
    /\ cache' = IF books[p] = None THEN cache
                ELSE [cache EXCEPT ![books[p]] = EntryAt(p)]
    /\ Return(w)
    /\ UNCHANGED <<disk, cfolders, due>>

\* MoveBookToTrash: refused if the trash already has the ID, else renamed ...
ToTrash(w) ==
    LET i == op[w].id
        p == op[w].path
    IN
    /\ At(w, "totrash")
    /\ IF trash[i].book = None /\ books[p] # None
       THEN /\ trash' = [trash EXCEPT ![i] = [book |-> books[p], home |-> None]]
            /\ books' = [books EXCEPT ![p] = None]
            /\ Goto(w, "meta")
       ELSE UNCHANGED <<books, trash>> /\ Return(w)
    /\ UNCHANGED <<dirs, version, born, gone, mem>>

\* ... then trash.json is written, unless the package is already gone again ...
WriteTrashMeta(w) ==
    LET i == op[w].id IN
    /\ At(w, "meta")
    /\ IF trash[i].book # None
       THEN trash' = [trash EXCEPT ![i].home = op[w].path] /\ Goto(w, "uncache")
       ELSE UNCHANGED trash /\ Return(w)
    /\ UNCHANGED <<books, dirs, version, born, gone, mem>>

\* ... (a failed write renames the package back, if its place is still free) ...
UndoTrash(w) ==
    LET i == op[w].id
        p == op[w].path
    IN
    /\ At(w, "meta")
    /\ IF trash[i].book # None /\ Free(p)
       THEN /\ books' = [books EXCEPT ![p] = trash[i].book]
            /\ trash' = [trash EXCEPT ![i] = EmptySlot]
       ELSE UNCHANGED <<books, trash>>
    /\ Return(w)
    /\ UNCHANGED <<dirs, version, born, gone, mem>>

\* ... and deleteBookCacheEntry forgets the ID asked for.
Uncache(w) ==
    /\ At(w, "uncache")
    /\ cache' = [cache EXCEPT ![op[w].id] = None]
    /\ Return(w)
    /\ UNCHANGED <<disk, cfolders, due>>

\* DeleteTrashedBook.
Purge(w) ==
    LET i == op[w].id IN
    /\ At(w, "purge")
    /\ IF trash[i].book # None
       THEN /\ gone' = gone \cup {trash[i].book}
            /\ trash' = [trash EXCEPT ![i] = EmptySlot]
       ELSE UNCHANGED <<gone, trash>>
    /\ Return(w)
    /\ UNCHANGED <<books, dirs, version, born, mem>>

Empty(f) == Children(f) = {} /\ \A n \in PackageNames : books[<<f, n>>] = None

\* deleteFolder: an empty folder is removed from disk ...
Rmdir(w) ==
    LET f == op[w].dir IN
    /\ At(w, "rmdir")
    /\ IF f \in dirs /\ f # <<>> /\ Empty(f)
       THEN dirs' = dirs \ {f} /\ Goto(w, "forget")
       ELSE UNCHANGED dirs /\ Return(w)
    /\ UNCHANGED <<books, trash, version, born, gone, mem>>

\* ... and then from the cache.
Forget(w) ==
    /\ At(w, "forget")
    /\ cfolders' = cfolders \ {op[w].dir}
    /\ Return(w)
    /\ UNCHANGED <<disk, cache, due>>

Reroot(f, from, to) == to \o SubSeq(f, Len(from) + 1, Len(f))

\* RenameFolder and MoveFolder: the folder and all below it change place ...
Mvdir(w, to) ==
    LET from == op[w].dir
        moved == {d \in dirs : Under(d, from)}
    IN
    /\ At(w, "mvdir")
    /\ IF /\ from \in dirs /\ from # <<>> /\ to # <<>> /\ to \notin dirs
          /\ ~Under(to, from) /\ SubSeq(to, 1, Len(to) - 1) \in dirs
          /\ \A d \in moved : Reroot(d, from, to) \in Folders
       THEN /\ dirs' = (dirs \ moved) \cup {Reroot(d, from, to) : d \in moved}
            /\ books' = [p \in Paths |->
                 IF Under(p[1], to) /\ Reroot(p[1], to, from) \in Folders
                 THEN books[<<Reroot(p[1], to, from), p[2]>>]
                 ELSE IF Under(p[1], from) THEN None ELSE books[p]]
            /\ Goto(w, "dirty")
       ELSE UNCHANGED <<dirs, books>> /\ Return(w)
    /\ UNCHANGED <<trash, version, born, gone, mem>>

\* ... and markBookCacheTreeDirty asks for a full scan.
MarkDirty(w) ==
    /\ At(w, "dirty")
    /\ due' = TRUE
    /\ Return(w)
    /\ UNCHANGED <<disk, cache, cfolders>>

\* A disk operation of the request fails: it stops with what it has done.
Fail(w) ==
    /\ op[w].pc \in {"copytree", "mkdir", "rename", "reopen"}
    /\ Return(w)
    /\ UNCHANGED <<disk, mem>>

\* The rename of a staged or trashed package fails: what it needs is gone, or a
\* name found free was taken first, or the model has no ID or name left.
NoRoom(w) ==
    /\ At(w, "rename") /\ op[w].kind \in {"new", "restore"}
    /\ \/ op[w].dir \notin dirs
       \/ \A n \in PackageNames : ~Free(<<op[w].dir, n>>)
       \/ op[w].kind = "new" /\ born = Ids
       \/ op[w].kind = "restore" /\ trash[op[w].id].book = None
       \/ ~op[w].alone
    /\ Return(w)
    /\ UNCHANGED <<disk, mem>>

-----------------------------------------------------------------------------
\* The process is killed and started again: the cache is rebuilt from disk.
Crash ==
    /\ op' = [w \in Workers |-> Idle]
    /\ cache' = NoEntries /\ cfolders' = {} /\ due' = TRUE
    /\ UNCHANGED disk

\* A file manager or a sync tool moves a package, adds one, deletes one, or
\* rewrites a book.json; it makes no second package with the same ID.
OutsideMove(p, q) ==
    /\ books[p] # None /\ Free(q)
    /\ books' = [books EXCEPT ![p] = None, ![q] = books[p]]
    /\ UNCHANGED <<dirs, trash, version, born, gone, mem, op>>

OutsideAdd(i, p) ==
    /\ i \notin born /\ Free(p)
    /\ books' = [books EXCEPT ![p] = i]
    /\ born' = born \cup {i}
    /\ UNCHANGED <<dirs, trash, version, gone, mem, op>>

OutsideRemove(p) ==
    /\ books[p] # None
    /\ gone' = gone \cup {books[p]}
    /\ books' = [books EXCEPT ![p] = None]
    /\ UNCHANGED <<dirs, trash, version, born, mem, op>>

OutsideEdit(p) ==
    /\ books[p] # None /\ version[books[p]] < MaxEdits
    /\ version' = [version EXCEPT ![books[p]] = @ + 1]
    /\ UNCHANGED <<books, dirs, trash, born, gone, mem, op>>

OutsideStep ==
    /\ Outside
    /\ \/ \E p, q \in Paths : OutsideMove(p, q)
       \/ \E i \in Ids, p \in Paths : OutsideAdd(i, p)
       \/ \E p \in Paths : OutsideRemove(p) \/ OutsideEdit(p)

Refresh(w) ==
    \/ Decide(w) \/ Schedule(w) \/ Publish(w)
    \/ Snapshot(w) \/ Check(w) \/ Apply(w) \/ Again(w) \/ Answer(w)
    \/ \E f \in Folders : Walk(w, f)

Change(w) ==
    \/ Lookup(w) \/ CopyTree(w) \/ Mkdir(w) \/ RenameMoved(w) \/ Find(w) \/ Reopen(w)
    \/ ToTrash(w) \/ WriteTrashMeta(w) \/ Uncache(w) \/ Purge(w)
    \/ Rmdir(w) \/ Forget(w) \/ MarkDirty(w) \/ NoRoom(w)
    \/ \E i \in Ids, n \in PackageNames : RenameStaged(w, i, n)
    \/ \E n \in PackageNames : RenameRestored(w, n)
    \/ \E to \in Folders : Mvdir(w, to)

Requests(w) ==
    \/ \E kind \in {"new", "mkdir", "rmdir", "mvdir"}, f \in Folders :
          Begin(w, kind, None, f)
    \/ \E kind \in {"move", "copy"}, i \in Ids, f \in Folders : Begin(w, kind, i, f)
    \/ \E kind \in {"trash", "restore", "purge", "get"}, i \in Ids :
          Begin(w, kind, i, <<>>)
    \/ Begin(w, "list", None, <<>>)

Served ==
    \/ \E w \in Goroutines : Requests(w)
    \/ \E w \in Workers : Refresh(w) \/ Change(w)

\* A disk operation fails, or the process stops.
Fault == Crash \/ \E w \in Workers : UndoTrash(w) \/ Fail(w)

\* The check that goBackground started may report on a book whatever was changed since.
Crossing ==
    crossed' = IF ~At(Checker, "idle")
               THEN crossed \cup {i \in Ids : Shelved(i)' # Shelved(i)}
               ELSE IF \E w \in Workers : Publish(w) THEN {} ELSE crossed

Next == (Served \/ Fault \/ OutsideStep) /\ Crossing

Spec == Init /\ [][Next]_vars

\* Requests come one after another; nothing orders the background check with them.
OneByOne == \A v, w \in Goroutines : ~At(v, "idle") /\ ~At(w, "idle") => v = w

\* The shelf as it is used by one client at a time while nothing fails and nothing
\* else touches the directory.
InTurn == Served /\ Crossing /\ OneByOne'
SpecInTurn == Init /\ [][InTurn]_vars

-----------------------------------------------------------------------------
\* Type invariant: the directory tree, the trash, the cache and what requests
\* keep of them.
TypeOK ==
    /\ books \in [Paths -> Ids \cup {None}]
    /\ dirs \subseteq Folders
    /\ trash \in [Ids -> [book : Ids \cup {None}, home : Paths \cup {None}]]
    /\ version \in [Ids -> 0..MaxEdits]
    /\ born \subseteq Ids /\ gone \subseteq Ids
    /\ cache \in [Ids -> Entries \cup {None}]
    /\ cfolders \subseteq Folders
    /\ due \in BOOLEAN

Slots(i) == {s \in Ids : trash[s].book = i}

\* No ID is in two packages on the shelf, in two slots of the trash, or in both.
NoDuplicates ==
    /\ \A p, q \in Paths : books[p] # None /\ books[p] = books[q] => p = q
    /\ \A s, t \in Ids : trash[s].book # None /\ trash[s].book = trash[t].book => s = t
    /\ \A p \in Paths, s \in Ids : books[p] # None => books[p] # trash[s].book

\* A published book that nobody removed for good is in exactly one place, on
\* the shelf or in the trash, whatever requests, crashes, failures and outside
\* changes overlap.
BooksConserved ==
    /\ NoDuplicates
    /\ \A i \in Ids : i \in born \ gone <=> Shelved(i) # {} \/ Slots(i) # {}

\* Every package is in a folder that exists.
PackagesInFolders == \A p \in Paths : books[p] # None => p[1] \in dirs

\* A request names a book by its ID: what the cache keeps under an ID, and what
\* the trash keeps under it, is that book.
IdsMeanTheirBook ==
    \A i \in Ids : /\ cache[i] # None => cache[i].id = i
                   /\ trash[i].book \in {None, i}

\* A listing no other request overlapped shows the folders that there are.
FoldersListed ==
    \A g \in Goroutines : At(g, "answer") /\ op[g].kind = "list" /\ op[g].alone
        => cfolders = dirs

\* The cache shows every book where it is.
ShownAt(i) == {p \in Paths : cache[i] # None /\ cache[i].path = p}
CacheShowsBooks == \A i \in Ids : ShownAt(i) = Shelved(i)

\* A listing no other request overlapped shows every book, where it is; only a book
\* that changed place during a background check may be missing, until the next full
\* scan, and is not shown where it is not.
BooksListed ==
    \A g \in Goroutines : At(g, "answer") /\ op[g].kind = "list" /\ op[g].alone =>
        \A i \in Ids : ShownAt(i) = Shelved(i) \/ (i \in crossed /\ ShownAt(i) = {})

\* Once the disk is left alone and the process keeps running, scans that keep
\* coming make the cache agree with it for good, whatever checks and scans of an
\* older tree still had to report.
CacheConverges ==
    /\ <>[][disk' = disk /\ ~Crash]_vars
    /\ []<><<\E w \in Workers : Publish(w)>>_vars
    => <>[](CacheShowsBooks /\ cfolders = dirs)
=============================================================================
