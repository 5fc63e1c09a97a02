------------------------------ MODULE Transfer ------------------------------
(***************************************************************************)
(* Transfers of books and folders from one shelf to another: the handlers' *)
(* preflight (server/handle_book_transfers.go, handle_folder_transfers.go), *)
(* the tasks (server/task/task_book_transfer.go, task_folder_transfer.go)  *)
(* and what they do on the two shelves (shelf/shelf_cross_book.go,         *)
(* CopyFolderMetaFrom, PruneFolder).                                       *)
(*                                                                         *)
(* One process transfers; other requests of it and other installations     *)
(* change the two shelves meanwhile.  The shelf locks do not keep out the  *)
(* requests of the same process (ShelfLock), so these changes come between *)
(* any two steps.  A folder "top" holds the folder "sub"; a book is an ID, *)
(* what it is a copy of, and a version.                                    *)
(***************************************************************************)
EXTENDS Integers, FiniteSets, Sequences

CONSTANTS Books, Fresh,   \* the IDs on the source, and the IDs a copy can draw
          Metas,          \* contents of folder.json
          Named,          \* the target folders that requests name
          MaxOutside,     \* bound of the others' changes
          None

Ends == {"source", "target"}
Folders == {"top", "sub"}
InTop(f) == f \in Folders
Deeper(f) == IF f = "top" THEN {"sub"} ELSE {}
WithParents(f) == IF f = "sub" THEN {"top", "sub"} ELSE {f} \cap Folders

VARIABLES tree, trash,    \* per shelf: its books, [id, of, ver, folder]
          dir, meta,      \* per shelf: its folders, and their folder.json
          job,            \* the task: op, books and folders still to do, ...
          pct,            \* where it is
          staged,         \* the copy under app/tmp, or the folder.json read
          carried, plan,  \* carriedFolderMeta, and the target folder of each book
          latest, outside,
          arrived, dropped, \* folder.json contents put on the target, and pruned
          overtaken,      \* those written after PruneFolder compared the version
          slipped         \* IDs restored on the target between the looks at tree and trash

tvars == <<tree, trash, dir, meta, job, pct, staged, carried, plan, latest, outside,
           arrived, dropped, overtaken, slipped>>
disk == <<tree, trash, dir, meta>>
history == <<arrived, dropped, overtaken, slipped>>
seen == <<latest, outside, history>>
NothingCarried == [f \in Folders |-> None]
NoPlan == [b \in Books |-> "root"]

Idle == [op |-> None, books |-> {}, folders |-> <<>>, whole |-> FALSE]
Held(s) == {x.id : x \in tree[s]} \cup {x.id : x \in trash[s]}
Find(s, b) == {x \in tree[s] : x.id = b}

Init ==
    /\ \E at \in [Books -> Folders \cup {"root"}] :
          tree = [s \in Ends |-> IF s = "target" THEN {}
                    ELSE {[id |-> b, of |-> b, ver |-> 0, folder |-> at[b]] : b \in Books}]
    /\ \E old \in SUBSET {[id |-> b, of |-> b, ver |-> 0, folder |-> "root"] : b \in Books} :
          \* of earlier moves, whose books are still on the source
          trash = [s \in Ends |-> IF s = "target" THEN old ELSE {}]
    /\ dir = [s \in Ends |-> IF s = "source" THEN Folders ELSE {}]
    /\ \E v \in Metas : meta = [s \in Ends |-> [f \in Folders |->
                                  IF s = "source" /\ f = "top" THEN v ELSE None]]
    /\ job = Idle /\ pct = "idle" /\ staged = None
    /\ carried = NothingCarried /\ plan = NoPlan
    /\ latest = [b \in Books |-> 0] /\ outside = 0
    /\ arrived = {} /\ dropped = {} /\ overtaken = {} /\ slipped = {}

\* The task is over; what is on disk stays.
Finished ==
    /\ pct' = "idle" /\ job' = Idle /\ staged' = None
    /\ carried' = NothingCarried /\ plan' = NoPlan

-----------------------------------------------------------------------------
(* The handlers: what is refused at once, and the task that is submitted.  *)

\* The folder that the listing has for a book.
Listed(b) == IF Find("source", b) = {} THEN "root"
             ELSE (CHOOSE x \in Find("source", b) : TRUE).folder

\* transferBook; targetLacksBook looks for the ID of a move in the tree of the target.
TransferBook(op, b) ==
    /\ pct = "idle"
    /\ Find("source", b) # {}
    /\ op = "move" => Find("target", b) = {}
    /\ job' = [Idle EXCEPT !.op = op, !.books = {b}]
    /\ pct' = "books"
    /\ \E f \in Named \cup {Listed(b)} : plan' = [plan EXCEPT ![b] = f]
    /\ UNCHANGED <<disk, staged, carried, seen>>

\* folderTransferConflictAt, after a rescan.
TargetFree(op, books) ==
    /\ "top" \notin dir["target"]
    /\ op = "move" => books \cap Held("target") = {}

\* transferFolder and its snapshotFolderTransfer; remapFolder keeps what is below "top".
TransferFolder(op) ==
    /\ pct = "idle"
    /\ "top" \in dir["source"]
    /\ LET books == {x.id : x \in {y \in tree["source"] : InTop(y.folder)}}
       IN  /\ TargetFree(op, books)
           /\ job' = [op |-> op, books |-> books, whole |-> TRUE,
                      folders |-> IF "sub" \in dir["source"] THEN <<"top", "sub">> ELSE <<"top">>]
    /\ pct' = "tree"
    /\ plan' = [b \in Books |-> Listed(b)]
    /\ UNCHANGED <<disk, staged, carried, seen>>

-----------------------------------------------------------------------------
(* reproduceFolderTree: createFolder for each folder of the snapshot.  A   *)
(* folder that fails is counted, and the next one follows.                 *)

ThisFolder == Head(job.folders)
NextFolder ==
    /\ job' = [job EXCEPT !.folders = Tail(@)]
    /\ pct' = IF Len(job.folders) = 1 THEN "books" ELSE "tree"
    /\ staged' = None

\* NewFolder on the target, and readFolderMetaLocked on the source.
CreateFolder ==
    /\ pct = "tree"
    /\ dir' = [dir EXCEPT !["target"] = @ \cup WithParents(ThisFolder)]
    /\ IF meta["source"][ThisFolder] = None
       THEN NextFolder
       ELSE pct' = "carry" /\ staged' = meta["source"][ThisFolder] /\ UNCHANGED job
    /\ UNCHANGED <<tree, trash, meta, carried, plan, seen>>

\* CopyFolderMetaFrom finds no folder.json on the target,
LacksFolderMeta ==
    /\ pct = "carry"
    /\ ThisFolder \in dir["target"]
    /\ meta["target"][ThisFolder] = None
    /\ pct' = "write"
    /\ UNCHANGED <<disk, job, staged, carried, plan, seen>>

\* and writes it.
CopyFolderMeta ==
    /\ pct = "write"
    /\ ThisFolder \in dir["target"]
    /\ meta' = [meta EXCEPT !["target"][ThisFolder] = staged]
    /\ carried' = [carried EXCEPT ![ThisFolder] = staged]
    /\ arrived' = arrived \cup {<<ThisFolder, staged>>}
    /\ NextFolder
    /\ UNCHANGED <<tree, trash, dir, plan, latest, outside, dropped, overtaken, slipped>>

\* A disk error, a folder that is gone or has a folder.json already.
FolderFails ==
    /\ pct \in {"tree", "carry", "write"}
    /\ NextFolder
    /\ UNCHANGED <<disk, carried, plan, seen>>

-----------------------------------------------------------------------------
(* transferAtomically for each book.                                       *)

NextBook(b) ==
    /\ job' = [job EXCEPT !.books = @ \ {b}]
    /\ staged' = None
    /\ pct' = "books"

\* The book that is looked for, or whose copy is staged.
Current(b) == staged # None /\ b \in job.books /\ staged.of = b

\* ensureBookIDFreeAfterRescan of a move: the ID is not in the target's tree,
NotInTree(b) ==
    /\ pct = "books"
    /\ b \in job.books
    /\ job.op = "move"
    /\ Find("target", b) = {}
    /\ \E x \in Find("source", b) : staged' = x
    /\ pct' = "trash"
    /\ UNCHANGED <<disk, job, carried, plan, seen>>

\* and, a moment later, not in its trash.
NotInTrash(id) == \A x \in trash["target"] : x.id # id

\* The folder of the request or of the snapshot, wherever the book is by now.
TargetFolder(x) == plan[x.of]

\* CopyBookFrom up to the staged copy: a move copies the package where it was found.
Stage(b) ==
    /\ \/ /\ pct = "trash"
          /\ Current(b)
          /\ NotInTrash(staged.id)
          /\ \E x \in Find("source", staged.id) : x.folder = staged.folder /\ staged' = x
       \/ /\ pct = "books"
          /\ b \in job.books
          /\ job.op = "copy"
          /\ \E x \in Find("source", b), n \in Fresh \ Held("target") :
                staged' = [x EXCEPT !.id = n]
    /\ pct' = "publish"
    /\ UNCHANGED <<disk, job, carried, plan, seen>>

\* The book is gone, its ID is taken, or a step fails; RemoveAll takes the staged copy.
BookFails(b) ==
    /\ \/ pct = "books" /\ b \in job.books
       \/ pct \in {"trash", "publish"} /\ Current(b)
    /\ NextBook(b)
    /\ UNCHANGED <<disk, carried, plan, seen>>

\* publishBookCopy: MkdirAll and the rename.
Publish(b) ==
    /\ pct = "publish"
    /\ Current(b)
    /\ dir' = [dir EXCEPT !["target"] = @ \cup WithParents(TargetFolder(staged))]
    /\ tree' = [tree EXCEPT !["target"] = @ \cup {[staged EXCEPT !.folder = TargetFolder(staged)]}]
    /\ IF job.op = "move" THEN pct' = "remove" /\ UNCHANGED <<job, staged>> ELSE NextBook(b)
    /\ UNCHANGED <<trash, meta, carried, plan, seen>>

\* Fault: the package is removed instead of being moved to the trash.
RemoveForGood(b) ==
    /\ pct = "remove"
    /\ Current(b)
    /\ tree' = [tree EXCEPT !["source"] = @ \ Find("source", b)]
    /\ NextBook(b)
    /\ UNCHANGED <<trash, dir, meta, carried, plan, seen>>

\* DeleteBook on the source, with its own lock, or its failure.
Remove(b) ==
    /\ pct = "remove"
    /\ Current(b)
    /\ \/ UNCHANGED <<tree, trash>>
       \/ /\ tree' = [tree EXCEPT !["source"] = @ \ Find("source", b)]
          /\ trash' = [trash EXCEPT !["source"] = @ \cup Find("source", b)]
    /\ NextBook(b)
    /\ UNCHANGED <<dir, meta, carried, plan, seen>>

BooksDone ==
    /\ pct = "books"
    /\ job.books = {}
    /\ IF job.whole /\ job.op = "move"
       THEN /\ pct' = "prune" /\ job' = [job EXCEPT !.folders = <<"sub", "top">>]
            /\ UNCHANGED <<staged, carried, plan>>
       ELSE Finished
    /\ UNCHANGED <<disk, seen>>

-----------------------------------------------------------------------------
(* pruneEmptiedSource, deepest first.                                      *)

Emptied(s, f) ==
    /\ f \in dir[s]
    /\ Deeper(f) \cap dir[s] = {}
    /\ \A x \in tree[s] : x.folder # f

\* PruneFolder's dropMeta: the version of folder.json is the one that was carried.
MayDropMeta(f) ==
    meta["source"][f] # None => carried[f] # None /\ carried[f] = meta["source"][f]

Pruning == Head(job.folders)
PruneNext ==
    IF Len(job.folders) = 1 THEN Finished
    ELSE /\ pct' = "prune" /\ job' = [job EXCEPT !.folders = Tail(@)]
         /\ UNCHANGED <<staged, carried, plan>>

\* PruneFolder: nothing but a folder.json that may go; the directory's entries and the
\* file are read here, and removed below.
PruneLook ==
    /\ pct = "prune"
    /\ Emptied("source", Pruning)
    /\ MayDropMeta(Pruning)
    /\ pct' = IF meta["source"][Pruning] # None THEN "drop" ELSE "rmdir"
    /\ UNCHANGED <<disk, job, staged, carried, plan, seen>>

\* removeFolderNonRecursively: the folder.json, whatever it says by now,
DropMeta ==
    /\ pct = "drop"
    /\ meta["source"][Pruning] # None
    /\ dropped' = dropped \cup {<<Pruning, meta["source"][Pruning]>>}
    /\ meta' = [meta EXCEPT !["source"][Pruning] = None]
    /\ pct' = "rmdir"
    /\ UNCHANGED <<tree, trash, dir, job, staged, carried, plan, latest, outside, arrived,
                   overtaken, slipped>>

\* and the directory, which must be empty.
RemoveDir ==
    /\ pct = "rmdir"
    /\ Emptied("source", Pruning)
    /\ meta["source"][Pruning] = None
    /\ dir' = [dir EXCEPT !["source"] = @ \ {Pruning}]
    /\ PruneNext
    /\ UNCHANGED <<tree, trash, meta, seen>>

\* The folder is in use, was changed or is gone, or a step fails: it stays.
PruneFails ==
    /\ pct \in {"prune", "drop", "rmdir"}
    /\ PruneNext
    /\ UNCHANGED <<disk, seen>>

\* The process ends.
Crash ==
    /\ pct # "idle"
    /\ outside < MaxOutside
    /\ outside' = outside + 1
    /\ Finished
    /\ UNCHANGED <<disk, latest, history>>

-----------------------------------------------------------------------------
(* The other requests of the server, and the other installations.          *)

Outside == outside < MaxOutside /\ outside' = outside + 1
task == <<job, pct, staged, carried, plan>>

EditBook(s) ==
    /\ Outside
    /\ \E x \in tree[s] :
          /\ latest' = [latest EXCEPT ![x.of] = @ + 1]
          /\ tree' = [tree EXCEPT ![s] = (@ \ {x}) \cup {[x EXCEPT !.ver = latest[x.of] + 1]}]
    /\ UNCHANGED <<trash, dir, meta, task, history>>

TrashBook(s) ==
    /\ Outside
    /\ \E x \in tree[s] : /\ \A y \in trash[s] : y.id # x.id
                          /\ tree' = [tree EXCEPT ![s] = @ \ {x}]
                          /\ trash' = [trash EXCEPT ![s] = @ \cup {x}]
    /\ UNCHANGED <<dir, meta, task, latest, history>>

\* RestoreTrashedBook makes the folder again.
RestoreBook(s) ==
    /\ Outside
    /\ \E x \in trash[s] : /\ trash' = [trash EXCEPT ![s] = @ \ {x}]
                           /\ tree' = [tree EXCEPT ![s] = @ \cup {x}]
                           /\ dir' = [dir EXCEPT ![s] = @ \cup WithParents(x.folder)]
                           /\ slipped' = IF s = "target" /\ pct = "trash" /\ x.id = staged.id
                                         THEN slipped \cup {x.id} ELSE slipped
    /\ UNCHANGED <<meta, task, latest, arrived, dropped, overtaken>>

\* MoveBook within the shelf, out of the folder or into it.
Relocate(s) ==
    /\ Outside
    /\ \E x \in tree[s], f \in {"root"} \cup dir[s] :
          tree' = [tree EXCEPT ![s] = (@ \ {x}) \cup {[x EXCEPT !.folder = f]}]
    /\ UNCHANGED <<trash, dir, meta, task, latest, history>>

\* updateFolderMeta, with the version it was shown; it may overtake PruneFolder.
EditMeta(s) ==
    /\ Outside
    /\ \E f \in dir[s], v \in Metas \cup {None} :
          /\ meta' = [meta EXCEPT ![s][f] = v]
          /\ arrived' = IF s = "target" /\ v # None THEN arrived \cup {<<f, v>>} ELSE arrived
          /\ overtaken' = IF s = "source" /\ pct = "drop" /\ f = Pruning
                          THEN overtaken \cup {<<f, v>>} ELSE overtaken
    /\ UNCHANGED <<tree, trash, dir, task, latest, dropped, slipped>>

Next ==
    \/ \E op \in {"copy", "move"} : TransferFolder(op) \/ \E b \in Books : TransferBook(op, b)
    \/ CreateFolder \/ LacksFolderMeta \/ CopyFolderMeta \/ FolderFails
    \/ \E b \in Books : NotInTree(b) \/ Stage(b) \/ BookFails(b) \/ Publish(b) \/ Remove(b)
    \/ BooksDone \/ PruneLook \/ DropMeta \/ RemoveDir \/ PruneFails \/ Crash
    \/ \E s \in Ends :
          EditBook(s) \/ TrashBook(s) \/ RestoreBook(s) \/ Relocate(s) \/ EditMeta(s)

Spec == Init /\ [][Next]_tvars

-----------------------------------------------------------------------------
Packages == UNION {tree[s] \cup trash[s] : s \in Ends}

\* MoveBookFrom publishes before it trashes: whatever fails, crashes or is edited between
\* the two, the last edit of every book is in a tree or in a trash.
BooksKept == \A b \in Books : \E x \in Packages : x.of = b /\ x.ver = latest[b]

\* ensureBookIDFreeAfterRescan: a moved book keeps its ID, and no shelf has an ID twice,
\* its trash included, but for an ID of the target that was restored from the trash after
\* the tree had been looked through and before the trash was.
UniqueIds ==
    \A s \in Ends : \A x, y \in tree[s] \cup trash[s] :
        x.id = y.id => \/ x = y /\ ~(x \in tree[s] /\ x \in trash[s])
                       \/ s = "target" /\ x.id \in slipped

\* PruneFolder removes a folder.json of the source only if the target got it, though it is
\* edited while the books are moved, except one that a request wrote after PruneFolder
\* had compared the version and before it removed the file.
MetaCarried == dropped \subseteq arrived \cup overtaken
=============================================================================
