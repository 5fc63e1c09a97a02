----------------------------- MODULE Visibility -----------------------------
(***************************************************************************)
(* What the show_nsfw setting hides (server/visibility.go, shelf/          *)
(* shelf_nsfw.go, shelf/internal/shelfutil), and the requests that could   *)
(* take something out of hiding: folders renamed, moved or transferred     *)
(* (server/handle_folders.go, handle_folder_transfers.go), books patched,  *)
(* copied, trashed and restored (handle_books.go, handle_trash.go), and    *)
(* the setting itself (settings.go, handle_setting.go, store/db_json.go).  *)
(*                                                                         *)
(* Requests come one after another; the tree also changes from outside.    *)
(* The handlers judge by a cached listing, which a rescan brings up to     *)
(* date when it succeeds.                                                  *)
(***************************************************************************)
EXTENDS Integers, Sequences, FiniteSets

CONSTANTS Books,
          Paths,        \* the folders there can be, with all above them
          Fold(_),      \* foldSegment
          Rulings,      \* the nsfw_folders a shelf.json may have
          MaxDrift      \* bound: books that the listing has wrong, and gone folders that it has

VARIABLES rules,        \* NSFWRules of the shelf
          dirs, place,  \* the folders, and per book where it is: "tree", "trash" or "away"
          home, marked, \* per book: its folder on this shelf, and its own nsfw
          listed,       \* the book cache: [dirs, place, home, marked]
          show          \* the setting, as GetSetting answers

vvars == <<rules, dirs, place, home, marked, listed, show>>

Root == <<>>
HasPrefix(p, q) == Len(q) <= Len(p) /\ SubSeq(p, 1, Len(q)) = q
Prefixes(p) == {SubSeq(p, 1, k) : k \in 0 .. Len(p)}
Rebase(p, f, t) == IF HasPrefix(p, f) THEN t \o SubSeq(p, Len(f) + 1, Len(p)) ELSE p

-----------------------------------------------------------------------------
(* Who sees what.                                                          *)

Folded(p) == [k \in 1 .. Len(p) |-> Fold(p[k])]

\* NSFWRules.Match: the folder or one above it is named by a rule, case folded.
IsNSFWFolder(p) == \E q \in Prefixes(p) \ {Root} : Folded(q) \in {Folded(r) : r \in rules}

IsBookNSFW(p, mark) == mark \/ IsNSFWFolder(p)

\* allowsListing, for the listings of a shelf or of one book
Allows(l, b) == show \/ ~IsBookNSFW(l.home[b], l.marked[b])

\* A book that went to another shelf takes only its own mark along.
Visible(l, b) == IF l.place[b] = "away" THEN show \/ ~l.marked[b] ELSE Allows(l, b)

Under(l, b, p) == l.place[b] = "tree" /\ HasPrefix(l.home[b], p)

\* filterFolders, with its occupiedFolders
FolderShown(l, p) ==
    \/ show
    \/ /\ ~IsNSFWFolder(p)
       /\ (\E b \in Books : Under(l, b, p)) => \E b \in Books : Under(l, b, p) /\ Allows(l, b)

\* revealedBy: t is the new path of the folder f, or f leaves the shelf.
StillMarked(p, f, t, leaves, mark) ==
    IF leaves THEN mark ELSE IsBookNSFW(Rebase(p, f, t), mark)

BookRevealed(l, f, t, leaves) ==
    \E b \in Books : /\ Under(l, b, f) /\ IsBookNSFW(l.home[b], l.marked[b])
                     /\ ~StillMarked(l.home[b], f, t, leaves, l.marked[b])

\* Fault: only the books count, not the empty folders of a marked one.
RevealedBooksOnly(l, f, t, leaves) ==
    ~show /\ rules # {} /\ BookRevealed(l, f, t, leaves)

Revealed(l, f, t, leaves) ==
    /\ ~show /\ rules # {}
    /\ leaves \/ t \notin l.dirs
    /\ \/ BookRevealed(l, f, t, leaves)
       \/ \E p \in l.dirs : /\ HasPrefix(p, f) /\ IsNSFWFolder(p)
                            /\ ~StillMarked(p, f, t, leaves, FALSE)
                            /\ ~\E b \in Books : Under(l, b, p)

-----------------------------------------------------------------------------
Tree == [dirs |-> dirs, place |-> place, home |-> home, marked |-> marked]

Init ==
    /\ rules \in Rulings
    /\ dirs = {p \in Paths : Len(p) < 2}
    /\ place = [b \in Books |-> "tree"]
    /\ home \in [Books -> dirs]
    /\ marked \in [Books -> BOOLEAN]
    /\ listed = Tree
    /\ show \in BOOLEAN

\* The listing has a book right, and how much of what it has is wrong.
BookKnown(b) ==
    /\ listed.place[b] = place[b] /\ listed.home[b] = home[b] /\ listed.marked[b] = marked[b]

Drift == Cardinality({b \in Books : ~BookKnown(b)}) + Cardinality(listed.dirs \ dirs)

\* What a request is judged on, unless the client "agreed" to reveal: a listing that a
\* rescan, or the lookup of a moved book, has just brought up to date; the listing as it
\* was when that failed, or was not tried.
Judged(l, why) ==
    \/ why = "tree" /\ l = Tree
    \/ why = "listing" /\ l = listed

\* The listing after a request put its own change there.
Noted(some, folders) ==
    LET New(new, old) == [b \in Books |-> IF b \in some THEN new[b] ELSE old[b]]
    IN [dirs |-> folders, place |-> New(place', listed.place),
        home |-> New(home', listed.home), marked |-> New(marked', listed.marked)]

\* A request ends; a scan may follow at once, or not for a while.
Done(noted) ==
    /\ listed' \in {noted, Tree'}
    /\ UNCHANGED rules

\* createFolder: NewFolder makes the parents too.
CreateFolder(p) ==
    /\ dirs' = dirs \cup Prefixes(p)
    /\ UNCHANGED <<place, home, marked, show>>
    /\ Done(Noted({}, listed.dirs \cup Prefixes(p)))

\* deleteFolder
DeleteFolder(p) ==
    /\ p \in dirs \ {Root}
    /\ \A q \in dirs : HasPrefix(q, p) => q = p
    /\ ~\E b \in Books : place[b] = "tree" /\ home[b] = p
    /\ dirs' = dirs \ {p}
    /\ UNCHANGED <<place, home, marked, show>>
    /\ Done(Noted({}, listed.dirs \ {p}))

\* refreshBeforeReveal, whose errors are dropped, then refuseUnconfirmedReveal.
Preflight(l, f, t, leaves, why) ==
    \/ why = "agreed" /\ l \in {Tree, listed}
    \/ Judged(l, why) /\ ~Revealed(l, f, t, leaves)

\* renameFolder and moveFolder: t is a sibling, or a child of a folder that is there.  The
\* listing is only marked dirty.
Relocate(f, t, why) ==
    /\ f \in dirs \ {Root} /\ t # Root
    /\ \/ Len(t) = Len(f) /\ SubSeq(t, 1, Len(t) - 1) = SubSeq(f, 1, Len(f) - 1)
       \/ t[Len(t)] = f[Len(f)] /\ SubSeq(t, 1, Len(t) - 1) \in dirs
    /\ t \notin dirs /\ ~HasPrefix(t, f)
    /\ \E l \in {Tree, listed} : Preflight(l, f, t, FALSE, why)
    /\ dirs' = {Rebase(p, f, t) : p \in dirs}
    /\ dirs' \subseteq Paths
    /\ home' = [b \in Books |-> IF place[b] = "tree" THEN Rebase(home[b], f, t) ELSE home[b]]
    /\ UNCHANGED <<place, marked, show>>
    /\ Done(listed)

\* transferFolder, to the end of the move: the books listed under f, wherever they are now,
\* those that do not fail; then the folders with nothing left in them are pruned.
TransferFolder(f, why) ==
    \E l \in {Tree, listed} :
        /\ f \in l.dirs \ {Root}
        /\ Preflight(l, f, Root, TRUE, why)
        /\ \E moved \in SUBSET {b \in Books : Under(l, b, f) /\ place[b] = "tree"} :
              /\ place' = [b \in Books |-> IF b \in moved THEN "away" ELSE place[b]]
              /\ dirs' = {p \in dirs : HasPrefix(p, f) =>
                             \/ \E q \in dirs \ l.dirs : HasPrefix(q, p)
                             \/ \E b \in Books \ moved : Under(Tree, b, p)}
              /\ home' = [b \in Books |-> IF b \in moved THEN Root ELSE home[b]]
              /\ UNCHANGED <<marked, show>>
              /\ Done(Noted(moved, listed.dirs \ (dirs \ dirs')))

\* A book the client may see: lookupVisibleBook, or visibleBooks for a batch.
Addressed(b, why) ==
    /\ place[b] = "tree"
    /\ \E l \in {Tree, listed} : Judged(l, why) /\ l.place[b] = "tree" /\ Allows(l, b)

\* updateBook: MoveBook, applyBookPatch.  A batch moves so too.
UpdateBook(b, p, mark, why) ==
    /\ Addressed(b, why)
    /\ home' = [home EXCEPT ![b] = p]
    /\ dirs' = dirs \cup Prefixes(p)
    /\ marked' = [marked EXCEPT ![b] = mark]
    /\ UNCHANGED <<place, show>>
    /\ Done(Noted({b}, listed.dirs \cup Prefixes(p)))

\* transferBook
TransferBook(b, why) ==
    /\ Addressed(b, why)
    /\ place' = [place EXCEPT ![b] = "away"]
    /\ home' = [home EXCEPT ![b] = Root]
    /\ UNCHANGED <<dirs, marked, show>>
    /\ Done(Noted({b}, listed.dirs))

\* trashBook; the entry keeps the original folder.
TrashBook(b, why) ==
    /\ Addressed(b, why)
    /\ place' = [place EXCEPT ![b] = "trash"]
    /\ UNCHANGED <<dirs, home, marked, show>>
    /\ Done(Noted({b}, listed.dirs))

\* restoreTrashedBook of an entry the client may see (lookupTrashedBook, allowsTrashed), which
\* is read from the trash itself.
RestoreTrashedBook(b) ==
    /\ place[b] = "trash" /\ Allows(Tree, b)
    /\ place' = [place EXCEPT ![b] = "tree"]
    /\ dirs' = dirs \cup Prefixes(home[b])
    /\ UNCHANGED <<home, marked, show>>
    /\ Done(Noted({b}, listed.dirs \cup Prefixes(home[b])))

\* setShowNSFW and deleteShowNSFW: SetSetting keeps the old value when it cannot save.
SetShowNSFW(value) ==
    /\ show' \in {value, show}
    /\ UNCHANGED <<dirs, place, home, marked>>
    /\ Done(listed)

\* A file manager moves a package, or an editor marks it; the listing does not know.
OutsideChange(b) ==
    /\ place[b] = "tree"
    /\ \/ \E p \in dirs : home' = [home EXCEPT ![b] = p] /\ UNCHANGED marked
       \/ \E mark \in BOOLEAN : marked' = [marked EXCEPT ![b] = mark] /\ UNCHANGED home
    /\ UNCHANGED <<rules, dirs, place, listed, show>>

Grounds == {"tree", "listing"}

\* The requests that no client confirms, but for the moves of folders.
Request(why) ==
    \/ why = "tree" /\ \E p \in Paths : CreateFolder(p) \/ DeleteFolder(p)
    \/ \E f \in Paths : TransferFolder(f, why)
    \/ \E b \in Books :
          \/ TransferBook(b, why) \/ TrashBook(b, why)
          \/ \E p \in Paths, mark \in BOOLEAN : UpdateBook(b, p, mark, why)
          \/ why = "tree" /\ RestoreTrashedBook(b)

Step ==
    \/ \E why \in Grounds : Request(why)
    \/ \E f \in Paths :
          \/ TransferFolder(f, "agreed")
          \/ \E t \in Paths, why \in Grounds \cup {"agreed"} : Relocate(f, t, why)
    \/ \E value \in BOOLEAN : SetShowNSFW(value)
    \/ \E b \in Books : OutsideChange(b)

Next == Step /\ Drift' <= MaxDrift

Spec == Init /\ [][Next]_vvars

-----------------------------------------------------------------------------
\* A step brings a book into view, or a folder that it moves from f to t.  When it is judged
\* on the listing, only what the listing has right counts.
RevealsBook(why) ==
    \E b \in Books : /\ why = "tree" \/ BookKnown(b)
                     /\ ~Visible(Tree, b) /\ Visible(Tree, b)'

FolderKnown(p) ==
    p \in listed.dirs /\ \A b \in Books : Under(Tree, b, p) \/ Under(listed, b, p) => BookKnown(b)
RevealsFolder(f, t, why) ==
    \E p \in dirs : /\ why = "tree" \/ FolderKnown(p)
                    /\ HasPrefix(p, f)
                    /\ ~FolderShown(Tree, p) /\ FolderShown(Tree, Rebase(p, f, t))'

\* refuseUnconfirmedReveal: no request brings a hidden book, or a hidden folder it moves, into
\* view, unless the client confirmed it.  One that is judged on a listing no scan brought up to
\* date keeps so much as that listing has right, the free place of a moved folder included.
RevealsNothing ==
    \A why \in Grounds :
        /\ RevealsBook(why) => ~Request(why)
        /\ \A f \in dirs, t \in dirs' \ dirs :
              (why = "tree" \/ t \notin listed.dirs) /\ Relocate(f, t, why)
                  => ~RevealsBook(why) /\ ~RevealsFolder(f, t, why)
=============================================================================
