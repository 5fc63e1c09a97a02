# PlainShelf: a TLA+ verification project

PlainShelf is a self-hosted library for plain-text books. A *shelf* is a
directory of book packages; a Go server keeps an in-memory cache of each shelf
and lets requests, background tasks, scans, other installations and file managers
work on the directory at the same time. A desktop and a mobile app host the same
server, keep reading records beside it, copy remote books for offline use and
share shelves on the local network. This project models the parts where those
actors meet, checks them with TLC and proves the central facts with TLAPS.

`PROJECT.json` lists the components, the runs, the definition-to-source map, the
faults each property is shown to detect, the findings, the hazards and the
theorems.

## 1. Inventory

| Component | State it keeps | Operations | Interacts with | What is hard | Correct when |
|---|---|---|---|---|---|
| Task pool (`internal/taskutil`) | chains by ID and in order, a bounded channel, one context per chain | Submit, Cancel, List, Busy, Close | handlers submit; one worker goroutine runs | cancel and close racing a finish; eviction; duplicate keys; panics | one unfinished chain per key; nothing unfinished forgotten; every chain settles; Close leaves nothing running |
| Tasks (`server/task`) | processed and failed items, a status | Run | the pool; one or two shelves | an item failing, the context ending between items | the final status tells what happened |
| Shelf on disk (`shelf/shelf_book.go`, `shelf_folder.go`, `trash.go`) | packages, folders, trash slots with `trash.json` | new, move, copy, trash, restore, purge; make, delete, rename, move folders | the cache, the shelf lock, the file system | several disk operations per request, no order between requests of one process, crashes between them | a book is always in exactly one place |
| Book cache (`shelf/shelf_cache.go`) | entry per book ID, folders, `treeDirty`, character counts | full scan, per-book check, lookup, refresh of a count | every request reads it; scans run beside requests | results published after the disk has changed again | listings show the disk; IDs mean their book; edits and counts are current |
| Book package (`shelf/bookpkg/book.go`) | `book.json`, source directories, covers, the in-memory copy and its stat | Open, SetMeta, create and delete sources, SetCurrentSource, SetCover, imports | shared by requests through the cache | no lock; one file at a time; crashes | an answered edit stays; the pointer names a source; a listed book can be read |
| Pages (`shelf/bookpkg/pages.go`) | page list, images, `meta.json` | insert, delete, replace, direction | `pageEdits` mutex of the server, clients with a base hash | list and images change separately | no listed page loses its image; no edit is lost |
| Shelf lock (`shelf/lock.go`) | one `flock.Flock` per shelf and process | Lock, RLock, Unlock, lockForTransfer | every shelf operation, other installations | a handle shared by goroutines, conversions, two locks per transfer, timeouts | changes exclude each other; nothing stays locked |
| Rescan (`shelf/shelf_rescan.go`) | the claimed walk, a token bucket | Rescan, RescanUnthrottled | the cache's mutex, the shelf lock | clock readings out of order, failures after the claim | one walk at a time, a bounded rate, honest waits |
| Shelf lifecycle (`shelf/shelf.go`) | ready, initErr, awaiting, background work | start, retry, Close | requests, rescans, exports | a retry racing a rescan and Close; a source that comes back | an answering shelf is listed; a returned source is found; Close leaves nothing |
| Shelf manager (`shelf/shelf_manager.go`) | the open shelves | add, update, remove | the mobile and desktop hosts | a reopen that fails half-way | see the hosts |
| Transfers (`shelf/shelf_cross_book.go`, transfer tasks) | folders made, metadata carried | CopyBookFrom, MoveBookFrom, folder transfer | two shelves, other installations | a crash between copy and removal, changed metadata | a book is never lost from both and never twice on one |
| Exported listing (`shelf_cache_export.go`, `shelf_cache_snapshot.go`) | one file per writer with date and digest | export, refresh | writers and remote readers | dates of two machines, whole seconds | an edit arrives |
| Offline copies (`shelf/shelf_offline.go`) | records, routes, copies, snapshot | download, remove, reconcile | a remote shelf that changes | several files per copy, renames, failing writes | a copy served as current is current |
| Folder metadata (`shelf/shelf_folder_meta.go`) | `folder.json`, cached values | set with a version, scan, rename | other installations | read, compare and write around a rename | no edit overwrites an unseen one; a repeated edit gets through |
| Visibility (`server/visibility.go`) | marks, folder rules, the setting | folder and book changes, trash, transfers | the cached listing, outside changes | chains of moves | nothing hidden comes into view unasked |
| Scan cache, fingerprints (`shelf/scancache`, `shelf/fingerprint`) | listings and hashes by modification time | walk, install, record, save | other programs and machines | coarse times | what is trusted by its time is right |
| Reading records (`internal/lockedfile`, `reading*`, `preferences`) | four documents in the user's directory | write, project, stage, flush on close | desktop app and reader | two processes, late flushes | operations happen one after another; progress never goes back |
| Logs (`internal/logutil`, settings) | one file per day, a window | write, rotate, expire, set the window | loggers of app, worker, shelves | shared directory, restarts, clocks | lines inside the window are there |
| WebDAV client (`internal/davfs`) | a credential | request | secret store, remote server | retries, redirects and refresh in one loop | refused only for a cause, bounded |
| pCloud client (`internal/pcloud`) | a cached tree | lookup, ReadDir | pCloud | listings of different age in one tree | a quiet walk is exact |
| Mobile app (`mobile`) | `config.json`, directories, the running instance | Start, Stop, Handle, shelf operations, LAN share | Android, which may end the process | stop against requests, cut-off operations | shelves are kept; the running instance answers |
| Desktop app (`desktop`) | `shelves.json`, keychain, `lan_share.json`, listener | add, modify, remove, share | the server, the network | failing saves, order of save and change | file, open shelves and share agree |
| Formats, front end | | | | | not modelled, see section 8 |

## 2. Modules

| Module | Models | Run |
|---|---|---|
| `TaskPool`, `TaskPoolProofs` | pool, worker and the control of every task | `pool` |
| `Shelf`, `Places`, `ShelfProofs` | one shelf: disk, trash, cache, requests, scans, crashes, outside changes; what they amount to for the books | `server`, `scans`, `shelf_ids` |
| `LogFiles` | log files, their expiry and the setting of it | `server` |
| `DavFS` | requests of the WebDAV client | `server` |
| `PCloudTree` | the cached tree of the pCloud client | `server` |
| `BookMeta` | `book.json`, Book objects, the cache entry and its character count | `book`, `book_edits` |
| `BookSources` | a package: imports, sources, pointer, cover | `book`, `source_race` |
| `SourcePages` | the pages of an images source | `book` |
| `Fingerprints` | the fingerprint cache of several machines | `book` |
| `ScanCache` | directory listings reused by time | `book` |
| `Visibility` | what is hidden and what could reveal it | `book` |
| `ShelfLock`, `ShelfLockProofs` | the file lock across processes and goroutines | `installations`, `lock_goroutines` |
| `ShelfLifecycle` | a shelf's start, retries, background work, end | `installations` |
| `FolderMeta` | `folder.json` under versions | `installations` |
| `RemoteListing` | exports and their readers | `installations`, `listing_edits` |
| `Rescan`, `RescanProofs` | the claim and the token bucket | `scans` |
| `ReadingDocs`, `ReadingRecords`, `RecordStore` | the documents as values, the calls that change them, the store they implement | `library` |
| `Offline` | offline copies of a remote shelf | `library` |
| `Transfer` | books and folders moved between shelves | `library` |
| `ShelfManager`, `MobileApp` | the open shelves, the mobile host | `library` |
| `ShelfManager`, `LanShare`, `DesktopShelves` | the desktop host and its share | `library`, `lan_share_window` |

Modules that begin with `MC` are the ones TLC runs; the `.cfg` files give the
constants, the bounds included. `ServerProofs`, `BookProofs`,
`InstallationsProofs` and `LibraryProofs` hold the proofs about the components
that the `MC` module of the same name puts together, for every value of those
constants (section 6). `MCServer`, `MCBook`, `MCInstallations`, `MCScans` and `MCLibrary` put
components that do not share state into one run: the variable `part` says which
of them a behaviour is of, the variables of the others are `None` or keep their
first values, and every property names its part. Components that do interact are
composed in their own modules: `MobileApp` and `DesktopShelves` extend
`ShelfManager` (and `LanShare`), `ReadingRecords` extends `ReadingDocs`,
`Transfer` has both shelves, and `Shelf` has disk and cache.

Definitions whose comment begins with *Fault* are not part of any specification:
each is a plausible mistake in the definition after it, and `PROJECT.json` names
the property that detects it.

### TaskPool

A chain is numbered by its acceptance, so `kept` (a set) is both `Pool.byID` and
`Pool.order`. All chains of the server carry one task, which the model makes
part of the chain's record. `Submit` is `Pool.Submit` with `TryEnqueue`, under
the pool's mutex one step; a refused submission changes nothing. The worker
goroutine is `pc` and `current`: `Take`, `Start`, then per kind of task `List`
(or `ListFails`), `Tree` (folder transfers), `Check` and `Item` per book, and
one of `Finish`, `Interrupt`, `SaveFails`, `Panic`; then `Done`. The context is
looked at exactly where the code looks at it. `Worker.Close` is three steps,
because submissions, cancellation and the goroutine interleave with it.

### Shelf

Paths are a folder (a sequence of names) and a package name. `books` gives the
ID of the package at each path, `dirs` the folders, `trash` the slot per ID with
the original path of `trash.json`. A request is a record in `op` with its program
counter; every disk operation and every access to the cache under its mutex is
one step. Requests of one process interleave freely: `ShelfLock` shows that the
file lock does not order them (run `lock_goroutines`).

A lookup (`Lookup`, `Decide`, `Walk`/`Publish` or `Snapshot`/`Check`/`Apply`,
`Again`) precedes a move, copy, trash or get. `Walk` visits folders one at a time
without the mutex and `Publish` replaces the cache. The background check is the
worker `Checker`. `Fail`, `UndoTrash` and `Crash` are the failures, `Outside*`
the changes nobody tells the server about. The variables `born` and `gone` and
the field `alone` are history. `Next` is everything that can happen to a shelf
(`Served`, `Fault`, `OutsideStep`); `InTurn` is its use by one client at a time
while nothing fails and nothing else touches the directory. The background check that
a request started runs beside the requests after it, and is ordered with nothing.
`crossed` is history: the books whose package changed its place while a check was
running, until a full scan that no check overlaps. Of those a listing may miss one;
otherwise it is exact (section 5).

`Places` is the abstract library that `Shelf` implements: a book is at one path,
in the trash or removed for good, and every step moves one book, or one folder
with all below it, whole. The mapping forgets the cache, the requests, the slots
of the trash and `trash.json` (theorem `ShelfImplementsPlaces`, section 6).

Simplifications: looking for a free name and renaming to it is one step, and
losing the race for the name is a failure (`NoRoom`); removing a purged package
is one step; drawn IDs never collide (UUID version 4), and nobody copies a
package by hand with its ID; a scan reads one folder in one step, and in any
order; opening a book is one step here (its parts are in `BookMeta`); the scan
cache (`ScanCache`), folder metadata (`FolderMeta`), schema versions and the
legacy trash are left out.

### BookMeta

The metadata of a book is the set of edits it contains and its current source. A
revision stands for the size and modification time that `FileStat` compares, and
is new with every write. Book objects are a heap, because the cache, scans and
requests share them: `setMeta` changes the object that the request found, which
a scan may have replaced in the cache. `Open` is two steps, `readBookMeta` and
the stat. `setMeta` is two steps, the write and then the stat with the
assignment. A count is dated before it is read (`DateStat`, `CountSource`).
Reopening inside a lookup holds the cache's mutex (`Locked`). `crossed` is history:
the pointer was moved while another actor held what it had read of `book.json`
before, or by a request whose object the cache had replaced (`Crosses`); from then
on the count is promised nothing.

Simplifications: every reading of the clock is a new instant; the book stays
where it is and stays cached; creating and deleting sources and covers are in
`BookSources`, and here only the move of the pointer that they end with.

### ShelfLock

Each process keeps one `flock.Flock` per shelf, with the flags `l` and `r`, over
one open file. The library's behaviour on which `lock.go` relies is in the
definitions marked external: a set flag answers at once, a lock on the same open
file is converted, a refused conversion has lost the former lock (`flock(2)`),
and `Unlock` clears everything. A request locks a shelf shared or exclusive, or,
for a transfer, the source shared and then the target exclusive.

### Rescan

Time and tokens are counted in ticks, a token being `Refill` ticks, which makes
the refill exact. A caller reads the clock before it waits for the mutex, so
`Refilled` sees times that go back. `spent` and `due` are history for the two
properties about rates and waits.

### ShelfLifecycle and ShelfManager

`ShelfLifecycle` cuts `initCache`, `retryInit` and `retryInitSoon` where another
goroutine can look: `initErr`, `ready` and `awaiting` are stored one after the
other. The starter, requests that retry (behind `TryLock` and the interval),
rescans (which wait for `retryMu`), the export and `Close` interleave; background
work may panic. `ShelfManager` is a library of operations on the open shelves,
which the hosts call from their own steps, saying with each whether opening or
closing succeeds.

### Transfer

One process transfers a book or a folder "top" (with "sub") from one shelf to the
other; other requests of it, which its locks do not keep out, and other
installations edit, move, trash and restore books and edit folder metadata between
any two steps. The steps are those of the task: make a folder and read its metadata,
look for a `folder.json` on the target and write it, look for the ID of a book to be
moved in the target's tree (`NotInTree`; the rescan before it is part of this step) and
then in its trash (`NotInTrash`), stage the book, publish it where
the request or the snapshot of the folder said (`plan`), trash the original, and per
emptied folder look (`PruneLook`, the version that was carried), remove the
`folder.json` (`DropMeta`) and the directory (`RemoveDir`). Any step fails or is the
process's last; the user repeats the transfer. `overtaken` is history: what a request
wrote into a `folder.json` after `PruneLook`; so is `slipped`: the IDs that a request
restored on the target between the two looks.

### RemoteListing

Writers scan, edit, export at their interval or when forced, and restart; readers
look for the newest export, compare its date and digest with what they have, apply
it, walk the source themselves, or start from their snapshot. A digest is the set
of edits itself. A writer may be switched off, or used by nobody, for a while or for
good (`away`): its last export stays, and with a later date than the others' it hides
what these have to tell (`Hidden`).

### Offline

A package is two files with the book and the version each was copied from, because
`copyTree` copies one after the other, and another book may be at the path by then.
Downloads and removals hold `downloadMu`; the swap of an old copy for a new one
(`Retire`, `Swap`, `SwapFails` with its roll-back), the record in memory and the file
are separate steps. Not kept: a process that ends between the two renames, or a second
rename that fails together with its roll-back, leaves the record without its copy until
the next download (`torn` has the path); a remote
book changed and changed back within one copy is not noticed; a copy whose files are
of two books that exchanged paths while it was made is not told apart; a download that
commits after a reconciliation may leave its path routed to another book's record
until the next refresh.

### FolderMeta

Clients of two installations send the version they were shown, and the folder is
renamed between a client's view and its edit. The version of a content is the
content. The read, the comparison and the write happen under the shelf lock, which
keeps out the other installation but not a second request or a scan of the same
server: it shares the lock, and whoever of them ends first gives it back for all.
`shared` is history: the requests whose turn was broken into that way, including
those of another installation that got the lock early. An editor outside PlainShelf
that writes between the read and the write is not modelled, and is overwritten.

### Visibility

Books and folders are hidden by their own mark or by rules on folder paths, which
compare names case-insensitively (`Fold`). A request's preflight rescans, asks
what would come into view, and refuses unless the client consented. It asks the
cached listing (`listed`), and drops the error of a rescan that failed, so each
request is judged either by the tree as it is or by a listing that may be behind it:
changes from outside and requests that no scan followed. `MaxDrift` bounds how far.
Requests are atomic here.

### BookSources and SourcePages

`BookSources` is a package on disk: an import of text, EPUB or CBZ in the
temporary folder, the creation and deletion of sources with the hand-over of the
pointer, the cover. Every file is a step, and the process may end after any.
A removed source directory may be left half removed ("gutted"), which no longer
opens. Not modelled: schema guards, the hint file, the format mirror, edits from
outside; two concurrent `SetCover`. A process that ends inside `DeleteCover`
leaves a cover named that is gone.

`SourcePages` has page edits under `pageEdits` with the list they were made on
(lists of bounded length in which a page may come twice, as nothing in the code
keeps it from),
and the content and asset requests that take no lock: an edit they overtook is
remembered in `overtaken` and promised nothing. A failed insertion reads the list
again (`RemoveUnlistedAsset`) and deletes its image in a step of its own
(`EraseUnlistedAsset`), so a content request fits between them. `meta.json` is read
before the lock is taken. The mutex is one process's.

### Fingerprints and ScanCache

Both trust a modification time only when it lies `RacyWindow` before the reading.
`Fingerprints` has the task of two machines that merge into one file; `ScanCache`
two levels of directories that are renamed, replaced and filled during a walk.
Times come from one clock; a rename within the racy window of its temporary file,
forged times and two machines that save in the same moment (which lose entries,
never wrong ones) are excluded.

### ReadingDocs, ReadingRecords and RecordStore

`ReadingDocs` says what an operation makes of each document, with the limits and
orders of the code. `RecordStore` is parametrised by the kinds of document and by what
an operation makes of one, so it knows nothing of files. `ReadingRecords` cuts a call into lock, read, rename and
unlock, with timeouts, failures, processes that end, and the position staged for
the close. It implements `RecordStore`, in which every accepted operation is
applied whole to the result of the one before: `OneAfterAnother` is that
refinement.

### MobileApp, DesktopShelves and LanShare

An operation of the mobile app holds `instance.mu`, so it is cut into the writes
between which Android can end the process. `DesktopShelves` loads `shelves.json`,
changes shelves and keychain, and saves in place; a cut write is `Torn`.
`LanShare` cuts `apply` where the listener is already open and where
`lan_share.json` is written.

Not kept, and excluded where the property says so: an added mobile shelf whose
registration and whose roll-back save both fail stays listed with an empty
directory; a process that ends after `MkdirAll` leaks a directory; a mobile shelf
whose `Close` fails is no longer listed while its directory stays; two desktop
calls at once can lose an entry; a cut removal leaves an ID in `lan_share.json`
(`unwanted` holds it; section 5 says what comes of it).
Not modelled: `SetShelfShowNSFW`, `MarkExported`, `ExportShelf`, the replacement
of the token, handlers of the LAN listener that outlive `srv.Close`.

### LogFiles

Writers with a mutex each share a directory and a `Retention`. A line is counted
when `Write` has written it, a file holds its number of lines, and a file unlinked
under a writer takes lines nobody reads. The clock moves a day forward or back.
What is applied of the setting, after a request and at start, is the saved window or,
when the store or the value cannot be read, the configured one (`Reads`). Settings
requests come one at a time (two that overlap can leave the older window
in force), removal is atomic with its listing, and the root logger of the server,
which does not use the runtime window, is left out.

### DavFS and PCloudTree

`DavFS` is the loop of `FS.do` for several callers and one credential, with the
password changed on the server and in the store, and a store that fails, which ends
the request as refused (401), before there is a credential as well as after a 401.
`PCloudTree` is the tree of one
level of folders with a file each, identified by pCloud's IDs; walkers read the
root and then its folders, listings are answered at one moment and dated at a
later one (`Latency`), and a node that was replaced is still read by the walker
that looked it up. Reads inside a file, and `Stat` and `Open`, which accept nodes
of any age, are not modelled.

## 3. Runs and what they show

| Run | Instances | Shows |
|---|---|---|
| `pool` | 3 submissions, 2 keys, channel 1, retention 1; and 2 submissions of any kind with up to 2 books | keys exclude, eviction is bounded and spares the unfinished, statuses are honest, settled stays settled, chains settle, Close ends |
| `server` | requests of 2 goroutines one after another, over 2 books, 2 folders, 2 names, with a background check that overlaps them while there are at most 4 books and folders (`MaxCrossed`); the same 2 overlapping over 1 book, folder and name (`MaxUsed`) with failures and crashes; 2 loggers, 3 days; 2 WebDAV callers, 2 passwords; 2 pCloud walkers, 2 folders, 1 change | listings show the disk but for books that crossed a check, books are conserved, logs follow their window, credentials follow, quiet walks are exact |
| `book` | 2 requests and 2 scans over 2 sources with 3 operations, or one at a time with 6 operations; 5 requests over 3 sources; 2 page editors, 3 edits of lists of up to 2 pages; 2 machines, 2 runs; 3 walks, 2 changes; 2 books in 4 folders, the listing behind by one book or folder | edits build up, counts and pointer are current, imports and covers stay whole, page edits are safe, times are not over-trusted, nothing is revealed |
| `installations` | 3 processes over 2 shelves; 4 goroutines of a shelf; 2 installations of which one serves 2 requests at a time, 2 edits and 1 upset; 2 writers that may be away, or 1 writer and 2 refreshes | changes exclude each other, nothing stays locked, requests end, a returned source is found, versions protect edits, exports deliver them |
| `scans` | 2 callers, burst 2, refill 2 ticks, 7 ticks; 1 request with the background check, outside changes and crashes | one walk, bounded rate, honest waits, the cache converges |
| `library` | 2 callers, 2 books, 2 days; 2 books on 2 paths with 2 calls, 2 versions and 2 incidents; 2 books and a fresh ID; 2 local and 1 virtual shelf; 2 desktop shelves, 2 calls | records are kept and refine the store, copies serve, transfers keep, both hosts keep their shelves |
| `shelf_ids`, `book_edits`, `lock_goroutines`, `listing_edits`, `lan_share_window`, `source_race` | the smallest that shows it | findings, section 4 |

Bounds. A channel and a retention of one make every submission meet both limits,
and two keys with three submissions make a duplicate arrive before, during and
after the chain it repeats. Two books and two folder names are what the reuse of
a path needs; two requests are the least that interleave, and with one ID every
pair of requests conflicts (`Small` keeps overlapping requests to one of each). While
a background check runs, `Few` keeps the root, the folders and the books, with those
under way, to four: two books in a folder, or one and two folders to move it between,
which is what the exception of `ListingsExact` takes. Three overlapping operations on
a book are two requests that each hold what the other changes, and a scan (with four,
8,278,862 distinct states, `CountIsCurrent` holds as well); six one at a time let two
edits, a switch, a rewrite and scans between them happen; five requests let a source be created,
pointed at, deleted and fail in between. Two changes of a directory tree are a
rename and a replacement between two walks, and the third walk reads what the
second recorded. A listing that has one book or folder wrong (`MaxDrift`) is enough for
it to miss a hidden book, to show a folder that is gone, or to have a free place taken.
Two edits of a folder's metadata by three requests, two of them in one server, are a
race within the server, between servers, and both. Seven ticks are a burst, its refill and a window that begins in
between. Two events at a remote source are what swaps two books' paths. Three days
with a window of one have a file inside, at and outside the cutoff. Deadlock is
checked except where a bound ends the behaviour (submissions, operations, edits)
or `Close` does.

Symmetry is used in `server`, `book` and `library`, whose properties are
invariants, action properties and a refinement of safety: pairs of values (`Left`,
`Right`) that no part tells apart.

Fairness. `pool` assumes that the Go scheduler keeps running the worker goroutine
and a `Close` that has begun; nothing makes a client submit, cancel or close.
`installations` assumes that a request in its critical section ends, that the
retry notices a free lock and that the timer of a positive `lock_timeout` fires
(`RequestsEnd`); that goroutines of a shelf run, the retry interval passes and
somebody keeps asking for the shelf (`SourceReturns`); that a client whose edit
was refused repeats it and gets the lock again and again (`EditsGetThrough`, whose
own condition is that the others are quiet); and that writers scan and export, as long
as they are not away, and readers refresh at their intervals (`EditsArriveByExports`).
Nothing brings a writer back that is away. `CacheConverges`
assumes nothing of the scheduler and states its conditions itself: the disk is
left alone, the process no longer crashes, and full scans keep completing.

## 4. Findings

1. `shelf_ids`: a lookup reopens whatever package is at a stale entry's path and
   does not compare IDs, as the per-book check does. Book x is at `a/t` and y at
   the top level under the same package name; folder a is renamed to b; y is
   moved into a new folder a. Looking x up now answers with y, and trashing x
   trashes y. It takes one user and no concurrency.
2. `book_edits`: `Open` reads `book.json` and stats it afterwards. An edit in
   between gives the cache an object with the old metadata and the new stat,
   which never looks stale; the next edit builds on it and undoes the first.
3. `lock_goroutines`: requests of one process are not serialized by the file lock.
4. `listing_edits`: a remote client that walked the source dates its listing with
   its own clock. An export is dated with the writer's last full scan, and is not
   written again while its content stays; an edit exported later with an earlier
   date is taken for old for ever. `EditsArriveByExports` shows that readers that
   never walk get every edit, unless it stays hidden behind the newer export of an
   installation that is away.
5. `lan_share_window`: `apply` opens the listener before it replaces the shared
   shelves, so shelves that were just unticked are served for a moment.
6. `source_race`: two requests that delete a book's two sources each see two and
   leave none.

## 5. Limits of the passing runs

Seen by widening the constants:

- listings with two requests at a time: a scan that walked the tree before a
  folder was made replaces the cached folders and marks the tree clean, although
  `docs/concepts/shelf-cache-and-io.md` promises the folder in the next listing;
- a move of the current-source pointer that overlaps a scan or another request may
  leave the count of the former source: `RefreshBookCharCount` asks the cached object,
  which the scan may have replaced by one that still has it, and a request that read
  `book.json` before may write it back. `CountCurrent` excepts it (`crossed`), and
  fails without either half of the exception;
- listings with the background check: it applies what it saw on a snapshot, so a
  book moved meanwhile is dropped from the cache until the next full scan. One client
  that never overlaps its own requests meets this, although
  `docs/concepts/shelf-cache-and-io.md` and `folders.md` promise the next listing;
  `BooksListed` allows a book of `crossed` to be missing, and nothing else;
- two requests of one server that edit a folder's metadata with the same version can
  both pass the comparison, and the second overwrites the first, although
  `docs/concepts/data-format-versioning.md` promises a conflict; `ComparesFirst`
  excepts the requests of `shared`;
- a failed page insertion can delete an image that a content request listed after the
  clean-up looked (`KeepsListedImages`, `overtaken`);
- a preflight whose rescan failed can let a folder go into view because the listing
  does not know of the hidden book in it (`RevealsNothing` speaks of what the listing
  has right);
- `max_keep` bounds all chains (`RetentionBound`), not the finished ones that
  `docs/reference/configuration.md` speaks of: with as many unfinished chains as
  `max_keep`, no finished one stays;
- within one process the file lock excludes nothing (finding 3), so a `folder.json`
  that a request writes on a transfer's source after `PruneFolder` compared its version
  is removed with the emptied folder (`MetaCarried`, `overtaken`); and a book of the
  same ID restored on the target between the two looks of `ensureBookIDFreeAfterRescan`
  makes the move publish the ID a second time (`UniqueIds`, `slipped`);
- a clock set back onto a day whose file was deleted lets a logger write into an
  unlinked file; `KeepsRecent` speaks of the days that no window has passed.

- the desktop app's `RemoveShelf` saves `shelves.json` first and takes the shelf off
  the LAN share last. When the process ends in between, or `lan_share.json` cannot be
  saved, the ID stays ticked; `nextShelfID` looks at the listed shelves only, so a
  later shelf of the same name gets the ID and is shared without being ticked,
  although `docs/configuring-local-shelf.md` says that no shelf is. `SharedIsListed`
  allows for the shelves whose removal was cut off.

What single modules leave out is said with each of them in section 2.

## 6. Proofs

All theorems hold for every value of the constants that satisfies the named
assumptions: any number of requests, books, folders, machines, versions, and any
bounds. The modules of the runs declare the assumptions with their constants, and
TLC evaluates them on the instance it checks. A theorem about a component in a run
with a `part` says `MCSpec => []P` with the property that the run checks; its
inductive invariant is `part = "..." => Inv` and its steps are those of the
component's own `Next`.

- **TaskPoolProofs.** `PoolOneActivePerKey` and `PoolActiveIsScheduled` follow
  from the inductive invariant `PoolInv`. The key exclusion is not inductive by
  itself: `findActiveLocked` searches only the chains still kept, so one needs
  that an unfinished chain is kept, which needs that eviction takes settled chains
  only and that a chain leaves the queue and the worker only settled.
  `PoolSettledStays` uses the same invariant: the chain a running task changes is
  unfinished until its last step. `PoolClosedMeansIdle` adds `Drained`, that the
  goroutine returned with the channel closed and empty. `PoolHonestStatus` adds
  `HonestInv`, what the counters of a chain are at each step of its task, and
  `PoolRetentionBound` adds `RetentionInv`: eviction fails only when every kept
  chain is unfinished, and those are in the channel, which has a capacity, or in
  the worker's hand (a cardinality argument). `PoolTypeOK` is the type invariant.
- **ShelfLockProofs.** `LockNothingLeaks` strengthens the property by the types
  and by the shelves that a request in progress names. `Unlock` drops every
  lock of a handle, and `Handover` shows that another request's claim then
  never depends on the one that left. It holds for any number of requests per
  process, where handles are shared and locks converted; the run has one each.
  `LockSerialized` needs the assumption `OneEachAssumption`, one request per
  process, and the invariant `HandlesExact` that ties flags, the operating
  system's lock and the requests together; run `lock_goroutines` shows that the
  assumption cannot be dropped.
- **RescanProofs.** `RescanRateBound` rests on `RateInv`: what is in the bucket
  and what the window's requests have taken never exceeds a burst and the time
  from the window to the bucket's stamp. Requests are counted by the time they
  read, since a claim may be made long after. `RescanHonestRetry` rests on
  `DueInv`: the stamp plus what the bucket lacks is never later than the moment
  that callers were told. `RescanOneWalk` is inductive.
- **InstallationsProofs.** `LifecycleStatesAreClean` rests on `LifeInv`: one retry
  at a time is past `retryMu`, nobody begins before the first listing is over, and
  what a successful listing has stored by each step after it (`Leaves`).
  `FolderMetaNoBlindEdit` rests on `HasItsTurn`: a request that read
  `folder.json`, and whose turn no other request broke into (`shared`), has the lock
  and nobody has written the file since, also when the folder was renamed.
- **ShelfProofs, ServerProofs.** `ShelfConservesBooks`, `ShelfKeepsFolders` and
  `ShelfTypes` (about `Shelf` itself) and `ServerKeepsBooks` (about the run) rest on
  `ShelfInv`: the properties, the folders closed under prefixes (`DirsClosed`, or a
  renamed folder could leave one without its parent), and `OpsOK`, which of a
  request's fields are set at each program counter. The lemmas before them say what
  renaming a subtree does to paths as sequences.
  `ShelfImplementsPlaces` is the refinement of `Places`: by `ShelfInv` a book has at
  most one path or one slot, so each disk operation is one of its steps (renaming a
  subtree, which `Shelf` says path by path, moves exactly the books and folders below
  it), and every other step of a request, scan or crash changes nothing it can see.
  `ShelfListsExactly` and `ServerListsExactly` are about `SpecInTurn`, in which
  requests follow one another and the background check runs beside them. Between
  requests the cache agrees with the disk, unless a full scan is due and but for books
  of `crossed`, which may be missing; `InTurnInv` says
  what of that is left at each step of a request: the book or folder it has changed
  on disk and not yet in the cache, and, of a full scan, that what it has found is
  what the folders it has seen hold, and that every folder is seen or below one still
  to visit. `CheckHolds` says what the background check may do meanwhile: the books
  that stay where they are stay right in the cache, and it drops none of them. One
  client at a time is what makes the difference: with overlapping
  requests, failures or outside changes the cache may lag behind until the next full
  scan (section 5), which `CacheConverges` is about.
  `LogFilesKeepRecent` rests on
  `OpenFiles`: what a writer has open is in the directory, or a window has passed
  its day, be it the saved one or, after a failed reading of the settings, the
  configured one. `DavCredentialsFollow` rests on `SendsPaid`, every send has cost an
  attempt, a redirect or the one refresh, and `RefreshHelps`, while no password
  changed and the store answered, the refresh is for a stale credential and brings the
  right one, whoever asked the store. `PCloudWalksExact` rests on `PCInv`: a listing, wherever it is
  kept, that is dated more than `Latency` after the last change was made after it
  and is right (`NodeHolds`, `TreeHolds`); a reply under way is no older than
  `Latency`, and is what pCloud has if nothing changed since (`ReplyIs`); and a
  quiet walk goes by a root listed since the last change, has found what is there
  among the names it has read, and keeps the ID of its folder when its node is
  replaced (`QuietWalk`).
- **LibraryProofs.** `RecordsOneAfterAnother` is the refinement `ReadingRecords`
  implements `RecordStore`. The mapping hides lock, staging and program counters;
  `RecordsInv` says that a call about to rename computed its document from the file
  as it still is (`Computed`), so the rename is the store's step and every other
  step a stutter or the answer to a call. `RecordsProgressKept` adds that the
  document has the type of a progress document. `RecordsTimeConserved` needs more:
  the seconds of a day are a sum over books and shelves, about which the lemmas
  `SecondsRaised`, `SecondsMoved` and `SecondsBound` say what adding, projecting and
  capping do to it (proved by induction on finite sets, as the least counterexample
  of a set of numbers, since the library's induction theorems cannot be used);
  projecting moves one book after another (`Projected`). A call was made on a day not
  after today, and the document has nothing later (`StatsInv`), or dropping old days
  could drop a kept one. `RecordsHistoryListed` rests on what the loops of `withEntry`
  and `Project` keep of a list: its order, and so its having no book twice (`OnlyIs`,
  `JoinIs`, `CutIs`). `LibraryKeepsRecords` puts the three parts together for the
  run. `TransfersKeepBooks` rests on
  `MovesInv`: a staged copy has an ID that the target has not, unless it `slipped` in
  between the two looks; carried metadata has arrived; and what `PruneFolder` is about
  to remove has arrived too or overtook its comparison (`Compared`). The three mobile theorems share `MobileInv`, in which the list in
  memory is as good as the one on the device, because the next operation writes it,
  and `OpInv`, what an operation has written so far. `DesktopKeepsAgreement` needs
  what is true at every step of a call and of `apply`, not only between two calls
  (`CallInv`, `AgreeInv`, `ShareInv`, `KnownInv`). `OfflineCopiesServe` rests on
  `CopyInv`: no record is later than the source, no copy is older than what is
  recorded of it, and what is recorded is on disk, or moved aside by the one call
  that holds `downloadMu`, or at a path of `torn`, left aside by a process that ended
  or by a roll-back that failed.
- **BookProofs.** Every property of run `book`.
  `PageEditsHold`: the holder of `pageEdits` has the list it checked until it
  writes, unless overtaken, and a page is out of the list before its image goes.
  `HiddenStaysHidden`: the folders of the tree are closed under their parents and a
  book in the tree is in one; the rest is what each request's preflight compares, on
  the tree or on the listing that it was left with.
  `CurrentSourceOpens`, `ImportsAndCoversWhole`: a source opens from before the
  pointer names it until after the pointer left it, and the same for covers; one
  request at a time (`source_race` shows why), any number of sources.
  `FingerprintsTellContent`: in each index, of the file and of every machine in the
  middle of a run, a time that was recorded is over by the racy window, and no file
  to come will have it. `QuietWalksFindTheTree`: the same for listings, with the
  twist that the listing of a folder is right only while the books folder has its
  recorded time, since a renamed folder brings its own time along (`Sound`).
  `EditsOneAfterAnother`: an object that remembers the revision of `book.json` has
  its metadata (`RevisionTells`), which is what `IsStale` relies on and what
  overlapping scans break (finding 2). `CountsCatchUp`: there is a time W, when a
  source was last rewritten or the pointer moved, such that a count dated since then is
  current, and as long as the entry's is not, some request will still refresh it
  (`Calm(W)`). W is no variable of the model, so the invariant is existential, and a
  rewrite or a move of the pointer chooses the next W. It covers overlapping requests
  of every kind, up to a move of the pointer that crosses another request (`crossed`);
  section 5 says what happens then.

Assumptions that carry weight: `None` is no element of the sets it is distinguished
from (`LogAssumption`, `PCloudAssumption` and others); `BookAssumption`, that there are more Book objects than actors hold (memory
for the next `Open`); `SourcesAssumption`, source IDs are numbers with a largest one;
`PagesAssumption`, `TimesAssumption`, `ViewAssumption`, that bounds are numbers and
paths come with their prefixes; `DocumentsAssumption`, that there are finitely many
shelves and books, and that limits are numbers with a largest; `OneEachAssumption`
for `LockSerialized` only.

What proving changed. Two invariants that TLC had passed turned out to be false on
larger instances. The share of the desktop app may hold a shelf that is not listed,
after a removal that was cut off: `SharedIsListed` now says so, and section 5 what a
user sees of it. A current copy could be mixed of two books that exchanged their
paths while it was made: packages now carry the book of each file, and
`CurrentCopies` speaks of copies whose files are of one book. It no longer needs the
store to be quiet. The lists of `SourcePages` had no page twice, which the code does
not guarantee; now they may. The loops of the read history are a recursive function
(`Only`) instead of `SelectSeq`, about which the prover knows nothing.

Model-checked only: liveness (`WorkEnds`, `RequestsEnd`, `SourceReturns`,
`EditsGetThrough`, `EditsArriveByExports`, `CacheConverges`), which needs fairness and
is out of the prover's reach. Every other property of the passing runs is stated by a
theorem. `ShelfImplementsPlaces` is the other way round: a theorem that no run repeats.

## 7. What could follow

1. A place for every ID a request names: `Places` says which book changes, not that
   it is the one asked for, which finding 1 shows to fail. Once a lookup compares IDs,
   `Discard`, `Restore` and `Erase` can take the ID of the request.
2. Listings with overlapping requests, once the code orders a scan's publication
   against the changes it did not see (section 5).

## 8. Not modelled

EPUB and CBZ parsing, text normalisation, sketches, images and archives compute
values without shared state. The HTTP layer's routing, decoding, rendering and
access tokens, the windows and menus of the apps, the command line and the web
front end are input and output around the operations modelled here. Downloads of
the pCloud client and reads inside a WebDAV file are streams of one request; a
file replaced between two range requests can give a mixture, which no model here
shows. Schema guards refuse files of other versions and change nothing; the legacy
trash is migrated once at start. The floating-point rounding of the token bucket
(which can admit one walk more in the nanosecond of a refill), equal readings of a
coarse clock and a `book.json` changed without a change of size and time are
outside the models' numbers.
