------------------------------ MODULE MCScans ------------------------------
(***************************************************************************)
(* The scans of a shelf for TLC.  A behaviour is of one of two parts: the  *)
(* rescans users ask for and the bucket that bounds them (Rescan), or the  *)
(* scans and checks that repair the cache while the directory changes      *)
(* outside PlainShelf (Shelf, one request at a time).                      *)
(***************************************************************************)
EXTENDS Rescan

CONSTANTS x, a, d, t, g1, bg

VARIABLES part, books, dirs, trash, version, born, gone, cache, cfolders, dirty, op, crossed

disk == <<books, dirs, trash, version, born, gone>>
shelfvars == <<disk, cache, cfolders, dirty, op, crossed>>

Shelf == INSTANCE Shelf WITH
    Ids <- {x}, FolderNames <- {a, d}, PackageNames <- {t}, Goroutines <- {g1},
    Checker <- bg, MaxDepth <- 1, MaxEdits <- 1, Outside <- TRUE, BookCheck <- TRUE,
    due <- dirty

MCInit == Init /\ Shelf!Init /\ part \in {"rescan", "shelf"}

MCNext ==
    /\ UNCHANGED part
    /\ \/ part = "rescan" /\ Next /\ UNCHANGED shelfvars
       \/ part = "shelf" /\ Shelf!Next /\ UNCHANGED vars

MCSpec == MCInit /\ [][MCNext]_<<part, vars, shelfvars>>

Quiet == disk' = disk /\ ~(part = "shelf" /\ Shelf!Crash)
Scanned == part = "shelf" /\ \E w \in {g1, bg} : Shelf!Publish(w)
Agrees == Shelf!CacheShowsBooks /\ cfolders = dirs

\* Shelf!CacheConverges: once the disk is left alone and the process keeps running,
\* scans that keep coming make the cache agree with it for good (scanToBookCache,
\* onlyRefreshBooksInCache).
CacheConverges ==
    <>[][Quiet]_shelfvars /\ []<><<Scanned>>_shelfvars => <>[]Agrees
=============================================================================
