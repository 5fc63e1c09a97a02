----------------------------- MODULE ScanCache -----------------------------
(***************************************************************************)
(* The directory listings a scan reuses (shelf/scancache/cache.go and the  *)
(* walk of shelf/shelf_book.go, iterateShelfTree).                         *)
(*                                                                         *)
(* A walk takes a directory's listing from the last complete walk when the *)
(* directory's modification time is the recorded one.  The time belongs to *)
(* the directory and not to its path: a folder that is renamed keeps it.   *)
(* So a listing is trusted only below a listing that was itself reused.    *)
(* The tree here has two levels, the books folder and its folders; all of  *)
(* it changes at any moment, by requests and by other programs.            *)
(***************************************************************************)
EXTENDS Naturals, Functions

CONSTANTS Names,      \* of folders in the books folder
          Dirs,       \* directories: what a name stands for
          Kids,       \* what a folder holds: packages and folders
          RacyWindow, \* fsutil.RacyWindow, in ticks
          MaxClock,   \* bound: ticks of the clock
          MaxWalks,   \* bound: walks
          MaxChanges, \* bound: changes of the tree
          None

VARIABLES clock,
          root,   \* the books folder: its mtime and the directory of each name
          dirs,   \* the mtime and children of every directory
          cache,  \* the listings of the last complete walk
          saved,  \* scan-cache.json
          walk,   \* the walk in progress
          walks, changes,
          quiet   \* ghost: nothing changed since the walk began

svars == <<clock, root, dirs, cache, saved, walk, walks, changes, quiet>>

Listings == [root |-> None, dirs |-> << >>]
NoWalk == [pc |-> "idle", prev |-> Listings, next |-> Listings, trusted |-> FALSE, stat |-> None,
           readAt |-> 0, at |-> None, todo |-> {}, names |-> {}, found |-> << >>, failed |-> FALSE]

Present == {n \in Names : root.entry[n] # None}
Bound == {root.entry[n] : n \in Present}

Init ==
  /\ clock = 0
  /\ dirs \in [Dirs -> [mtime : {0}, kids : SUBSET Kids]]
  /\ \E entry \in [Names -> Dirs \union {None}] :
       /\ \A n, k \in Names : n # k /\ entry[n] = entry[k] => entry[n] = None
       /\ root = [mtime |-> 0, entry |-> entry]
  /\ cache = Listings
  /\ saved = Listings
  /\ walk = NoWalk
  /\ walks = 0
  /\ changes = 0
  /\ quiet = TRUE

(***************************************************************************)
(* The file system: a directory whose entries change takes the time of the *)
(* change; a directory that is renamed, or moved in or out, keeps its own. *)
(***************************************************************************)
Tick ==
  /\ clock < MaxClock
  /\ clock' = clock + 1
  /\ UNCHANGED <<root, dirs, cache, saved, walk, walks, changes, quiet>>

Changed == changes < MaxChanges /\ changes' = changes + 1 /\ quiet' = FALSE

ChangeFolder(d) ==
  /\ \E kids \in SUBSET Kids \ {dirs[d].kids} :
       dirs' = [dirs EXCEPT ![d] = [mtime |-> clock, kids |-> kids]]
  /\ Changed
  /\ UNCHANGED <<clock, root, cache, saved, walk, walks>>

Rename(n) == \* to a free name, or out of the shelf
  /\ n \in Present
  /\ \E k \in (Names \ Present) \union {None} :
       root' = [mtime |-> clock,
                entry |-> [x \in Names |-> CASE x = k -> root.entry[n]
                                          [] x = n -> None
                                          [] OTHER -> root.entry[x]]]
  /\ Changed
  /\ UNCHANGED <<clock, dirs, cache, saved, walk, walks>>

MoveIn(n, d) ==
  /\ n \notin Present
  /\ d \notin Bound
  /\ root' = [mtime |-> clock, entry |-> [root.entry EXCEPT ![n] = d]]
  /\ Changed
  /\ UNCHANGED <<clock, dirs, cache, saved, walk, walks>>

----------------------------------------------------------------------------
Settled(mtime, readAt) == mtime + RacyWindow < readAt

\* Fault: the time alone decides.
ReusesByTime(prev, mtime, parentListingReused) == prev # None /\ prev.mtime = mtime
Reuses(prev, mtime, parentListingReused) == parentListingReused /\ prev # None /\ prev.mtime = mtime

Lookup(f, k) == IF k \in DOMAIN f THEN f[k] ELSE None
With(f, k, v) == [x \in DOMAIN f \union {k} |-> IF x = k THEN v ELSE f[x]]

WalkStep == UNCHANGED <<clock, root, dirs, cache, saved, walks, changes, quiet>>

NewWalk ==
  /\ walk.pc = "idle"
  /\ walks < MaxWalks
  /\ walks' = walks + 1
  /\ walk' = [NoWalk EXCEPT !.pc = "root", !.prev = cache]
  /\ quiet' = TRUE
  /\ UNCHANGED <<clock, root, dirs, cache, saved, changes>>

StatRoot == \* the walk enters the books folder as if its parent were reused
  /\ walk.pc = "root"
  /\ walk' = IF Reuses(walk.prev.root, root.mtime, TRUE)
             THEN [walk EXCEPT !.pc = "dirs", !.trusted = TRUE, !.next.root = walk.prev.root,
                               !.names = walk.prev.root.kids, !.todo = walk.prev.root.kids]
             ELSE [walk EXCEPT !.pc = "readroot", !.stat = root.mtime, !.readAt = clock]
  /\ WalkStep

ReadRoot ==
  /\ walk.pc = "readroot"
  /\ walk' = [walk EXCEPT !.pc = "dirs", !.names = Present, !.todo = Present, !.stat = None, !.readAt = 0,
                          !.next.root = IF Settled(walk.stat, walk.readAt)
                                        THEN [mtime |-> walk.stat, kids |-> Present] ELSE None]
  /\ WalkStep

StatDir == \* of the next folder listed; one that is gone is passed over
  /\ walk.pc = "dirs"
  /\ \E n \in walk.todo :
       LET prev == Lookup(walk.prev.dirs, n)
           next == [walk EXCEPT !.todo = @ \ {n}]
       IN walk' = IF n \notin Present THEN next
                  ELSE IF Reuses(prev, dirs[root.entry[n]].mtime, walk.trusted)
                  THEN [next EXCEPT !.next.dirs = With(@, n, prev), !.found = With(@, n, prev.kids)]
                  ELSE [next EXCEPT !.pc = "readdir", !.at = n, !.readAt = clock,
                                    !.stat = dirs[root.entry[n]].mtime]
  /\ WalkStep

ReadDir == \* it may be gone by now, or not be readable: the walk goes on without it
  /\ walk.pc = "readdir"
  /\ LET n == walk.at
         next == [walk EXCEPT !.pc = "dirs", !.at = None, !.stat = None, !.readAt = 0]
     IN \/ walk' = [next EXCEPT !.failed = @ \/ n \in Present]
        \/ /\ n \in Present
           /\ LET kids == dirs[root.entry[n]].kids IN
              walk' = [next EXCEPT !.found = With(@, n, kids),
                                   !.next.dirs = IF Settled(walk.stat, walk.readAt)
                                                 THEN With(@, n, [mtime |-> walk.stat, kids |-> kids]) ELSE @]
  /\ WalkStep

Finished == walk.pc = "dirs" /\ walk.todo = {}

Install ==
  /\ Finished
  /\ cache' = walk.next
  /\ walk' = NoWalk
  /\ UNCHANGED <<clock, root, dirs, saved, walks, changes, quiet>>

Abandon == \* the source became unavailable: nothing of the walk is kept
  /\ walk.pc # "idle"
  /\ walk' = NoWalk
  /\ UNCHANGED <<clock, root, dirs, cache, saved, walks, changes, quiet>>

Save ==
  /\ walk.pc = "idle"
  /\ cache # Listings
  /\ saved' = cache
  /\ UNCHANGED <<clock, root, dirs, cache, walk, walks, changes, quiet>>

Restart ==
  /\ cache' = saved
  /\ walk' = NoWalk
  /\ UNCHANGED <<clock, root, dirs, saved, walks, changes, quiet>>

Next ==
  \/ Tick \/ (\E d \in Dirs : ChangeFolder(d)) \/ (\E n \in Names : Rename(n))
  \/ (\E n \in Names, d \in Dirs : MoveIn(n, d))
  \/ NewWalk \/ StatRoot \/ ReadRoot \/ StatDir \/ ReadDir \/ Install \/ Abandon \/ Save \/ Restart

Spec == Init /\ [][Next]_svars

----------------------------------------------------------------------------
(***************************************************************************)
(* A walk that met no error and during which nothing changed found the     *)
(* tree as it is, however many changes raced the walks before it, whose    *)
(* listings it reused, and whatever older listings a restart brought back. *)
(***************************************************************************)
QuietWalkIsExact ==
  Finished /\ quiet /\ ~walk.failed =>
    /\ walk.names = Present
    /\ walk.found = [n \in Present |-> dirs[root.entry[n]].kids]
=============================================================================
