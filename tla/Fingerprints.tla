--------------------------- MODULE Fingerprints ---------------------------
(***************************************************************************)
(* The fingerprint cache and the task that fills it                        *)
(* (shelf/fingerprint/cache.go, server/task/task_fingerprint_sources.go,   *)
(* shelf/fingerprint_facade.go, shelf/bookpkg/source.go).                  *)
(*                                                                         *)
(* A source whose size and modification time are the recorded ones is      *)
(* answered without opening it, so a record must never pair the time of    *)
(* one content with the hash of another although other requests and other  *)
(* machines write the source while it is read, and the file system's clock *)
(* is coarse.  Each machine that opened the shelf has a cache of its own   *)
(* and merges it into the shared file when it saves.                       *)
(*                                                                         *)
(* A content stands for itself, its MD5 and the sketch built from it; all  *)
(* contents have one size, the case in which only the time tells.          *)
(***************************************************************************)
EXTENDS Naturals, FiniteSets, Functions

CONSTANTS Books,       \* each with one text source
          Contents,
          Machines,    \* each runs at most one fingerprint task of the shelf
          RacyWindow,  \* fsutil.RacyWindow, in ticks
          MaxClock,    \* bound: ticks of the clock
          MaxRuns,     \* bound: task runs
          None

VARIABLES clock,
          source,    \* the source.txt of each book: content and mtime, or None
          temp,      \* the temporary file of a write that is not yet renamed
          hash,      \* md5_hash in the source's meta.json
          stored,    \* fingerprint-cache.json: index and entries
          task,      \* the task run of each machine with its cache
          runs

gvars == <<clock, source, temp, hash, stored, task, runs>>

Empty == [index |-> << >>, entries |-> {}]
Idle == [pc |-> "idle", index |-> << >>, entries |-> {}, answered |-> {}, todo |-> {},
         force |-> FALSE, book |-> None, stat |-> None, readAt |-> 0, content |-> None]

Init ==
  /\ clock = 0
  /\ \E c \in Contents :
       /\ source = [b \in Books |-> [content |-> c, mtime |-> 0]]
       /\ hash = [b \in Books |-> c]
  /\ temp = [b \in Books |-> None]
  /\ stored = Empty
  /\ task = [m \in Machines |-> Idle]
  /\ runs = 0

(***************************************************************************)
(* Outside the task.  WriteAtomic fills a temporary file, which gets its   *)
(* time then, and renames it; the rename follows within the racy window.   *)
(* UpdateContent then measures the source and records its hash.            *)
(***************************************************************************)
Tick ==
  /\ clock < MaxClock
  /\ \A b \in Books : temp[b] # None => clock < temp[b].mtime + RacyWindow
  /\ clock' = clock + 1
  /\ UNCHANGED <<source, temp, hash, stored, task, runs>>

WriteTemp(b) ==
  /\ source[b] # None
  /\ temp[b] = None
  /\ \E c \in Contents \ {source[b].content} :
       temp' = [temp EXCEPT ![b] = [content |-> c, mtime |-> clock]]
  /\ UNCHANGED <<clock, source, hash, stored, task, runs>>

UpdateContent(b) == \* the rename, then meta.json, whose write may fail
  /\ temp[b] # None
  /\ source[b] # None
  /\ source' = [source EXCEPT ![b] = temp[b]]
  /\ temp' = [temp EXCEPT ![b] = None]
  /\ hash' \in {hash, [hash EXCEPT ![b] = temp[b].content]}
  /\ UNCHANGED <<clock, stored, task, runs>>

DeleteBook(b) ==
  /\ source[b] # None
  /\ source' = [source EXCEPT ![b] = None]
  /\ temp' = [temp EXCEPT ![b] = None]
  /\ UNCHANGED <<clock, hash, stored, task, runs>>

----------------------------------------------------------------------------
(***************************************************************************)
(* The task: list the books, open the cache, resolve each book's source    *)
(* and save, at the end or when the task is cancelled between two books.   *)
(***************************************************************************)
Live == {b \in Books : source[b] # None}
Step(m, next) == task' = [task EXCEPT ![m] = next]

Run(m) ==
  /\ task[m].pc = "idle"
  /\ runs < MaxRuns
  /\ runs' = runs + 1
  /\ \E force \in BOOLEAN :
       Step(m, [Idle EXCEPT !.pc = "books", !.todo = Live, !.force = force,
                            !.index = stored.index, !.entries = stored.entries])
  /\ UNCHANGED <<clock, source, temp, hash, stored>>

FingerprintBook(m) == \* GetBook fails if the book is gone; Stat may fail
  /\ task[m].pc = "books"
  /\ \E b \in task[m].todo :
       LET next == [task[m] EXCEPT !.todo = @ \ {b}, !.book = b] IN
       \/ source[b] = None /\ Step(m, next)
       \/ /\ source[b] # None
          /\ \E stat \in {source[b].mtime, None} : Step(m, [next EXCEPT !.pc = "stat", !.stat = stat])
  /\ UNCHANGED <<clock, source, temp, hash, stored, runs>>

\* lookupByStat
Known(t) ==
  /\ ~t.force
  /\ t.book \in DOMAIN t.index
  /\ t.index[t.book].mtime = t.stat
  /\ t.index[t.book].md5 \in t.entries

LookupByStat(m) ==
  /\ task[m].pc = "stat"
  /\ Step(m, IF Known(task[m]) THEN [task[m] EXCEPT !.pc = "books"]
             ELSE [task[m] EXCEPT !.pc = "read", !.readAt = clock])
  /\ UNCHANGED <<clock, source, temp, hash, stored, runs>>

ReadContent(m) ==
  /\ task[m].pc = "read"
  /\ Step(m, IF source[task[m].book] = None THEN [task[m] EXCEPT !.pc = "books"]
             ELSE [task[m] EXCEPT !.pc = "record", !.content = source[task[m].book].content])
  /\ UNCHANGED <<clock, source, temp, hash, stored, runs>>

\* Fault: what was read is recorded however new the file is.
SettledAlways(mtime, readAt) == mtime <= readAt
Settled(mtime, readAt) == mtime + RacyWindow < readAt

(***************************************************************************)
(* repair corrects meta.json, best effort; record keeps the sketch and, if *)
(* the file's time lies safely in the past, the index entry.  Values seen  *)
(* before keep the time they were first seen.                              *)
(***************************************************************************)
Observed(t) ==
  LET old == IF t.book \in DOMAIN t.index THEN t.index[t.book] ELSE None
      e   == [mtime |-> t.stat, md5 |-> t.content, seenAt |-> t.readAt]
  IN  IF old # None /\ old.mtime = e.mtime /\ old.md5 = e.md5 THEN old ELSE e

With(f, k, v) == [x \in DOMAIN f \union {k} |-> IF x = k THEN v ELSE f[x]]

Record(m) ==
  LET t == task[m] IN
  /\ t.pc = "record"
  /\ hash' \in {hash, [hash EXCEPT ![t.book] = t.content]}
  /\ Step(m, [t EXCEPT !.pc = "books",
                       !.entries = @ \union {t.content}, !.answered = @ \union {t.content},
                       !.index = IF t.stat # None /\ Settled(t.stat, t.readAt)
                                 THEN With(@, t.book, Observed(t)) ELSE @,
                       !.content = None, !.stat = None, !.readAt = 0])
  /\ UNCHANGED <<clock, source, temp, stored, runs>>

(***************************************************************************)
(* Save merges the file as it is now into the cache, drops what belongs to *)
(* no live book, and writes; two machines may save at the same time.       *)
(***************************************************************************)
Supersedes(e, f) == IF e.seenAt # f.seenAt THEN e.seenAt > f.seenAt ELSE e.mtime > f.mtime

MergeIndex(index, other) ==
  [k \in DOMAIN index \union DOMAIN other |->
     IF k \in DOMAIN index /\ (k \in DOMAIN other => ~Supersedes(other[k], index[k]))
     THEN index[k] ELSE other[k]]

PruneCache(index, entries, live, keep) ==
  LET kept == Restrict(index, DOMAIN index \intersect live) IN
  [index |-> kept,
   entries |-> entries \intersect (keep \union Range([k \in DOMAIN kept |-> kept[k].md5]))]

Merge(m) ==
  LET t == task[m]
      index == MergeIndex(t.index, stored.index)
      entries == t.entries \union stored.entries
      pruned == PruneCache(index, entries, Live, t.answered)
  IN /\ t.pc = "books"
     /\ Step(m, [t EXCEPT !.pc = "save", !.todo = {}, !.index = pruned.index, !.entries = pruned.entries])
     /\ UNCHANGED <<clock, source, temp, hash, stored, runs>>

Save(m) == \* the write may fail; the cache is not used after the run
  /\ task[m].pc = "save"
  /\ stored' \in {stored, [index |-> task[m].index, entries |-> task[m].entries]}
  /\ Step(m, Idle)
  /\ UNCHANGED <<clock, source, temp, hash, runs>>

Crash(m) ==
  /\ task[m].pc # "idle"
  /\ Step(m, Idle)
  /\ UNCHANGED <<clock, source, temp, hash, stored, runs>>

Next ==
  \/ Tick
  \/ \E b \in Books : WriteTemp(b) \/ UpdateContent(b) \/ DeleteBook(b)
  \/ \E m \in Machines : \/ Run(m) \/ FingerprintBook(m) \/ LookupByStat(m) \/ ReadContent(m)
                         \/ Record(m) \/ Merge(m) \/ Save(m) \/ Crash(m)

Spec == Init /\ [][Next]_gvars

----------------------------------------------------------------------------
(***************************************************************************)
(* A source that a later run would answer from its time alone has the      *)
(* content that was recorded for that time: no write, whenever it falls    *)
(* between Stat, read and save of any machine, leaves a similarity report  *)
(* about a text that is no longer there.                                   *)
(***************************************************************************)
StatTellsContent ==
  \A b \in Live \intersect DOMAIN stored.index :
    stored.index[b].mtime = source[b].mtime => stored.index[b].md5 = source[b].content

(***************************************************************************)
(* Every recorded source has its sketch in the same file, whatever machine *)
(* merged, pruned and wrote it last: the coverage the status page reports  *)
(* is not undone by a save.                                                *)
(***************************************************************************)
RecordedHasSketch == \A b \in DOMAIN stored.index : stored.index[b].md5 \in stored.entries
=============================================================================
