------------------------------ MODULE BookMeta ------------------------------
(***************************************************************************)
(* One book: its book.json, the Book objects that hold a copy of it        *)
(* (shelf/bookpkg/book.go) and the cache entry that listings and lookups   *)
(* use (shelf/shelf_cache.go), with the character count of its current     *)
(* source.  Requests that edit a book take no shelf lock, so that they     *)
(* interleave with each other, with full scans and with the per-book       *)
(* check.                                                                  *)
(*                                                                         *)
(* The metadata is the set of edits it contains and the current source; a  *)
(* revision is the modification time and size that FileStat compares, new  *)
(* with every write.  A count is the source and the version of the content *)
(* that it counts.                                                         *)
(***************************************************************************)
EXTENDS Integers, FiniteSets

CONSTANTS Requests,  \* handlers that change the book
          Readers,   \* full scans and per-book checks
          Objects,   \* Book objects that can be in use at a time
          Sources,
          Kinds,     \* what requests do: a subset of AllKinds
          Overlap,   \* whether two of them may be in progress at a time
          MaxOps,    \* bound of the requests and scans that begin
          None

AllKinds == {"edit", "point", "rewrite"}
Actors == Requests \cup Readers

ASSUME BookAssumption ==
    /\ Kinds \subseteq AllKinds /\ Overlap \in BOOLEAN /\ MaxOps \in Nat
    /\ Requests \cap Readers = {} /\ None \notin Objects \cup AllKinds
    /\ Objects # {} /\ \A f \in [Actors -> Objects] : \E o \in Objects : \A a \in Actors : f[a] # o

VARIABLES disk,   \* book.json: meta and rev
          words,  \* the version of each source's content, with its meta.json
          heap,   \* what each Book object holds: meta and rev (metaStat)
          entry,  \* the book's bookIDCacheEntry
          pc, kind, book, copy, stat,  \* each actor's step and local variables
          clock,  \* time.Now(), a new instant for every reading
          ops,    \* how many requests and scans have begun
          acked,  \* the edits whose request has been answered
          crossed \* whether a pointer was moved across what another actor had read

files == <<disk, words>>
local == <<kind, book, copy, stat>>
vars == <<files, heap, entry, pc, local, clock, ops, acked, crossed>>

NoStat == [count |-> None, at |-> 0]
NoMeta == [edits |-> {}, cur |-> None]

\* The book when its shelf has just been scanned.
Init ==
    LET o == CHOOSE p \in Objects : TRUE IN
    \E src \in Sources :
        /\ disk = [meta |-> [edits |-> {}, cur |-> src], rev |-> 0]
        /\ words = [s \in Sources |-> 0]
        /\ heap = [p \in Objects |-> disk]
        /\ entry = [book |-> o, count |-> <<src, 0>>, at |-> 0]
        /\ pc = [a \in Actors |-> "idle"]
        /\ kind = [a \in Actors |-> None]
        /\ book = [a \in Actors |-> None]
        /\ copy = [a \in Actors |-> NoMeta]
        /\ stat = [a \in Actors |-> NoStat]
        /\ clock = 1
        /\ ops = 0
        /\ acked = {}
        /\ crossed = FALSE

-----------------------------------------------------------------------------
Goto(a, step) == pc' = [pc EXCEPT ![a] = step]

\* The objects that something still points to.
Live == {entry.book} \cup {book[a] : a \in Actors}

\* A lookup reopens a stale book without giving up the cache's mutex.
Locked == \E r \in Requests : pc[r] \in {"restat", "recount", "readd"}

MayBegin == ops < MaxOps /\ (Overlap \/ \A a \in Actors : pc[a] = "idle")

\* Book.IsStale
IsStale(o) == heap[o].rev # disk.rev

\* Open begins with readBookMeta.
ReadMeta(a, step) ==
    /\ copy' = [copy EXCEPT ![a] = disk.meta]
    /\ Goto(a, step)

\* readSourceStat begins with the time.
DateStat(a) ==
    /\ stat' = [stat EXCEPT ![a] = [count |-> None, at |-> clock]]
    /\ clock' = clock + 1

\* Open ends with the file's stat; the caller goes on to readSourceStat.
StatMeta(a, step) ==
    /\ LET o == CHOOSE p \in Objects : p \notin Live IN
          /\ heap' = [heap EXCEPT ![o] = [meta |-> copy[a], rev |-> disk.rev]]
          /\ book' = [book EXCEPT ![a] = o]
    /\ DateStat(a)
    /\ Goto(a, step)

\* CurrentSourceStat: the meta.json of the source that the OBJECT says is current.
CountSource(a, step) ==
    LET src == heap[book[a]].meta.cur IN
    /\ stat' = [stat EXCEPT ![a].count = <<src, words[src]>>]
    /\ Goto(a, step)

\* The entry that actor a would publish.
Found(a) == [book |-> book[a], count |-> stat[a].count, at |-> stat[a].at]

\* Fault: what was read last is published last.
KeepNewerNever(new) == new

\* keepNewerCharCount
KeepNewer(new) ==
    IF entry.at > new.at
      THEN [new EXCEPT !.count = entry.count, !.at = entry.at]
      ELSE new

\* The actor ends; what only it pointed to is garbage.
Release(a) ==
    /\ Goto(a, "idle")
    /\ book' = [book EXCEPT ![a] = None]
    /\ kind' = [kind EXCEPT ![a] = None]
    /\ stat' = [stat EXCEPT ![a] = NoStat]
    /\ copy' = [copy EXCEPT ![a] = NoMeta]

-----------------------------------------------------------------------------
\* A full scan opens the book (scanToBookCache, iterateShelfTree); the per-book
\* check does when its object is stale (onlyRefreshBooksInCache).  Both then
\* read its count and publish the entry.
Scan(a) ==
    /\ pc[a] = "idle" /\ MayBegin
    /\ ReadMeta(a, "stat")
    /\ ops' = ops + 1
    /\ UNCHANGED <<files, heap, entry, kind, book, stat, clock, acked, crossed>>

Check(a) == ~Locked /\ IsStale(entry.book) /\ Scan(a)

ScanStat(a) ==
    /\ pc[a] = "stat"
    /\ StatMeta(a, "count")
    /\ UNCHANGED <<files, entry, kind, copy, ops, acked, crossed>>

ScanCount(a) ==
    /\ pc[a] = "count"
    /\ CountSource(a, "publish")
    /\ UNCHANGED <<files, heap, entry, kind, book, copy, clock, ops, acked, crossed>>

Publish(a) ==
    /\ pc[a] = "publish" /\ ~Locked
    /\ entry' = KeepNewer(Found(a))
    /\ Release(a)
    /\ UNCHANGED <<files, heap, clock, ops, acked, crossed>>

-----------------------------------------------------------------------------
\* GetBook finds the cached object fresh (getUpdatedBookFromBookID) ...
Lookup(r, k) ==
    /\ pc[r] = "idle" /\ MayBegin /\ ~Locked
    /\ ~IsStale(entry.book)
    /\ book' = [book EXCEPT ![r] = entry.book]
    /\ kind' = [kind EXCEPT ![r] = k]
    /\ ops' = ops + 1
    /\ Goto(r, "have")
    /\ UNCHANGED <<files, heap, entry, copy, stat, clock, acked, crossed>>

\* ... or opens the book again, without keeping the older entry's count.
Reopen(r, k) ==
    /\ pc[r] = "idle" /\ MayBegin /\ ~Locked
    /\ IsStale(entry.book)
    /\ ReadMeta(r, "restat")
    /\ kind' = [kind EXCEPT ![r] = k]
    /\ ops' = ops + 1
    /\ UNCHANGED <<files, heap, entry, book, stat, clock, acked, crossed>>

ReopenStat(r) ==
    /\ pc[r] = "restat"
    /\ StatMeta(r, "recount")
    /\ UNCHANGED <<files, entry, kind, copy, ops, acked, crossed>>

ReopenCount(r) ==
    /\ pc[r] = "recount"
    /\ CountSource(r, "readd")
    /\ UNCHANGED <<files, heap, entry, kind, book, copy, clock, ops, acked, crossed>>

Readd(r) ==
    /\ pc[r] = "readd"
    /\ entry' = Found(r)
    /\ Goto(r, "have")
    /\ UNCHANGED <<files, heap, local, clock, ops, acked, crossed>>

\* updateSourceContent and refreshSourceMeta rewrite the current source and its
\* meta.json; the object says which it is.
Rewrite(r) ==
    /\ pc[r] = "have" /\ kind[r] = "rewrite"
    /\ words' = [words EXCEPT ![heap[book[r]].meta.cur] = @ + 1]
    /\ Goto(r, "refresh")
    /\ UNCHANGED <<disk, heap, entry, local, clock, ops, acked, crossed>>

\* updateBook patches the object's metadata; SetCurrentSource sets its pointer.
Patch(r) ==
    /\ pc[r] = "have"
    /\ LET meta == heap[book[r]].meta IN
       \/ /\ kind[r] = "edit"
          /\ copy' = [copy EXCEPT ![r] = [meta EXCEPT !.edits = @ \cup {ops}]]
       \/ /\ kind[r] = "point"
          /\ \E src \in Sources \ {meta.cur} :
                copy' = [copy EXCEPT ![r] = [meta EXCEPT !.cur = src]]
    /\ Goto(r, "write")
    /\ UNCHANGED <<files, heap, entry, kind, book, stat, clock, ops, acked, crossed>>

\* The actor will still use what it has read of book.json.
Holds(a) == pc[a] \notin {"idle", "refresh", "restore", "put"}

\* Request r moves the pointer of an object that the entry no longer has, or of a book
\* that another actor is in the middle of opening, publishing or writing.
Crosses(r) ==
    kind[r] = "point" /\ (book[r] # entry.book \/ \E a \in Actors \ {r} : Holds(a))

\* setMeta writes book.json ...
WriteMeta(r) ==
    /\ pc[r] = "write"
    /\ disk' = [meta |-> copy[r], rev |-> disk.rev + 1]
    /\ crossed' = (crossed \/ Crosses(r))
    /\ Goto(r, "assign")
    /\ UNCHANGED <<words, heap, entry, local, clock, ops, acked>>

\* Fault: the object remembers the new stat and keeps the old metadata.
AssignStatOnly(r) ==
    /\ pc[r] = "assign"
    /\ heap' = [heap EXCEPT ![book[r]].rev = disk.rev]
    /\ IF kind[r] = "edit"
         THEN Release(r) /\ acked' = acked \cup copy[r].edits
         ELSE Goto(r, "refresh") /\ UNCHANGED <<local, acked>>
    /\ UNCHANGED <<files, entry, clock, ops, crossed>>

\* ... and then the object takes the metadata, with the stat the file now has.
\* An edit is answered; a pointer that has moved is followed by a refresh.
Assign(r) ==
    /\ pc[r] = "assign"
    /\ heap' = [heap EXCEPT ![book[r]] = [meta |-> copy[r], rev |-> disk.rev]]
    /\ IF kind[r] = "edit"
         THEN Release(r) /\ acked' = acked \cup copy[r].edits
         ELSE Goto(r, "refresh") /\ UNCHANGED <<local, acked>>
    /\ UNCHANGED <<files, entry, clock, ops, crossed>>

\* RefreshBookCharCount takes the entry's object, which need not be the
\* request's own, reads its count ...
Refresh(r) ==
    /\ pc[r] = "refresh" /\ ~Locked
    /\ book' = [book EXCEPT ![r] = entry.book]
    /\ DateStat(r)
    /\ Goto(r, "restore")
    /\ UNCHANGED <<files, heap, entry, kind, copy, ops, acked, crossed>>

RefreshCount(r) ==
    /\ pc[r] = "restore"
    /\ CountSource(r, "put")
    /\ UNCHANGED <<files, heap, entry, kind, book, copy, clock, ops, acked, crossed>>

\* ... and puts it into the entry unless that has a newer one.
Put(r) ==
    /\ pc[r] = "put" /\ ~Locked
    /\ entry' = IF entry.at > stat[r].at THEN entry
                ELSE [entry EXCEPT !.count = stat[r].count, !.at = stat[r].at]
    /\ Release(r)
    /\ UNCHANGED <<files, heap, clock, ops, acked, crossed>>

Next ==
    \/ \E a \in Readers : Scan(a) \/ Check(a) \/ ScanStat(a) \/ ScanCount(a) \/ Publish(a)
    \/ \E r \in Requests : ReopenStat(r) \/ ReopenCount(r) \/ Readd(r) \/ Rewrite(r)
           \/ Patch(r) \/ WriteMeta(r) \/ Assign(r) \/ Refresh(r) \/ RefreshCount(r) \/ Put(r)
    \/ \E r \in Requests, k \in Kinds : Lookup(r, k) \/ Reopen(r, k)

Spec == Init /\ [][Next]_vars

-----------------------------------------------------------------------------
\* An answered edit stays in book.json: the requests that follow it build on it.
EditsKept == acked \subseteq disk.meta.edits

\* A request has changed the source or the pointer and not refreshed the count.
Refreshing(r) ==
    \/ pc[r] \in {"refresh", "restore", "put"}
    \/ pc[r] = "assign" /\ kind[r] = "point"

\* Once the requests that changed a source or moved the pointer have been answered, the
\* cached count is that of the book's current source, whichever scans and lookups they
\* overlapped, unless the pointer was moved while another actor held what it had read of
\* book.json before, or after the entry got another object: either may bring the old
\* pointer back, in book.json or in the object that RefreshBookCharCount counts.
CountCurrent ==
    ~Locked /\ ~crossed /\ (\A r \in Requests : ~Refreshing(r)) =>
        entry.count = <<disk.meta.cur, words[disk.meta.cur]>>

\* When nothing is in progress, lookups and listings show book.json.
CacheCurrent ==
    (\A a \in Actors : pc[a] = "idle") => heap[entry.book].meta = disk.meta
=============================================================================
