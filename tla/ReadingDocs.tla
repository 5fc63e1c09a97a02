----------------------------- MODULE ReadingDocs -----------------------------
(***************************************************************************)
(* The four documents that the desktop app and the reader share in the     *)
(* user's configuration directory, as values, and what an operation makes  *)
(* of them: reading progress, reading statistics, read history and         *)
(* preferences (internal/readingprogress, readingstats, readhistory,       *)
(* preferences).  A book opened by itself in the reader is recorded under  *)
(* the shelf Reader; once the desktop app knows the book's real shelf,     *)
(* home[b], Project moves or copies the record there.                      *)
(***************************************************************************)
EXTENDS Integers, Sequences, FiniteSetsExt

CONSTANTS Shelves,    \* the real shelves
          Reader,     \* readingprogress.ReaderShelfID
          Books,
          Apps,       \* the processes: AppDesktop, AppReader
          Retention,  \* RetentionDays
          MaxPerDay,  \* maxSecondsPerDay
          MaxDay,     \* bound of the calendar
          Limits,     \* the lengths a history may be limited to
          None

Scopes == Shelves \cup {Reader}
Days == 1..MaxDay
Least(m, n) == IF m <= n THEN m ELSE n

-----------------------------------------------------------------------------
(* Reading progress: an entry with at = 0 is absent, as Parse drops it.    *)

NoEntry == [offset |-> 0, at |-> 0]

\* Fault: the last writer wins.
NewestLast(cur, new) == IF new.at > 0 THEN new ELSE cur

\* The entry that Project and MergeNewest keep of two.
Newest(cur, new) == IF new.at > 0 /\ new.at >= cur.at THEN new ELSE cur

MergeNewest(disk, write) ==
    [s \in Scopes |-> [b \in Books |-> Newest(disk[s][b], write[s][b])]]

ProjectProgress(doc, home) ==
    [s \in Scopes |-> [b \in Books |->
        IF s = home[b] THEN Newest(doc[s][b], doc[Reader][b]) ELSE doc[s][b]]]

-----------------------------------------------------------------------------
(* Reading statistics: the seconds of each key and day.  A book of the     *)
(* reader has a key of its own, ReaderBookKey, until it is projected.      *)

StatKeys == Scopes \cup ({Reader} \X Books)

Kept(d, today) == d \in (today - Retention + 1)..today

\* withSeconds: an old or future date is ignored, and the key's old days are dropped.
WithSeconds(doc, key, date, seconds, today) ==
    IF ~ Kept(date, today) THEN doc
    ELSE [doc EXCEPT ![key] = [d \in Days |->
            IF d = date THEN Least(@[d] + seconds, MaxPerDay)
            ELSE IF Kept(d, today) THEN @[d] ELSE 0]]

Pending(key, home) == \E b \in Books : key = <<Reader, b>> /\ home[b] # None

SecondsOf(doc, keys, d) == MapThenSumSet(LAMBDA k : doc[k][d], keys)

ProjectStats(doc, home) ==
    [k \in StatKeys |-> [d \in Days |->
        IF Pending(k, home) THEN 0
        ELSE Least(doc[k][d]
                     + SecondsOf(doc, {<<Reader, b>> : b \in {b \in Books : home[b] = k}}, d),
                   MaxPerDay)]]

-----------------------------------------------------------------------------
(* Read history: the books of each shelf, the latest first.                *)

Cut(ids, limit) == SubSeq(ids, 1, Least(Len(ids), limit))
In(ids) == {ids[i] : i \in DOMAIN ids}

\* The loops that append the books of S.
Only(ids, S) ==
    LET From[i \in 0..Len(ids)] ==
            IF i = 0 THEN <<>>
            ELSE IF ids[i] \in S THEN Append(From[i - 1], ids[i]) ELSE From[i - 1]
    IN  From[Len(ids)]

WithEntry(doc, s, b) ==
    IF doc.limit = 0 THEN doc
    ELSE [doc EXCEPT !.ids[s] = Cut(<<b>> \o Only(@, Books \ {b}), doc.limit)]

WithoutShelf(doc, s) == [doc EXCEPT !.ids[s] = <<>>]

WithLimit(doc, n) ==
    [limit |-> n, ids |-> [s \in Scopes |-> Cut(doc.ids[s], n)]]

ProjectHistory(doc, home) ==
    LET Moved(s) == Only(doc.ids[Reader], {b \in Books : home[b] = s})
    IN  [doc EXCEPT !.ids = [s \in Scopes |->
            IF s = Reader THEN Only(@[s], {b \in Books : home[b] = None})
            ELSE Cut(Moved(s) \o Only(@[s], Books \ In(Moved(s))), doc.limit)]]

-----------------------------------------------------------------------------
(* Preferences: one key of each app's own ("plainshelf.shelf"), the rest   *)
(* shared.  The empty value deletes.                                       *)

PrefSlots == Apps \cup {"shared"}

\* withValue
WithValue(doc, app, scoped, value) ==
    [doc EXCEPT ![IF scoped THEN app ELSE "shared"] = value]

-----------------------------------------------------------------------------
Kinds == {"progress", "stats", "history", "preferences"}

\* New of each package: what Parse makes of a missing or foreign file.
New(kind) ==
    CASE kind = "progress" -> [s \in Scopes |-> [b \in Books |-> NoEntry]]
      [] kind = "stats" -> [k \in StatKeys |-> [d \in Days |-> 0]]
      [] kind = "history" -> [limit |-> Max(Limits), ids |-> [s \in Scopes |-> <<>>]]
      [] kind = "preferences" -> [p \in PrefSlots |-> None]

\* What the function given to Mutate makes of the document.
ApplyTo(op, doc, home, today) ==
    CASE op.do = "merge" -> MergeNewest(doc, op.write)
      [] op.do = "project" ->
           (CASE op.kind = "progress" -> ProjectProgress(doc, home)
              [] op.kind = "stats" -> ProjectStats(doc, home)
              [] op.kind = "history" -> ProjectHistory(doc, home))
      [] op.do = "add" -> WithSeconds(doc, op.key, op.date, op.seconds, today)
      [] op.do = "record" -> WithEntry(doc, op.shelf, op.book)
      [] op.do = "clear" -> WithoutShelf(doc, op.shelf)
      [] op.do = "limit" -> WithLimit(doc, op.limit)
      [] op.do = "set" -> WithValue(doc, op.app, op.scoped, op.value)

\* Whether a reading app finds something to project (MutateIf's needed, projectionChanges).
Needed(kind, doc, home) ==
    CASE kind = "progress" -> ProjectProgress(doc, home) # doc
      [] kind = "stats" -> \E b \in Books, d \in Days : doc[<<Reader, b>>][d] > 0
      [] kind = "history" -> doc.ids[Reader] # <<>>
=============================================================================
