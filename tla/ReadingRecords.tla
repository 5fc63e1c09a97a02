--------------------------- MODULE ReadingRecords ---------------------------
(***************************************************************************)
(* The shared reading documents on disk: internal/lockedfile under the     *)
(* stores of readingprogress, readingstats, readhistory and preferences,   *)
(* and the calls of the desktop app and the reader.  The documents are     *)
(* independent files with a lock file each; a behaviour is about one of    *)
(* them.  Every call opens the lock file anew, so that flock(2) excludes   *)
(* the calls of one process as well as those of two.                       *)
(***************************************************************************)
EXTENDS ReadingDocs

CONSTANTS Callers,   \* the calls that can be in progress
          AppOf,     \* the process of each
          Followed,  \* the books whose progress is written: entries of two books never meet
          Offsets, Ats,
          MaxAdded   \* bound of the seconds added

VARIABLES kind,      \* the document
          file,      \* its contents: a missing file is New
          lock,      \* the call that holds path.lock
          call,      \* where each call is, what it asks for and the next document
          staged,    \* Stager.staged of each process
          home,      \* the shelf that resolveUniqueBookShelf finds
          today,
          merged,    \* the latest progress written for each book ...
          added      \* ... and the seconds added for each day

rvars == <<kind, file, lock, call, staged, home, today, merged, added>>
world == <<kind, home, today>>
written == <<file, merged, added>>

NoStage == [s \in Scopes |-> [b \in Books |-> NoEntry]]
Idle == [pc |-> "idle", op |-> None, next |-> None, adds |-> FALSE]

Init ==
    /\ kind \in Kinds
    /\ file = New(kind)
    /\ lock = None
    /\ call = [c \in Callers |-> Idle]
    /\ staged = [a \in Apps |-> NoStage]
    /\ home = [b \in Books |-> None]
    /\ today = 1
    /\ merged = [s \in Scopes |-> [b \in Books |-> 0]]
    /\ added = [d \in Days |-> 0]

-----------------------------------------------------------------------------
One(s, b, e) == [NoStage EXCEPT ![s][b] = e]
Entries == [offset : Offsets, at : Ats]

\* The operations an app asks for, by the document they are about.
Operations(app) ==
    CASE kind = "progress" ->
           {[do |-> "merge", write |-> One(s, b, e)] :
                s \in Scopes, b \in Followed, e \in Entries}
      [] kind = "stats" ->
           {[do |-> "add", key |-> k, date |-> d, seconds |-> 1] :
                k \in Shelves \cup ({Reader} \X Books), d \in Days}
      [] kind = "history" ->
           {[do |-> "record", shelf |-> s, book |-> b] : s \in Scopes, b \in Books}
             \cup {[do |-> "clear", shelf |-> s] : s \in Scopes}
             \cup {[do |-> "limit", limit |-> n] : n \in Limits}
      [] kind = "preferences" ->
           {[do |-> "set", app |-> app, scoped |-> x, value |-> v] :
                x \in BOOLEAN, v \in Ats \cup {None}}

\* All of them, and the projection that a reading app asks for.
AllOperations ==
    [do : {"merge"}, write : [Scopes -> [Books -> Entries \cup {NoEntry}]]]
      \cup [do : {"add"}, key : StatKeys, date : Days, seconds : {1}]
      \cup [do : {"record"}, shelf : Scopes, book : Books]
      \cup [do : {"clear"}, shelf : Scopes]
      \cup [do : {"limit"}, limit : Limits]
      \cup [do : {"set"}, app : Apps, scoped : BOOLEAN, value : Ats \cup {None}]
      \cup [do : {"project"}, kind : Kinds]

ASSUME RecordsAssumption ==
    /\ AppOf \in [Callers -> Apps]
    /\ None \notin Shelves /\ None \notin Callers /\ None \notin AllOperations
    /\ Offsets \subseteq Nat /\ Ats \subseteq Nat /\ Followed \subseteq Books

\* A reader's book has a key that no shelf has (ReaderBookKey), and there is a longest
\* history (normalizeLimit).
ASSUME DocumentsAssumption ==
    /\ IsFiniteSet(Shelves) /\ IsFiniteSet(Books)
    /\ Scopes \cap ({Reader} \X Books) = {} /\ None \notin StatKeys
    /\ Retention \in Nat /\ MaxPerDay \in Nat /\ MaxDay \in Nat
    /\ Limits \subseteq Nat /\ \E n \in Limits : \A m \in Limits : n >= m

Goto(c, pc) == call' = [call EXCEPT ![c].pc = pc]
Ends(c) == call' = [call EXCEPT ![c] = Idle]

\* WriteReadingProgress, AddReadingSeconds, RecordReadHistory, ClearReadHistory,
\* SetReadHistoryLimit, SetPreference
Request(c) ==
    /\ call[c].pc = "idle"
    /\ \E op \in Operations(AppOf[c]) :
          call' = [call EXCEPT ![c] = [Idle EXCEPT !.pc = "lock", !.op = op]]
    /\ UNCHANGED <<world, written, lock, staged>>

\* ReadReadingProgress, ReadReadHistory and ReadReadingStats of the desktop app read
\* without the lock, and project what is due.
ReadAndProject(c) ==
    /\ call[c].pc = "idle"
    /\ kind # "preferences"
    /\ Needed(kind, file, home)
    /\ call' = [call EXCEPT ![c] =
                  [Idle EXCEPT !.pc = "lock", !.op = [do |-> "project", kind |-> kind]]]
    /\ UNCHANGED <<world, written, lock, staged>>

\* Stager.Stage: the latest call for a book replaces the earlier one.  An app has one
\* book open.
Stage(a, s, b, e) ==
    /\ kind = "progress"
    /\ staged[a] = NoStage \/ staged[a][s][b] # NoEntry
    /\ staged' = [staged EXCEPT ![a][s][b] = e]
    /\ UNCHANGED <<world, written, lock, call>>

\* PersistOnClose starts a goroutine that merges a snapshot.
PersistOnClose(c) ==
    /\ call[c].pc = "idle"
    /\ staged[AppOf[c]] # NoStage
    /\ call' = [call EXCEPT ![c] =
                  [Idle EXCEPT !.pc = "lock",
                               !.op = [do |-> "merge", write |-> staged[AppOf[c]]]]]
    /\ staged' = [staged EXCEPT ![AppOf[c]] = NoStage]
    /\ UNCHANGED <<world, written, lock>>

-----------------------------------------------------------------------------
\* Fault: the lock is on the document itself, which the next rename replaces.
LockHeld(c) ==
    /\ call[c].pc = "lock"
    /\ lock' = c
    /\ Goto(c, "read")
    /\ UNCHANGED <<world, written, staged>>

\* File.lock
Lock(c) ==
    /\ call[c].pc = "lock"
    /\ lock = None
    /\ lock' = c
    /\ Goto(c, "read")
    /\ UNCHANGED <<world, written, staged>>

\* The lock is not had within lockTimeout.
TimeOut(c) ==
    /\ call[c].pc = "lock"
    /\ lock # None
    /\ Ends(c)
    /\ UNCHANGED <<world, written, lock, staged>>

\* Mutate reads the file and computes the next document.
Read(c) ==
    /\ call[c].pc = "read"
    /\ LET op == call[c].op IN
       call' = [call EXCEPT ![c] =
                  [pc |-> "write", op |-> op,
                   next |-> ApplyTo(op, file, home, today),
                   adds |-> op.do = "add" /\ Kept(op.date, today)]]
    /\ UNCHANGED <<world, written, lock, staged>>

Later(s, b, op) == IF op.write[s][b].at > merged[s][b] THEN op.write[s][b].at ELSE merged[s][b]

\* WriteTextFileAtomic renames the new file over the old one, unless nothing changed.
Rename(c) ==
    /\ call[c].pc = "write"
    /\ call[c].adds => added[call[c].op.date] < MaxAdded
    /\ file' = call[c].next
    /\ merged' = IF call[c].op.do = "merge"
                   THEN [s \in Scopes |-> [b \in Books |-> Later(s, b, call[c].op)]]
                   ELSE merged
    /\ added' = IF call[c].adds
                  THEN [added EXCEPT ![call[c].op.date] = @ + call[c].op.seconds]
                  ELSE added
    /\ Goto(c, "unlock")
    /\ UNCHANGED <<world, lock, staged>>

\* Reading, serializing or writing fails, or the document is too large.
Fail(c) ==
    /\ call[c].pc \in {"read", "write"}
    /\ Goto(c, "unlock")
    /\ UNCHANGED <<world, written, lock, staged>>

Unlock(c) ==
    /\ call[c].pc = "unlock"
    /\ lock' = IF lock = c THEN None ELSE lock
    /\ Ends(c)
    /\ UNCHANGED <<world, written, staged>>

\* A process ends, by itself, by a crash or because PersistOnClose was not done in time.
Exit(a) ==
    /\ call' = [c \in Callers |-> IF AppOf[c] = a THEN Idle ELSE call[c]]
    /\ lock' = IF lock # None /\ AppOf[lock] = a THEN None ELSE lock
    /\ staged' = [staged EXCEPT ![a] = NoStage]
    /\ UNCHANGED <<world, written>>

\* A shelf with the book is opened.
Discover(b) ==
    /\ home[b] = None
    /\ \E s \in Shelves : home' = [home EXCEPT ![b] = s]
    /\ UNCHANGED <<kind, today, written, lock, call, staged>>

NextDay ==
    /\ kind = "stats" /\ today < MaxDay
    /\ today' = today + 1
    /\ UNCHANGED <<kind, home, written, lock, call, staged>>

Next ==
    \/ \E c \in Callers :
          \/ Request(c) \/ ReadAndProject(c) \/ PersistOnClose(c)
          \/ Lock(c) \/ TimeOut(c) \/ Read(c) \/ Rename(c) \/ Fail(c) \/ Unlock(c)
    \/ \E a \in Apps : Exit(a)
    \/ \E a \in Apps, s \in Scopes, b \in Followed, e \in Entries : Stage(a, s, b, e)
    \/ \E b \in Books : Discover(b)
    \/ NextDay

Spec == Init /\ [][Next]_rvars

-----------------------------------------------------------------------------
Asked(c) == IF call[c].pc \in {"idle", "unlock"} THEN None ELSE call[c].op

Store == INSTANCE RecordStore
           WITH subject <- kind, store <- file, shelfOf <- home, date <- today,
                pending <- [c \in Callers |-> Asked(c)]

\* The calls of both apps change each document as if they came one after another: none
\* works on a version that another call has replaced, and a call that fails or whose
\* process ends leaves nothing behind (lockedfile.Mutate).
OneAfterAnother == Store!SSpec

\* No write, projection or late flush of a closing app takes reading progress back: the
\* entry of a book is as recent as the latest one written (MergeNewest, Project, Stager).
ProgressKept ==
    kind = "progress" =>
        \A s \in Scopes, b \in Books : file[s][b].at >= merged[s][b]

\* Reading time is neither lost nor counted twice while the reader's books are projected
\* to their shelves and old days are dropped (withSeconds, Project), up to the daily cap.
TimeConserved ==
    kind = "stats" =>
        \A d \in Days : Kept(d, today) /\ added[d] <= MaxPerDay =>
            SecondsOf(file, StatKeys, d) = added[d]

\* A shelf's history never names a book twice and keeps to its limit, whatever limits,
\* clearings and projections come between (withEntry, withLimit, Project).
HistoryListed ==
    kind = "history" =>
        \A s \in Scopes :
            /\ Len(file.ids[s]) <= file.limit
            /\ \A i, j \in DOMAIN file.ids[s] : file.ids[s][i] = file.ids[s][j] => i = j
=============================================================================
