---------------------------- MODULE ShelfProofs ----------------------------
(***************************************************************************)
(* No book of a shelf is lost or doubled: the invariants of module Shelf,  *)
(* for any number of requests, books, folders and names, with or without   *)
(* failures, crashes and changes from outside; listings are exact when     *)
(* requests come one after another and only they touch the shelf; and what *)
(* happens to the books is what module Places says.                        *)
(***************************************************************************)
EXTENDS Shelf, SequenceTheorems, TLAPS

-----------------------------------------------------------------------------
(* Folders, their prefixes, and what a moved folder is called.             *)

AnyFolder == Seq(FolderNames)

LEMMA FoldersAre == \A f : f \in Folders <=> f \in AnyFolder /\ Len(f) <= MaxDepth
  BY ShelfAssumption DEF Folders, AnyFolder

LEMMA UnderIs ==
    ASSUME NEW f \in AnyFolder, NEW g
    PROVE  Under(f, g) <=> /\ g \in AnyFolder /\ Len(g) <= Len(f)
                           /\ \A k \in 1..Len(g) : g[k] = f[k]
<1>1. ASSUME NEW n \in 0..Len(f)
      PROVE  /\ SubSeq(f, 1, n) \in AnyFolder /\ Len(SubSeq(f, 1, n)) = n
             /\ \A k \in 1..n : SubSeq(f, 1, n)[k] = f[k]
  BY DEF AnyFolder
<1>2. ASSUME g \in AnyFolder, Len(g) <= Len(f), \A k \in 1..Len(g) : g[k] = f[k]
      PROVE  g = SubSeq(f, 1, Len(g))
  BY <1>1, <1>2 DEF AnyFolder
<1> QED
  BY <1>1, <1>2 DEF Under, Prefixes, AnyFolder

LEMMA RerootIs ==
    ASSUME NEW f \in AnyFolder, NEW a \in AnyFolder, NEW b \in AnyFolder, Under(f, a)
    PROVE  /\ Reroot(f, a, b) \in AnyFolder
           /\ Len(Reroot(f, a, b)) = Len(b) + Len(f) - Len(a)
           /\ \A k \in 1..Len(b) : Reroot(f, a, b)[k] = b[k]
           /\ \A k \in 1..Len(f) - Len(a) : Reroot(f, a, b)[Len(b) + k] = f[Len(a) + k]
<1> DEFINE rest == SubSeq(f, Len(a) + 1, Len(f))
<1>1. Len(a) \in Nat /\ Len(b) \in Nat /\ Len(f) \in Nat /\ Len(a) <= Len(f)
  BY UnderIs DEF AnyFolder
<1>2. /\ rest \in AnyFolder /\ Len(rest) = Len(f) - Len(a)
      /\ \A k \in 1..Len(f) - Len(a) : rest[k] = f[Len(a) + k]
  BY <1>1 DEF AnyFolder
<1> HIDE DEF rest
<1>3. /\ b \o rest \in AnyFolder /\ Len(b \o rest) = Len(b) + Len(rest)
      /\ \A k \in 1..Len(b) : (b \o rest)[k] = b[k]
      /\ \A k \in 1..Len(rest) : (b \o rest)[Len(b) + k] = rest[k]
  <2>1. b \in Seq(FolderNames) /\ rest \in Seq(FolderNames)
    BY <1>2 DEF AnyFolder
  <2>2. /\ b \o rest \in Seq(FolderNames) /\ Len(b \o rest) = Len(b) + Len(rest)
        /\ \A i \in 1..Len(b) + Len(rest) :
              (b \o rest)[i] = IF i <= Len(b) THEN b[i] ELSE rest[i - Len(b)]
    BY <2>1, ConcatProperties
  <2> QED
    BY <1>1, <1>2, <2>1, <2>2 DEF AnyFolder
<1> QED
  BY <1>1, <1>2, <1>3 DEF Reroot, rest

\* The prefixes of a folder are in a line, from the folder to the top.
LEMMA UnderItself == ASSUME NEW f \in AnyFolder PROVE Under(f, f) /\ Under(f, <<>>)
<1>1. <<>> \in AnyFolder /\ Len(<<>>) = 0 /\ Len(f) \in Nat
  BY EmptySeq DEF AnyFolder
<1>2. Under(f, <<>>)
  BY <1>1, UnderIs
<1>3. Under(f, f)
  BY <1>1, UnderIs
<1> QED
  BY <1>2, <1>3

LEMMA UnderTransitive ==
    ASSUME NEW f \in AnyFolder, NEW g, NEW h, Under(f, g), Under(g, h)
    PROVE  g \in AnyFolder /\ h \in AnyFolder /\ Under(f, h)
<1>1. g \in AnyFolder /\ Len(g) <= Len(f) /\ \A k \in 1..Len(g) : g[k] = f[k]
  BY UnderIs
<1>2. h \in AnyFolder /\ Len(h) <= Len(g) /\ \A k \in 1..Len(h) : h[k] = g[k]
  BY <1>1, UnderIs
<1>3. Len(f) \in Nat /\ Len(g) \in Nat /\ Len(h) \in Nat
  BY <1>1, <1>2 DEF AnyFolder
<1> QED
  BY <1>1, <1>2, <1>3, UnderIs

LEMMA UnderLinear ==
    ASSUME NEW f \in AnyFolder, NEW g, NEW h, Under(f, g), Under(f, h)
    PROVE  Under(g, h) \/ Under(h, g)
<1>1. g \in AnyFolder /\ Len(g) <= Len(f) /\ \A k \in 1..Len(g) : g[k] = f[k]
  BY UnderIs
<1>2. h \in AnyFolder /\ Len(h) <= Len(f) /\ \A k \in 1..Len(h) : h[k] = f[k]
  BY UnderIs
<1>3. Len(f) \in Nat /\ Len(g) \in Nat /\ Len(h) \in Nat
  BY <1>1, <1>2 DEF AnyFolder
<1> QED
  BY <1>1, <1>2, <1>3, UnderIs

\* The folders above a folder are those above its parent, and itself.
LEMMA AboveParent ==
    ASSUME NEW f \in AnyFolder, f # <<>>, NEW g
    PROVE  LET parent == SubSeq(f, 1, Len(f) - 1)
           IN /\ parent \in AnyFolder /\ Under(f, parent)
              /\ Under(f, g) /\ g # f => Under(parent, g)
<1> DEFINE parent == SubSeq(f, 1, Len(f) - 1)
<1>1. Len(f) \in Nat \ {0}
  BY DEF AnyFolder
<1>2. /\ parent \in AnyFolder /\ Len(parent) = Len(f) - 1
      /\ \A k \in 1..Len(f) - 1 : parent[k] = f[k]
  <2>1. ASSUME NEW n \in 0..Len(f)
        PROVE  /\ SubSeq(f, 1, n) \in AnyFolder /\ Len(SubSeq(f, 1, n)) = n
               /\ \A k \in 1..n : SubSeq(f, 1, n)[k] = f[k]
    BY DEF AnyFolder
  <2>2. Len(f) - 1 \in 0..Len(f)
    BY <1>1
  <2> QED
    BY <2>1, <2>2
<1> HIDE DEF parent
<1>3. Under(f, parent)
  BY <1>1, <1>2, UnderIs
<1>4. ASSUME Under(f, g), g # f PROVE Under(parent, g)
  <2>1. g \in AnyFolder /\ Len(g) <= Len(f) /\ \A k \in 1..Len(g) : g[k] = f[k]
    BY <1>4, UnderIs
  <2>2. Len(g) # Len(f)
    BY <1>4, <2>1, SeqEqual DEF AnyFolder
  <2>3. Len(g) \in Nat
    BY <2>1 DEF AnyFolder
  <2> QED
    BY <1>1, <1>2, <2>1, <2>2, <2>3, UnderIs
<1> QED
  BY <1>2, <1>3, <1>4 DEF parent

\* On the way down to a folder there is a child.
LEMMA ChildOnTheWay ==
    ASSUME NEW f \in AnyFolder, NEW g, Under(f, g), g # f
    PROVE  \E c \in AnyFolder : Under(f, c) /\ c # <<>> /\ SubSeq(c, 1, Len(c) - 1) = g
<1> DEFINE c == SubSeq(f, 1, Len(g) + 1)
<1>1. g \in AnyFolder /\ Len(g) <= Len(f) /\ \A k \in 1..Len(g) : g[k] = f[k]
  BY UnderIs
<1>2. Len(g) # Len(f) /\ Len(g) \in Nat /\ Len(f) \in Nat
  BY <1>1, SeqEqual DEF AnyFolder
<1>3. /\ c \in AnyFolder /\ Len(c) = Len(g) + 1
      /\ \A k \in 1..Len(g) + 1 : c[k] = f[k]
  BY <1>1, <1>2 DEF AnyFolder
<1> HIDE DEF c
<1>4. Under(f, c)
  BY <1>1, <1>2, <1>3, UnderIs
<1>5. c # <<>>
  BY <1>2, <1>3
<1>6. SubSeq(c, 1, Len(c) - 1) = g
  <2>1. /\ SubSeq(c, 1, Len(c) - 1) \in AnyFolder /\ Len(SubSeq(c, 1, Len(c) - 1)) = Len(g)
        /\ \A k \in 1..Len(g) : SubSeq(c, 1, Len(c) - 1)[k] = g[k]
    BY <1>1, <1>2, <1>3 DEF AnyFolder
  <2> QED
    BY <1>1, <2>1, SeqEqual DEF AnyFolder
<1> QED
  BY <1>3, <1>4, <1>5, <1>6

\* Moving a folder and moving it back.
LEMMA RerootBack ==
    ASSUME NEW f \in AnyFolder, NEW a \in AnyFolder, NEW b \in AnyFolder, Under(f, a)
    PROVE  /\ Reroot(f, a, b) \in AnyFolder /\ Under(Reroot(f, a, b), b)
           /\ Reroot(Reroot(f, a, b), b, a) = f
<1> DEFINE r == Reroot(f, a, b)
<1>1. Len(a) \in Nat /\ Len(b) \in Nat /\ Len(f) \in Nat
  BY DEF AnyFolder
<1>2. Len(a) <= Len(f) /\ \A k \in 1..Len(a) : a[k] = f[k]
  BY UnderIs
<1>3. /\ r \in AnyFolder /\ Len(r) = Len(b) + Len(f) - Len(a)
      /\ \A k \in 1..Len(b) : r[k] = b[k]
      /\ \A k \in 1..Len(f) - Len(a) : r[Len(b) + k] = f[Len(a) + k]
  BY RerootIs
<1> HIDE DEF r
<1>4. Under(r, b)
  BY <1>1, <1>2, <1>3, UnderIs
<1> DEFINE q == Reroot(r, b, a)
<1>5. /\ q \in AnyFolder /\ Len(q) = Len(a) + Len(r) - Len(b)
      /\ \A k \in 1..Len(a) : q[k] = a[k]
      /\ \A k \in 1..Len(r) - Len(b) : q[Len(a) + k] = r[Len(b) + k]
  BY <1>3, <1>4, RerootIs
<1> HIDE DEF q
<1>6. Len(q) = Len(f)
  BY <1>1, <1>3, <1>5
<1>7. ASSUME NEW k \in 1..Len(f) PROVE q[k] = f[k]
  <2>1. CASE k <= Len(a)
    BY <1>1, <1>2, <1>5, <2>1
  <2>2. CASE k > Len(a)
    <3>1. k - Len(a) \in 1..Len(f) - Len(a) /\ k - Len(a) \in 1..Len(r) - Len(b)
          /\ k = Len(a) + (k - Len(a))
      BY <1>1, <1>3, <2>2
    <3> QED
      BY <1>3, <1>5, <3>1
  <2> QED
    BY <1>1, <2>1, <2>2
<1>8. q = f
  BY <1>5, <1>6, <1>7, SeqEqual DEF AnyFolder
<1> QED
  BY <1>3, <1>4, <1>8 DEF r, q

\* What is above a moved folder is above its new root, or was moved with it.
LEMMA AboveMoved ==
    ASSUME NEW f \in AnyFolder, NEW a \in AnyFolder, NEW b \in AnyFolder, Under(f, a),
           NEW g, Under(Reroot(f, a, b), g), ~Under(b, g)
    PROVE  \E h \in AnyFolder : Under(f, h) /\ Under(h, a) /\ g = Reroot(h, a, b)
<1> DEFINE r == Reroot(f, a, b)
<1>1. r \in AnyFolder /\ Under(r, b) /\ Reroot(r, b, a) = f
  BY RerootBack
<1>2. g \in AnyFolder /\ Under(g, b)
  BY <1>1, UnderIs, UnderLinear
<1> DEFINE h == Reroot(g, b, a)
<1>3. h \in AnyFolder /\ Under(h, a) /\ Reroot(h, a, b) = g
  BY <1>2, RerootBack
<1>4. Under(f, h)
  <2>1. /\ Len(a) \in Nat /\ Len(b) \in Nat /\ Len(g) \in Nat /\ Len(f) \in Nat
        /\ Len(r) \in Nat
    BY <1>1, <1>2 DEF AnyFolder
  <2>2. /\ Len(h) = Len(a) + Len(g) - Len(b)
        /\ \A k \in 1..Len(a) : h[k] = a[k]
        /\ \A k \in 1..Len(g) - Len(b) : h[Len(a) + k] = g[Len(b) + k]
    BY <1>2, RerootIs
  <2>3. /\ Len(f) = Len(a) + Len(r) - Len(b)
        /\ \A k \in 1..Len(a) : f[k] = a[k]
        /\ \A k \in 1..Len(r) - Len(b) : f[Len(a) + k] = r[Len(b) + k]
    <3> HIDE DEF r
    <3>0. r \in AnyFolder /\ Under(r, b)
      BY <1>1
    <3>1. /\ Len(Reroot(r, b, a)) = Len(a) + Len(r) - Len(b)
          /\ \A k \in 1..Len(a) : Reroot(r, b, a)[k] = a[k]
          /\ \A k \in 1..Len(r) - Len(b) : Reroot(r, b, a)[Len(a) + k] = r[Len(b) + k]
      BY <3>0, RerootIs
    <3> QED
      BY <1>1, <3>1
  <2>4. Len(g) <= Len(r) /\ \A k \in 1..Len(g) : g[k] = r[k]
    BY <1>1, UnderIs
  <2>5. Len(b) <= Len(g)
    BY <1>2, UnderIs
  <2> HIDE DEF r, h
  <2>6. ASSUME NEW k \in 1..Len(h) PROVE h[k] = f[k]
    <3>1. CASE k <= Len(a)
      BY <2>1, <2>2, <2>3, <3>1
    <3>2. CASE k > Len(a)
      <4>1. k - Len(a) \in 1..Len(g) - Len(b) /\ k - Len(a) \in 1..Len(r) - Len(b)
            /\ k = Len(a) + (k - Len(a)) /\ Len(b) + (k - Len(a)) \in 1..Len(g)
        BY <2>1, <2>2, <2>4, <2>5, <3>2
      <4> QED
        BY <2>2, <2>3, <2>4, <4>1
    <3> QED
      BY <2>1, <2>2, <3>1, <3>2
  <2>7. Len(h) <= Len(f)
    BY <2>1, <2>2, <2>3, <2>4
  <2> QED
    BY <1>3, <2>6, <2>7, UnderIs
<1> QED
  BY <1>3, <1>4

-----------------------------------------------------------------------------
(* What a request keeps, and what it has found out when it gets to a step. *)

Lookups == {"move", "copy", "trash", "get"}
Kinds == Lookups \cup {"new", "list", "restore", "purge", "mkdir", "rmdir", "mvdir", "check", None}
Refreshing == {"decide", "walk", "snapshot", "check", "apply", "again"}
Steps == Refreshing \cup
         {"idle", "lookup", "schedule", "answer", "mkdir", "rename", "copytree", "find", "reopen",
          "totrash", "meta", "uncache", "purge", "rmdir", "forget", "mvdir", "dirty"}

Remembered == [Ids -> Entries \cup {None}]
Ops == [pc : Steps, kind : Kinds, id : Ids \cup {None}, dir : Folders, path : Paths \cup {None},
        alone : BOOLEAN, found : Remembered, drop : SUBSET Ids, todo : SUBSET Folders,
        seen : SUBSET Folders]

\* The kinds that reach a step.
RightKind(r) ==
    /\ r.pc = "lookup" => r.kind \in Lookups
    /\ r.pc = "schedule" => r.kind = "list"
    /\ r.pc = "find" => r.kind = "restore"
    /\ r.pc \in Refreshing \ {"walk"} => r.kind \in Lookups \cup {"new", "check"}
    /\ r.pc \in {"decide", "again"} => r.kind # "check"
    /\ r.pc = "walk" => r.kind \in Lookups \cup {"new", "list"}

\* The ID and the path that a step goes by are there.
KnowsBook(r) ==
    /\ r.pc \in {"lookup", "find", "totrash", "meta", "uncache", "purge"} => r.id \in Ids
    /\ r.pc \in Refreshing /\ r.kind \in Lookups => r.id \in Ids
    /\ r.pc \in {"mkdir", "rename"} /\ r.kind = "restore" => r.id \in Ids
    /\ r.pc \in {"totrash", "meta", "uncache", "copytree", "reopen"} => r.path \in Paths
    /\ r.pc \in {"mkdir", "rename"} /\ r.kind = "move" => r.path \in Paths

\* The background check does nothing but check, and no request checks for it.
RightWorker(w, r) ==
    IF w = Checker THEN r.pc \in {"idle", "snapshot", "check", "apply"}
    ELSE r.pc \in {"snapshot", "check", "apply"} => r.kind # "check"

GoodOp(w, r) == r \in Ops /\ RightKind(r) /\ KnowsBook(r) /\ RightWorker(w, r)
OpsOK == op = [w \in Workers |-> op[w]] /\ \A w \in Workers : GoodOp(w, op[w])

LEMMA EmptyFolder == <<>> \in Folders
<1>1. <<>> \in AnyFolder /\ Len(<<>>) = 0
  BY EmptySeq DEF AnyFolder
<1> QED
  BY <1>1, FoldersAre, ShelfAssumption

LEMMA NothingFound == NoEntries \in Remembered
  BY DEF NoEntries, Remembered

LEMMA IdleGood == \A w : GoodOp(w, Idle)
  BY EmptyFolder, NothingFound
  DEF GoodOp, Idle, Ops, RightKind, KnowsBook, RightWorker, Steps, Refreshing, Kinds, Lookups

\* A worker that takes a step leaves the other workers alone.
LEMMA OneWorker ==
    ASSUME OpsOK, NEW w \in Workers, NEW r, GoodOp(w, r), op' = [op EXCEPT ![w] = r]
    PROVE  OpsOK'
<1> HIDE DEF GoodOp
<1> QED
  BY DEF OpsOK

-----------------------------------------------------------------------------
(* The inductive invariant.                                                *)

\* The folders above a folder are there too.
DirsClosed == \A f \in dirs : \A g : Under(f, g) => g \in dirs

ShelfInv ==
    /\ TypeOK /\ OpsOK
    /\ DirsClosed /\ gone \subseteq born
    /\ BooksConserved /\ PackagesInFolders

\* A step that leaves the disk alone need only keep what is in memory.
LEMMA DiskKept ==
    ASSUME ShelfInv, OpsOK', UNCHANGED disk, cache' \in Remembered, cfolders' \subseteq Folders,
           due' \in BOOLEAN
    PROVE  ShelfInv'
<1>1. /\ books' = books /\ dirs' = dirs /\ trash' = trash /\ version' = version
      /\ born' = born /\ gone' = gone
  BY DEF disk
<1>2. TypeOK'
  BY <1>1 DEF ShelfInv, TypeOK, Remembered
<1>3. DirsClosed' /\ gone' \subseteq born' /\ PackagesInFolders'
  BY <1>1 DEF ShelfInv, DirsClosed, PackagesInFolders
<1>4. BooksConserved'
  BY <1>1 DEF ShelfInv, BooksConserved, NoDuplicates, Shelved, Slots
<1> QED
  BY <1>2, <1>3, <1>4 DEF ShelfInv

LEMMA MemoryTyped ==
    ASSUME ShelfInv
    PROVE  cache \in Remembered /\ cfolders \subseteq Folders /\ due \in BOOLEAN
  BY DEF ShelfInv, TypeOK, Remembered

LEMMA EntryGood ==
    ASSUME TypeOK, NEW p \in Paths, books[p] # None
    PROVE  EntryAt(p) \in Entries /\ EntryAt(p).path = p
  BY DEF TypeOK, EntryAt, Entries

LEMMA AfterLookups ==
    \A kind \in Lookups : /\ AfterLookup(kind) \in {"mkdir", "copytree", "totrash", "answer"}
                          /\ AfterLookup(kind) = "mkdir" => kind = "move"
  BY DEF Lookups, AfterLookup

\* A request that has found its book goes on with a path.
LEMMA FoundBook ==
    ASSUME NEW w \in Goroutines, NEW r, GoodOp(w, r), r.kind \in Lookups, r.id \in Ids,
           NEW p \in Paths, NEW x, x = AfterLookup(r.kind)
    PROVE  GoodOp(w, [r EXCEPT !.pc = x, !.path = p])
<1> DEFINE q == [r EXCEPT !.pc = x, !.path = p]
<1>1. /\ x \in {"mkdir", "copytree", "totrash", "answer"}
      /\ x = "mkdir" => r.kind = "move"
  BY AfterLookups
<1>2. x \in Steps /\ r \in Ops /\ p \in Paths \cup {None}
  BY <1>1 DEF Steps, GoodOp
<1>3. q \in Ops /\ q.pc = x /\ q.path = p /\ q.kind = r.kind /\ q.id = r.id
  BY <1>2 DEF Ops
<1> HIDE DEF q
<1>4. RightKind(q) /\ KnowsBook(q) /\ RightWorker(w, q)
  BY <1>1, <1>3, ShelfAssumption DEF RightKind, KnowsBook, RightWorker, Refreshing, Lookups
<1> QED
  BY <1>3, <1>4 DEF GoodOp, q

-----------------------------------------------------------------------------
(* The steps that only read the disk.                                      *)

RequestKinds == Lookups \cup {"new", "list", "restore", "purge", "mkdir", "rmdir", "mvdir"}

LEMMA BeginStep ==
    ASSUME ShelfInv, NEW w \in Goroutines, NEW kind \in RequestKinds, NEW id \in Ids \cup {None},
           kind \in Lookups \cup {"restore", "purge"} => id \in Ids,
           NEW f \in Folders, Begin(w, kind, id, f)
    PROVE  ShelfInv'
<1>0. PICK x : x = FirstStep(kind)
  OBVIOUS
<1> DEFINE b == \A g \in Goroutines : At(g, "idle")
           q == [Idle EXCEPT !.pc = x, !.kind = kind, !.id = id, !.dir = f,
                             !.alone = b]
<1>1. w \in Workers /\ w # Checker
  BY ShelfAssumption DEF Workers
<1>2. /\ x \in {"lookup", "decide", "schedule", "find", "purge", "mkdir", "rmdir",
                              "mvdir"}
      /\ x = "lookup" => kind \in Lookups
      /\ x = "decide" => kind = "new"
      /\ x = "schedule" => kind = "list"
      /\ x = "find" => kind = "restore"
      /\ x = "purge" => kind = "purge"
      /\ x = "mkdir" => kind = "mkdir"
  BY <1>0 DEF FirstStep, RequestKinds, Lookups
<1>3. x \in Steps /\ kind \in Kinds /\ Idle \in Ops
  <2>1. x \in Steps
    BY <1>2 DEF Steps, Refreshing
  <2>2. kind \in Kinds
    BY DEF Kinds, RequestKinds
  <2>3. Idle \in Ops
    BY IdleGood DEF GoodOp
  <2> QED
    BY <2>1, <2>2, <2>3
<1>4. /\ q \in Ops /\ q.pc = x /\ q.kind = kind /\ q.id = id /\ q.dir = f
  <2>1. b \in BOOLEAN
    OBVIOUS
  <2> HIDE DEF b
  <2> QED
    BY <1>3, <2>1 DEF Ops
<1>5. op' = [v \in Workers |-> IF v = w THEN q ELSE IF v = Checker THEN op[v]
                               ELSE [op[v] EXCEPT !.alone = At(v, "idle")]]
  BY <1>0 DEF Begin
<1>6. GoodOp(w, q)
  <2> HIDE DEF q
  <2>1. RightKind(q) /\ KnowsBook(q) /\ RightWorker(w, q)
    BY <1>1, <1>2, <1>4 DEF RightKind, KnowsBook, RightWorker, Refreshing, Lookups
  <2> QED
    BY <1>4, <2>1 DEF GoodOp
<1>7. ASSUME NEW v \in Workers PROVE GoodOp(v, [op[v] EXCEPT !.alone = At(v, "idle")])
  <2>1. op[v] \in Ops /\ GoodOp(v, op[v]) /\ At(v, "idle") \in BOOLEAN
    BY DEF ShelfInv, OpsOK, GoodOp, At
  <2> DEFINE s == [op[v] EXCEPT !.alone = At(v, "idle")]
  <2>2. s \in Ops /\ s.pc = op[v].pc /\ s.kind = op[v].kind /\ s.id = op[v].id /\ s.path = op[v].path
    BY <2>1 DEF Ops
  <2> HIDE DEF s
  <2> QED
    BY <2>1, <2>2 DEF GoodOp, RightKind, KnowsBook, RightWorker, s
<1>8. OpsOK'
  <2> HIDE DEF q, GoodOp
  <2> QED BY <1>5, <1>6, <1>7 DEF ShelfInv, OpsOK
<1> QED
  BY <1>8, DiskKept, MemoryTyped DEF Begin, mem
\* The ways in which a request goes on.
LEMMA OpGood ==
    ASSUME OpsOK, NEW w \in Workers
    PROVE  op[w] \in Ops /\ RightKind(op[w]) /\ KnowsBook(op[w]) /\ RightWorker(w, op[w])
  BY DEF OpsOK, GoodOp

LEMMA ReturnGood ==
    ASSUME OpsOK, NEW w \in Workers, Return(w)
    PROVE  OpsOK'
  BY OneWorker, IdleGood DEF Return

LEMMA GotoGood ==
    ASSUME OpsOK, NEW w \in Workers, w # Checker, NEW x, Goto(w, x),
           \/ x \in {"answer", "forget", "dirty"}
           \/ x = "rename" /\ At(w, "mkdir")
           \/ x = "meta" /\ At(w, "totrash")
           \/ x = "uncache" /\ At(w, "meta")
    PROVE  OpsOK'
<1> DEFINE q == [op[w] EXCEPT !.pc = x]
<1>1. op' = [op EXCEPT ![w] = q]
  BY DEF Goto
<1>2. q \in Ops /\ q.pc = x /\ q.kind = op[w].kind /\ q.id = op[w].id /\ q.path = op[w].path
  BY OpGood DEF Ops, Steps
<1> HIDE DEF q
<1>3. RightKind(q) /\ KnowsBook(q) /\ RightWorker(w, q)
  BY <1>2, OpGood DEF RightKind, KnowsBook, RightWorker, Refreshing, Lookups, At
<1> QED
  BY <1>1, <1>2, <1>3, OneWorker DEF GoodOp

LEMMA ReopenGood ==
    ASSUME OpsOK, NEW w \in Workers, w # Checker, NEW p \in Paths,
           op' = [op EXCEPT ![w].pc = "reopen", ![w].path = p]
    PROVE  OpsOK'
<1> DEFINE q == [op[w] EXCEPT !.pc = "reopen", !.path = p]
<1>1. op' = [op EXCEPT ![w] = q]
  BY DEF OpsOK
<1>2. q \in Ops /\ q.pc = "reopen" /\ q.path = p
  BY OpGood DEF Ops, Steps
<1> HIDE DEF q
<1>3. RightKind(q) /\ KnowsBook(q) /\ RightWorker(w, q)
  BY <1>2 DEF RightKind, KnowsBook, RightWorker, Refreshing, Lookups
<1> QED
  BY <1>1, <1>2, <1>3, OneWorker DEF GoodOp

LEMMA LookupStep == ASSUME ShelfInv, NEW w \in Workers, Lookup(w) PROVE ShelfInv'
<1> DEFINE r == op[w]
           i == op[w].id
           e == cache[i]
<1>1. /\ r \in Ops /\ GoodOp(w, r) /\ r.pc = "lookup" /\ r.kind \in Lookups /\ i \in Ids
      /\ w \in Goroutines
  BY OpGood DEF Lookup, At, ShelfInv, GoodOp, RightKind, KnowsBook, RightWorker, Workers
<1>2. e \in Entries \cup {None} /\ (e # None => e.path \in Paths)
  BY <1>1, MemoryTyped DEF Remembered, Entries
<1>3. CASE e # None /\ ~IsStale(e) /\ UNCHANGED cache
           /\ op' = [op EXCEPT ![w].pc = AfterLookup(op[w].kind), ![w].path = e.path]
  <2>1. op' = [op EXCEPT ![w] = [r EXCEPT !.pc = AfterLookup(r.kind), !.path = e.path]]
    BY <1>1, <1>3 DEF ShelfInv, OpsOK
  <2>2. GoodOp(w, [r EXCEPT !.pc = AfterLookup(r.kind), !.path = e.path])
    BY <1>1, <1>2, <1>3, FoundBook
  <2>3. OpsOK'
    BY <2>1, <2>2, OneWorker DEF ShelfInv
  <2> QED
    BY <1>3, <2>3, MemoryTyped, DiskKept DEF Lookup
<1>4. CASE e # None /\ IsStale(e) /\ books[e.path] # None
           /\ cache' = [cache EXCEPT ![i] = EntryAt(e.path)]
           /\ op' = [op EXCEPT ![w].pc = AfterLookup(op[w].kind), ![w].path = e.path]
  <2>1. op' = [op EXCEPT ![w] = [r EXCEPT !.pc = AfterLookup(r.kind), !.path = e.path]]
    BY <1>1, <1>4 DEF ShelfInv, OpsOK
  <2>2. GoodOp(w, [r EXCEPT !.pc = AfterLookup(r.kind), !.path = e.path])
    BY <1>1, <1>2, <1>4, FoundBook
  <2>3. OpsOK'
    BY <2>1, <2>2, OneWorker DEF ShelfInv
  <2>4. cache' \in Remembered
    BY <1>1, <1>2, <1>4, EntryGood, MemoryTyped DEF Remembered, ShelfInv
  <2> QED
    BY <2>3, <2>4, MemoryTyped, DiskKept DEF Lookup
<1>5. CASE cache' = [cache EXCEPT ![i] = None] /\ Goto(w, "decide")
  <2> DEFINE q == [r EXCEPT !.pc = "decide"]
  <2>1. op' = [op EXCEPT ![w] = q]
    BY <1>5 DEF Goto
  <2>2. q \in Ops /\ q.pc = "decide" /\ q.kind = r.kind /\ q.id = r.id
    BY <1>1 DEF Ops, Steps, Refreshing
  <2> HIDE DEF q
  <2>3. RightKind(q) /\ KnowsBook(q) /\ RightWorker(w, q)
    BY <1>1, <2>2, ShelfAssumption DEF RightKind, KnowsBook, RightWorker, Refreshing, Lookups
  <2>4. OpsOK'
    BY <2>1, <2>2, <2>3, OneWorker DEF GoodOp, ShelfInv
  <2>5. cache' \in Remembered
    BY <1>1, <1>5, MemoryTyped DEF Remembered
  <2> QED
    BY <2>4, <2>5, MemoryTyped, DiskKept DEF Lookup
<1> QED
  BY <1>3, <1>4, <1>5 DEF Lookup
\* A refresh goes on, with what it knows of its book.
LEMMA RefreshGood ==
    ASSUME OpsOK, NEW w \in Workers, NEW q \in Ops, op' = [op EXCEPT ![w] = q],
           q.kind = op[w].kind, q.id = op[w].id,
           \/ At(w, "decide") /\ q.pc \in {"walk", "snapshot"}
           \/ At(w, "schedule") /\ q.pc = "walk" /\ q.kind = "list"
           \/ At(w, "walk") /\ q.pc = "walk"
           \/ At(w, "walk") /\ q.pc = "answer"
           \/ At(w, "walk") /\ q.pc = "again" /\ q.kind # "list"
           \/ At(w, "snapshot") /\ q.pc = "check"
           \/ At(w, "check") /\ q.pc = "apply"
           \/ At(w, "apply") /\ q.pc = "again" /\ w # Checker
    PROVE  OpsOK'
<1>1. RightKind(q) /\ KnowsBook(q) /\ RightWorker(w, q)
  BY OpGood DEF RightKind, KnowsBook, RightWorker, Refreshing, Lookups, At
<1> QED
  BY <1>1, OneWorker DEF GoodOp

LEMMA DecideStep == ASSUME ShelfInv, NEW w \in Workers, Decide(w) PROVE ShelfInv'
<1>1. op[w] \in Ops /\ At(w, "decide")
  BY OpGood DEF Decide, ShelfInv
<1>2. CASE op' = [op EXCEPT ![w].pc = "walk", ![w].todo = {<<>>}]
  <2> DEFINE q == [op[w] EXCEPT !.pc = "walk", !.todo = {<<>>}]
  <2>1. op' = [op EXCEPT ![w] = q]
    BY <1>2 DEF ShelfInv, OpsOK
  <2>2. q \in Ops /\ q.pc = "walk" /\ q.kind = op[w].kind /\ q.id = op[w].id
    BY <1>1, EmptyFolder DEF Ops, Steps, Refreshing
  <2> HIDE DEF q
  <2> QED
    BY <1>1, <2>1, <2>2, RefreshGood, DiskKept, MemoryTyped DEF Decide, mem, ShelfInv
<1>3. CASE Goto(w, "snapshot")
  <2> DEFINE q == [op[w] EXCEPT !.pc = "snapshot"]
  <2>1. op' = [op EXCEPT ![w] = q]
    BY <1>3 DEF Goto
  <2>2. q \in Ops /\ q.pc = "snapshot" /\ q.kind = op[w].kind /\ q.id = op[w].id
    BY <1>1 DEF Ops, Steps, Refreshing
  <2> HIDE DEF q
  <2> QED
    BY <1>1, <2>1, <2>2, RefreshGood, DiskKept, MemoryTyped DEF Decide, mem, ShelfInv
<1> QED
  BY <1>2, <1>3 DEF Decide

LEMMA ChildrenAreFolders == ASSUME TypeOK, NEW f PROVE Children(f) \subseteq Folders
  BY DEF Children, TypeOK

LEMMA WalkStep == ASSUME ShelfInv, NEW w \in Workers, NEW f \in Folders, Walk(w, f) PROVE ShelfInv'
<1> DEFINE here == {p \in Paths : p[1] = f /\ books[p] # None}
           found == [i \in Ids |-> IF \E p \in here : books[p] = i
                                   THEN EntryAt(CHOOSE p \in here : books[p] = i)
                                   ELSE op[w].found[i]]
           todo == (op[w].todo \ {f}) \cup Children(f)
           seen == IF f \in dirs THEN op[w].seen \cup {f} ELSE op[w].seen
           all == IF f \in dirs THEN found ELSE op[w].found
           q == [op[w] EXCEPT !.todo = todo, !.seen = seen, !.found = all]
<1>1. op[w] \in Ops /\ At(w, "walk")
  BY OpGood DEF Walk, ShelfInv
<1>2. op[w].found \in Remembered /\ op[w].todo \subseteq Folders /\ op[w].seen \subseteq Folders
  BY <1>1 DEF Ops
<1>3. ASSUME NEW i \in Ids PROVE found[i] \in Entries \cup {None}
  <2>1. CASE \E p \in here : books[p] = i
    BY <2>1, EntryGood DEF ShelfInv
  <2>2. CASE ~\E p \in here : books[p] = i
    BY <1>2, <2>2 DEF Remembered
  <2> QED
    BY <2>1, <2>2
<1>4. all \in Remembered /\ todo \in SUBSET Folders /\ seen \in SUBSET Folders
  BY <1>2, <1>3, ChildrenAreFolders DEF Remembered, ShelfInv
<1>5. op' = [op EXCEPT ![w] = q]
  BY DEF Walk, ShelfInv, OpsOK
<1> HIDE DEF todo, seen, all
<1>6. q \in Ops /\ q.pc = op[w].pc /\ q.kind = op[w].kind /\ q.id = op[w].id
  BY <1>1, <1>4 DEF Ops
<1> HIDE DEF q
<1>7. OpsOK'
  BY <1>1, <1>5, <1>6, RefreshGood DEF At, ShelfInv
<1> QED
  BY <1>7, DiskKept, MemoryTyped DEF Walk, mem

LEMMA PublishStep == ASSUME ShelfInv, NEW w \in Workers, Publish(w) PROVE ShelfInv'
<1>1. op[w] \in Ops /\ At(w, "walk")
  BY OpGood DEF Publish, ShelfInv
<1>2. PICK x \in {"answer", "again"} :
         /\ x = "again" => op[w].kind # "list"
         /\ op' = [op EXCEPT ![w].pc = x, ![w].found = NoEntries, ![w].seen = {}]
  BY DEF Publish
<1> DEFINE q == [op[w] EXCEPT !.pc = x, !.found = NoEntries, !.seen = {}]
<1>3. op' = [op EXCEPT ![w] = q]
  BY <1>2 DEF ShelfInv, OpsOK
<1>4. q \in Ops /\ q.pc = x /\ q.kind = op[w].kind /\ q.id = op[w].id
  BY <1>1, NothingFound DEF Ops, Steps, Refreshing
<1> HIDE DEF q
<1>5. OpsOK'
  BY <1>1, <1>2, <1>3, <1>4, RefreshGood DEF ShelfInv
<1>6. op[w].found \in Remembered /\ op[w].seen \subseteq Folders
  BY <1>1 DEF Ops
<1> QED
  BY <1>5, <1>6, DiskKept DEF Publish

LEMMA SnapshotStep == ASSUME ShelfInv, NEW w \in Workers, Snapshot(w) PROVE ShelfInv'
<1> DEFINE q == [op[w] EXCEPT !.pc = "check", !.found = cache]
<1>1. op[w] \in Ops /\ At(w, "snapshot")
  BY OpGood DEF Snapshot, ShelfInv
<1>2. op' = [op EXCEPT ![w] = q]
  BY DEF Snapshot, ShelfInv, OpsOK
<1>3. q \in Ops /\ q.pc = "check" /\ q.kind = op[w].kind /\ q.id = op[w].id
  BY <1>1, MemoryTyped DEF Ops, Steps, Refreshing
<1> HIDE DEF q
<1> QED
  BY <1>1, <1>2, <1>3, RefreshGood, DiskKept, MemoryTyped DEF Snapshot, mem, ShelfInv

LEMMA CheckStep == ASSUME ShelfInv, NEW w \in Workers, Check(w) PROVE ShelfInv'
<1>1. op[w] \in Ops /\ At(w, "check") /\ op[w].found \in Remembered
  BY OpGood DEF Check, ShelfInv, Ops
<1> DEFINE Stale(i) == op[w].found[i] # None /\ IsStale(op[w].found[i])
           There(i) == books[op[w].found[i].path] = op[w].found[i].id
           drop == {i \in Ids : Stale(i) /\ ~There(i)}
           found == [i \in Ids |-> IF Stale(i) /\ There(i) THEN EntryAt(op[w].found[i].path) ELSE None]
           q == [op[w] EXCEPT !.pc = "apply", !.drop = drop, !.found = found]
<1>2. op' = [op EXCEPT ![w] = q]
  BY DEF Check, ShelfInv, OpsOK
<1>3. ASSUME NEW i \in Ids, Stale(i), There(i) PROVE EntryAt(op[w].found[i].path) \in Entries
  <2>1. op[w].found[i] \in Entries
    BY <1>1, <1>3 DEF Remembered
  <2>2. op[w].found[i].path \in Paths /\ op[w].found[i].id \in Ids
    BY <2>1 DEF Entries
  <2>3. books[op[w].found[i].path] # None
    BY <1>3, <2>2, ShelfAssumption
  <2> QED
    BY <2>2, <2>3, EntryGood DEF ShelfInv
<1>4. found \in Remembered /\ drop \in SUBSET Ids
  <2> HIDE DEF Stale, There
  <2> QED BY <1>3 DEF Remembered
<1> HIDE DEF found, drop
<1>5. q \in Ops /\ q.pc = "apply" /\ q.kind = op[w].kind /\ q.id = op[w].id
  BY <1>1, <1>4 DEF Ops, Steps, Refreshing
<1> HIDE DEF q
<1> QED
  BY <1>1, <1>2, <1>5, RefreshGood, DiskKept, MemoryTyped DEF Check, mem, ShelfInv
LEMMA ScheduleStep == ASSUME ShelfInv, NEW w \in Workers, Schedule(w) PROVE ShelfInv'
<1>1. /\ op[w] \in Ops /\ At(w, "schedule") /\ op[w].kind = "list" /\ w # Checker
      /\ Checker \in Workers
  BY OpGood DEF Schedule, ShelfInv, At, RightKind, RightWorker, Workers
<1>2. CASE op' = [op EXCEPT ![w].pc = "walk", ![w].todo = {<<>>}]
  <2> DEFINE q == [op[w] EXCEPT !.pc = "walk", !.todo = {<<>>}]
  <2>1. op' = [op EXCEPT ![w] = q]
    BY <1>2 DEF ShelfInv, OpsOK
  <2>2. q \in Ops /\ q.pc = "walk" /\ q.kind = op[w].kind /\ q.id = op[w].id
    BY <1>1, EmptyFolder DEF Ops, Steps, Refreshing
  <2> HIDE DEF q
  <2> QED
    BY <1>1, <2>1, <2>2, RefreshGood, DiskKept, MemoryTyped DEF Schedule, mem, ShelfInv
<1>3. CASE Goto(w, "answer")
  BY <1>1, <1>3, GotoGood, DiskKept, MemoryTyped DEF Schedule, mem, ShelfInv
<1>4. CASE op' = [op EXCEPT ![w].pc = "answer",
                            ![Checker] = [Idle EXCEPT !.pc = "snapshot", !.kind = "check"]]
  <2> DEFINE q == [op[w] EXCEPT !.pc = "answer"]
             c == [Idle EXCEPT !.pc = "snapshot", !.kind = "check"]
  <2>1. q \in Ops /\ q.pc = "answer"
    BY <1>1 DEF Ops, Steps
  <2>2. c \in Ops /\ c.pc = "snapshot" /\ c.kind = "check"
    BY IdleGood DEF GoodOp, Ops, Steps, Refreshing, Kinds
  <2>3. /\ op' = [v \in Workers |-> op'[v]] /\ op'[w] = q /\ op'[Checker] = c
        /\ \A v \in Workers \ {w, Checker} : op'[v] = op[v]
    BY <1>1, <1>4 DEF ShelfInv, OpsOK
  <2> HIDE DEF q, c
  <2>4. GoodOp(w, q)
    BY <1>1, <2>1 DEF GoodOp, RightKind, KnowsBook, RightWorker, Refreshing
  <2>5. GoodOp(Checker, c)
    BY <2>2 DEF GoodOp, RightKind, KnowsBook, RightWorker, Refreshing, Lookups
  <2>6. OpsOK'
    <3> HIDE DEF GoodOp
    <3> QED BY <2>3, <2>4, <2>5 DEF OpsOK, ShelfInv
  <2> QED
    BY <2>6, DiskKept, MemoryTyped DEF Schedule, mem
<1> QED
  BY <1>2, <1>3, <1>4 DEF Schedule

LEMMA ApplyStep == ASSUME ShelfInv, NEW w \in Workers, Apply(w) PROVE ShelfInv'
<1>1. op[w] \in Ops /\ At(w, "apply") /\ op[w].found \in Remembered
  BY OpGood DEF Apply, ShelfInv, Ops
<1>2. cache' \in Remembered
  BY <1>1, MemoryTyped DEF Apply, Remembered
<1>3. CASE w = Checker
  BY <1>2, <1>3, OneWorker, IdleGood, DiskKept, MemoryTyped DEF Apply, ShelfInv
<1>4. CASE w # Checker
  <2> DEFINE q == [op[w] EXCEPT !.pc = "again", !.drop = {}, !.found = NoEntries]
  <2>1. op' = [op EXCEPT ![w] = q]
    BY <1>4 DEF Apply
  <2>2. q \in Ops /\ q.pc = "again" /\ q.kind = op[w].kind /\ q.id = op[w].id
    BY <1>1, NothingFound DEF Ops, Steps, Refreshing
  <2> HIDE DEF q
  <2>3. OpsOK'
    BY <1>1, <1>4, <2>1, <2>2, RefreshGood DEF ShelfInv
  <2> QED
    BY <1>2, <2>3, DiskKept, MemoryTyped DEF Apply
<1> QED
  BY <1>3, <1>4

LEMMA AgainStep == ASSUME ShelfInv, NEW w \in Workers, Again(w) PROVE ShelfInv'
<1> DEFINE r == op[w]
<1>1. /\ r \in Ops /\ GoodOp(w, r) /\ r.pc = "again" /\ r.kind \in Lookups \cup {"new"}
      /\ (r.kind \in Lookups => r.id \in Ids) /\ w \in Goroutines
  BY OpGood DEF Again, At, ShelfInv, GoodOp, RightKind, KnowsBook, RightWorker, Workers, Refreshing
<1>2. CASE r.kind = "new"
  <2> DEFINE q == [r EXCEPT !.pc = "mkdir"]
  <2>1. op' = [op EXCEPT ![w] = q]
    BY <1>2 DEF Again
  <2>2. q \in Ops /\ q.pc = "mkdir" /\ q.kind = "new"
    BY <1>1, <1>2 DEF Ops, Steps
  <2> HIDE DEF q
  <2>3. RightKind(q) /\ KnowsBook(q) /\ RightWorker(w, q)
    BY <1>1, <2>2, ShelfAssumption DEF RightKind, KnowsBook, RightWorker, Refreshing
  <2>4. OpsOK'
    BY <2>1, <2>2, <2>3, OneWorker DEF GoodOp, ShelfInv
  <2> QED
    BY <2>4, DiskKept, MemoryTyped DEF Again, mem
<1>3. CASE r.kind # "new" /\ cache[r.id] = None
  <2>1. op' = [op EXCEPT ![w] = Idle]
    BY <1>3 DEF Again
  <2> QED
    BY <2>1, OneWorker, IdleGood, DiskKept, MemoryTyped DEF Again, mem, ShelfInv
<1>4. CASE r.kind # "new" /\ cache[r.id] # None
  <2>1. op' = [op EXCEPT ![w] = [r EXCEPT !.pc = AfterLookup(r.kind), !.path = cache[r.id].path]]
    BY <1>4 DEF Again
  <2>2. r.kind \in Lookups /\ r.id \in Ids /\ cache[r.id].path \in Paths
    BY <1>1, <1>4, MemoryTyped DEF Remembered, Entries
  <2>3. GoodOp(w, [r EXCEPT !.pc = AfterLookup(r.kind), !.path = cache[r.id].path])
    BY <1>1, <2>2, FoundBook
  <2>4. OpsOK'
    BY <2>1, <2>3, OneWorker DEF ShelfInv
  <2> QED
    BY <2>4, DiskKept, MemoryTyped DEF Again, mem
<1> QED
  BY <1>2, <1>3, <1>4

LEMMA CopyTreeStep == ASSUME ShelfInv, NEW w \in Workers, CopyTree(w) PROVE ShelfInv'
<1> DEFINE r == op[w]
<1>1. r \in Ops /\ GoodOp(w, r) /\ r.pc = "copytree" /\ w # Checker
  BY OpGood DEF CopyTree, At, ShelfInv, GoodOp, RightWorker
<1>2. CASE books[r.path] = None
  <2>1. op' = [op EXCEPT ![w] = Idle]
    BY <1>2 DEF CopyTree
  <2> QED
    BY <2>1, OneWorker, IdleGood, DiskKept, MemoryTyped DEF CopyTree, mem, ShelfInv
<1>3. CASE books[r.path] # None
  <2> DEFINE q == [r EXCEPT !.kind = "new", !.pc = "decide", !.id = None, !.path = None]
  <2>1. op' = [op EXCEPT ![w] = q]
    BY <1>3 DEF CopyTree
  <2>2. q \in Ops /\ q.pc = "decide" /\ q.kind = "new"
    BY <1>1 DEF Ops, Steps, Refreshing, Kinds
  <2> HIDE DEF q
  <2>3. RightKind(q) /\ KnowsBook(q) /\ RightWorker(w, q)
    BY <1>1, <2>2 DEF RightKind, KnowsBook, RightWorker, Refreshing, Lookups
  <2>4. OpsOK'
    BY <2>1, <2>2, <2>3, OneWorker DEF GoodOp, ShelfInv
  <2> QED
    BY <2>4, DiskKept, MemoryTyped DEF CopyTree, mem
<1> QED
  BY <1>2, <1>3

LEMMA FindStep == ASSUME ShelfInv, NEW w \in Workers, Find(w) PROVE ShelfInv'
<1> DEFINE r == op[w]
           slot == trash[op[w].id]
<1>1. r \in Ops /\ GoodOp(w, r) /\ r.pc = "find" /\ w # Checker /\ r.id \in Ids
  BY OpGood DEF Find, At, ShelfInv, GoodOp, RightWorker, KnowsBook
<1>2. CASE slot.book = None
  BY <1>2, ReturnGood, DiskKept, MemoryTyped DEF Find, mem, ShelfInv
<1>3. CASE slot.book # None
  <2>1. slot.home \in Paths \cup {None}
    BY <1>1 DEF ShelfInv, TypeOK
  <2> DEFINE f == IF slot.home = None THEN <<>> ELSE slot.home[1]
             q == [r EXCEPT !.pc = "mkdir", !.path = slot.home, !.dir = f]
  <2>2. f \in Folders
    BY <2>1, EmptyFolder DEF Paths
  <2>3. op' = [op EXCEPT ![w] = q]
    BY <1>3 DEF Find, ShelfInv, OpsOK
  <2> HIDE DEF f
  <2>4. q \in Ops /\ q.pc = "mkdir" /\ q.kind = r.kind /\ q.id = r.id
    BY <1>1, <2>1, <2>2 DEF Ops, Steps
  <2> HIDE DEF q
  <2>5. r.kind = "restore"
    BY <1>1 DEF GoodOp, RightKind
  <2>6. RightKind(q) /\ KnowsBook(q) /\ RightWorker(w, q)
    BY <1>1, <2>4, <2>5 DEF RightKind, KnowsBook, RightWorker, Refreshing
  <2>7. OpsOK'
    BY <2>3, <2>4, <2>6, OneWorker DEF GoodOp, ShelfInv
  <2> QED
    BY <2>7, DiskKept, MemoryTyped DEF Find, mem
<1> QED
  BY <1>2, <1>3

\* The steps after which a request has answered.
LEMMA LastSteps ==
    ASSUME ShelfInv, NEW w \in Workers,
           \/ Answer(w) \/ Reopen(w) \/ Uncache(w) \/ Forget(w) \/ MarkDirty(w)
           \/ Fail(w) \/ NoRoom(w)
    PROVE  ShelfInv'
<1>1. OpsOK'
  BY ReturnGood
  DEF ShelfInv, Answer, Reopen, Uncache, Forget, MarkDirty, Fail, NoRoom
<1>2. UNCHANGED disk
  BY DEF Answer, Reopen, Uncache, Forget, MarkDirty, Fail, NoRoom
<1>3. cfolders' \subseteq Folders /\ due' \in BOOLEAN
  BY MemoryTyped DEF Answer, Reopen, Uncache, Forget, MarkDirty, Fail, NoRoom, mem
<1>4. cache' \in Remembered
  <2>1. CASE Reopen(w)
    <3>1. op[w].path \in Paths
      BY <2>1, OpGood DEF ShelfInv, Reopen, At, KnowsBook
    <3>2. CASE books[op[w].path] = None
      BY <2>1, <3>2, MemoryTyped DEF Reopen
    <3>3. CASE books[op[w].path] # None
      <4>1. books[op[w].path] \in Ids
        BY <3>1, <3>3 DEF ShelfInv, TypeOK
      <4>2. EntryAt(op[w].path) \in Entries
        BY <3>1, <3>3, EntryGood DEF ShelfInv
      <4> QED
        BY <2>1, <3>3, <4>1, <4>2, MemoryTyped DEF Reopen, Remembered
    <3> QED
      BY <3>2, <3>3
  <2>2. CASE Uncache(w)
    BY <2>2, MemoryTyped DEF Uncache, Remembered
  <2> QED
    BY <2>1, <2>2, MemoryTyped DEF Answer, Forget, MarkDirty, Fail, NoRoom, mem
<1> QED
  BY <1>1, <1>2, <1>3, <1>4, DiskKept

LEMMA CrashStep == ASSUME ShelfInv, Crash PROVE ShelfInv'
<1>1. OpsOK'
  BY IdleGood DEF Crash, OpsOK
<1> QED
  BY <1>1, NothingFound, DiskKept DEF Crash
-----------------------------------------------------------------------------
(* What becomes of the packages.                                           *)

Slot == [book : Ids \cup {None}, home : Paths \cup {None}]

DiskOK ==
    /\ books \in [Paths -> Ids \cup {None}] /\ dirs \subseteq Folders /\ trash \in [Ids -> Slot]
    /\ born \subseteq Ids /\ gone \subseteq born
    /\ DirsClosed /\ BooksConserved /\ PackagesInFolders

LEMMA DiskIsOK == ShelfInv => DiskOK
  BY DEF ShelfInv, TypeOK, DiskOK, Slot

LEMMA MemoryKept ==
    ASSUME ShelfInv, DiskOK', OpsOK', version' \in [Ids -> 0..MaxEdits], UNCHANGED mem
    PROVE  ShelfInv'
<1>1. TypeOK'
  BY DEF ShelfInv, TypeOK, DiskOK, Slot, mem
<1> QED
  BY <1>1 DEF ShelfInv, DiskOK

LEMMA PathOf ==
    /\ \A f \in Folders, n \in PackageNames : <<f, n>> \in Paths /\ <<f, n>>[1] = f
    /\ \A p \in Paths : p[1] \in Folders /\ p[2] \in PackageNames /\ p = <<p[1], p[2]>>
  BY DEF Paths

\* Renamed to another place on the shelf,
LEMMA PackageMoved ==
    ASSUME DiskOK, NEW from \in Paths, NEW to \in Paths, books[from] # None,
           to[1] \in dirs, books[to] = None \/ to = from,
           books' = [books EXCEPT ![from] = None, ![to] = books[from]],
           UNCHANGED <<dirs, trash, born, gone>>
    PROVE  DiskOK'
<1>1. /\ books' \in [Paths -> Ids \cup {None}] /\ books'[to] = books[from]
      /\ \A p \in Paths : p # to => books'[p] = IF p = from THEN None ELSE books[p]
  BY DEF DiskOK
<1>2. NoDuplicates'
  BY <1>1, ShelfAssumption DEF DiskOK, BooksConserved, NoDuplicates
<1>3. \A i \in Ids : Shelved(i)' # {} <=> Shelved(i) # {}
  BY <1>1, ShelfAssumption DEF Shelved
<1>4. \A i \in Ids : Slots(i)' = Slots(i)
  BY DEF Slots
<1>5. BooksConserved'
  BY <1>2, <1>3, <1>4 DEF DiskOK, BooksConserved
<1>6. DirsClosed' /\ PackagesInFolders'
  BY <1>1 DEF DiskOK, DirsClosed, PackagesInFolders
<1> QED
  BY <1>1, <1>5, <1>6 DEF DiskOK

\* put there with a fresh ID,
LEMMA PackagePut ==
    ASSUME DiskOK, NEW i \in Ids, i \notin born, NEW to \in Paths, Free(to),
           books' = [books EXCEPT ![to] = i], born' = born \cup {i},
           UNCHANGED <<dirs, trash, gone>>
    PROVE  DiskOK'
<1>1. /\ books' \in [Paths -> Ids \cup {None}] /\ books'[to] = i
      /\ \A p \in Paths : p # to => books'[p] = books[p]
  BY DEF DiskOK
<1>2. Shelved(i) = {} /\ Slots(i) = {}
  BY DEF DiskOK, BooksConserved
<1>3. NoDuplicates'
  BY <1>1, <1>2, ShelfAssumption DEF DiskOK, BooksConserved, NoDuplicates, Shelved, Slots
<1>4. \A j \in Ids : Shelved(j)' # {} <=> Shelved(j) # {} \/ j = i
  BY <1>1, ShelfAssumption DEF Shelved, Free
<1>5. \A j \in Ids : Slots(j)' = Slots(j)
  BY DEF Slots
<1>6. BooksConserved'
  BY <1>3, <1>4, <1>5 DEF DiskOK, BooksConserved
<1>7. DirsClosed' /\ PackagesInFolders'
  BY <1>1 DEF DiskOK, DirsClosed, PackagesInFolders, Free
<1> QED
  BY <1>1, <1>6, <1>7 DEF DiskOK

\* renamed into the trash, under whatever ID was asked for,
LEMMA PackageTrashed ==
    ASSUME DiskOK, NEW s \in Ids, trash[s].book = None, NEW p \in Paths, books[p] # None,
           trash' = [trash EXCEPT ![s] = [book |-> books[p], home |-> None]],
           books' = [books EXCEPT ![p] = None], UNCHANGED <<dirs, born, gone>>
    PROVE  DiskOK'
<1>1. /\ books' \in [Paths -> Ids \cup {None}] /\ books'[p] = None
      /\ \A q \in Paths : q # p => books'[q] = books[q]
  BY DEF DiskOK
<1>2. /\ trash' \in [Ids -> Slot] /\ trash'[s].book = books[p]
      /\ \A t \in Ids : t # s => trash'[t] = trash[t]
  BY DEF DiskOK, Slot
<1>3. NoDuplicates'
  BY <1>1, <1>2, ShelfAssumption DEF DiskOK, BooksConserved, NoDuplicates
<1>4. \A i \in Ids : Shelved(i)' # {} \/ Slots(i)' # {} <=> Shelved(i) # {} \/ Slots(i) # {}
  BY <1>1, <1>2, ShelfAssumption DEF Shelved, Slots
<1>5. BooksConserved'
  BY <1>3, <1>4 DEF DiskOK, BooksConserved
<1>6. DirsClosed' /\ PackagesInFolders'
  BY <1>1 DEF DiskOK, DirsClosed, PackagesInFolders
<1> QED
  BY <1>1, <1>2, <1>5, <1>6 DEF DiskOK

\* renamed out of it,
LEMMA PackageRestored ==
    ASSUME DiskOK, NEW s \in Ids, trash[s].book # None, NEW to \in Paths, Free(to),
           books' = [books EXCEPT ![to] = trash[s].book],
           trash' = [trash EXCEPT ![s] = EmptySlot], UNCHANGED <<dirs, born, gone>>
    PROVE  DiskOK'
<1>1. /\ books' \in [Paths -> Ids \cup {None}] /\ books'[to] = trash[s].book
      /\ \A q \in Paths : q # to => books'[q] = books[q]
  BY DEF DiskOK, Slot
<1>2. /\ trash' \in [Ids -> Slot] /\ trash'[s].book = None
      /\ \A t \in Ids : t # s => trash'[t] = trash[t]
  BY DEF DiskOK, Slot, EmptySlot
<1>3. NoDuplicates'
  BY <1>1, <1>2, ShelfAssumption DEF DiskOK, BooksConserved, NoDuplicates
<1>4. \A i \in Ids : Shelved(i)' # {} \/ Slots(i)' # {} <=> Shelved(i) # {} \/ Slots(i) # {}
  BY <1>1, <1>2, ShelfAssumption DEF Shelved, Slots, Free
<1>5. BooksConserved'
  BY <1>3, <1>4 DEF DiskOK, BooksConserved
<1>6. DirsClosed' /\ PackagesInFolders'
  BY <1>1 DEF DiskOK, DirsClosed, PackagesInFolders, Free
<1> QED
  BY <1>1, <1>2, <1>5, <1>6 DEF DiskOK

\* or removed for good, from the trash or from outside.
LEMMA PackagePurged ==
    ASSUME DiskOK, NEW s \in Ids, trash[s].book # None, gone' = gone \cup {trash[s].book},
           trash' = [trash EXCEPT ![s] = EmptySlot], UNCHANGED <<books, dirs, born>>
    PROVE  DiskOK'
<1>1. /\ trash' \in [Ids -> Slot] /\ trash'[s].book = None
      /\ \A t \in Ids : t # s => trash'[t] = trash[t]
  BY DEF DiskOK, Slot, EmptySlot
<1>2. trash[s].book \in born
  BY DEF DiskOK, BooksConserved, Slots, Slot
<1>3. NoDuplicates'
  BY <1>1 DEF DiskOK, BooksConserved, NoDuplicates
<1>4. ASSUME NEW i \in Ids
      PROVE  Shelved(i)' # {} \/ Slots(i)' # {}
             <=> (Shelved(i) # {} \/ Slots(i) # {}) /\ i # trash[s].book
  BY <1>1, ShelfAssumption DEF DiskOK, BooksConserved, NoDuplicates, Shelved, Slots
<1>5. BooksConserved'
  BY <1>2, <1>3, <1>4 DEF DiskOK, BooksConserved
<1>6. DirsClosed' /\ PackagesInFolders'
  BY DEF DiskOK, DirsClosed, PackagesInFolders
<1> QED
  BY <1>1, <1>2, <1>5, <1>6 DEF DiskOK

LEMMA PackageRemoved ==
    ASSUME DiskOK, NEW p \in Paths, books[p] # None, gone' = gone \cup {books[p]},
           books' = [books EXCEPT ![p] = None], UNCHANGED <<trash, dirs, born>>
    PROVE  DiskOK'
<1>1. /\ books' \in [Paths -> Ids \cup {None}] /\ books'[p] = None
      /\ \A q \in Paths : q # p => books'[q] = books[q]
  BY DEF DiskOK
<1>2. books[p] \in born
  BY DEF DiskOK, BooksConserved, Shelved
<1>3. NoDuplicates'
  BY <1>1 DEF DiskOK, BooksConserved, NoDuplicates
<1>4. ASSUME NEW i \in Ids
      PROVE  Shelved(i)' # {} \/ Slots(i)' # {}
             <=> (Shelved(i) # {} \/ Slots(i) # {}) /\ i # books[p]
  BY <1>1, ShelfAssumption DEF DiskOK, BooksConserved, NoDuplicates, Shelved, Slots
<1>5. BooksConserved'
  BY <1>2, <1>3, <1>4 DEF DiskOK, BooksConserved
<1>6. DirsClosed' /\ PackagesInFolders'
  BY <1>1 DEF DiskOK, DirsClosed, PackagesInFolders
<1> QED
  BY <1>1, <1>2, <1>5, <1>6 DEF DiskOK
-----------------------------------------------------------------------------
(* What becomes of the folders.                                            *)

LEMMA FolderIsAny == Folders \subseteq AnyFolder
  BY FoldersAre

LEMMA AboveIsFolder == ASSUME NEW f \in Folders, NEW g, Under(f, g) PROVE g \in Folders
<1>1. f \in AnyFolder /\ Len(f) <= MaxDepth
  BY FoldersAre
<1>2. g \in AnyFolder /\ Len(g) <= Len(f)
  BY <1>1, UnderIs
<1>3. Len(f) \in Nat /\ Len(g) \in Nat
  BY <1>1, <1>2 DEF AnyFolder
<1> QED
  BY <1>1, <1>2, <1>3, FoldersAre, ShelfAssumption

\* Made, with all above it,
LEMMA FolderMade ==
    ASSUME DiskOK, NEW f \in Folders, dirs' = dirs \cup Prefixes(f),
           UNCHANGED <<books, trash, born, gone>>
    PROVE  DiskOK'
<1>1. \A g : g \in dirs' <=> g \in dirs \/ Under(f, g)
  BY DEF Under
<1>2. dirs' \subseteq Folders
  BY <1>1, AboveIsFolder DEF DiskOK
<1>3. DirsClosed'
  <2> SUFFICES ASSUME NEW d \in dirs', NEW g, Under(d, g) PROVE g \in dirs'
    BY DEF DirsClosed
  <2> QED
    BY <1>1, FolderIsAny, UnderTransitive DEF DiskOK, DirsClosed
<1>4. PackagesInFolders'
  BY <1>1 DEF DiskOK, PackagesInFolders
<1>5. BooksConserved'
  BY DEF DiskOK, BooksConserved, NoDuplicates, Shelved, Slots
<1> QED
  BY <1>2, <1>3, <1>4, <1>5 DEF DiskOK

\* removed when it is empty,
LEMMA FolderRemoved ==
    ASSUME DiskOK, NEW f \in dirs, Empty(f), dirs' = dirs \ {f},
           UNCHANGED <<books, trash, born, gone>>
    PROVE  DiskOK'
<1>1. DirsClosed'
  <2> SUFFICES ASSUME NEW d \in dirs', NEW g, Under(d, g) PROVE g \in dirs /\ g # f
    BY DEF DirsClosed
  <2>1. d \in dirs /\ d # f /\ d \in AnyFolder /\ g \in dirs
    BY FolderIsAny DEF DiskOK, DirsClosed
  <2>2. ASSUME g = f PROVE FALSE
    <3>1. PICK c \in AnyFolder : Under(d, c) /\ c # <<>> /\ SubSeq(c, 1, Len(c) - 1) = f
      BY <2>1, <2>2, ChildOnTheWay
    <3>2. c \in Children(f)
      BY <2>1, <3>1 DEF DiskOK, DirsClosed, Children
    <3> QED
      BY <3>2 DEF Empty
  <2> QED
    BY <2>1, <2>2
<1>2. PackagesInFolders'
  <2> SUFFICES ASSUME NEW p \in Paths, books[p] # None PROVE p[1] \in dirs /\ p[1] # f
    BY DEF PackagesInFolders
  <2> QED
    BY PathOf DEF DiskOK, PackagesInFolders, Empty
<1>3. BooksConserved'
  BY DEF DiskOK, BooksConserved, NoDuplicates, Shelved, Slots
<1> QED
  BY <1>1, <1>2, <1>3 DEF DiskOK

LEMMA RerootTop == ASSUME NEW a \in AnyFolder, NEW b \in AnyFolder PROVE Reroot(a, a, b) = b
<1>1. Len(a) \in Nat /\ Len(b) \in Nat
  BY DEF AnyFolder
<1>2. /\ Reroot(a, a, b) \in AnyFolder /\ Len(Reroot(a, a, b)) = Len(b) + Len(a) - Len(a)
      /\ \A k \in 1..Len(b) : Reroot(a, a, b)[k] = b[k]
  BY UnderItself, RerootIs
<1> QED
  BY <1>1, <1>2, SeqEqual DEF AnyFolder

\* What is at each path once the folder has changed place, and where a package is then.
AfterMove(from, to) ==
    [p \in Paths |-> IF Under(p[1], to) /\ Reroot(p[1], to, from) \in Folders
                     THEN books[<<Reroot(p[1], to, from), p[2]>>]
                     ELSE IF Under(p[1], from) THEN None ELSE books[p]]
Carried(q, from, to) == IF Under(q[1], from) THEN <<Reroot(q[1], from, to), q[2]>> ELSE q

LEMMA PackagesCarried ==
    ASSUME DiskOK, NEW from \in dirs, NEW to \in Folders, to \notin dirs,
           \A d \in dirs : Under(d, from) => Reroot(d, from, to) \in Folders,
           books' = AfterMove(from, to)
    PROVE  /\ \A q \in Paths : books[q] # None =>
                 /\ Carried(q, from, to) \in Paths
                 /\ books'[Carried(q, from, to)] = books[q]
           /\ \A p \in Paths : books'[p] # None =>
                 \E q \in Paths : books[q] = books'[p] /\ p = Carried(q, from, to)
<1> DEFINE Moved(q) == Carried(q, from, to)
<1> USE DEF Carried, AfterMove
<1>1. dirs \subseteq Folders /\ Folders \subseteq AnyFolder /\ from \in AnyFolder /\ to \in AnyFolder
  BY FolderIsAny DEF DiskOK
<1>2. \A d \in dirs : ~Under(d, to)
  BY DEF DiskOK, DirsClosed
<1>3. ASSUME NEW q \in Paths, books[q] # None
      PROVE  Moved(q) \in Paths /\ books'[Moved(q)] = books[q]
  <2>1. q[1] \in dirs /\ q[1] \in AnyFolder
    BY <1>1, <1>3 DEF DiskOK, PackagesInFolders
  <2>2. CASE Under(q[1], from)
    <3> DEFINE f == Reroot(q[1], from, to)
    <3>1. f \in Folders
      BY <2>1, <2>2
    <3>2. Under(f, to) /\ Reroot(f, to, from) = q[1]
      BY <1>1, <2>1, <2>2, RerootBack
    <3> HIDE DEF f
    <3>3. Moved(q) = <<f, q[2]>>
      BY <2>2 DEF f
    <3>4. Moved(q) \in Paths /\ Moved(q)[1] = f /\ Moved(q)[2] = q[2]
      BY <3>1, <3>3, PathOf
    <3>5. books'[Moved(q)] = books[<<q[1], q[2]>>]
      <4> HIDE DEF Moved
      <4> QED BY <1>1, <2>1, <3>2, <3>4
    <3> QED
      BY <3>1, <3>4, <3>5, PathOf
  <2>3. CASE ~Under(q[1], from)
    BY <1>2, <2>1, <2>3
  <2> QED
    BY <2>2, <2>3
<1>4. ASSUME NEW p \in Paths, books'[p] # None
      PROVE  \E q \in Paths : books[q] = books'[p] /\ p = Moved(q)
  <2>1. p[1] \in AnyFolder
    BY <1>1, PathOf
  <2>2. CASE Under(p[1], to) /\ Reroot(p[1], to, from) \in Folders
    <3> DEFINE f == Reroot(p[1], to, from)
               q == <<f, p[2]>>
    <3>1. Under(f, from) /\ Reroot(f, from, to) = p[1]
      BY <1>1, <2>1, <2>2, RerootBack
    <3>2. books'[p] = books[q]
      BY <2>2
    <3> HIDE DEF f
    <3>3. q \in Paths /\ q[1] = f /\ q[2] = p[2]
      BY <2>2, PathOf DEF f
    <3>4. Moved(q) = p
      BY <3>1, <3>3, PathOf
    <3> QED
      BY <3>2, <3>3, <3>4
  <2>3. CASE ~(Under(p[1], to) /\ Reroot(p[1], to, from) \in Folders)
    <3>1. ~Under(p[1], from) /\ books'[p] = books[p]
      BY <1>4, <2>3
    <3> QED
      BY <3>1
  <2> QED
    BY <2>2, <2>3
<1> HIDE DEF Carried, AfterMove
<1> QED
  BY <1>3, <1>4

\* or moved, with all below it.
LEMMA FolderMoved ==
    ASSUME DiskOK, NEW from \in dirs, NEW to \in Folders, to # <<>>, to \notin dirs,
           ~Under(to, from), SubSeq(to, 1, Len(to) - 1) \in dirs,
           NEW moved, moved = {d \in dirs : Under(d, from)},
           \A d \in moved : Reroot(d, from, to) \in Folders,
           dirs' = (dirs \ moved) \cup {Reroot(d, from, to) : d \in moved},
           books' = AfterMove(from, to),
           UNCHANGED <<trash, born, gone>>
    PROVE  DiskOK'
<1>1. dirs \subseteq Folders /\ Folders \subseteq AnyFolder /\ from \in AnyFolder /\ to \in AnyFolder
  BY FolderIsAny DEF DiskOK
<1>2. \A d \in dirs : ~Under(d, to)
  BY DEF DiskOK, DirsClosed
<1>3. \A f \in AnyFolder : ~(Under(f, to) /\ Under(f, from))
  BY <1>1, <1>2, UnderLinear
<1>4. dirs' \subseteq Folders
  BY <1>1
<1>5. DirsClosed'
  <2> SUFFICES ASSUME NEW f \in dirs', NEW g, Under(f, g) PROVE g \in dirs'
    BY DEF DirsClosed
  <2>1. CASE f \in dirs \ moved
    <3>1. g \in dirs
      BY <2>1 DEF DiskOK, DirsClosed
    <3>2. g \notin moved
      BY <1>1, <2>1, UnderTransitive
    <3> QED
      BY <3>1, <3>2
  <2>2. ASSUME NEW d \in moved, f = Reroot(d, from, to) PROVE g \in dirs'
    <3>1. CASE g = to
      <4>1. from \in moved
        BY <1>1, UnderItself
      <4> QED
        BY <1>1, <3>1, <4>1, RerootTop
    <3>2. CASE g # to /\ Under(to, g)
      <4>1. Under(SubSeq(to, 1, Len(to) - 1), g)
        BY <1>1, <3>2, AboveParent
      <4>2. g \in dirs
        BY <4>1 DEF DiskOK, DirsClosed
      <4>3. ~Under(g, from)
        BY <1>1, <3>2, UnderTransitive
      <4> QED
        BY <4>2, <4>3
    <3>3. CASE ~Under(to, g)
      <4>1. PICK h \in AnyFolder : Under(d, h) /\ Under(h, from) /\ g = Reroot(h, from, to)
        BY <1>1, <2>2, <3>3, AboveMoved
      <4>2. h \in dirs
        BY <2>2, <4>1 DEF DiskOK, DirsClosed
      <4> QED
        BY <4>1, <4>2
    <3> QED
      BY <3>1, <3>2, <3>3
  <2> QED
    BY <2>1, <2>2
<1> DEFINE Moved(q) == Carried(q, from, to)
<1>6. /\ \A q \in Paths : books[q] # None => Moved(q) \in Paths /\ books'[Moved(q)] = books[q]
      /\ \A p \in Paths : books'[p] # None => \E q \in Paths : books[q] = books'[p] /\ p = Moved(q)
  BY PackagesCarried
<1>7. ASSUME NEW q \in Paths, books[q] # None PROVE Moved(q)[1] \in dirs'
  BY <1>7, PathOf DEF Carried, DiskOK, PackagesInFolders
<1> HIDE DEF Moved
<1>8. NoDuplicates'
  <2>1. ASSUME NEW p \in Paths, NEW r \in Paths, books'[p] # None, books'[p] = books'[r]
        PROVE  p = r
    BY <1>6, <2>1 DEF DiskOK, BooksConserved, NoDuplicates
  <2>2. ASSUME NEW p \in Paths, NEW s \in Ids, books'[p] # None
        PROVE  books'[p] # trash'[s].book
    BY <1>6, <2>2 DEF DiskOK, BooksConserved, NoDuplicates
  <2>3. \A s, t \in Ids : trash'[s].book # None /\ trash'[s].book = trash'[t].book => s = t
    BY DEF DiskOK, BooksConserved, NoDuplicates
  <2> QED
    BY <2>1, <2>2, <2>3 DEF NoDuplicates
<1>9. ASSUME NEW i \in Ids PROVE Shelved(i)' # {} <=> Shelved(i) # {}
  <2>1. i # None
    BY ShelfAssumption
  <2>2. ASSUME NEW p \in Paths, books'[p] = i PROVE \E q \in Paths : books[q] = i
    BY <1>6, <2>1, <2>2
  <2>3. ASSUME NEW q \in Paths, books[q] = i PROVE \E p \in Paths : books'[p] = i
    BY <1>6, <2>1, <2>3
  <2> QED
    BY <2>2, <2>3 DEF Shelved
<1>10. \A i \in Ids : Slots(i)' = Slots(i)
  BY DEF Slots
<1>11. BooksConserved'
  BY <1>8, <1>9, <1>10 DEF DiskOK, BooksConserved
<1>12. PackagesInFolders'
  BY <1>6, <1>7 DEF PackagesInFolders
<1>13. books' \in [Paths -> Ids \cup {None}]
  BY PathOf DEF DiskOK, AfterMove
<1> QED
  BY <1>4, <1>5, <1>11, <1>12, <1>13 DEF DiskOK
-----------------------------------------------------------------------------
(* The steps that change the disk.                                         *)

LEMMA VersionTyped == ShelfInv => version \in [Ids -> 0..MaxEdits]
  BY DEF ShelfInv, TypeOK

LEMMA MkdirStep == ASSUME ShelfInv, NEW w \in Workers, Mkdir(w) PROVE ShelfInv'
<1>1. op[w].dir \in Folders /\ w # Checker
  BY OpGood DEF ShelfInv, Mkdir, At, Ops, RightWorker
<1>2. DiskOK'
  BY <1>1, DiskIsOK, FolderMade DEF Mkdir
<1>3. OpsOK'
  BY <1>1, ReturnGood, GotoGood DEF Mkdir, ShelfInv
<1>4. Prefixes(op[w].dir) \subseteq Folders
  BY <1>1, AboveIsFolder DEF Under
<1>5. TypeOK'
  BY <1>2, <1>4 DEF Mkdir, ShelfInv, TypeOK, DiskOK, Slot
<1> QED
  BY <1>2, <1>3, <1>5 DEF ShelfInv, DiskOK

LEMMA RenameMovedStep == ASSUME ShelfInv, NEW w \in Workers, RenameMoved(w) PROVE ShelfInv'
<1> DEFINE from == op[w].path
           to == <<op[w].dir, from[2]>>
<1>1. op[w].dir \in Folders /\ w # Checker /\ from \in Paths
  BY OpGood DEF ShelfInv, RenameMoved, At, Ops, RightWorker, KnowsBook
<1>2. to \in Paths /\ to[1] = op[w].dir
  BY <1>1, PathOf
<1>3. CASE books[from] # None /\ (Free(to) \/ to = from)
  <2>1. to[1] \in dirs /\ (books[to] = None \/ to = from)
    BY <1>1, <1>3 DEF Free, ShelfInv, PackagesInFolders
  <2>2. DiskOK'
    <3>1. books' = [books EXCEPT ![from] = None, ![to] = books[from]]
          /\ UNCHANGED <<dirs, trash, born, gone>>
      BY <1>3 DEF RenameMoved
    <3> HIDE DEF to
    <3> QED
      BY <1>1, <1>2, <1>3, <2>1, <3>1, DiskIsOK, PackageMoved
  <2>3. OpsOK'
    <3>1. op' = [op EXCEPT ![w].pc = "reopen", ![w].path = to]
      BY <1>3 DEF RenameMoved
    <3> HIDE DEF to
    <3> QED
      BY <1>1, <1>2, <3>1, ReopenGood DEF ShelfInv
  <2> QED
    BY <2>2, <2>3, MemoryKept, VersionTyped DEF RenameMoved
<1>4. CASE ~(books[from] # None /\ (Free(to) \/ to = from))
  BY <1>4, ReturnGood, DiskKept, MemoryTyped DEF RenameMoved, disk, mem, ShelfInv
<1> QED
  BY <1>3, <1>4

LEMMA RenameStagedStep ==
    ASSUME ShelfInv, NEW w \in Workers, NEW i \in Ids, NEW name \in PackageNames,
           RenameStaged(w, i, name)
    PROVE  ShelfInv'
<1> DEFINE to == <<op[w].dir, name>>
<1>1. op[w].dir \in Folders /\ w # Checker
  BY OpGood DEF ShelfInv, RenameStaged, At, Ops, RightWorker
<1>2. to \in Paths
  BY <1>1, PathOf
<1>3. /\ i \notin born /\ Free(to) /\ books' = [books EXCEPT ![to] = i] /\ born' = born \cup {i}
      /\ op' = [op EXCEPT ![w].pc = "reopen", ![w].path = to]
      /\ UNCHANGED <<dirs, trash, version, gone, mem>>
  BY DEF RenameStaged
<1> HIDE DEF to
<1>4. DiskOK'
  BY <1>2, <1>3, DiskIsOK, PackagePut
<1>5. OpsOK'
  BY <1>1, <1>2, <1>3, ReopenGood DEF ShelfInv
<1> QED
  BY <1>3, <1>4, <1>5, MemoryKept, VersionTyped

LEMMA RenameRestoredStep ==
    ASSUME ShelfInv, NEW w \in Workers, NEW name \in PackageNames, RenameRestored(w, name)
    PROVE  ShelfInv'
<1> DEFINE to == <<op[w].dir, name>>
           i == op[w].id
<1>1. op[w].dir \in Folders /\ w # Checker /\ i \in Ids
  BY OpGood DEF ShelfInv, RenameRestored, At, Ops, RightWorker, KnowsBook
<1>2. to \in Paths
  BY <1>1, PathOf
<1>3. /\ trash[i].book # None /\ Free(to) /\ books' = [books EXCEPT ![to] = trash[i].book]
      /\ trash' = [trash EXCEPT ![i] = EmptySlot]
      /\ op' = [op EXCEPT ![w].pc = "reopen", ![w].path = to]
      /\ UNCHANGED <<dirs, version, born, gone, mem>>
  BY DEF RenameRestored
<1> HIDE DEF to
<1>4. DiskOK'
  BY <1>1, <1>2, <1>3, DiskIsOK, PackageRestored
<1>5. OpsOK'
  BY <1>1, <1>2, <1>3, ReopenGood DEF ShelfInv
<1> QED
  BY <1>3, <1>4, <1>5, MemoryKept, VersionTyped

LEMMA ToTrashStep == ASSUME ShelfInv, NEW w \in Workers, ToTrash(w) PROVE ShelfInv'
<1> DEFINE i == op[w].id
           p == op[w].path
<1>1. w # Checker /\ i \in Ids /\ p \in Paths
  BY OpGood DEF ShelfInv, ToTrash, At, RightWorker, KnowsBook
<1>2. CASE trash[i].book = None /\ books[p] # None
  <2>1. DiskOK'
    BY <1>1, <1>2, DiskIsOK, PackageTrashed DEF ToTrash
  <2>2. OpsOK'
    BY <1>1, <1>2, GotoGood DEF ToTrash, ShelfInv
  <2> QED
    BY <2>1, <2>2, MemoryKept, VersionTyped DEF ToTrash
<1>3. CASE ~(trash[i].book = None /\ books[p] # None)
  BY <1>3, ReturnGood, DiskKept, MemoryTyped DEF ToTrash, disk, mem, ShelfInv
<1> QED
  BY <1>2, <1>3

LEMMA WriteTrashMetaStep == ASSUME ShelfInv, NEW w \in Workers, WriteTrashMeta(w) PROVE ShelfInv'
<1> DEFINE i == op[w].id
<1>1. w # Checker /\ i \in Ids /\ op[w].path \in Paths
  BY OpGood DEF ShelfInv, WriteTrashMeta, At, RightWorker, KnowsBook
<1>2. CASE trash[i].book # None
  <2>1. /\ trash' = [trash EXCEPT ![i].home = op[w].path] /\ Goto(w, "uncache")
        /\ UNCHANGED <<books, dirs, version, born, gone, mem>>
    BY <1>2 DEF WriteTrashMeta
  <2>2. trash' \in [Ids -> Slot] /\ \A s \in Ids : trash'[s].book = trash[s].book
    BY <1>1, <2>1, DiskIsOK DEF DiskOK, Slot
  <2>3. BooksConserved'
    BY <2>1, <2>2, DiskIsOK DEF DiskOK, BooksConserved, NoDuplicates, Shelved, Slots
  <2>4. DiskOK'
    BY <2>1, <2>2, <2>3, DiskIsOK DEF DiskOK, DirsClosed, PackagesInFolders
  <2>5. OpsOK'
    BY <1>1, <2>1, GotoGood DEF WriteTrashMeta, ShelfInv
  <2> QED
    BY <2>1, <2>4, <2>5, MemoryKept, VersionTyped
<1>3. CASE trash[i].book = None
  BY <1>3, ReturnGood, DiskKept, MemoryTyped DEF WriteTrashMeta, disk, mem, ShelfInv
<1> QED
  BY <1>2, <1>3

LEMMA UndoTrashStep == ASSUME ShelfInv, NEW w \in Workers, UndoTrash(w) PROVE ShelfInv'
<1> DEFINE i == op[w].id
           p == op[w].path
<1>1. i \in Ids /\ p \in Paths
  BY OpGood DEF ShelfInv, UndoTrash, At, KnowsBook
<1>2. OpsOK'
  BY ReturnGood DEF UndoTrash, ShelfInv
<1>3. CASE trash[i].book # None /\ Free(p)
  <2>1. DiskOK'
    BY <1>1, <1>3, DiskIsOK, PackageRestored DEF UndoTrash
  <2> QED
    BY <1>2, <2>1, MemoryKept, VersionTyped DEF UndoTrash
<1>4. CASE ~(trash[i].book # None /\ Free(p))
  BY <1>2, <1>4, DiskKept, MemoryTyped DEF UndoTrash, disk, mem
<1> QED
  BY <1>3, <1>4

LEMMA PurgeStep == ASSUME ShelfInv, NEW w \in Workers, Purge(w) PROVE ShelfInv'
<1> DEFINE i == op[w].id
<1>1. i \in Ids
  BY OpGood DEF ShelfInv, Purge, At, KnowsBook
<1>2. OpsOK'
  BY ReturnGood DEF Purge, ShelfInv
<1>3. CASE trash[i].book # None
  <2>1. DiskOK'
    BY <1>1, <1>3, DiskIsOK, PackagePurged DEF Purge
  <2> QED
    BY <1>2, <2>1, MemoryKept, VersionTyped DEF Purge
<1>4. CASE trash[i].book = None
  BY <1>2, <1>4, DiskKept, MemoryTyped DEF Purge, disk, mem
<1> QED
  BY <1>3, <1>4

LEMMA RmdirStep == ASSUME ShelfInv, NEW w \in Workers, Rmdir(w) PROVE ShelfInv'
<1> DEFINE f == op[w].dir
<1>1. w # Checker
  BY OpGood DEF ShelfInv, Rmdir, At, RightWorker
<1>2. CASE f \in dirs /\ f # <<>> /\ Empty(f)
  <2>1. DiskOK'
    BY <1>2, DiskIsOK, FolderRemoved DEF Rmdir
  <2>2. OpsOK'
    BY <1>1, <1>2, GotoGood DEF Rmdir, ShelfInv
  <2> QED
    BY <2>1, <2>2, MemoryKept, VersionTyped DEF Rmdir
<1>3. CASE ~(f \in dirs /\ f # <<>> /\ Empty(f))
  BY <1>3, ReturnGood, DiskKept, MemoryTyped DEF Rmdir, disk, mem, ShelfInv
<1> QED
  BY <1>2, <1>3

LEMMA MvdirStep ==
    ASSUME ShelfInv, NEW w \in Workers, NEW to \in Folders, Mvdir(w, to)
    PROVE  ShelfInv'
<1> DEFINE from == op[w].dir
           moved == {d \in dirs : Under(d, from)}
           may == /\ from \in dirs /\ from # <<>> /\ to # <<>> /\ to \notin dirs
                  /\ ~Under(to, from) /\ SubSeq(to, 1, Len(to) - 1) \in dirs
                  /\ \A d \in moved : Reroot(d, from, to) \in Folders
<1>1. w # Checker
  BY OpGood DEF ShelfInv, Mvdir, At, RightWorker
<1>2. CASE may
  <2>1. DiskOK'
    BY <1>2, DiskIsOK, FolderMoved DEF Mvdir, AfterMove
  <2>2. OpsOK'
    BY <1>1, <1>2, GotoGood DEF Mvdir, ShelfInv
  <2> QED
    BY <2>1, <2>2, MemoryKept, VersionTyped DEF Mvdir
<1>3. CASE ~may
  BY <1>3, ReturnGood, DiskKept, MemoryTyped DEF Mvdir, disk, mem, ShelfInv
<1> QED
  BY <1>2, <1>3

LEMMA OutsideSteps == ASSUME ShelfInv, OutsideStep PROVE ShelfInv'
<1>1. ASSUME NEW p \in Paths, NEW q \in Paths, OutsideMove(p, q) PROVE ShelfInv'
  <2>1. DiskOK'
    BY <1>1, DiskIsOK, PackageMoved DEF OutsideMove, Free
  <2> QED
    BY <1>1, <2>1, MemoryKept, VersionTyped DEF OutsideMove, ShelfInv, OpsOK
<1>2. ASSUME NEW i \in Ids, NEW p \in Paths, OutsideAdd(i, p) PROVE ShelfInv'
  <2>1. DiskOK'
    BY <1>2, DiskIsOK, PackagePut DEF OutsideAdd
  <2> QED
    BY <1>2, <2>1, MemoryKept, VersionTyped DEF OutsideAdd, ShelfInv, OpsOK
<1>3. ASSUME NEW p \in Paths, OutsideRemove(p) PROVE ShelfInv'
  <2>1. DiskOK'
    BY <1>3, DiskIsOK, PackageRemoved DEF OutsideRemove
  <2> QED
    BY <1>3, <2>1, MemoryKept, VersionTyped DEF OutsideRemove, ShelfInv, OpsOK
<1>4. ASSUME NEW p \in Paths, OutsideEdit(p) PROVE ShelfInv'
  <2>1. books[p] \in Ids /\ version[books[p]] \in 0..MaxEdits /\ version[books[p]] < MaxEdits
    BY <1>4 DEF OutsideEdit, ShelfInv, TypeOK
  <2>2. version' \in [Ids -> 0..MaxEdits]
    BY <1>4, <2>1, VersionTyped, ShelfAssumption DEF OutsideEdit
  <2>3. DiskOK'
    BY <1>4, DiskIsOK
    DEF OutsideEdit, DiskOK, DirsClosed, BooksConserved, NoDuplicates, Shelved, Slots,
        PackagesInFolders
  <2> QED
    BY <1>4, <2>2, <2>3, MemoryKept DEF OutsideEdit, ShelfInv, OpsOK
<1> QED
  BY <1>1, <1>2, <1>3, <1>4 DEF OutsideStep

-----------------------------------------------------------------------------
LEMMA ShelfInitial == Init => ShelfInv
<1> SUFFICES ASSUME Init PROVE ShelfInv
  OBVIOUS
<1>1. dirs \subseteq Folders
  BY EmptyFolder DEF Init
<1>2. TypeOK
  BY <1>1, NothingFound, ShelfAssumption DEF Init, TypeOK, Remembered, EmptySlot
<1>3. OpsOK
  BY IdleGood DEF Init, OpsOK
<1>4. DirsClosed
  <2>1. <<>> \in AnyFolder /\ Len(<<>>) = 0
    BY EmptySeq DEF AnyFolder
  <2>2. ASSUME NEW g, Under(<<>>, g) PROVE g = <<>>
    <3>1. g \in AnyFolder /\ Len(g) <= 0
      BY <2>1, <2>2, UnderIs
    <3>2. Len(g) = 0
      BY <3>1 DEF AnyFolder
    <3> QED
      BY <3>1, <3>2, EmptySeq DEF AnyFolder
  <2> QED
    BY <2>2 DEF Init, DirsClosed
<1>5. gone \subseteq born /\ PackagesInFolders
  BY DEF Init, PackagesInFolders
<1>6. BooksConserved
  BY ShelfAssumption DEF Init, BooksConserved, NoDuplicates, Shelved, Slots, EmptySlot
<1> QED
  BY <1>2, <1>3, <1>4, <1>5, <1>6 DEF ShelfInv

LEMMA ShelfStep == ShelfInv /\ [Next]_vars => ShelfInv'
<1> SUFFICES ASSUME ShelfInv, [Next]_vars PROVE ShelfInv'
  OBVIOUS
<1>1. ASSUME NEW w \in Goroutines, Requests(w) PROVE ShelfInv'
  <2>1. ASSUME NEW kind \in {"new", "mkdir", "rmdir", "mvdir"}, NEW f \in Folders,
               Begin(w, kind, None, f)
        PROVE  ShelfInv'
    BY <2>1, BeginStep DEF RequestKinds, Lookups
  <2>2. ASSUME NEW kind \in {"move", "copy"}, NEW i \in Ids, NEW f \in Folders,
               Begin(w, kind, i, f)
        PROVE  ShelfInv'
    BY <2>2, BeginStep DEF RequestKinds, Lookups
  <2>3. ASSUME NEW kind \in {"trash", "restore", "purge", "get"}, NEW i \in Ids,
               Begin(w, kind, i, <<>>)
        PROVE  ShelfInv'
    BY <2>3, BeginStep, EmptyFolder DEF RequestKinds, Lookups
  <2>4. CASE Begin(w, "list", None, <<>>)
    BY <2>4, BeginStep, EmptyFolder DEF RequestKinds, Lookups
  <2> QED
    BY <1>1, <2>1, <2>2, <2>3, <2>4 DEF Requests
<1>2. ASSUME NEW w \in Workers, Refresh(w) PROVE ShelfInv'
  BY <1>2, DecideStep, ScheduleStep, PublishStep, SnapshotStep, CheckStep, ApplyStep, AgainStep,
     LastSteps, WalkStep
  DEF Refresh
<1>3. ASSUME NEW w \in Workers, Change(w) PROVE ShelfInv'
  BY <1>3, LookupStep, CopyTreeStep, MkdirStep, RenameMovedStep, FindStep, LastSteps, ToTrashStep,
     WriteTrashMetaStep, PurgeStep, RmdirStep, RenameStagedStep, RenameRestoredStep, MvdirStep
  DEF Change
<1>4. CASE UNCHANGED vars
  <2>1. OpsOK'
    BY <1>4 DEF vars, ShelfInv, OpsOK
  <2> QED
    BY <1>4, <2>1, DiskKept, MemoryTyped DEF vars, mem
<1>5. CASE Fault
  BY <1>5, CrashStep, UndoTrashStep, LastSteps DEF Fault
<1> QED
  BY <1>1, <1>2, <1>3, <1>4, <1>5, OutsideSteps DEF Next, Served

\* The tree, the trash, the cache and the requests keep their types, for any number of
\* requests, books, folders and names.
THEOREM ShelfTypes == Spec => []TypeOK
<1>1. ShelfInv => TypeOK
  BY DEF ShelfInv
<1> QED
  BY <1>1, ShelfInitial, ShelfStep, PTL DEF Spec

\* A published book that nobody removed for good is in exactly one place, on the shelf or
\* in the trash, however requests, failures, crashes and changes from outside interleave
\* between their disk operations (Shelf.MoveBook, MoveBookToTrash, RestoreTrashedBook,
\* DeleteTrashedBook, publishBookCopy, RenameFolder).
THEOREM ShelfConservesBooks == Spec => []BooksConserved
<1>1. ShelfInv => BooksConserved
  BY DEF ShelfInv
<1> QED
  BY <1>1, ShelfInitial, ShelfStep, PTL DEF Spec

\* No package is ever in a folder that is not there (deleteFolder, RenameFolder).
THEOREM ShelfKeepsFolders == Spec => []PackagesInFolders
<1>1. ShelfInv => PackagesInFolders
  BY DEF ShelfInv
<1> QED
  BY <1>1, ShelfInitial, ShelfStep, PTL DEF Spec

-----------------------------------------------------------------------------
(* One request after another: what the cache shows.                        *)

\* The cache has the book i as it is on the shelf, or not at all if it is not there.
Exact(i) ==
    /\ \A p \in Paths : books[p] = i => cache[i] = EntryAt(p)
    /\ cache[i] # None => books[cache[i].path] = i

\* A book that crossed a background check may also be missing.
Shows(i) == Exact(i) \/ (i \in crossed /\ cache[i] = None)

\* The books and folders that a request has changed on disk and not yet in the cache.
BooksBehind(r) ==
    CASE r.pc = "reopen" -> {books[r.path]}
      [] r.pc \in {"meta", "uncache"} -> {r.id}
      [] r.pc = "dirty" -> Ids
      [] OTHER -> {}
FoldersBehind(r) ==
    CASE r.pc = "forget" -> {r.dir}
      [] r.pc = "dirty" -> Folders
      [] OTHER -> {}

\* The cache is right, but for those.
Agrees(r) ==
    /\ \A i \in Ids \ BooksBehind(r) : Shows(i)
    /\ \A f \in Folders \ FoldersBehind(r) : f \in cfolders <=> f \in dirs

\* The books of these folders were found where they are.
ScanHas(found, seen) ==
    /\ \A i \in Ids : found[i] # None =>
          books[found[i].path] = i /\ found[i] = EntryAt(found[i].path)
    /\ \A p \in Paths : books[p] # None /\ p[1] \in seen => found[books[p]] # None

\* A walk has the books of the folders it has seen, and every folder is one of those or
\* below one that is left.
ScanHolds(r) ==
    /\ r.todo \subseteq dirs /\ r.seen \subseteq dirs
    /\ \A f \in dirs : f \in r.seen \/ \E g \in r.todo : Under(f, g)
    /\ ScanHas(r.found, r.seen)

\* A check finds the books of its copy of the cache where they are, but for some.
Judged(found, but) ==
    \A i \in Ids \ but : found[i] # None =>
        books[found[i].path] = i /\ found[i] = EntryAt(found[i].path)

\* No book.json was rewritten since these entries were read.
Current(found) == \A i \in Ids : found[i] # None => found[i].version = version[found[i].id]

\* What the cache has of the book can be trusted.
Sure(i) == ~due \/ (~At(Checker, "idle") /\ i \notin crossed)

\* What a request knows at each step.
StepHolds(r) ==
    /\ r.pc \in {"snapshot", "check", "apply"} \/ (r.pc = "answer" /\ r.kind = "list") => ~due
    /\ r.pc \notin {"walk", "check"} => r.found = NoEntries
    /\ r.pc # "walk" => r.seen = {}
    /\ r.pc = "check" => Judged(r.found, {})
    /\ r.pc = "apply" => r.drop = {}
    /\ r.pc = "walk" => ScanHolds(r)
    /\ r.pc = "totrash" /\ Sure(r.id) => books[r.path] = r.id
    /\ r.pc = "reopen" => books[r.path] # None
    /\ r.pc \in {"meta", "uncache"} /\ Sure(r.id) => Shelved(r.id) = {}
    /\ r.pc = "meta" => trash[r.id].book # None
    /\ r.pc = "forget" => r.dir \notin dirs

\* What the background check knows: while it runs the cache is right for the books that
\* stay where they are, and it reports none of those as gone.
CheckHolds ==
    LET r == op[Checker]
    IN  /\ r.pc # "idle" => \A i \in Ids \ crossed : Exact(i)
        /\ r.pc = "check" => Judged(r.found, crossed) /\ Current(r.found)
        /\ r.pc = "apply" => r.drop \subseteq crossed /\ r.found = NoEntries

\* At most one request is in progress, and the background check beside it.
Writing == {"reopen", "meta", "uncache", "dirty", "forget"}
InTurnInv ==
    /\ ShelfInv /\ OneByOne /\ <<>> \in dirs /\ Current(cache) /\ CheckHolds
    /\ \A g \in Goroutines : StepHolds(op[g])
    /\ ~due => \A g \in Goroutines : op[g].pc \in Writing => Agrees(op[g])
    /\ ~due /\ (\A g \in Goroutines : op[g].pc \notin Writing) => Agrees(Idle)

\* What Crossing notes at a step that is not the end of a scan.
Noted ==
    /\ crossed \subseteq crossed'
    /\ ~At(Checker, "idle") => \A i \in Ids : Shelved(i)' # Shelved(i) => i \in crossed'

\* A step leaves what the cache has of a book, or replaces it by what is there; while the
\* background check runs, the books that stay where they are stay right.
Refreshed ==
    /\ UNCHANGED version
    /\ \A i \in Ids :
          \/ cache'[i] = cache[i]
          \/ /\ cache'[i] = None \/ \E p \in Paths : cache'[i] = EntryAt(p)'
             /\ At(Checker, "idle") \/ i \in crossed' \/ Exact(i)'

\* A book that a step leaves where it is stays right in the cache.
LEMMA ExactKept ==
    ASSUME ShelfInv, NEW j \in Ids, Exact(j), cache'[j] = cache[j], UNCHANGED version,
           \A p \in Paths : books'[p] = j <=> books[p] = j
    PROVE  Exact(j)'
<1>1. cache[j] # None => cache[j].path \in Paths
  BY MemoryTyped DEF Remembered, Entries
<1> QED
  BY <1>1 DEF Exact, EntryAt

\* A step of a request leaves the background check what it knows.
LEMMA CheckKept ==
    ASSUME InTurnInv, Noted, op'[Checker] = op[Checker], Refreshed
    PROVE  CheckHolds' /\ Current(cache)'
<1>1. ShelfInv /\ Checker \in Workers /\ op[Checker] \in Ops
  BY OpGood DEF InTurnInv, ShelfInv, Workers
<1>2. ASSUME op[Checker].pc # "idle", NEW i \in Ids \ crossed'
      PROVE  i \notin crossed /\ Exact(i) /\ \A p \in Paths : books'[p] = i <=> books[p] = i
  <2>1. i \notin crossed /\ Shelved(i)' = Shelved(i)
    BY <1>2 DEF Noted, At
  <2>2. ASSUME NEW p \in Paths PROVE books'[p] = i <=> books[p] = i
    BY <2>1 DEF Shelved
  <2> QED
    BY <1>2, <2>1, <2>2 DEF InTurnInv, CheckHolds
<1>3. ASSUME op[Checker].pc # "idle", NEW i \in Ids \ crossed' PROVE Exact(i)'
  BY <1>1, <1>2, <1>3, ExactKept DEF Refreshed, At
<1>4. ASSUME op[Checker].pc = "check"
      PROVE  Judged(op[Checker].found, crossed)' /\ Current(op[Checker].found)'
  <2>1. op[Checker].found \in Remembered /\ Judged(op[Checker].found, crossed)
        /\ Current(op[Checker].found)
    BY <1>1, <1>4 DEF InTurnInv, CheckHolds, Ops
  <2>2. PICK F \in Remembered : F = op[Checker].found
    BY <2>1
  <2>3. ASSUME NEW i \in Ids \ crossed', F[i] # None
        PROVE  books'[F[i].path] = i /\ F[i] = EntryAt(F[i].path)'
    <3>1. F[i].path \in Paths
      BY <2>3 DEF Remembered, Entries
    <3>2. books[F[i].path] = i /\ F[i] = EntryAt(F[i].path)
      BY <1>2, <1>4, <2>1, <2>2, <2>3 DEF Judged
    <3>3. books'[F[i].path] = i
      BY <1>2, <1>4, <3>1, <3>2
    <3> QED
      BY <3>2, <3>3 DEF EntryAt, Refreshed
  <2> QED
    BY <2>1, <2>2, <2>3 DEF Judged, Current, Refreshed
<1>5. Current(cache)'
  <2> SUFFICES ASSUME NEW i \in Ids, cache'[i] # None
               PROVE  cache'[i].version = version[cache'[i].id]
    BY DEF Current, Refreshed
  <2>1. CASE cache'[i] = cache[i]
    BY <2>1 DEF InTurnInv, Current
  <2>2. ASSUME NEW q \in Paths, cache'[i] = EntryAt(q)'
        PROVE  cache'[i].version = version[cache'[i].id]
    BY <2>2 DEF EntryAt, Refreshed
  <2> QED
    BY <2>1, <2>2 DEF Refreshed
<1> QED
  BY <1>3, <1>4, <1>5 DEF InTurnInv, CheckHolds, Noted

\* A request past its first step is the only one, and what the cache has can be trusted.
LEMMA OthersWait ==
    ASSUME InTurnInv, NEW w \in Workers, w # Checker, op[w].pc \notin {"idle", "answer"}
    PROVE  /\ w \in Goroutines /\ \A v \in Goroutines \ {w} : At(v, "idle")
           /\ ~due => Agrees(op[w])
<1>1. w \in Goroutines /\ \A v \in Goroutines \ {w} : At(v, "idle")
  BY DEF InTurnInv, OneByOne, At, Workers
<1>2. ASSUME ~due, op[w].pc \notin Writing PROVE Agrees(op[w])
  <2>1. Agrees(Idle)
    BY <1>1, <1>2 DEF InTurnInv, At, Writing
  <2> QED
    BY <1>2, <2>1 DEF Agrees, BooksBehind, FoldersBehind, Writing, Idle
<1> QED
  BY <1>1, <1>2 DEF InTurnInv

\* What a step of the only request has to keep.
LEMMA TurnTaken ==
    ASSUME InTurnInv, ShelfInv', OneByOne', Noted, Refreshed, <<>> \in dirs', NEW w \in Goroutines,
           op'[Checker] = op[Checker],
           \A v \in Goroutines \ {w} : /\ At(v, "idle") /\ op'[v].pc = "idle"
                                       /\ op'[v].found = op[v].found /\ op'[v].seen = op[v].seen,
           StepHolds(op[w])', ~due' => Agrees(op[w])'
    PROVE  InTurnInv'
<1>1. ASSUME NEW v \in Goroutines PROVE StepHolds(op[v])'
  <2>1. CASE v # w
    BY <2>1 DEF InTurnInv, StepHolds, At, NoEntries
  <2> QED
    BY <2>1
<1>2. ASSUME ~due', NEW v \in Goroutines, op'[v].pc \in Writing PROVE Agrees(op[v])'
  BY <1>2 DEF Writing
<1>3. ASSUME ~due', op'[w].pc \notin Writing PROVE Agrees(Idle)'
  BY <1>3 DEF Agrees, BooksBehind, FoldersBehind, Writing, Idle
<1>4. CheckHolds' /\ Current(cache)'
  BY CheckKept
<1> QED
  BY <1>1, <1>2, <1>3, <1>4 DEF InTurnInv

\* The cache and the disk are as they were.
LEMMA NothingNew ==
    ASSUME Noted, UNCHANGED <<books, version, cache>>, NEW i
    PROVE  Shows(i) => Shows(i)'
  BY DEF Noted, Shows, Exact, EntryAt

\* A step that neither writes nor ends a write leaves only its own knowledge to show.
LEMMA OnlyLooked ==
    ASSUME InTurnInv, ShelfInv', OneByOne', Noted, NEW w \in Workers, w # Checker,
           UNCHANGED <<disk, mem>>, \A v \in Workers \ {w} : op'[v] = op[v],
           op[w].pc \notin Writing, op'[w].pc \notin Writing, StepHolds(op[w])'
    PROVE  InTurnInv'
<1>1. /\ books' = books /\ dirs' = dirs /\ trash' = trash /\ version' = version
      /\ cache' = cache /\ cfolders' = cfolders /\ due' = due
  BY DEF disk, mem
<1>0. /\ w \in Goroutines /\ \A v \in Goroutines \ {w} : op'[v] = op[v]
      /\ op'[Checker] = op[Checker]
  BY DEF Workers
<1>5. At(Checker, "idle")' <=> At(Checker, "idle")
  BY <1>0 DEF At
<1>2. ASSUME NEW v \in Goroutines, v # w PROVE StepHolds(op[v])'
  <2>1. \A i : Sure(i)' => Sure(i)
    BY <1>1, <1>5 DEF Sure, Noted
  <2>2. StepHolds(op[v]) /\ op'[v] = op[v]
    BY <1>0, <1>2 DEF InTurnInv
  <2> QED
    BY <1>1, <2>1, <2>2
    DEF StepHolds, ScanHolds, ScanHas, EntryAt, Shelved, NoEntries, Judged
<1>3. ASSUME ~due', NEW v \in Goroutines, op'[v].pc \in Writing PROVE Agrees(op[v])'
  <2>1. v # w /\ op'[v] = op[v] /\ Agrees(op[v])
    BY <1>0, <1>1, <1>3 DEF InTurnInv
  <2> QED
    BY <1>1, <2>1, NothingNew DEF Agrees, BooksBehind, FoldersBehind
<1>4. ASSUME ~due', \A v \in Goroutines : op'[v].pc \notin Writing PROVE Agrees(Idle)'
  <2>1. \A v \in Goroutines : op[v].pc \notin Writing
    BY <1>0, <1>4
  <2>2. Agrees(Idle)
    BY <1>1, <1>4, <2>1 DEF InTurnInv
  <2> QED
    BY <1>1, <2>2, NothingNew DEF Agrees, BooksBehind, FoldersBehind, Idle
<1>6. CheckHolds' /\ Current(cache)'
  BY <1>0, <1>1, CheckKept DEF Refreshed
<1> QED
  BY <1>1, <1>2, <1>3, <1>4, <1>6 DEF InTurnInv

-----------------------------------------------------------------------------
(* The steps of one request after another.                                 *)

\* What a step leaves to the other workers, and to the one that takes it.
LEMMA TurnOf ==
    ASSUME InTurnInv, NEW w \in Workers
    PROVE  /\ ShelfInv /\ OpsOK /\ op[w] \in Ops /\ op \in [Workers -> Ops]
           /\ KnowsBook(op[w]) /\ RightKind(op[w]) /\ RightWorker(w, op[w])
           /\ op[w].pc \notin {"idle", "snapshot", "check", "apply"} => w # Checker
           /\ w # Checker => w \in Goroutines /\ StepHolds(op[w])
  BY OpGood DEF InTurnInv, ShelfInv, OpsOK, GoodOp, RightWorker, Workers

\* A request is over, and has changed nothing with its last step.
LEMMA TurnOver ==
    ASSUME InTurnInv, ShelfInv', OneByOne', Noted, NEW w \in Workers, w # Checker, UNCHANGED <<disk, mem>>,
           op[w].pc \notin Writing, Return(w)
    PROVE  InTurnInv'
<1>1. op'[w] = Idle /\ \A v \in Workers \ {w} : op'[v] = op[v]
  BY TurnOf DEF Return
<1>2. StepHolds(Idle)'
  BY DEF StepHolds, Idle, NoEntries
<1> QED
  BY <1>1, <1>2, OnlyLooked DEF Idle, Writing

LEMMA AnswerTurn ==
    ASSUME InTurnInv, ShelfInv', OneByOne', Noted, NEW w \in Workers, Answer(w) PROVE InTurnInv'
  BY TurnOver, TurnOf DEF Answer, At, Writing

LEMMA NoRoomTurn ==
    ASSUME InTurnInv, ShelfInv', OneByOne', Noted, NEW w \in Workers, NoRoom(w) PROVE InTurnInv'
  BY TurnOver, TurnOf DEF NoRoom, At, Writing

LEMMA BeginTurn ==
    ASSUME InTurnInv, ShelfInv', OneByOne', Noted, NEW w \in Goroutines, NEW kind \in RequestKinds,
           NEW id, NEW f, Begin(w, kind, id, f)
    PROVE  InTurnInv'
<1>0. PICK x, b : x = FirstStep(kind) /\ b = \A g \in Goroutines : At(g, "idle")
  OBVIOUS
<1> DEFINE q == [Idle EXCEPT !.pc = x, !.kind = kind, !.id = id, !.dir = f, !.alone = b]
<1>1. w \in Workers /\ w # Checker /\ Checker \in Workers
  BY ShelfAssumption DEF Workers
<1>2. x \in {"lookup", "decide", "schedule", "find", "purge", "mkdir", "rmdir", "mvdir"}
  BY <1>0 DEF FirstStep, RequestKinds, Lookups
<1>3. q.pc = x /\ q.found = NoEntries /\ q.seen = {}
  BY DEF Idle
<1>4. op' = [v \in Workers |-> IF v = w THEN q ELSE IF v = Checker THEN op[v]
                               ELSE [op[v] EXCEPT !.alone = At(v, "idle")]]
  BY <1>0 DEF Begin
<1> HIDE DEF q
<1>5. op'[w] = q
  BY <1>1, <1>4
<1>6. ASSUME NEW v \in Workers \ {w}
      PROVE  op'[v].pc = op[v].pc /\ op'[v].found = op[v].found /\ op'[v].seen = op[v].seen
  BY <1>4, TurnOf DEF Ops
<1>7. ASSUME NEW v \in Goroutines \ {w} PROVE op'[v].pc = "idle"
  BY <1>1, <1>2, <1>3, <1>5 DEF OneByOne, At
<1>8. UNCHANGED <<disk, mem>> /\ At(w, "idle")
  BY DEF Begin
<1>9. StepHolds(op[w])'
  BY <1>2, <1>3, <1>5 DEF StepHolds, NoEntries
<1>10. ~due' => Agrees(op[w])'
  <2>1. ASSUME NEW v \in Goroutines PROVE op[v].pc \notin Writing
    BY <1>6, <1>7, <1>8 DEF At, Writing, Workers
  <2>2. ~due => Agrees(Idle)
    BY <2>1 DEF InTurnInv
  <2> QED
    BY <1>2, <1>3, <1>5, <1>8, <2>2, NothingNew
    DEF disk, mem, Agrees, BooksBehind, FoldersBehind, Idle
<1>11. op'[Checker] = op[Checker] /\ Refreshed
  BY <1>1, <1>4, <1>8 DEF Refreshed, disk, mem
<1>12. \A v \in Goroutines \ {w} : /\ At(v, "idle") /\ op'[v].pc = "idle"
                                   /\ op'[v].found = op[v].found /\ op'[v].seen = op[v].seen
  BY <1>6, <1>7 DEF At, Workers
<1> QED
  BY <1>8, <1>9, <1>10, <1>11, <1>12, TurnTaken DEF InTurnInv, disk

\* A scan begins at the top.
LEMMA ScanBegins ==
    ASSUME InTurnInv, NEW w \in Workers, UNCHANGED disk,
           op'[w].pc = "walk", op'[w].todo = {<<>>}, op'[w].found = NoEntries, op'[w].seen = {}
    PROVE  StepHolds(op[w])'
<1>1. <<>> \in dirs' /\ dirs' \subseteq AnyFolder
  BY FolderIsAny DEF InTurnInv, ShelfInv, TypeOK, disk
<1>2. ScanHolds(op[w])'
  BY <1>1, UnderItself DEF ScanHolds, ScanHas, NoEntries
<1> QED
  BY <1>2 DEF StepHolds

LEMMA DecideTurn ==
    ASSUME InTurnInv, ShelfInv', OneByOne', Noted, NEW w \in Workers, Decide(w) PROVE InTurnInv'
<1>1. /\ op[w].pc = "decide" /\ UNCHANGED <<disk, mem>> /\ UNCHANGED due
      /\ op[w].found = NoEntries /\ op[w].seen = {} /\ w # Checker
  BY TurnOf DEF Decide, At, StepHolds, mem
<1>2. \A v \in Workers \ {w} : op'[v] = op[v]
  BY TurnOf DEF Decide, Goto
<1>3. CASE op' = [op EXCEPT ![w].pc = "walk", ![w].todo = {<<>>}]
  <2>1. /\ op'[w].pc = "walk" /\ op'[w].todo = {<<>>} /\ op'[w].found = NoEntries
        /\ op'[w].seen = {}
    BY <1>1, <1>3, TurnOf DEF Ops
  <2>2. StepHolds(op[w])'
    BY <1>1, <2>1, ScanBegins
  <2> QED
    BY <1>1, <1>2, <2>1, <2>2, OnlyLooked DEF Writing
<1>4. CASE ~due /\ Goto(w, "snapshot")
  <2>1. op'[w].pc = "snapshot" /\ op'[w].found = NoEntries /\ op'[w].seen = {}
    BY <1>1, <1>4, TurnOf DEF Goto, Ops
  <2>2. StepHolds(op[w])'
    BY <1>1, <1>4, <2>1 DEF StepHolds, NoEntries
  <2> QED
    BY <1>1, <1>2, <2>1, <2>2, OnlyLooked DEF Writing
<1> QED
  BY <1>3, <1>4 DEF Decide

LEMMA ScheduleTurn ==
    ASSUME InTurnInv, ShelfInv', OneByOne', Noted, NEW w \in Workers, Schedule(w) PROVE InTurnInv'
<1>1. /\ op[w].pc = "schedule" /\ UNCHANGED <<disk, mem>> /\ UNCHANGED due
      /\ op[w].found = NoEntries /\ op[w].seen = {} /\ w # Checker
  BY TurnOf DEF Schedule, At, StepHolds, mem, RightWorker
<1>3. CASE op' = [op EXCEPT ![w].pc = "walk", ![w].todo = {<<>>}]
  <2>1. /\ op'[w].pc = "walk" /\ op'[w].todo = {<<>>} /\ op'[w].found = NoEntries
        /\ op'[w].seen = {} /\ \A v \in Workers \ {w} : op'[v] = op[v]
    BY <1>1, <1>3, TurnOf DEF Ops
  <2>2. StepHolds(op[w])'
    BY <1>1, <2>1, ScanBegins
  <2> QED
    BY <1>1, <2>1, <2>2, OnlyLooked DEF Writing
<1>4. CASE ~due /\ Goto(w, "answer")
  <2>1. /\ op'[w].pc = "answer" /\ op'[w].found = NoEntries /\ op'[w].seen = {}
        /\ \A v \in Workers \ {w} : op'[v] = op[v]
    BY <1>1, <1>4, TurnOf DEF Goto, Ops
  <2>2. StepHolds(op[w])'
    BY <1>1, <1>4, <2>1 DEF StepHolds, NoEntries
  <2> QED
    BY <1>1, <2>1, <2>2, OnlyLooked DEF Writing
<1>5. CASE /\ ~due /\ BookCheck /\ At(Checker, "idle")
           /\ op' = [op EXCEPT ![w].pc = "answer",
                               ![Checker] = [Idle EXCEPT !.pc = "snapshot", !.kind = "check"]]
  <2>1. /\ Checker \in Workers /\ \A v \in Goroutines \ {w} : At(v, "idle")
        /\ Agrees(op[w])
    BY <1>1, <1>5, OthersWait DEF Workers
  <2>2. op'[w].pc = "answer" /\ op'[w].found = NoEntries /\ op'[w].seen = {}
    BY <1>1, <1>5, TurnOf DEF Ops
  <2>3. op'[Checker].pc = "snapshot"
    BY <1>1, <1>5, <2>1, TurnOf DEF Idle
  <2>4. \A v \in Goroutines \ {w} : op'[v] = op[v]
    BY <1>5, TurnOf, ShelfAssumption DEF Workers
  <2>5. ASSUME NEW v \in Goroutines PROVE op'[v].pc \notin Writing
    BY <2>1, <2>2, <2>4 DEF At, Writing
  <2>6. ASSUME NEW v \in Goroutines PROVE StepHolds(op[v])'
    <3>1. CASE v = w
      BY <1>1, <1>5, <2>2, <3>1 DEF StepHolds, NoEntries
    <3>2. CASE v # w
      <4>1. op'[v] = op[v] /\ op[v].pc = "idle" /\ StepHolds(op[v])
        BY <2>1, <2>4, <3>2 DEF At, InTurnInv
      <4> QED
        BY <4>1 DEF StepHolds, NoEntries
    <3> QED
      BY <3>1, <3>2
  <2>7. Agrees(Idle)'
    BY <1>1, <2>1, NothingNew DEF disk, mem, Agrees, BooksBehind, FoldersBehind, Idle
  <2>8. CheckHolds'
    <3>1. ASSUME NEW i \in Ids \ crossed' PROVE Exact(i)'
      <4>1. i \notin crossed /\ Exact(i)
        BY <1>1, <2>1 DEF Noted, Agrees, Shows, BooksBehind
      <4> QED
        BY <1>1, <4>1 DEF disk, mem, Exact, EntryAt
    <3> QED
      BY <2>3, <3>1 DEF CheckHolds
  <2>9. Current(cache)'
    BY <1>1 DEF InTurnInv, Current, disk, mem
  <2> QED
    BY <1>1, <2>5, <2>6, <2>7, <2>8, <2>9 DEF InTurnInv, disk
<1> QED
  BY <1>3, <1>4, <1>5 DEF Schedule

LEMMA CopyTreeTurn ==
    ASSUME InTurnInv, ShelfInv', OneByOne', Noted, NEW w \in Workers, CopyTree(w) PROVE InTurnInv'
<1>1. /\ op[w].pc = "copytree" /\ UNCHANGED <<disk, mem>>
      /\ op[w].found = NoEntries /\ op[w].seen = {} /\ w # Checker
  BY TurnOf DEF CopyTree, At, StepHolds
<1>2. \A v \in Workers \ {w} : op'[v] = op[v]
  BY TurnOf DEF CopyTree
<1>3. op'[w].pc \in {"idle", "decide"} /\ op'[w].found = NoEntries /\ op'[w].seen = {}
  BY <1>1, TurnOf DEF CopyTree, Ops, Idle
<1>4. StepHolds(op[w])'
  BY <1>3 DEF StepHolds, NoEntries
<1> QED
  BY <1>1, <1>2, <1>3, <1>4, OnlyLooked DEF Writing

LEMMA FindTurn ==
    ASSUME InTurnInv, ShelfInv', OneByOne', Noted, NEW w \in Workers, Find(w) PROVE InTurnInv'
<1>1. /\ op[w].pc = "find" /\ UNCHANGED <<disk, mem>>
      /\ op[w].found = NoEntries /\ op[w].seen = {} /\ w # Checker
  BY TurnOf DEF Find, At, StepHolds
<1>2. \A v \in Workers \ {w} : op'[v] = op[v]
  BY TurnOf DEF Find, Return
<1>3. op'[w].pc \in {"idle", "mkdir"} /\ op'[w].found = NoEntries /\ op'[w].seen = {}
  BY <1>1, TurnOf DEF Find, Return, Ops, Idle
<1>4. StepHolds(op[w])'
  BY <1>3 DEF StepHolds, NoEntries
<1> QED
  BY <1>1, <1>2, <1>3, <1>4, OnlyLooked DEF Writing

\* A book can only stop being trusted while a request goes on.
LEMMA SureBefore ==
    ASSUME Noted, due' = due, op'[Checker] = op[Checker], NEW w, op'[w].id = op[w].id
    PROVE  Sure(op[w].id)' => Sure(op[w].id)
  BY DEF Noted, Sure, At

\* What the cache has is right for a request that is not writing.
LEMMA NobodyWrites ==
    ASSUME InTurnInv, NEW w \in Workers, w # Checker, op[w].pc \notin Writing \cup {"idle", "answer"},
           NEW i \in Ids, Sure(i)
    PROVE  Shows(i)
<1>1. CASE ~due
  BY <1>1, OthersWait DEF Agrees, BooksBehind, Writing
<1>2. CASE due
  BY <1>2 DEF Sure, InTurnInv, CheckHolds, At, Shows
<1> QED
  BY <1>1, <1>2

\* What the cache shows is not stale.
LEMMA ShownIsFresh ==
    ASSUME ShelfInv, NEW i \in Ids, Shows(i), cache[i] # None
    PROVE  /\ ~IsStale(cache[i]) /\ cache[i].path \in Paths /\ books[cache[i].path] = i
           /\ cache[i].id = i /\ cache[i] = EntryAt(cache[i].path)
<1>1. cache[i] \in Entries /\ cache[i].path \in Paths
  BY MemoryTyped DEF Remembered, Entries
<1>2. books[cache[i].path] = i /\ cache[i] = EntryAt(cache[i].path)
  BY <1>1 DEF Shows, Exact
<1>3. cache[i].id = books[cache[i].path] /\ cache[i].version = version[books[cache[i].path]]
  BY <1>2 DEF EntryAt
<1> QED
  BY <1>1, <1>2, <1>3 DEF IsStale

LEMMA SnapshotTurn ==
    ASSUME InTurnInv, ShelfInv', OneByOne', Noted, NEW w \in Workers, w # Checker, Snapshot(w)
    PROVE  InTurnInv'
<1>1. op[w].pc = "snapshot" /\ UNCHANGED <<disk, mem>> /\ op[w].seen = {} /\ ~due
  BY TurnOf DEF Snapshot, At, StepHolds
<1>2. /\ \A v \in Workers \ {w} : op'[v] = op[v]
      /\ op'[w].pc = "check" /\ op'[w].found = cache /\ op'[w].seen = {}
  BY <1>1, TurnOf DEF Snapshot, Ops
<1>3. Judged(cache, {})
  BY <1>1, TurnOf, NobodyWrites, ShownIsFresh DEF Judged, Sure, Writing
<1>4. StepHolds(op[w])'
  BY <1>1, <1>2, <1>3 DEF StepHolds, mem, disk, Judged, EntryAt
<1> QED
  BY <1>1, <1>2, <1>4, OnlyLooked DEF Writing

\* An entry that was judged is not stale.
LEMMA JudgedIsFresh ==
    ASSUME NEW F \in Remembered, NEW but, Judged(F, but), NEW i \in Ids \ but, F[i] # None
    PROVE  ~IsStale(F[i])
<1>1. PICK p : p = F[i].path
  OBVIOUS
<1>2. books[p] = i /\ F[i] = EntryAt(p)
  BY <1>1 DEF Judged
<1> QED
  BY <1>1, <1>2 DEF EntryAt, IsStale

LEMMA CheckTurn ==
    ASSUME InTurnInv, ShelfInv', OneByOne', Noted, NEW w \in Workers, w # Checker, Check(w)
    PROVE  InTurnInv'
<1>1. /\ op[w].pc = "check" /\ UNCHANGED <<disk, mem>> /\ op[w].seen = {} /\ ~due
      /\ Judged(op[w].found, {}) /\ op[w].found \in Remembered
  BY TurnOf DEF Check, At, StepHolds, Ops
<1>2. ASSUME NEW i \in Ids PROVE ~(op[w].found[i] # None /\ IsStale(op[w].found[i]))
  BY <1>1, JudgedIsFresh
<1>3. op' = [op EXCEPT ![w].pc = "apply", ![w].drop = {}, ![w].found = NoEntries]
  BY <1>2 DEF Check, NoEntries
<1>4. /\ \A v \in Workers \ {w} : op'[v] = op[v]
      /\ op'[w].pc = "apply" /\ op'[w].found = NoEntries /\ op'[w].seen = {} /\ op'[w].drop = {}
  BY <1>1, <1>3, TurnOf DEF Ops
<1>5. StepHolds(op[w])'
  BY <1>1, <1>4 DEF StepHolds, mem, NoEntries
<1> QED
  BY <1>1, <1>4, <1>5, OnlyLooked DEF Writing

LEMMA ApplyTurn ==
    ASSUME InTurnInv, ShelfInv', OneByOne', Noted, NEW w \in Workers, w # Checker, Apply(w)
    PROVE  InTurnInv'
<1>1. /\ op[w].pc = "apply" /\ op[w].seen = {} /\ ~due
      /\ op[w].found = NoEntries /\ op[w].drop = {} /\ UNCHANGED <<disk, cfolders, due>>
  BY TurnOf DEF Apply, At, StepHolds
<1>2. cache' = cache
  <2>1. cache' = [i \in Ids |-> cache[i]]
    BY <1>1 DEF Apply, NoEntries
  <2> QED
    BY <2>1, TurnOf DEF ShelfInv, TypeOK
<1>3. /\ \A v \in Workers \ {w} : op'[v] = op[v]
      /\ op'[w].pc \in {"idle", "again"} /\ op'[w].found = NoEntries /\ op'[w].seen = {}
  BY <1>1, TurnOf DEF Apply, Ops, Idle
<1>4. StepHolds(op[w])'
  BY <1>3 DEF StepHolds, NoEntries
<1> QED
  BY <1>1, <1>2, <1>3, <1>4, OnlyLooked DEF Writing, mem

\* A step of the background check, which may forget books that crossed it.
LEMMA CheckerTook ==
    ASSUME InTurnInv, ShelfInv', OneByOne', Noted, UNCHANGED <<disk, cfolders, due>>,
           \A g \in Goroutines : op'[g] = op[g], op[Checker].pc # "idle",
           \A i \in Ids : cache'[i] = cache[i] \/ (i \in crossed /\ cache'[i] = None),
           CheckHolds'
    PROVE  InTurnInv'
<1>1. /\ books' = books /\ dirs' = dirs /\ trash' = trash /\ version' = version
      /\ cfolders' = cfolders /\ due' = due
  BY DEF disk
<1>2. ASSUME NEW g \in Goroutines PROVE StepHolds(op[g])'
  <2>1. \A i : Sure(i)' => Sure(i)
    BY <1>1 DEF Sure, Noted, At
  <2>2. StepHolds(op[g]) /\ op'[g] = op[g]
    BY DEF InTurnInv
  <2> QED
    BY <1>1, <2>1, <2>2
    DEF StepHolds, ScanHolds, ScanHas, EntryAt, Shelved, NoEntries, Judged
<1>3. ASSUME NEW i \in Ids, Shows(i) PROVE Shows(i)'
  BY <1>1, <1>3 DEF Noted, Shows, Exact, EntryAt
<1>4. ~due' => \A g \in Goroutines : op'[g].pc \in Writing => Agrees(op[g])'
  BY <1>1, <1>3 DEF InTurnInv, Agrees, BooksBehind, FoldersBehind
<1>5. ~due' /\ (\A g \in Goroutines : op'[g].pc \notin Writing) => Agrees(Idle)'
  BY <1>1, <1>3 DEF InTurnInv, Agrees, BooksBehind, FoldersBehind, Idle
<1>6. Current(cache)'
  BY <1>1 DEF InTurnInv, Current
<1> QED
  BY <1>1, <1>2, <1>4, <1>5, <1>6 DEF InTurnInv

LEMMA CheckerTurn ==
    ASSUME InTurnInv, ShelfInv', OneByOne', Noted, Snapshot(Checker) \/ Check(Checker) \/ Apply(Checker)
    PROVE  InTurnInv'
<1>0. /\ Checker \in Workers /\ op[Checker] \in Ops /\ op \in [Workers -> Ops] /\ CheckHolds
      /\ Checker \notin Goroutines /\ Goroutines \subseteq Workers /\ cache \in Remembered
  BY TurnOf, ShelfAssumption, MemoryTyped DEF Workers, InTurnInv
<1>1. CASE Snapshot(Checker)
  <2>1. /\ op[Checker].pc = "snapshot" /\ UNCHANGED <<disk, mem>>
        /\ op'[Checker].pc = "check" /\ op'[Checker].found = cache
        /\ \A g \in Goroutines : op'[g] = op[g]
    BY <1>0, <1>1 DEF Snapshot, At, Ops
  <2>2. \A i \in Ids \ crossed : Exact(i)
    BY <1>0, <2>1 DEF CheckHolds
  <2>3. Judged(cache, crossed)
    BY <2>2, TurnOf, <1>0, ShownIsFresh DEF Judged, Shows
  <2>4. CheckHolds'
    BY <2>1, <2>2, <2>3
    DEF disk, mem, CheckHolds, Noted, Judged, Current, Exact, EntryAt, InTurnInv
  <2> QED
    BY <2>1, <2>4, CheckerTook DEF mem
<1>2. CASE Check(Checker)
  <2>0. PICK F : F = op[Checker].found
    OBVIOUS
  <2>1. /\ op[Checker].pc = "check" /\ UNCHANGED <<disk, mem>>
        /\ Judged(F, crossed) /\ Current(F) /\ F \in Remembered
    BY <1>0, <1>2, <2>0 DEF Check, At, CheckHolds, Ops
  <2>2. ASSUME NEW i \in Ids, F[i] # None, IsStale(F[i])
        PROVE  books[F[i].path] # F[i].id /\ i \in crossed
    BY <2>1, <2>2, JudgedIsFresh DEF IsStale, Current
  <2>3. PICK D : D = {i \in Ids : F[i] # None /\ IsStale(F[i]) /\ books[F[i].path] # F[i].id}
    OBVIOUS
  <2>4. op' = [op EXCEPT ![Checker].pc = "apply", ![Checker].drop = D, ![Checker].found = NoEntries]
    BY <1>2, <2>0, <2>2, <2>3 DEF Check, NoEntries
  <2>5. /\ op'[Checker].pc = "apply" /\ op'[Checker].drop = D /\ op'[Checker].found = NoEntries
        /\ \A g \in Goroutines : op'[g] = op[g] /\ D \subseteq crossed
    BY <1>0, <2>2, <2>3, <2>4 DEF Ops
  <2>6. CheckHolds'
    BY <1>0, <2>1, <2>2, <2>3, <2>5
    DEF disk, mem, CheckHolds, Noted, Exact, EntryAt, NoEntries
  <2> QED
    BY <2>1, <2>5, <2>6, CheckerTook DEF mem
<1>3. CASE Apply(Checker)
  <2>1. /\ op[Checker].pc = "apply" /\ UNCHANGED <<disk, cfolders, due>>
        /\ op[Checker].found = NoEntries /\ op[Checker].drop \subseteq crossed
    BY <1>0, <1>3 DEF Apply, At, CheckHolds
  <2>2. /\ op'[Checker] = Idle /\ \A g \in Goroutines : op'[g] = op[g]
    BY <1>0, <1>3 DEF Apply
  <2>3. \A i \in Ids : cache'[i] = cache[i] \/ (i \in crossed /\ cache'[i] = None)
    BY <1>3, <2>1 DEF Apply, NoEntries
  <2>4. CheckHolds'
    BY <2>2 DEF CheckHolds, Idle
  <2> QED
    BY <2>1, <2>2, <2>3, <2>4, CheckerTook
<1> QED
  BY <1>1, <1>2, <1>3

LEMMA AgainTurn ==
    ASSUME InTurnInv, ShelfInv', OneByOne', Noted, NEW w \in Workers, Again(w) PROVE InTurnInv'
<1>1. /\ op[w].pc = "again" /\ op[w].seen = {} /\ op[w].found = NoEntries /\ w # Checker
      /\ UNCHANGED <<disk, mem>>
      /\ \A v \in Workers \ {w} : op'[v] = op[v]
  BY TurnOf DEF Again, At, StepHolds
<1>2. CASE op'[w] = Idle
  BY <1>1, <1>2, OnlyLooked DEF StepHolds, NoEntries, Writing, Idle
<1>3. CASE op'[w] = [op[w] EXCEPT !.pc = "mkdir"]
  <2>1. op'[w].pc = "mkdir" /\ op'[w].seen = {} /\ op'[w].found = NoEntries
    BY <1>1, <1>3, TurnOf DEF Ops
  <2> QED
    BY <1>1, <2>1, OnlyLooked DEF StepHolds, NoEntries, Writing
<1>4. CASE /\ op[w].kind # "new" /\ cache[op[w].id] # None
           /\ op'[w] = [op[w] EXCEPT !.pc = AfterLookup(op[w].kind), !.path = cache[op[w].id].path]
  <2>1. op[w].kind \in Lookups /\ op[w].id \in Ids
    BY <1>1, <1>4, TurnOf DEF RightKind, KnowsBook, Refreshing
  <2>2. /\ op'[w].pc \in {"mkdir", "copytree", "totrash", "answer"}
        /\ op'[w].seen = {} /\ op'[w].found = NoEntries /\ op'[w].kind # "list"
        /\ op'[w].path = cache[op[w].id].path /\ op'[w].id = op[w].id
    BY <1>1, <1>4, <2>1, TurnOf, AfterLookups DEF Ops, Lookups
  <2>3. Sure(op[w].id) => books[op'[w].path] = op[w].id
    BY <1>1, <1>4, <2>1, <2>2, NobodyWrites, ShownIsFresh DEF Writing, InTurnInv
  <2>4. Sure(op[w].id)' => Sure(op[w].id)
    BY <1>1, <2>2, SureBefore DEF mem, Workers
  <2>5. StepHolds(op[w])'
    BY <1>1, <2>2, <2>3, <2>4 DEF StepHolds, NoEntries, mem, disk
  <2> QED
    BY <1>1, <2>2, <2>5, OnlyLooked DEF Writing
<1> QED
  BY <1>2, <1>3, <1>4, TurnOf DEF Again

\* A folder that was visited is replaced by the folders in it.
LEMMA ScanGoesDown ==
    ASSUME ShelfInv, NEW T \in SUBSET dirs, NEW S, NEW f \in T,
           \A d \in dirs : d \in S \/ \E g \in T : Under(d, g)
    PROVE  \A d \in dirs : d \in S \cup {f} \/ \E g \in (T \ {f}) \cup Children(f) : Under(d, g)
<1> SUFFICES ASSUME NEW d \in dirs, d \notin S, d # f, Under(d, f)
             PROVE  \E g \in Children(f) : Under(d, g)
  OBVIOUS
<1>1. d \in AnyFolder
  BY FolderIsAny DEF ShelfInv, TypeOK
<1>2. PICK c \in AnyFolder : Under(d, c) /\ c # <<>> /\ SubSeq(c, 1, Len(c) - 1) = f
  BY <1>1, ChildOnTheWay
<1> QED
  BY <1>2 DEF ShelfInv, DirsClosed, Children

\* What a visited folder adds to the books that were found.
Visited(f, known) ==
    LET here == {p \in Paths : p[1] = f /\ books[p] # None}
    IN  [i \in Ids |-> IF \E p \in here : books[p] = i
                       THEN EntryAt(CHOOSE p \in here : books[p] = i) ELSE known[i]]

LEMMA ScanFinds ==
    ASSUME ShelfInv, NEW f, NEW S, NEW known \in Remembered, ScanHas(known, S)
    PROVE  ScanHas(Visited(f, known), S \cup {f})
<1>f. PICK found : found = Visited(f, known)
  OBVIOUS
<1> DEFINE here == {q \in Paths : q[1] = f /\ books[q] # None}
<1>0. found = [i \in Ids |-> IF \E p \in here : books[p] = i
                            THEN EntryAt(CHOOSE p \in here : books[p] = i) ELSE known[i]]
  BY <1>f DEF Visited
<1>1. ASSUME NEW i \in Ids, NEW p \in here, books[p] = i
      PROVE  /\ found[i] # None /\ books[found[i].path] = i
             /\ found[i] = EntryAt(found[i].path)
  <2>1. PICK c : c = CHOOSE q \in here : books[q] = i
    OBVIOUS
  <2>2. c \in here /\ books[c] = i
    BY <1>1, <2>1
  <2>3. found[i] = EntryAt(c)
    BY <1>0, <1>1, <2>1
  <2>4. EntryAt(c) \in Entries /\ EntryAt(c).path = c
    BY <2>2, EntryGood DEF ShelfInv
  <2>5. None \notin Entries
    BY ShelfAssumption
  <2> QED
    BY <2>2, <2>3, <2>4, <2>5
<1>2. ASSUME NEW i \in Ids, ~\E p \in here : books[p] = i PROVE found[i] = known[i]
  BY <1>0, <1>2
<1> HIDE DEF here
<1>3. ASSUME NEW p \in Paths, books[p] # None, p[1] \in S \cup {f} PROVE found[books[p]] # None
  <2>1. books[p] \in Ids
    BY <1>3 DEF ShelfInv, TypeOK
  <2>2. p[1] = f => p \in here
    BY <1>3 DEF here
  <2> QED
    BY <1>1, <1>2, <1>3, <2>1, <2>2 DEF ScanHas
<1>4. ASSUME NEW i \in Ids, found[i] # None
      PROVE  books[found[i].path] = i /\ found[i] = EntryAt(found[i].path)
  BY <1>1, <1>2, <1>4 DEF ScanHas
<1> QED
  BY <1>f, <1>3, <1>4 DEF ScanHas

LEMMA WalkTurn ==
    ASSUME InTurnInv, ShelfInv', OneByOne', Noted, NEW w \in Workers, NEW f \in Folders, Walk(w, f)
    PROVE  InTurnInv'
<1> DEFINE here == {p \in Paths : p[1] = f /\ books[p] # None}
           found == [i \in Ids |-> IF \E p \in here : books[p] = i
                                   THEN EntryAt(CHOOSE p \in here : books[p] = i)
                                   ELSE op[w].found[i]]
           todo == (op[w].todo \ {f}) \cup Children(f)
           seen == op[w].seen \cup {f}
<1>1. /\ op[w].pc = "walk" /\ ScanHolds(op[w]) /\ UNCHANGED <<disk, mem>> /\ f \in op[w].todo
      /\ op[w].found \in Remembered /\ w # Checker
  BY TurnOf DEF Walk, At, StepHolds, Ops
<1>2. f \in dirs
  BY <1>1 DEF ScanHolds
<1>3. op' = [op EXCEPT ![w].todo = todo, ![w].seen = seen, ![w].found = found]
  BY <1>2 DEF Walk
<1>4. /\ \A d \in dirs : d \in seen \/ \E g \in todo : Under(d, g)
      /\ todo \subseteq dirs /\ seen \subseteq dirs
  <2>1. PICK T, S : T = op[w].todo /\ S = op[w].seen
    OBVIOUS
  <2>2. T \in SUBSET dirs /\ S \subseteq dirs /\ f \in T
        /\ \A d \in dirs : d \in S \/ \E g \in T : Under(d, g)
    BY <1>1, <2>1 DEF ScanHolds
  <2>3. \A d \in dirs : d \in S \cup {f} \/ \E g \in (T \ {f}) \cup Children(f) : Under(d, g)
    BY <2>2, ScanGoesDown, TurnOf
  <2>4. Children(f) \subseteq dirs
    BY DEF Children
  <2> QED
    BY <1>2, <2>1, <2>2, <2>3, <2>4
<1>5. ScanHas(found, seen)
  <2>1. found = Visited(f, op[w].found)
    BY DEF Visited
  <2> HIDE DEF found
  <2>2. ScanHas(op[w].found, op[w].seen)
    BY <1>1 DEF ScanHolds
  <2> QED
    BY <1>1, <2>1, <2>2, ScanFinds, TurnOf
<1> HIDE DEF todo, seen, found
<1>6. /\ \A v \in Workers \ {w} : op'[v] = op[v]
      /\ op'[w].pc = "walk" /\ op'[w].found = found /\ op'[w].seen = seen /\ op'[w].todo = todo
  BY <1>1, <1>3, TurnOf DEF Ops
<1>7. ScanHolds(op[w])'
  <2>1. books' = books /\ dirs' = dirs /\ version' = version
    BY <1>1 DEF disk
  <2> QED
    BY <1>4, <1>5, <1>6, <2>1 DEF ScanHolds, ScanHas, EntryAt
<1>8. StepHolds(op[w])'
  BY <1>6, <1>7 DEF StepHolds
<1> QED
  BY <1>1, <1>6, <1>8, OnlyLooked DEF Writing

\* A scan that is over has every folder, and every book where it is.
LEMMA PublishTurn ==
    ASSUME InTurnInv, ShelfInv', OneByOne', NEW w \in Workers, Publish(w),
           crossed' = crossed \/ At(Checker, "idle")
    PROVE  InTurnInv'
<1>1. /\ op[w].pc = "walk" /\ ScanHolds(op[w]) /\ op[w].todo = {} /\ UNCHANGED disk
      /\ cache' = op[w].found /\ cfolders' = op[w].seen /\ due' = FALSE /\ w # Checker
      /\ op[w].found \in Remembered
  BY TurnOf DEF Publish, At, StepHolds, RightWorker, Ops
<1>2. books' = books /\ dirs' = dirs /\ version' = version
  BY <1>1 DEF disk
<1>3. /\ \A v \in Workers \ {w} : op'[v] = op[v]
      /\ op'[w].pc \in {"answer", "again"} /\ op'[w].found = NoEntries /\ op'[w].seen = {}
  BY <1>1, TurnOf DEF Publish, Ops
<1>4. StepHolds(op[w])'
  BY <1>1, <1>3 DEF StepHolds, NoEntries
<1>5. cfolders' = dirs
  BY <1>1 DEF ScanHolds
<1>6. ASSUME NEW i \in Ids PROVE Exact(i)'
  <2>1. ASSUME NEW p \in Paths, books[p] = i PROVE op[w].found[i] = EntryAt(p)
    <3>1. p[1] \in op[w].seen /\ i # None
      BY <1>1, <2>1, TurnOf, ShelfAssumption DEF ScanHolds, ShelfInv, PackagesInFolders
    <3>2. op[w].found[i] # None
      BY <1>1, <2>1, <3>1 DEF ScanHolds, ScanHas
    <3>3. op[w].found[i].path \in Paths
      BY <1>1, <3>2 DEF Remembered, Entries
    <3>4. /\ books[op[w].found[i].path] = i
          /\ op[w].found[i] = EntryAt(op[w].found[i].path)
      BY <1>1, <3>2 DEF ScanHolds, ScanHas
    <3> QED
      BY <2>1, <3>1, <3>3, <3>4, TurnOf DEF ShelfInv, BooksConserved, NoDuplicates
  <2>2. op[w].found[i] # None => books[op[w].found[i].path] = i
    BY <1>1 DEF ScanHolds, ScanHas
  <2> QED
    BY <1>1, <1>2, <2>1, <2>2 DEF Exact, EntryAt
<1>7. Agrees(op[w])' /\ Agrees(Idle)'
  BY <1>2, <1>5, <1>6 DEF Agrees, Shows
<1>8. w \in Goroutines /\ \A v \in Goroutines \ {w} : op[v].pc = "idle" /\ op'[v] = op[v]
  BY <1>1, <1>3, OthersWait DEF At, Workers
<1>9. ASSUME NEW v \in Goroutines, v # w PROVE StepHolds(op[v])'
  <2>1. StepHolds(op[v]) /\ op[v].pc = "idle" /\ op'[v] = op[v]
    BY <1>8, <1>9 DEF InTurnInv
  <2> QED
    BY <2>1 DEF StepHolds, NoEntries
<1>10. \A v \in Goroutines : op'[v].pc \notin Writing
  BY <1>3, <1>8 DEF Writing
<1>11. CheckHolds'
  <2>1. op'[Checker] = op[Checker] /\ CheckHolds
    BY <1>1, <1>3 DEF Workers, InTurnInv
  <2>2. CASE At(Checker, "idle")
    BY <2>1, <2>2 DEF CheckHolds, At
  <2>3. CASE crossed' = crossed
    BY <1>2, <1>6, <2>1, <2>3 DEF CheckHolds, Judged, Current, EntryAt
  <2> QED
    BY <2>2, <2>3
<1>12. Current(cache)'
  <2> SUFFICES ASSUME NEW i \in Ids, op[w].found[i] # None
               PROVE  op[w].found[i].version = version[op[w].found[i].id]
    BY <1>1, <1>2 DEF Current
  <2>1. PICK q : q = op[w].found[i].path
    OBVIOUS
  <2>2. op[w].found[i] = EntryAt(q)
    BY <1>1, <2>1 DEF ScanHolds, ScanHas
  <2> QED
    BY <2>2 DEF EntryAt
<1> QED
  BY <1>2, <1>4, <1>7, <1>8, <1>9, <1>10, <1>11, <1>12 DEF InTurnInv

-----------------------------------------------------------------------------
(* The steps that change the shelf or the cache.                           *)

LEMMA OwnTurn ==
    ASSUME InTurnInv, ShelfInv', OneByOne', Noted, NEW w \in Workers, w # Checker,
           op[w].pc \notin {"idle", "answer"}, \A v \in Workers \ {w} : op'[v] = op[v],
           <<>> \in dirs', Refreshed, StepHolds(op[w])', ~due' => Agrees(op[w])'
    PROVE  InTurnInv'
<1>1. w \in Goroutines /\ \A v \in Goroutines \ {w} : At(v, "idle")
  BY OthersWait
<1>2. op'[Checker] = op[Checker] /\ \A v \in Goroutines \ {w} : op'[v] = op[v]
  BY DEF Workers
<1> QED
  BY <1>1, <1>2, TurnTaken DEF At

\* A request whose last step has made the cache right again.
LEMMA OwnTurnOver ==
    ASSUME InTurnInv, ShelfInv', OneByOne', Noted, NEW w \in Workers, w # Checker,
           op[w].pc \notin {"idle", "answer"}, Return(w), UNCHANGED dirs, Refreshed,
           ~due' => /\ \A i \in Ids : Shows(i)'
                    /\ \A f \in Folders : f \in cfolders' <=> f \in dirs
    PROVE  InTurnInv'
<1>1. op'[w] = Idle /\ \A v \in Workers \ {w} : op'[v] = op[v]
  BY TurnOf DEF Return
<1>2. StepHolds(Idle)'
  BY DEF StepHolds, Idle, NoEntries
<1>3. ~due' => Agrees(Idle)'
  BY DEF Agrees
<1> QED
  BY <1>1, <1>2, <1>3, OwnTurn DEF InTurnInv

LEMMA LookupTurn ==
    ASSUME InTurnInv, ShelfInv', OneByOne', Noted, NEW w \in Workers, Lookup(w) PROVE InTurnInv'
<1>1. /\ op[w].pc = "lookup" /\ op[w].kind \in Lookups /\ op[w].id \in Ids /\ w # Checker
      /\ op[w].found = NoEntries /\ op[w].seen = {} /\ UNCHANGED <<disk, cfolders, due>>
  BY TurnOf DEF Lookup, At, StepHolds, RightWorker, RightKind, KnowsBook
<1>2. PICK i, e : i = op[w].id /\ e = cache[i]
  OBVIOUS
<1>3. ASSUME Sure(i), e # None
      PROVE  ~IsStale(e) /\ books[e.path] = i
  BY <1>1, <1>2, <1>3, NobodyWrites, ShownIsFresh DEF Writing, InTurnInv
<1>4. Sure(i) => cache' = cache
  <2>1. ASSUME cache' = [cache EXCEPT ![i] = None], e = None PROVE cache' = cache
    <3>1. cache \in Remembered /\ i \in Ids
      BY <1>1, <1>2, TurnOf, MemoryTyped
    <3> QED
      BY <1>2, <2>1, <3>1 DEF Remembered
  <2> QED
    BY <1>2, <1>3, <2>1 DEF Lookup
<1>5. /\ \A v \in Workers \ {w} : op'[v] = op[v]
      /\ op'[w].found = NoEntries /\ op'[w].seen = {} /\ op'[w].id = i /\ op'[w].kind # "list"
      /\ \/ /\ op'[w].pc \in {"mkdir", "copytree", "totrash", "answer"}
            /\ e # None /\ op'[w].path = e.path
         \/ op'[w].pc = "decide"
  BY <1>1, <1>2, TurnOf, AfterLookups DEF Lookup, Goto, Ops, Lookups
<1>6. StepHolds(op[w])'
  <2>1. Sure(op[w].id)' => Sure(op[w].id)
    BY <1>1, <1>2, <1>5, SureBefore DEF Workers
  <2> QED
    BY <1>1, <1>2, <1>3, <1>5, <2>1 DEF StepHolds, NoEntries, disk
<1>7. ~due' => Agrees(op[w])'
  <2>1. ~due => Agrees(op[w]) /\ UNCHANGED <<books, version, cache>>
    BY <1>1, <1>4, OthersWait DEF Sure, disk
  <2> QED
    BY <1>1, <1>5, <2>1, NothingNew DEF disk, Agrees, BooksBehind, FoldersBehind
<1>8. Refreshed
  <2>1. UNCHANGED <<books, version>> /\ cache \in Remembered
    BY <1>1, MemoryTyped, TurnOf DEF disk
  <2>2. CASE cache' = cache
    BY <2>1, <2>2 DEF Refreshed
  <2>3. CASE ~Sure(i) /\ cache' = [cache EXCEPT ![i] = None]
    BY <1>1, <1>2, <2>1, <2>3 DEF Refreshed, Sure, Noted, Remembered
  <2>4. CASE ~Sure(i) /\ e # None /\ cache' = [cache EXCEPT ![i] = EntryAt(e.path)]
    <3>1. e.path \in Paths /\ EntryAt(e.path) = EntryAt(e.path)'
      BY <1>1, <1>2, <2>1, <2>4 DEF Remembered, Entries, EntryAt
    <3> QED
      BY <1>1, <1>2, <2>1, <2>4, <3>1 DEF Refreshed, Sure, Noted, Remembered
  <2> QED
    BY <1>2, <1>4, <2>2, <2>3, <2>4 DEF Lookup
<1> QED
  BY <1>1, <1>5, <1>6, <1>7, <1>8, OwnTurn DEF InTurnInv, disk

\* A book that a step leaves where it is stays as it was in the cache.
LEMMA ShowsKept ==
    ASSUME ShelfInv, Noted, NEW j \in Ids, Shows(j), UNCHANGED <<cache, version>>,
           \A p \in Paths : books'[p] = j <=> books[p] = j
    PROVE  Shows(j)'
  BY ExactKept DEF Shows, Noted

LEMMA MkdirTurn ==
    ASSUME InTurnInv, ShelfInv', OneByOne', Noted, NEW w \in Workers, Mkdir(w) PROVE InTurnInv'
<1>1. /\ op[w].pc = "mkdir" /\ w # Checker /\ op[w].found = NoEntries /\ op[w].seen = {}
      /\ dirs' = dirs \cup Prefixes(op[w].dir) /\ cfolders' = cfolders \cup Prefixes(op[w].dir)
      /\ UNCHANGED <<books, trash, version, born, gone, cache, due>>
  BY TurnOf DEF Mkdir, At, StepHolds, RightWorker
<1>2. /\ \A v \in Workers \ {w} : op'[v] = op[v]
      /\ op'[w].pc \in {"idle", "rename"} /\ op'[w].found = NoEntries /\ op'[w].seen = {}
  BY <1>1, TurnOf DEF Mkdir, Return, Goto, Ops, Idle
<1>3. StepHolds(op[w])'
  BY <1>2 DEF StepHolds, NoEntries
<1>4. ~due' => Agrees(op[w])'
  <2>1. ~due => Agrees(op[w])
    BY <1>1, OthersWait
  <2> QED
    BY <1>1, <1>2, <2>1, NothingNew DEF Agrees, BooksBehind, FoldersBehind
<1> QED
  BY <1>1, <1>2, <1>3, <1>4, OwnTurn DEF InTurnInv, Refreshed

\* A package has got its place, and is opened there next.
LEMMA RenamedTurn ==
    ASSUME InTurnInv, ShelfInv', OneByOne', Noted, NEW w \in Workers, w # Checker, op[w].pc = "rename",
           NEW to \in Paths, op' = [op EXCEPT ![w].pc = "reopen", ![w].path = to],
           books'[to] # None, UNCHANGED <<dirs, version, mem>>,
           \A j \in Ids : j # books'[to] => \A p \in Paths : books'[p] = j <=> books[p] = j
    PROVE  InTurnInv'
<1>1. op[w].found = NoEntries /\ op[w].seen = {} /\ cfolders' = cfolders /\ due' = due
      /\ cache' = cache
  BY TurnOf DEF StepHolds, mem
<1>2. /\ \A v \in Workers \ {w} : op'[v] = op[v]
      /\ op'[w].pc = "reopen" /\ op'[w].path = to
      /\ op'[w].found = NoEntries /\ op'[w].seen = {}
  BY <1>1, TurnOf DEF Ops
<1>3. StepHolds(op[w])'
  BY <1>2 DEF StepHolds, NoEntries
<1>4. ASSUME ~due' PROVE Agrees(op[w])'
  <2>1. Agrees(op[w])
    BY <1>1, <1>4, OthersWait
  <2>2. ASSUME NEW j \in Ids, j # books'[to] PROVE Shows(j)'
    <3>1. Shows(j)
      BY <2>1 DEF Agrees, BooksBehind
    <3>2. \A p \in Paths : books'[p] = j <=> books[p] = j
      BY <2>2
    <3> QED
      BY <1>1, <3>1, <3>2, ShowsKept, TurnOf
  <2>3. \A f \in Folders : f \in cfolders' <=> f \in dirs'
    BY <1>1, <2>1 DEF Agrees, FoldersBehind
  <2> QED
    BY <1>2, <2>2, <2>3 DEF Agrees, BooksBehind
<1> QED
  BY <1>1, <1>2, <1>3, <1>4, OwnTurn DEF InTurnInv, Refreshed

LEMMA RenameMovedTurn ==
    ASSUME InTurnInv, ShelfInv', OneByOne', Noted, NEW w \in Workers, RenameMoved(w) PROVE InTurnInv'
<1> DEFINE from == op[w].path
           to == <<op[w].dir, from[2]>>
<1>1. op[w].pc = "rename" /\ op[w].dir \in Folders /\ w # Checker /\ from \in Paths
  BY TurnOf DEF RenameMoved, At, Ops, RightWorker, KnowsBook
<1>2. to \in Paths
  BY <1>1, PathOf
<1>3. CASE books[from] # None /\ (Free(to) \/ to = from)
  <2>1. /\ books' = [books EXCEPT ![from] = None, ![to] = books[from]]
        /\ op' = [op EXCEPT ![w].pc = "reopen", ![w].path = to]
        /\ UNCHANGED <<dirs, version, mem>>
    BY <1>3 DEF RenameMoved
  <2>2. books[to] = None \/ to = from
    BY <1>3 DEF Free
  <2> HIDE DEF to
  <2>3. /\ books'[to] = books[from] /\ books'[to] # None
        /\ \A p \in Paths : p # to => books'[p] = IF p = from THEN None ELSE books[p]
    BY <1>1, <1>2, <1>3, <2>1, TurnOf DEF ShelfInv, TypeOK
  <2>4. ASSUME NEW j \in Ids, j # books'[to], NEW p \in Paths
        PROVE  books'[p] = j <=> books[p] = j
    BY <2>2, <2>3, <2>4, ShelfAssumption
  <2> QED
    BY <1>1, <1>2, <2>1, <2>3, <2>4, RenamedTurn
<1>4. CASE ~(books[from] # None /\ (Free(to) \/ to = from))
  BY <1>1, <1>4, TurnOver DEF RenameMoved, disk, Writing
<1> QED
  BY <1>3, <1>4

LEMMA RenameStagedTurn ==
    ASSUME InTurnInv, ShelfInv', OneByOne', Noted, NEW w \in Workers, NEW i \in Ids,
           NEW name \in PackageNames, RenameStaged(w, i, name)
    PROVE  InTurnInv'
<1> DEFINE to == <<op[w].dir, name>>
<1>1. op[w].pc = "rename" /\ op[w].dir \in Folders /\ w # Checker
  BY TurnOf DEF RenameStaged, At, Ops, RightWorker
<1>2. to \in Paths
  BY <1>1, PathOf
<1>3. /\ books[to] = None /\ books' = [books EXCEPT ![to] = i]
      /\ op' = [op EXCEPT ![w].pc = "reopen", ![w].path = to]
      /\ UNCHANGED <<dirs, version, mem>>
  BY DEF RenameStaged, Free
<1> HIDE DEF to
<1>4. books'[to] = i /\ i # None /\ \A p \in Paths : p # to => books'[p] = books[p]
  BY <1>2, <1>3, TurnOf, ShelfAssumption DEF ShelfInv, TypeOK
<1>5. ASSUME NEW j \in Ids, j # books'[to], NEW p \in Paths
      PROVE  books'[p] = j <=> books[p] = j
  BY <1>3, <1>4, <1>5, ShelfAssumption
<1> QED
  BY <1>1, <1>2, <1>3, <1>4, <1>5, RenamedTurn

LEMMA RenameRestoredTurn ==
    ASSUME InTurnInv, ShelfInv', OneByOne', Noted, NEW w \in Workers, NEW name \in PackageNames,
           RenameRestored(w, name)
    PROVE  InTurnInv'
<1> DEFINE to == <<op[w].dir, name>>
<1>0. PICK i : i = trash[op[w].id].book
  OBVIOUS
<1>1. op[w].pc = "rename" /\ op[w].dir \in Folders /\ w # Checker
  BY TurnOf DEF RenameRestored, At, Ops, RightWorker
<1>2. to \in Paths
  BY <1>1, PathOf
<1>3. /\ books[to] = None /\ books' = [books EXCEPT ![to] = i] /\ i # None
      /\ op' = [op EXCEPT ![w].pc = "reopen", ![w].path = to]
      /\ UNCHANGED <<dirs, version, mem>>
  BY <1>0 DEF RenameRestored, Free
<1> HIDE DEF to
<1>4. books'[to] = i /\ \A p \in Paths : p # to => books'[p] = books[p]
  BY <1>2, <1>3, TurnOf DEF ShelfInv, TypeOK
<1>5. ASSUME NEW j \in Ids, j # books'[to], NEW p \in Paths
      PROVE  books'[p] = j <=> books[p] = j
  BY <1>3, <1>4, <1>5, ShelfAssumption
<1> QED
  BY <1>1, <1>2, <1>3, <1>4, <1>5, RenamedTurn

\* The package that was opened is the only one of its book.
LEMMA ReopenTurn ==
    ASSUME InTurnInv, ShelfInv', OneByOne', Noted, NEW w \in Workers, Reopen(w) PROVE InTurnInv'
<1>0. PICK p, b : p = op[w].path /\ b = books[p]
  OBVIOUS
<1>1. /\ op[w].pc = "reopen" /\ w # Checker /\ p \in Paths /\ b # None
      /\ Return(w) /\ UNCHANGED <<disk, cfolders, due>>
  BY <1>0, TurnOf DEF Reopen, At, StepHolds, RightWorker, KnowsBook
<1>2. cache' = [cache EXCEPT ![b] = EntryAt(p)] /\ b \in Ids /\ cache \in Remembered
  BY <1>0, <1>1, TurnOf, MemoryTyped DEF Reopen, ShelfInv, TypeOK
<1>3. books' = books /\ version' = version /\ dirs' = dirs
  BY <1>1 DEF disk
<1>6. cache'[b] = EntryAt(p)' /\ Exact(b)'
  <2>1. cache'[b] = EntryAt(p) /\ EntryAt(p).path = p
    BY <1>2 DEF Remembered, EntryAt
  <2>2. \A q \in Paths : books[q] = b => q = p
    BY <1>0, <1>1, TurnOf DEF ShelfInv, BooksConserved, NoDuplicates
  <2> QED
    BY <1>0, <1>3, <2>1, <2>2 DEF Exact, EntryAt
<1>7. ASSUME NEW i \in Ids, i # b PROVE cache'[i] = cache[i]
  BY <1>2, <1>7 DEF Remembered
<1>4. ASSUME ~due', NEW i \in Ids PROVE Shows(i)'
  <2>1. CASE i # b
    <3>1. Shows(i)
      BY <1>0, <1>1, <1>4, <2>1, OthersWait DEF Agrees, BooksBehind
    <3>2. cache'[i] = cache[i]
      BY <1>7, <2>1
    <3> QED
      BY <1>3, <3>1, <3>2 DEF Shows, Exact, EntryAt, Noted
  <2> QED
    BY <1>6, <2>1 DEF Shows
<1>5. ~due' => \A f \in Folders : f \in cfolders' <=> f \in dirs
  BY <1>1, OthersWait DEF Agrees, FoldersBehind
<1>8. Refreshed
  BY <1>1, <1>3, <1>6, <1>7 DEF Refreshed
<1> QED
  BY <1>1, <1>3, <1>4, <1>5, <1>8, OwnTurnOver

LEMMA ToTrashTurn ==
    ASSUME InTurnInv, ShelfInv', OneByOne', Noted, NEW w \in Workers, ToTrash(w) PROVE InTurnInv'
<1>0. PICK i, p : i = op[w].id /\ p = op[w].path
  OBVIOUS
<1>1. /\ op[w].pc = "totrash" /\ w # Checker /\ i \in Ids /\ p \in Paths
      /\ op[w].found = NoEntries /\ op[w].seen = {} /\ UNCHANGED <<dirs, version, born, gone, mem>>
      /\ Sure(i) => books[p] = i
  BY <1>0, TurnOf DEF ToTrash, At, RightWorker, KnowsBook, StepHolds
<1>2. CASE trash[i].book = None /\ books[p] # None
  <2>1. /\ trash' = [trash EXCEPT ![i] = [book |-> books[p], home |-> None]]
        /\ books' = [books EXCEPT ![p] = None] /\ Goto(w, "meta")
    BY <1>0, <1>2 DEF ToTrash
  <2>2. /\ \A v \in Workers \ {w} : op'[v] = op[v]
        /\ op'[w].pc = "meta" /\ op'[w].id = i
        /\ op'[w].found = NoEntries /\ op'[w].seen = {}
    BY <1>0, <1>1, <2>1, TurnOf DEF Goto, Ops
  <2>3. /\ books'[p] = None /\ \A q \in Paths : q # p => books'[q] = books[q]
        /\ trash'[i].book # None
    BY <1>1, <1>2, <2>1, TurnOf DEF ShelfInv, TypeOK
  <2>4. Sure(i) => Shelved(i)' = {}
    BY <1>1, <2>3, TurnOf, ShelfAssumption DEF Shelved, ShelfInv, BooksConserved, NoDuplicates
  <2>7. Sure(op[w].id)' => Sure(op[w].id)
    BY <1>0, <1>1, <2>2, SureBefore DEF Workers, mem
  <2>5. StepHolds(op[w])'
    BY <1>0, <1>1, <2>2, <2>3, <2>4, <2>7 DEF StepHolds, NoEntries, mem, Shelved
  <2>6. ASSUME ~due' PROVE Agrees(op[w])'
    <3>1. Agrees(op[w]) /\ cfolders' = cfolders /\ cache' = cache /\ ~due
      BY <1>1, <2>6, OthersWait DEF mem
    <3>2. ASSUME NEW j \in Ids, j # i PROVE Shows(j)'
      <4>1. Shows(j)
        BY <1>1, <3>1 DEF Agrees, BooksBehind
      <4>2. \A q \in Paths : books'[q] = j <=> books[q] = j
        BY <1>1, <2>3, <3>1, <3>2, ShelfAssumption DEF Sure
      <4> QED
        BY <1>1, <3>1, <4>1, <4>2, ShowsKept, TurnOf
    <3>3. \A f \in Folders : f \in cfolders' <=> f \in dirs'
      BY <1>1, <3>1 DEF Agrees, FoldersBehind
    <3> QED
      BY <2>2, <3>2, <3>3 DEF Agrees, BooksBehind
  <2> QED
    BY <1>1, <2>2, <2>5, <2>6, OwnTurn DEF InTurnInv, Refreshed, mem
<1>3. CASE ~(trash[i].book = None /\ books[p] # None)
  BY <1>0, <1>1, <1>3, TurnOver DEF ToTrash, disk, Writing
<1> QED
  BY <1>2, <1>3

LEMMA WriteTrashMetaTurn ==
    ASSUME InTurnInv, ShelfInv', OneByOne', Noted, NEW w \in Workers, WriteTrashMeta(w) PROVE InTurnInv'
<1>1. /\ op[w].pc = "meta" /\ w # Checker /\ trash[op[w].id].book # None
      /\ op[w].found = NoEntries /\ op[w].seen = {}
      /\ UNCHANGED <<books, dirs, version, born, gone, mem>>
      /\ Sure(op[w].id) => Shelved(op[w].id) = {}
  BY TurnOf DEF WriteTrashMeta, At, RightWorker, StepHolds
<1>2. /\ \A v \in Workers \ {w} : op'[v] = op[v]
      /\ op'[w].pc = "uncache" /\ op'[w].id = op[w].id
      /\ op'[w].found = NoEntries /\ op'[w].seen = {}
  BY <1>1, TurnOf DEF WriteTrashMeta, Goto, Ops
<1>3. StepHolds(op[w])'
  <2>1. Sure(op[w].id)' => Sure(op[w].id)
    BY <1>1, <1>2, SureBefore DEF Workers, mem
  <2> QED
    BY <1>1, <1>2, <2>1 DEF StepHolds, NoEntries, mem, Shelved
<1>4. ~due' => Agrees(op[w])'
  <2>1. ~due => Agrees(op[w])
    BY <1>1, OthersWait
  <2> QED
    BY <1>1, <1>2, <2>1, NothingNew DEF mem, Agrees, BooksBehind, FoldersBehind
<1> QED
  BY <1>1, <1>2, <1>3, <1>4, OwnTurn DEF InTurnInv, Refreshed, mem

LEMMA UncacheTurn ==
    ASSUME InTurnInv, ShelfInv', OneByOne', Noted, NEW w \in Workers, Uncache(w) PROVE InTurnInv'
<1>0. PICK b : b = op[w].id
  OBVIOUS
<1>1. /\ op[w].pc = "uncache" /\ w # Checker /\ b \in Ids /\ Return(w)
      /\ UNCHANGED <<disk, cfolders, due>> /\ cache' = [cache EXCEPT ![b] = None]
      /\ Sure(b) => Shelved(b) = {}
  BY <1>0, TurnOf DEF Uncache, At, RightWorker, StepHolds, KnowsBook
<1>2. books' = books /\ version' = version /\ dirs' = dirs /\ cache \in Remembered
  BY <1>1, TurnOf, MemoryTyped DEF disk
<1>5. cache'[b] = None /\ \A i \in Ids \ {b} : cache'[i] = cache[i]
  BY <1>1, <1>2 DEF Remembered
<1>6. Sure(b) => Exact(b)'
  BY <1>1, <1>2, <1>5 DEF Exact, Shelved
<1>3. ASSUME ~due', NEW i \in Ids PROVE Shows(i)'
  <2>1. CASE i # b
    <3>1. Shows(i)
      BY <1>0, <1>1, <1>3, <2>1, OthersWait DEF Agrees, BooksBehind
    <3>2. cache'[i] = cache[i]
      BY <1>5, <2>1
    <3> QED
      BY <1>2, <3>1, <3>2 DEF Shows, Exact, EntryAt, Noted
  <2> QED
    BY <1>1, <1>3, <1>6, <2>1 DEF Shows, Sure
<1>7. Refreshed
  BY <1>1, <1>2, <1>5, <1>6 DEF Refreshed, Sure, Noted
<1>4. ~due' => \A f \in Folders : f \in cfolders' <=> f \in dirs
  BY <1>1, OthersWait DEF Agrees, FoldersBehind
<1> QED
  BY <1>1, <1>2, <1>3, <1>4, <1>7, OwnTurnOver

LEMMA PurgeTurn ==
    ASSUME InTurnInv, ShelfInv', OneByOne', Noted, NEW w \in Workers, Purge(w) PROVE InTurnInv'
<1>1. /\ op[w].pc = "purge" /\ w # Checker /\ Return(w)
      /\ UNCHANGED <<books, dirs, version, born, mem>>
  BY TurnOf DEF Purge, At, RightWorker
<1>2. ~due' => /\ \A i \in Ids : Shows(i)'
               /\ \A f \in Folders : f \in cfolders' <=> f \in dirs
  <2>1. ~due => Agrees(op[w])
    BY <1>1, OthersWait
  <2> QED
    BY <1>1, <2>1, NothingNew DEF mem, Agrees, BooksBehind, FoldersBehind
<1> QED
  BY <1>1, <1>2, OwnTurnOver DEF Refreshed, mem

LEMMA RmdirTurn ==
    ASSUME InTurnInv, ShelfInv', OneByOne', Noted, NEW w \in Workers, Rmdir(w) PROVE InTurnInv'
<1>0. PICK f : f = op[w].dir
  OBVIOUS
<1>1. /\ op[w].pc = "rmdir" /\ w # Checker /\ op[w].found = NoEntries /\ op[w].seen = {}
      /\ UNCHANGED <<books, trash, version, born, gone, mem>>
  BY TurnOf DEF Rmdir, At, RightWorker, StepHolds
<1>2. CASE f \in dirs /\ f # <<>> /\ Empty(f)
  <2>1. dirs' = dirs \ {f} /\ Goto(w, "forget")
    BY <1>0, <1>2 DEF Rmdir
  <2>2. /\ \A v \in Workers \ {w} : op'[v] = op[v]
        /\ op'[w].pc = "forget" /\ op'[w].dir = f
        /\ op'[w].found = NoEntries /\ op'[w].seen = {}
    BY <1>0, <1>1, <2>1, TurnOf DEF Goto, Ops
  <2>3. StepHolds(op[w])'
    BY <2>1, <2>2 DEF StepHolds, NoEntries
  <2>4. ~due' => Agrees(op[w])'
    <3>1. ~due => Agrees(op[w])
      BY <1>1, OthersWait
    <3> QED
      BY <1>1, <2>1, <2>2, <3>1, NothingNew DEF mem, Agrees, BooksBehind, FoldersBehind
  <2> QED
    BY <1>1, <1>2, <2>1, <2>2, <2>3, <2>4, OwnTurn DEF InTurnInv, Refreshed, mem
<1>3. CASE ~(f \in dirs /\ f # <<>> /\ Empty(f))
  BY <1>0, <1>1, <1>3, TurnOver DEF Rmdir, disk, Writing
<1> QED
  BY <1>2, <1>3

LEMMA ForgetTurn ==
    ASSUME InTurnInv, ShelfInv', OneByOne', Noted, NEW w \in Workers, Forget(w) PROVE InTurnInv'
<1>1. /\ op[w].pc = "forget" /\ w # Checker /\ op[w].dir \notin dirs /\ Return(w)
      /\ UNCHANGED <<disk, cache, due>> /\ cfolders' = cfolders \ {op[w].dir}
  BY TurnOf DEF Forget, At, RightWorker, StepHolds
<1>2. ~due' => /\ \A i \in Ids : Shows(i)'
               /\ \A f \in Folders : f \in cfolders' <=> f \in dirs
  <2>1. ~due => Agrees(op[w])
    BY <1>1, OthersWait
  <2> QED
    BY <1>1, <2>1, NothingNew DEF disk, Agrees, BooksBehind, FoldersBehind
<1> QED
  BY <1>1, <1>2, OwnTurnOver DEF disk, Refreshed

LEMMA MvdirTurn ==
    ASSUME InTurnInv, ShelfInv', OneByOne', Noted, NEW w \in Workers, NEW to \in Folders, Mvdir(w, to)
    PROVE  InTurnInv'
<1>1. /\ op[w].pc = "mvdir" /\ w # Checker /\ op[w].found = NoEntries /\ op[w].seen = {}
      /\ UNCHANGED <<trash, version, born, gone, mem>> /\ op[w].dir \in AnyFolder
  BY TurnOf, FolderIsAny DEF Mvdir, At, RightWorker, StepHolds, Ops
<1>2. CASE Goto(w, "dirty") /\ op[w].dir # <<>>
           /\ dirs \ {d \in dirs : Under(d, op[w].dir)} \subseteq dirs'
  <2>1. /\ \A v \in Workers \ {w} : op'[v] = op[v]
        /\ op'[w].pc = "dirty" /\ op'[w].found = NoEntries /\ op'[w].seen = {}
    BY <1>1, <1>2, TurnOf DEF Goto, Ops
  <2>2. ~Under(<<>>, op[w].dir)
    <3>1. <<>> \in AnyFolder /\ Len(<<>>) = 0
      BY EmptySeq DEF AnyFolder
    <3>2. Len(op[w].dir) \in Nat \ {0}
      BY <1>1, <1>2 DEF AnyFolder
    <3> QED
      BY <3>1, <3>2, UnderIs
  <2>3. <<>> \in dirs'
    BY <1>2, <2>2 DEF InTurnInv
  <2>4. StepHolds(op[w])' /\ Agrees(op[w])'
    BY <2>1 DEF StepHolds, NoEntries, Agrees, BooksBehind, FoldersBehind
  <2> QED
    BY <1>1, <2>1, <2>3, <2>4, OwnTurn DEF Refreshed, mem
<1>3. CASE UNCHANGED <<dirs, books>> /\ Return(w)
  BY <1>1, <1>3, TurnOver DEF disk, Writing
<1> QED
  BY <1>2, <1>3 DEF Mvdir

LEMMA MarkDirtyTurn ==
    ASSUME InTurnInv, ShelfInv', OneByOne', Noted, NEW w \in Workers, MarkDirty(w) PROVE InTurnInv'
<1>1. /\ op[w].pc = "dirty" /\ w # Checker /\ Return(w) /\ due' = TRUE /\ UNCHANGED dirs
      /\ Refreshed
  BY TurnOf DEF MarkDirty, At, RightWorker, disk, Refreshed
<1> QED
  BY <1>1, OwnTurnOver

-----------------------------------------------------------------------------
(* Listings.                                                               *)

LEMMA InTurnInitial == Init => InTurnInv
<1> SUFFICES ASSUME Init PROVE InTurnInv
  OBVIOUS
<1>1. \A w \in Workers : op[w].pc = "idle" /\ op[w] = Idle
  BY DEF Init, Idle
<1>2. ShelfInv /\ <<>> \in dirs /\ due
  BY ShelfInitial DEF Init
<1>3. OneByOne
  BY <1>1 DEF OneByOne, At, Workers
<1>4. StepHolds(Idle)
  BY DEF StepHolds, Idle, NoEntries
<1>5. CheckHolds /\ Current(cache) /\ Goroutines \subseteq Workers
  BY <1>1 DEF CheckHolds, Workers, Current, Init, NoEntries
<1> QED
  BY <1>1, <1>2, <1>3, <1>4, <1>5 DEF InTurnInv

LEMMA InTurnStep == InTurnInv /\ [InTurn]_vars => InTurnInv'
<1> SUFFICES ASSUME InTurnInv, [InTurn]_vars PROVE InTurnInv'
  OBVIOUS
<1>1. ShelfInv'
  BY ShelfStep DEF InTurnInv, InTurn, Next
<1>2. CASE UNCHANGED vars
  <2>1. /\ books' = books /\ dirs' = dirs /\ trash' = trash /\ version' = version
        /\ cache' = cache /\ cfolders' = cfolders /\ due' = due /\ op' = op /\ crossed' = crossed
    BY <1>2 DEF vars, disk, mem
  <2>2. OneByOne'
    BY <2>1 DEF InTurnInv, OneByOne, At
  <2>3. \A g \in Goroutines : StepHolds(op[g])'
    BY <2>1 DEF InTurnInv, StepHolds, ScanHolds, ScanHas, EntryAt, Shelved, NoEntries, Judged, Sure, At
  <2>4. ~due' => \A g \in Goroutines : op'[g].pc \in Writing => Agrees(op[g])'
    BY <2>1 DEF InTurnInv, Agrees, Shows, Exact, BooksBehind, FoldersBehind, EntryAt
  <2>5. Agrees(Idle) => Agrees(Idle)'
    BY <2>1 DEF Agrees, Shows, Exact, BooksBehind, FoldersBehind, EntryAt, Idle
  <2>6. CheckHolds' /\ Current(cache)'
    BY <2>1 DEF InTurnInv, CheckHolds, Current, Exact, Judged, EntryAt, NoEntries
  <2> QED
    BY <1>1, <2>1, <2>2, <2>3, <2>4, <2>5, <2>6 DEF InTurnInv
<1>3. ASSUME InTurn, NEW w \in Workers, Publish(w) PROVE InTurnInv'
  <2>1. OneByOne' /\ (crossed' = crossed \/ At(Checker, "idle"))
    BY <1>3 DEF InTurn, Crossing, Publish, disk, Shelved
  <2> QED
    BY <1>1, <1>3, <2>1, PublishTurn
<1>4. ASSUME InTurn, \A w \in Workers : ~Publish(w) PROVE InTurnInv'
  <2>1. OneByOne' /\ Served /\ Noted
    BY <1>4 DEF InTurn, Crossing, Noted
  <2>2. ASSUME NEW w \in Goroutines, Requests(w) PROVE InTurnInv'
    <3>1. {"new", "mkdir", "rmdir", "mvdir", "move", "copy", "trash", "restore", "purge", "get", "list"}
          \subseteq RequestKinds
      BY DEF RequestKinds, Lookups
    <3> QED
      BY <1>1, <2>1, <2>2, <3>1, BeginTurn DEF Requests
  <2>3. ASSUME NEW w \in Workers, Refresh(w) PROVE InTurnInv'
    BY <1>1, <1>4, <2>1, <2>3, DecideTurn, ScheduleTurn, SnapshotTurn, CheckTurn, ApplyTurn,
       CheckerTurn, AgainTurn, AnswerTurn, WalkTurn
    DEF Refresh
  <2>4. ASSUME NEW w \in Workers, Change(w) PROVE InTurnInv'
    BY <1>1, <2>1, <2>4, LookupTurn, CopyTreeTurn, MkdirTurn, RenameMovedTurn, FindTurn, ReopenTurn,
       ToTrashTurn, WriteTrashMetaTurn, UncacheTurn, PurgeTurn, RmdirTurn, ForgetTurn, MarkDirtyTurn,
       NoRoomTurn, RenameStagedTurn, RenameRestoredTurn, MvdirTurn
    DEF Change
  <2> QED
    BY <2>1, <2>2, <2>3, <2>4 DEF Served
<1> QED
  BY <1>2, <1>3, <1>4

\* A listing that is about to be answered finds the cache right, but for the books that
\* crossed a background check.
LEMMA ListingsAreRight ==
    ASSUME InTurnInv, NEW g \in Goroutines, At(g, "answer"), op[g].kind = "list"
    PROVE  /\ cfolders = dirs
           /\ \A i \in Ids : ShownAt(i) = Shelved(i) \/ (i \in crossed /\ ShownAt(i) = {})
<1>1. g \in Workers /\ g # Checker /\ ~due
  BY TurnOf, ShelfAssumption DEF StepHolds, At, Workers
<1>2. ASSUME NEW w \in Goroutines PROVE op[w].pc \notin Writing
  BY <1>1 DEF InTurnInv, OneByOne, At, Writing
<1>3. Agrees(Idle)
  BY <1>1, <1>2 DEF InTurnInv
<1>4. (\A i \in Ids : Shows(i)) /\ \A f \in Folders : f \in cfolders <=> f \in dirs
  BY <1>3 DEF Agrees, BooksBehind, FoldersBehind, Idle
<1>5. cfolders = dirs
  BY <1>4 DEF InTurnInv, ShelfInv, TypeOK
<1>6. ASSUME NEW i \in Ids, Exact(i) PROVE ShownAt(i) = Shelved(i)
  <2>1. cache[i] # None => cache[i].path \in Paths
    BY MemoryTyped DEF InTurnInv, Remembered, Entries
  <2>2. ASSUME NEW p \in Paths, books[p] = i PROVE cache[i] # None /\ cache[i].path = p
    <3>1. cache[i] = EntryAt(p) /\ books[p] # None
      BY <1>6, <2>2, ShelfAssumption DEF Exact
    <3> QED
      BY <3>1, EntryGood, ShelfAssumption DEF InTurnInv, ShelfInv
  <2> QED
    BY <1>6, <2>1, <2>2 DEF Exact, Shelved, ShownAt
<1>7. ASSUME NEW i \in Ids, i \in crossed, cache[i] = None PROVE ShownAt(i) = {}
  BY <1>7 DEF ShownAt
<1> QED
  BY <1>4, <1>5, <1>6, <1>7 DEF Shows

\* When requests come one after another, nothing fails and nothing else touches the
\* directory, a listing (listFoldersFromCache, listBookListingsFromCache) shows the folders
\* that there are and every book where it is, after any sequence of requests, whichever of
\* them refreshed the cache and however the background check (goBackground,
\* onlyRefreshBooksInCache) overlaps them; a book that changed place during such a check
\* may be missing until the next full scan, and is not shown where it is not.
THEOREM ShelfListsExactly == SpecInTurn => [](FoldersListed /\ BooksListed)
<1>1. InTurnInv => FoldersListed /\ BooksListed
  BY ListingsAreRight DEF FoldersListed, BooksListed
<1> QED
  BY <1>1, InTurnInitial, InTurnStep, PTL DEF SpecInTurn
-----------------------------------------------------------------------------
(* The shelf implements Places: seen through the books alone, every disk   *)
(* operation is one whole step, and everything else is nothing.            *)

Where == [i \in Ids |-> Shelved(i)]
InTrash == {i \in Ids : Slots(i) # {}}

Lib == INSTANCE Places WITH folders <- dirs, at <- Where, trashed <- InTrash, added <- born

LEMMA Unseen ==
    ASSUME UNCHANGED <<books, dirs, trash, born>>
    PROVE  UNCHANGED Lib!pvars
  BY DEF Lib!pvars, Where, InTrash, Shelved, Slots

LEMMA FreeIsVacant == ASSUME NEW p \in Paths, Free(p) PROVE Lib!Vacant(p)
  BY ShelfAssumption DEF Lib!Vacant, Free, Where, Shelved

LEMMA MoveSeen ==
    ASSUME DiskOK, NEW from \in Paths, NEW to \in Paths, books[from] # None, Free(to),
           books' = [books EXCEPT ![from] = None, ![to] = books[from]],
           UNCHANGED <<dirs, trash, born>>
    PROVE  Lib!PNext
<1> DEFINE i == books[from]
<1>1. /\ i \in Ids /\ Shelved(i) = {from} /\ from # to
      /\ \A p \in Paths : books'[p] = IF p = to THEN i ELSE IF p = from THEN None ELSE books[p]
  BY DEF DiskOK, BooksConserved, NoDuplicates, Shelved, Free
<1>2. \A j \in Ids : Shelved(j)' = IF j = i THEN {to} ELSE Shelved(j)
  BY <1>1, ShelfAssumption DEF Shelved, Free
<1>3. Where' = [Where EXCEPT ![i] = {to}]
  BY <1>1, <1>2 DEF Where
<1>4. InTrash' = InTrash
  BY DEF InTrash, Slots
<1>5. Lib!Move(i, to)
  BY <1>1, <1>3, <1>4, FreeIsVacant DEF Lib!Move, Where
<1> QED
  BY <1>1, <1>5 DEF Lib!PNext

LEMMA PutSeen ==
    ASSUME DiskOK, NEW i \in Ids, i \notin born, NEW to \in Paths, Free(to),
           books' = [books EXCEPT ![to] = i], born' = born \cup {i},
           UNCHANGED <<dirs, trash>>
    PROVE  Lib!PNext
<1>1. Shelved(i) = {} /\ \A p \in Paths : books'[p] = IF p = to THEN i ELSE books[p]
  BY DEF DiskOK, BooksConserved
<1>2. \A j \in Ids : Shelved(j)' = IF j = i THEN {to} ELSE Shelved(j)
  BY <1>1, ShelfAssumption DEF Shelved, Free
<1>3. Where' = [Where EXCEPT ![i] = {to}]
  BY <1>2 DEF Where
<1>4. InTrash' = InTrash
  BY DEF InTrash, Slots
<1>5. Lib!Add(i, to)
  BY <1>3, <1>4, FreeIsVacant DEF Lib!Add
<1> QED
  BY <1>5 DEF Lib!PNext

LEMMA TrashSeen ==
    ASSUME DiskOK, NEW s \in Ids, trash[s].book = None, NEW p \in Paths, books[p] # None,
           trash' = [trash EXCEPT ![s] = [book |-> books[p], home |-> None]],
           books' = [books EXCEPT ![p] = None], UNCHANGED <<dirs, born>>
    PROVE  Lib!PNext
<1> DEFINE i == books[p]
<1>1. /\ i \in Ids /\ Shelved(i) = {p}
      /\ \A q \in Paths : books'[q] = IF q = p THEN None ELSE books[q]
  BY DEF DiskOK, BooksConserved, NoDuplicates, Shelved
<1>2. \A t \in Ids : trash'[t].book = IF t = s THEN i ELSE trash[t].book
  BY DEF DiskOK
<1>3. \A j \in Ids : Shelved(j)' = IF j = i THEN {} ELSE Shelved(j)
  BY <1>1, ShelfAssumption DEF Shelved
<1>4. Where' = [Where EXCEPT ![i] = {}]
  BY <1>1, <1>3 DEF Where
<1>5. InTrash' = InTrash \cup {i}
  BY <1>1, <1>2, ShelfAssumption DEF InTrash, Slots
<1>6. Lib!Discard(i)
  BY <1>1, <1>4, <1>5 DEF Lib!Discard, Where
<1> QED
  BY <1>1, <1>6 DEF Lib!PNext

LEMMA RestoreSeen ==
    ASSUME DiskOK, NEW s \in Ids, trash[s].book # None, NEW to \in Paths, Free(to),
           books' = [books EXCEPT ![to] = trash[s].book],
           trash' = [trash EXCEPT ![s] = EmptySlot], UNCHANGED <<dirs, born>>
    PROVE  Lib!PNext
<1> DEFINE i == trash[s].book
<1>1. /\ i \in Ids /\ Slots(i) = {s} /\ Shelved(i) = {}
      /\ \A q \in Paths : books'[q] = IF q = to THEN i ELSE books[q]
  BY DEF DiskOK, Slot, BooksConserved, NoDuplicates, Shelved, Slots
<1>2. \A t \in Ids : trash'[t].book = IF t = s THEN None ELSE trash[t].book
  BY DEF DiskOK, EmptySlot
<1>3. \A j \in Ids : Shelved(j)' = IF j = i THEN {to} ELSE Shelved(j)
  BY <1>1, ShelfAssumption DEF Shelved, Free
<1>4. Where' = [Where EXCEPT ![i] = {to}]
  BY <1>1, <1>3 DEF Where
<1>5. i \in InTrash /\ InTrash' = InTrash \ {i}
  BY <1>1, <1>2, ShelfAssumption DEF InTrash, Slots
<1>6. Lib!Restore(i, to)
  BY <1>4, <1>5, FreeIsVacant DEF Lib!Restore
<1> QED
  BY <1>1, <1>6 DEF Lib!PNext

LEMMA EraseSeen ==
    ASSUME DiskOK, NEW s \in Ids, trash[s].book # None,
           trash' = [trash EXCEPT ![s] = EmptySlot], UNCHANGED <<books, dirs, born>>
    PROVE  Lib!PNext
<1> DEFINE i == trash[s].book
<1>1. i \in Ids /\ Slots(i) = {s}
  BY DEF DiskOK, Slot, BooksConserved, NoDuplicates, Slots
<1>2. \A t \in Ids : trash'[t].book = IF t = s THEN None ELSE trash[t].book
  BY DEF DiskOK, EmptySlot
<1>3. i \in InTrash /\ InTrash' = InTrash \ {i}
  BY <1>1, <1>2, ShelfAssumption DEF InTrash, Slots
<1>4. Where' = Where
  BY DEF Where, Shelved
<1>5. Lib!Erase(i)
  BY <1>3, <1>4 DEF Lib!Erase
<1> QED
  BY <1>1, <1>5 DEF Lib!PNext

LEMMA RemoveSeen ==
    ASSUME DiskOK, Outside, NEW p \in Paths, books[p] # None,
           books' = [books EXCEPT ![p] = None], UNCHANGED <<trash, dirs, born>>
    PROVE  Lib!PNext
<1> DEFINE i == books[p]
<1>1. /\ i \in Ids /\ Shelved(i) = {p}
      /\ \A q \in Paths : books'[q] = IF q = p THEN None ELSE books[q]
  BY DEF DiskOK, BooksConserved, NoDuplicates, Shelved
<1>2. \A j \in Ids : Shelved(j)' = IF j = i THEN {} ELSE Shelved(j)
  BY <1>1, ShelfAssumption DEF Shelved
<1>3. Where' = [Where EXCEPT ![i] = {}] /\ InTrash' = InTrash
  BY <1>1, <1>2 DEF Where, InTrash, Slots
<1>4. Lib!Remove(i)
  BY <1>1, <1>3 DEF Lib!Remove, Where
<1> QED
  BY <1>1, <1>4 DEF Lib!PNext

LEMMA AboveIs == \A f, g : g \in Lib!Above(f) <=> Under(f, g)
  BY DEF Lib!Above, Under, Prefixes

LEMMA MakeSeen ==
    ASSUME NEW f \in Folders, dirs' = dirs \cup Prefixes(f), UNCHANGED <<books, trash, born>>
    PROVE  Lib!PNext
<1>1. Lib!Make(f)
  BY DEF Lib!Make, Lib!Above, Prefixes, Where, InTrash, Shelved, Slots
<1> QED
  BY <1>1 DEF Lib!PNext

LEMMA DeleteSeen ==
    ASSUME DiskOK, NEW f \in dirs, f # <<>>, Empty(f), dirs' = dirs \ {f},
           UNCHANGED <<books, trash, born>>
    PROVE  Lib!PNext
<1>1. ASSUME NEW d \in dirs, f \in Lib!Above(d), d # f PROVE FALSE
  <2>1. d \in AnyFolder /\ Under(d, f)
    BY <1>1, AboveIs, FolderIsAny DEF DiskOK
  <2>2. PICK c \in AnyFolder : Under(d, c) /\ c # <<>> /\ SubSeq(c, 1, Len(c) - 1) = f
    BY <1>1, <2>1, ChildOnTheWay
  <2> QED
    BY <2>2 DEF DiskOK, DirsClosed, Children, Empty
<1>2. ASSUME NEW i \in Ids, NEW p \in Where[i] PROVE p[1] # f
  BY PathOf, ShelfAssumption DEF Where, Shelved, Empty
<1>3. Where' = Where /\ InTrash' = InTrash
  BY DEF Where, InTrash, Shelved, Slots
<1>4. Lib!Delete(f)
  BY <1>1, <1>2, <1>3 DEF Lib!Delete
<1> QED
  BY <1>4 DEF Lib!PNext, DiskOK

LEMMA RelocateSeen ==
    ASSUME DiskOK, NEW from \in dirs, from # <<>>, NEW to \in Folders, to # <<>>, to \notin dirs,
           ~Under(to, from), SubSeq(to, 1, Len(to) - 1) \in dirs,
           NEW moved, moved = {d \in dirs : Under(d, from)},
           \A d \in moved : Reroot(d, from, to) \in Folders,
           dirs' = (dirs \ moved) \cup {Reroot(d, from, to) : d \in moved},
           books' = AfterMove(from, to),
           UNCHANGED <<trash, born>>
    PROVE  Lib!PNext
<1>0. /\ \A q \in Paths : books[q] # None =>
            /\ Carried(q, from, to) \in Paths
            /\ books'[Carried(q, from, to)] = books[q]
      /\ \A p \in Paths : books'[p] # None =>
            \E q \in Paths : books[q] = books'[p] /\ p = Carried(q, from, to)
  BY PackagesCarried
<1> DEFINE New(f) == IF from \in Lib!Above(f) THEN Lib!Shifted(f, from, to) ELSE f
           Shift(p) == <<New(p[1]), p[2]>>
<1>1. \A f : New(f) = IF Under(f, from) THEN Reroot(f, from, to) ELSE f
  BY AboveIs DEF Lib!Shifted, Reroot
<1>2. dirs' = {New(f) : f \in dirs}
  BY <1>1
<1> HIDE DEF New
<1>3. dirs \subseteq Folders /\ Folders \subseteq AnyFolder /\ from \in AnyFolder /\ to \in AnyFolder
  BY FolderIsAny DEF DiskOK
<1>4. ASSUME NEW q \in Paths PROVE Shift(q) = Carried(q, from, to)
  BY <1>1, PathOf DEF Carried
<1> HIDE DEF Shift
<1>5. /\ \A q \in Paths : books[q] # None => Shift(q) \in Paths /\ books'[Shift(q)] = books[q]
      /\ \A p \in Paths : books'[p] # None => \E q \in Paths : books[q] = books'[p] /\ p = Shift(q)
  <2>1. ASSUME NEW q \in Paths, books[q] # None
        PROVE  Shift(q) \in Paths /\ books'[Shift(q)] = books[q]
    BY <1>0, <1>4, <2>1
  <2>2. ASSUME NEW p \in Paths, books'[p] # None
        PROVE  \E q \in Paths : books[q] = books'[p] /\ p = Shift(q)
    <3>1. PICK q \in Paths : books[q] = books'[p] /\ p = Carried(q, from, to)
      BY <1>0, <2>2
    <3> QED
      BY <1>4, <3>1
  <2> QED
    BY <2>1, <2>2
<1>6. ASSUME NEW i \in Ids PROVE Shelved(i)' = {Shift(p) : p \in Shelved(i)}
  <2>1. i # None
    BY ShelfAssumption
  <2>2. ASSUME NEW p \in Paths, books'[p] = i PROVE \E q \in Shelved(i) : p = Shift(q)
    BY <1>5, <2>1, <2>2 DEF Shelved
  <2>3. ASSUME NEW q \in Shelved(i) PROVE Shift(q) \in Paths /\ books'[Shift(q)] = i
    BY <1>5, <2>1 DEF Shelved
  <2> QED
    BY <2>2, <2>3 DEF Shelved
<1>7. Where' = [i \in Ids |-> {<<New(p[1]), p[2]>> : p \in Where[i]}]
  BY <1>6 DEF Where, Shift
<1>8. InTrash' = InTrash
  BY DEF InTrash, Slots
<1>9. Lib!Relocate(from, to)
  BY <1>2, <1>7, <1>8, AboveIs DEF Lib!Relocate, Lib!Parent, New
<1> QED
  BY <1>3, <1>9 DEF Lib!PNext

\* Each disk operation of a request, as a step of Places.
LEMMA RenameMovedSeen ==
    ASSUME ShelfInv, NEW w \in Workers, RenameMoved(w)
    PROVE  Lib!PNext \/ UNCHANGED Lib!pvars
<1> DEFINE from == op[w].path
           to == <<op[w].dir, from[2]>>
<1>1. DiskOK /\ op[w].dir \in Folders /\ from \in Paths
  BY DiskIsOK, OpGood DEF ShelfInv, RenameMoved, At, Ops, KnowsBook
<1>2. to \in Paths
  BY <1>1, PathOf
<1>3. UNCHANGED <<dirs, trash, born>>
  BY DEF RenameMoved
<1>4. CASE books[from] # None /\ to = from
  <2>1. books' = [books EXCEPT ![from] = None, ![to] = books[from]]
    BY <1>4 DEF RenameMoved
  <2>2. books' = books
    <3> HIDE DEF to
    <3> QED BY <1>1, <1>4, <2>1 DEF DiskOK
  <2> QED
    BY <1>3, <2>2, Unseen
<1>5. CASE books[from] # None /\ to # from /\ Free(to)
  <2>1. books' = [books EXCEPT ![from] = None, ![to] = books[from]]
    BY <1>5 DEF RenameMoved
  <2> HIDE DEF to
  <2> QED
    BY <1>1, <1>2, <1>3, <1>5, <2>1, MoveSeen
<1>6. CASE ~(books[from] # None /\ (Free(to) \/ to = from))
  BY <1>3, <1>6, Unseen DEF RenameMoved
<1> QED
  BY <1>4, <1>5, <1>6

LEMMA RenameStagedSeen ==
    ASSUME ShelfInv, NEW w \in Workers, NEW i \in Ids, NEW n \in PackageNames,
           RenameStaged(w, i, n)
    PROVE  Lib!PNext
<1> DEFINE to == <<op[w].dir, n>>
<1>1. DiskOK /\ to \in Paths
  BY DiskIsOK, PathOf, OpGood DEF ShelfInv, Ops
<1>2. /\ i \notin born /\ Free(to) /\ books' = [books EXCEPT ![to] = i]
      /\ born' = born \cup {i} /\ UNCHANGED <<dirs, trash>>
  BY DEF RenameStaged
<1> HIDE DEF to
<1> QED
  BY <1>1, <1>2, PutSeen

LEMMA RenameRestoredSeen ==
    ASSUME ShelfInv, NEW w \in Workers, NEW n \in PackageNames, RenameRestored(w, n)
    PROVE  Lib!PNext
<1> DEFINE to == <<op[w].dir, n>>
           s == op[w].id
<1>1. DiskOK /\ to \in Paths /\ s \in Ids
  BY DiskIsOK, PathOf, OpGood DEF ShelfInv, RenameRestored, At, Ops, KnowsBook
<1>2. /\ trash[s].book # None /\ Free(to) /\ books' = [books EXCEPT ![to] = trash[s].book]
      /\ trash' = [trash EXCEPT ![s] = EmptySlot] /\ UNCHANGED <<dirs, born>>
  BY DEF RenameRestored
<1> HIDE DEF to, s
<1> QED
  BY <1>1, <1>2, RestoreSeen

LEMMA TrashStepsSeen ==
    ASSUME ShelfInv, NEW w \in Workers,
           ToTrash(w) \/ WriteTrashMeta(w) \/ UndoTrash(w) \/ Purge(w)
    PROVE  Lib!PNext \/ UNCHANGED Lib!pvars
<1> DEFINE i == op[w].id
           p == op[w].path
<1>1. DiskOK /\ i \in Ids
  BY DiskIsOK, OpGood DEF ShelfInv, ToTrash, WriteTrashMeta, UndoTrash, Purge, At, KnowsBook
<1>2. CASE ToTrash(w)
  <2>1. p \in Paths
    BY <1>2, OpGood DEF ShelfInv, ToTrash, At, KnowsBook
  <2> QED
    BY <1>1, <1>2, <2>1, TrashSeen, Unseen DEF ToTrash
<1>3. CASE WriteTrashMeta(w)
  <2>1. \A s \in Ids : trash'[s].book = trash[s].book
    BY <1>1, <1>3 DEF WriteTrashMeta, DiskOK, Slot
  <2>2. Where' = Where /\ InTrash' = InTrash
    BY <1>3, <2>1 DEF WriteTrashMeta, Where, InTrash, Shelved, Slots
  <2> QED
    BY <1>3, <2>2 DEF WriteTrashMeta, Lib!pvars
<1>4. CASE UndoTrash(w)
  <2>1. p \in Paths
    BY <1>4, OpGood DEF ShelfInv, UndoTrash, At, KnowsBook
  <2> QED
    BY <1>1, <1>4, <2>1, RestoreSeen, Unseen DEF UndoTrash
<1>5. CASE Purge(w)
  BY <1>1, <1>5, EraseSeen, Unseen DEF Purge
<1> QED
  BY <1>2, <1>3, <1>4, <1>5

LEMMA FolderStepsSeen ==
    ASSUME ShelfInv, NEW w \in Workers, NEW to \in Folders, Mkdir(w) \/ Rmdir(w) \/ Mvdir(w, to)
    PROVE  Lib!PNext \/ UNCHANGED Lib!pvars
<1>1. DiskOK /\ op[w].dir \in Folders
  BY DiskIsOK, OpGood DEF ShelfInv, Mkdir, Rmdir, Mvdir, At, Ops
<1>2. CASE Mkdir(w)
  BY <1>1, <1>2, MakeSeen DEF Mkdir
<1>3. CASE Rmdir(w)
  BY <1>1, <1>3, DeleteSeen, Unseen DEF Rmdir
<1>4. CASE Mvdir(w, to)
  <2> DEFINE from == op[w].dir
             moved == {d \in dirs : Under(d, from)}
             may == /\ from \in dirs /\ from # <<>> /\ to # <<>> /\ to \notin dirs
                    /\ ~Under(to, from) /\ SubSeq(to, 1, Len(to) - 1) \in dirs
                    /\ \A d \in moved : Reroot(d, from, to) \in Folders
  <2>1. CASE may
    BY <1>1, <1>4, <2>1, RelocateSeen DEF Mvdir, AfterMove
  <2>2. CASE ~may
    BY <1>4, <2>2, Unseen DEF Mvdir
  <2> QED
    BY <2>1, <2>2
<1> QED
  BY <1>2, <1>3, <1>4

LEMMA OutsideSeen ==
    ASSUME ShelfInv, OutsideStep
    PROVE  Lib!PNext \/ UNCHANGED Lib!pvars
<1>1. DiskOK /\ Outside
  BY DiskIsOK DEF OutsideStep
<1>2. ASSUME NEW p \in Paths, NEW q \in Paths, OutsideMove(p, q) PROVE Lib!PNext
  BY <1>1, <1>2, MoveSeen DEF OutsideMove
<1>3. ASSUME NEW i \in Ids, NEW p \in Paths, OutsideAdd(i, p) PROVE Lib!PNext
  BY <1>1, <1>3, PutSeen DEF OutsideAdd
<1>4. ASSUME NEW p \in Paths, OutsideRemove(p) PROVE Lib!PNext
  BY <1>1, <1>4, RemoveSeen DEF OutsideRemove
<1>5. ASSUME NEW p \in Paths, OutsideEdit(p) PROVE UNCHANGED Lib!pvars
  BY <1>5, Unseen DEF OutsideEdit
<1> QED
  BY <1>2, <1>3, <1>4, <1>5 DEF OutsideStep

LEMMA StepSeen == ShelfInv /\ [Next]_vars => [Lib!PNext]_(Lib!pvars)
<1> SUFFICES ASSUME ShelfInv, [Next]_vars PROVE Lib!PNext \/ UNCHANGED Lib!pvars
  OBVIOUS
<1>1. ASSUME UNCHANGED disk PROVE UNCHANGED Lib!pvars
  BY <1>1, Unseen DEF disk
<1>2. ASSUME NEW w \in Goroutines, Requests(w) PROVE UNCHANGED Lib!pvars
  BY <1>1, <1>2 DEF Requests, Begin
<1>3. ASSUME NEW w \in Workers, Refresh(w) PROVE UNCHANGED Lib!pvars
  BY <1>1, <1>3 DEF Refresh, Decide, Schedule, Publish, Snapshot, Check, Apply, Again, Answer, Walk
<1>4. ASSUME NEW w \in Workers, Change(w) PROVE Lib!PNext \/ UNCHANGED Lib!pvars
  <2>1. CASE \/ Lookup(w) \/ CopyTree(w) \/ Find(w) \/ Reopen(w) \/ Uncache(w) \/ Forget(w)
             \/ MarkDirty(w) \/ NoRoom(w)
    BY <1>1, <2>1 DEF Lookup, CopyTree, Find, Reopen, Uncache, Forget, MarkDirty, NoRoom
  <2>2. CASE \/ RenameMoved(w) \/ \E n \in PackageNames : RenameRestored(w, n)
             \/ \E i \in Ids, n \in PackageNames : RenameStaged(w, i, n)
    BY <2>2, RenameMovedSeen, RenameRestoredSeen, RenameStagedSeen
  <2>3. CASE ToTrash(w) \/ WriteTrashMeta(w) \/ Purge(w)
    BY <2>3, TrashStepsSeen
  <2>4. CASE Mkdir(w) \/ Rmdir(w) \/ \E to \in Folders : Mvdir(w, to)
    BY <2>4, FolderStepsSeen, EmptyFolder
  <2> QED
    BY <1>4, <2>1, <2>2, <2>3, <2>4 DEF Change
<1>5. CASE Fault
  BY <1>1, <1>5, TrashStepsSeen DEF Fault, Crash, Fail
<1>6. CASE UNCHANGED vars
  BY <1>1, <1>6 DEF vars
<1> QED
  BY <1>2, <1>3, <1>4, <1>5, <1>6, OutsideSeen DEF Next, Served

\* A shelf implements Places: however requests, failures, crashes and changes from outside
\* interleave, what they do to the books is a sequence of whole steps, each of one book
\* (added, moved, put into the trash, restored, removed for good) or of one folder with
\* all below it, onto paths that were free; a cut-off request has taken some of its
\* steps and no part of one (NewBookWith, publishBookCopy, MoveBook, MoveBookToTrash,
\* RestoreTrashedBook, DeleteTrashedBook, NewFolder, deleteFolder, RenameFolder).
THEOREM ShelfImplementsPlaces == Spec => Lib!PSpec
<1>1. Init => Lib!PInit
  BY ShelfAssumption DEF Init, Lib!PInit, Where, InTrash, Shelved, Slots, EmptySlot
<1> QED
  BY <1>1, ShelfInitial, ShelfStep, StepSeen, PTL DEF Spec, Lib!PSpec
=============================================================================
