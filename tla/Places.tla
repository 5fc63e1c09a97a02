------------------------------- MODULE Places -------------------------------
(***************************************************************************)
(* What a shelf promises of its books, without requests, cache and disk:   *)
(* a book is at one path, in the trash, or removed for good, a path has    *)
(* one book, and whatever happens is one of the steps below, each whole.   *)
(* A step is about one book, except that a folder takes along all that is  *)
(* below it.                                                               *)
(***************************************************************************)
EXTENDS Integers, Sequences

CONSTANTS Ids, Folders, Paths,
          Outside  \* may books be removed other than through the trash?

VARIABLES folders,  \* the folders there are
          at,       \* where each book is: one path, or none
          trashed,  \* the books in the trash
          added     \* the books there have been

pvars == <<folders, at, trashed, added>>

Above(f) == {SubSeq(f, 1, n) : n \in 0..Len(f)}
Parent(f) == SubSeq(f, 1, Len(f) - 1)
Shifted(f, from, to) == to \o SubSeq(f, Len(from) + 1, Len(f))

\* A path that a book can be put at.
Vacant(p) == p[1] \in folders /\ \A i \in Ids : p \notin at[i]

PInit ==
    /\ folders = {<<>>}
    /\ at = [i \in Ids |-> {}]
    /\ trashed = {} /\ added = {}

Add(i, p) ==
    /\ i \notin added /\ Vacant(p)
    /\ at' = [at EXCEPT ![i] = {p}]
    /\ added' = added \cup {i}
    /\ UNCHANGED <<folders, trashed>>

Move(i, p) ==
    /\ at[i] # {} /\ Vacant(p)
    /\ at' = [at EXCEPT ![i] = {p}]
    /\ UNCHANGED <<folders, trashed, added>>

Discard(i) ==
    /\ at[i] # {}
    /\ at' = [at EXCEPT ![i] = {}]
    /\ trashed' = trashed \cup {i}
    /\ UNCHANGED <<folders, added>>

Restore(i, p) ==
    /\ i \in trashed /\ Vacant(p)
    /\ at' = [at EXCEPT ![i] = {p}]
    /\ trashed' = trashed \ {i}
    /\ UNCHANGED <<folders, added>>

\* Removed for good: from the trash, ...
Erase(i) ==
    /\ i \in trashed
    /\ trashed' = trashed \ {i}
    /\ UNCHANGED <<folders, at, added>>

\* ... or by somebody else.
Remove(i) ==
    /\ Outside /\ at[i] # {}
    /\ at' = [at EXCEPT ![i] = {}]
    /\ UNCHANGED <<folders, trashed, added>>

Make(f) ==
    /\ folders' = folders \cup Above(f)
    /\ UNCHANGED <<at, trashed, added>>

\* A folder is deleted only with nothing in it.
Delete(f) ==
    /\ f # <<>>
    /\ \A g \in folders : f \in Above(g) => g = f
    /\ \A i \in Ids : \A p \in at[i] : p[1] # f
    /\ folders' = folders \ {f}
    /\ UNCHANGED <<at, trashed, added>>

\* A folder changes its place with everything below it, and nothing else does.
Relocate(from, to) ==
    LET New(f) == IF from \in Above(f) THEN Shifted(f, from, to) ELSE f
    IN
    /\ from \in folders \ {<<>>} /\ to \notin folders /\ Parent(to) \in folders
    /\ from \notin Above(to)
    /\ folders' = {New(f) : f \in folders}
    /\ at' = [i \in Ids |-> {<<New(p[1]), p[2]>> : p \in at[i]}]
    /\ UNCHANGED <<trashed, added>>

PNext ==
    \/ \E i \in Ids : Discard(i) \/ Erase(i) \/ Remove(i)
    \/ \E i \in Ids, p \in Paths : Add(i, p) \/ Move(i, p) \/ Restore(i, p)
    \/ \E f \in Folders : Make(f) \/ Delete(f)
    \/ \E f, g \in Folders : Relocate(f, g)

PSpec == PInit /\ [][PNext]_pvars
=============================================================================
