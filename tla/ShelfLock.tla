------------------------------ MODULE ShelfLock ------------------------------
(***************************************************************************)
(* The shelf lock (shelf/lock.go): who may be inside a shelf's critical    *)
(* section.  Each shelf directory has one library.lock; each process opens *)
(* a shelf once and keeps ONE flock.Flock for it, which all its goroutines *)
(* use.  A request locks one shelf, shared or exclusive; a transfer locks  *)
(* its source shared and then its target exclusive.                        *)
(*                                                                         *)
(* flock.Flock is a library: TryRLock, TryLock and Unlock are what lock.go *)
(* relies on.  It answers at once when its own flag is set, whoever set    *)
(* it; it converts the lock its one open file holds; and Unlock drops      *)
(* everything.                                                             *)
(***************************************************************************)
EXTENDS Integers, FiniteSets

CONSTANTS Processes,   \* running instances of PlainShelf
          Goroutines,  \* requests they may have in progress at a time
          Home,        \* the process of each
          Shelves,
          None

ASSUME LockAssumption == None \notin Shelves /\ Home \in [Goroutines -> Processes]

VARIABLES lflag, rflag,  \* Flock.l and Flock.r: the shelves flagged in each process
          os,            \* the lock the operating system has given each handle
          pc,            \* where each goroutine is ...
          read, write    \* ... and the shelves its request reads and writes

handle == <<lflag, rflag, os>>
vars == <<handle, pc, read, write>>

Modes == {"none", "shared", "exclusive"}
Steps == {"idle", "rlock", "lock", "in", "runlock"}

Init ==
    /\ lflag = [p \in Processes |-> {}]
    /\ rflag = [p \in Processes |-> {}]
    /\ os = [p \in Processes |-> [s \in Shelves |-> "none"]]
    /\ pc = [g \in Goroutines |-> "idle"]
    /\ read = [g \in Goroutines |-> None]
    /\ write = [g \in Goroutines |-> None]

-----------------------------------------------------------------------------
\* flock(2) grants process p the lock: no other open file conflicts.
Grants(p, s, allowed) == \A q \in Processes \ {p} : os[q][s] \in allowed
GrantsRead(p, s) == Grants(p, s, {"none", "shared"})
GrantsWrite(p, s) == Grants(p, s, {"none"})

\* Flock.TryRLock and TryLock succeed: the flag was set already, or the lock of
\* the handle's open file is set or converted.
TryRLock(p, s) ==
    /\ \/ s \in rflag[p] /\ UNCHANGED os
       \/ /\ s \notin rflag[p] /\ GrantsRead(p, s)
          /\ os' = [os EXCEPT ![p][s] = "shared"]
    /\ rflag' = [rflag EXCEPT ![p] = @ \cup {s}]
    /\ UNCHANGED lflag

TryLock(p, s) ==
    /\ \/ s \in lflag[p] /\ UNCHANGED os
       \/ /\ s \notin lflag[p] /\ GrantsWrite(p, s)
          /\ os' = [os EXCEPT ![p][s] = "exclusive"]
    /\ lflag' = [lflag EXCEPT ![p] = @ \cup {s}]
    /\ UNCHANGED rflag

RefusesRead(p, s) == s \notin rflag[p] /\ ~GrantsRead(p, s)
RefusesWrite(p, s) == s \notin lflag[p] /\ ~GrantsWrite(p, s)

\* Flock.Unlock: both flags and the operating system's lock go.
Unlock(p, s) ==
    /\ lflag' = [lflag EXCEPT ![p] = @ \ {s}]
    /\ rflag' = [rflag EXCEPT ![p] = @ \ {s}]
    /\ os' = [os EXCEPT ![p][s] = "none"]

-----------------------------------------------------------------------------
Goto(g, step) == pc' = [pc EXCEPT ![g] = step]

\* A request begins with the shelf it reads, the shelf it writes, or both.
Begin(g, r, w) ==
    /\ pc[g] = "idle"
    /\ r # w
    /\ Goto(g, IF r # None THEN "rlock" ELSE "lock")
    /\ read' = [read EXCEPT ![g] = r]
    /\ write' = [write EXCEPT ![g] = w]
    /\ UNCHANGED handle

\* flockLock.RLock on the shelf to read, lockForTransfer's first half.
RLock(g) ==
    /\ pc[g] = "rlock"
    /\ TryRLock(Home[g], read[g])
    /\ Goto(g, IF write[g] = None THEN "in" ELSE "lock")
    /\ UNCHANGED <<read, write>>

\* Fault: a writer locks its shelf shared.
LockShared(g) ==
    /\ pc[g] = "lock"
    /\ TryRLock(Home[g], write[g])
    /\ Goto(g, "in")
    /\ UNCHANGED <<read, write>>

\* flockLock.Lock on the shelf to write: lockShelfForWrite.
Lock(g) ==
    /\ pc[g] = "lock"
    /\ TryLock(Home[g], write[g])
    /\ Goto(g, "in")
    /\ UNCHANGED <<read, write>>

\* TryLockContext and TryRLockContext ask again every lockRetryDelay.  A refused
\* conversion has already given up the lock that it was to replace.
Retry(g) ==
    LET s == IF pc[g] = "rlock" THEN read[g] ELSE write[g] IN
    /\ \/ pc[g] = "rlock" /\ RefusesRead(Home[g], s)
       \/ pc[g] = "lock" /\ RefusesWrite(Home[g], s)
    /\ os' = [os EXCEPT ![Home[g]][s] = "none"]
    /\ UNCHANGED <<lflag, rflag, pc, read, write>>

\* Fault: lockForTransfer keeps the source locked when the target is not.
TimeOutKeepingSource(g) ==
    /\ \/ pc[g] = "rlock" /\ RefusesRead(Home[g], read[g])
       \/ pc[g] = "lock" /\ RefusesWrite(Home[g], write[g])
    /\ Goto(g, "idle")
    /\ UNCHANGED <<handle, read, write>>

\* Fault: lock_timeout is ignored.
TimeOutNever(g) == FALSE /\ TimeOutKeepingSource(g)

\* After lock_timeout the request fails with ErrShelfLockTimeout, and a transfer
\* that has its source unlocks it.
TimeOut(g) ==
    /\ \/ /\ pc[g] = "rlock" /\ RefusesRead(Home[g], read[g])
          /\ Goto(g, "idle")
       \/ /\ pc[g] = "lock" /\ RefusesWrite(Home[g], write[g])
          /\ Goto(g, IF read[g] = None THEN "idle" ELSE "runlock")
    /\ UNCHANGED <<handle, read, write>>

\* The deferred unlock: the target's, and then the source's.
Leave(g) ==
    /\ pc[g] = "in"
    /\ Unlock(Home[g], IF write[g] # None THEN write[g] ELSE read[g])
    /\ Goto(g, IF write[g] # None /\ read[g] # None THEN "runlock" ELSE "idle")
    /\ UNCHANGED <<read, write>>

RUnlock(g) ==
    /\ pc[g] = "runlock"
    /\ Unlock(Home[g], read[g])
    /\ Goto(g, "idle")
    /\ UNCHANGED <<read, write>>

\* A process ends, however: the operating system releases its locks.
Exit(p) ==
    /\ lflag' = [lflag EXCEPT ![p] = {}]
    /\ rflag' = [rflag EXCEPT ![p] = {}]
    /\ os' = [os EXCEPT ![p] = [s \in Shelves |-> "none"]]
    /\ pc' = [g \in Goroutines |-> IF Home[g] = p THEN "idle" ELSE pc[g]]
    /\ UNCHANGED <<read, write>>

Step(g) == RLock(g) \/ Lock(g) \/ TimeOut(g) \/ Leave(g) \/ RUnlock(g)

Next ==
    \/ \E g \in Goroutines : Step(g) \/ Retry(g)
    \/ \E g \in Goroutines, r, w \in Shelves \cup {None} : Begin(g, r, w)
    \/ \E p \in Processes : Exit(p)

Spec == Init /\ [][Next]_vars

\* A request in its critical section ends, a granted lock is noticed and the
\* context's timer fires; nothing makes a request arrive or a process end.
FairSpec == Spec /\ \A g \in Goroutines : WF_vars(Step(g))

-----------------------------------------------------------------------------
\* Type invariant: the handles' fields and the requests' progress.
TypeOK ==
    /\ lflag \in [Processes -> SUBSET Shelves]
    /\ rflag \in [Processes -> SUBSET Shelves]
    /\ os \in [Processes -> [Shelves -> Modes]]
    /\ pc \in [Goroutines -> Steps]
    /\ read \in [Goroutines -> Shelves \cup {None}]
    /\ write \in [Goroutines -> Shelves \cup {None}]

\* A request in progress names the shelves that its step needs.
RequestsNamed ==
    \A g \in Goroutines :
        /\ pc[g] \in {"rlock", "runlock"} => read[g] # None
        /\ pc[g] = "lock" => write[g] # None
        /\ pc[g] # "idle" => read[g] # write[g]

\* g is in the critical section of shelf s, which it changes or only reads.
Writes(g, s) == pc[g] = "in" /\ write[g] = s
Reads(g, s) == pc[g] = "in" /\ read[g] = s

\* Nobody else reads or changes a shelf that a request is changing.
Serialized ==
    \A s \in Shelves : \A g, h \in Goroutines :
        Writes(g, s) /\ (Writes(h, s) \/ Reads(h, s)) => g = h

\* g has locked shelf s and has still to unlock it.
HoldsRead(g, s) == pc[g] \in {"lock", "in", "runlock"} /\ read[g] = s

\* A shelf is flagged or locked in a process only for a request that will unlock
\* it, so that no process keeps another one out for nothing: failed transfers
\* and lost conversions included.
NothingLeaks ==
    \A p \in Processes, s \in Shelves :
        s \in lflag[p] \/ s \in rflag[p] \/ os[p][s] # "none" =>
            \E g \in Goroutines : Home[g] = p /\ (Writes(g, s) \/ HoldsRead(g, s))

\* With one request at a time in each process, the flags are the request's own,
\* the operating system's lock is what they say, and locks exclude each other.
HandlesExact ==
    /\ \A g \in Goroutines, s \in Shelves :
          /\ s \in lflag[Home[g]] <=> Writes(g, s)
          /\ s \in rflag[Home[g]] <=> HoldsRead(g, s)
          /\ os[Home[g]][s] = IF Writes(g, s) THEN "exclusive"
                           ELSE IF HoldsRead(g, s) THEN "shared" ELSE "none"
    /\ \A p, q \in Processes, s \in Shelves :
          p # q /\ os[p][s] = "exclusive" => os[q][s] = "none"

\* Every request gets its locks and leaves, or fails with a timeout, even when
\* two transfers in opposite directions hold each other's target.
RequestsEnd == \A g \in Goroutines : (pc[g] # "idle") ~> (pc[g] = "idle")
=============================================================================
