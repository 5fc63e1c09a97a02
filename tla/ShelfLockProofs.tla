-------------------------- MODULE ShelfLockProofs --------------------------
(***************************************************************************)
(* What the shelf lock guarantees for any number of processes and shelves: *)
(* it never leaks, and it serializes processes that handle one request at  *)
(* a time.                                                                 *)
(***************************************************************************)
EXTENDS ShelfLock, TLAPS

\* What a process has on a shelf, and who will release it.
Has(p, s) == s \in lflag[p] \/ s \in rflag[p] \/ os[p][s] # "none"
Holds(g, s) == Writes(g, s) \/ HoldsRead(g, s)

LeakInv == TypeOK /\ RequestsNamed /\ NothingLeaks

LEMMA LeakInit == Init => LeakInv
  BY LockAssumption
  DEF Init, LeakInv, TypeOK, RequestsNamed, NothingLeaks, Steps, Modes

\* It is enough that a step keeps the holders of what was held before, and makes
\* its own request a holder of what it adds.
LEMMA Handover ==
  ASSUME NothingLeaks,
         \A p \in Processes, s \in Shelves : Has(p, s)' =>
             \/ \E g \in Goroutines : Home[g] = p /\ Holds(g, s)'
             \/ /\ Has(p, s)
                /\ \A g \in Goroutines : Home[g] = p /\ Holds(g, s) => Holds(g, s)'
  PROVE  NothingLeaks'
  BY DEF NothingLeaks, Has, Holds

\* Every step of a request keeps the types and names its shelves.
LEMMA TypeStep == TypeOK /\ RequestsNamed /\ [Next]_vars => (TypeOK /\ RequestsNamed)'
<1> SUFFICES ASSUME TypeOK, RequestsNamed, [Next]_vars PROVE (TypeOK /\ RequestsNamed)'
  OBVIOUS
<1> USE LockAssumption DEF TypeOK, RequestsNamed, handle, Goto, Steps, Modes
<1>1. ASSUME NEW g \in Goroutines, NEW r \in Shelves \cup {None},
             NEW w \in Shelves \cup {None}, Begin(g, r, w)
      PROVE  (TypeOK /\ RequestsNamed)'
  BY <1>1 DEF Begin
<1>2. ASSUME NEW g \in Goroutines, RLock(g) PROVE (TypeOK /\ RequestsNamed)'
  <2>1. read[g] \in Shelves /\ Home[g] \in Processes
    BY <1>2 DEF RLock
  <2>2. os' \in [Processes -> [Shelves -> Modes]]
    <3>1. os' = os \/ os' = [os EXCEPT ![Home[g]][read[g]] = "shared"]
      BY <1>2 DEF RLock, TryRLock
    <3>2. [os[Home[g]] EXCEPT ![read[g]] = "shared"] \in [Shelves -> Modes]
      BY <2>1
    <3> HIDE DEF Modes, RequestsNamed
    <3> QED
      BY <2>1, <3>1, <3>2
  <2>3. rflag' \in [Processes -> SUBSET Shelves]
    BY <1>2, <2>1 DEF RLock, TryRLock
  <2> QED
    BY <1>2, <2>2, <2>3 DEF RLock, TryRLock
<1>3. ASSUME NEW g \in Goroutines, Lock(g) PROVE (TypeOK /\ RequestsNamed)'
  <2>1. write[g] \in Shelves /\ Home[g] \in Processes
    BY <1>3 DEF Lock
  <2>2. os' \in [Processes -> [Shelves -> Modes]]
    <3>1. os' = os \/ os' = [os EXCEPT ![Home[g]][write[g]] = "exclusive"]
      BY <1>3 DEF Lock, TryLock
    <3>2. [os[Home[g]] EXCEPT ![write[g]] = "exclusive"] \in [Shelves -> Modes]
      BY <2>1
    <3> HIDE DEF Modes, RequestsNamed
    <3> QED
      BY <2>1, <3>1, <3>2
  <2>3. lflag' \in [Processes -> SUBSET Shelves]
    BY <1>3, <2>1 DEF Lock, TryLock
  <2> QED
    BY <1>3, <2>2, <2>3 DEF Lock, TryLock
<1>4. ASSUME NEW g \in Goroutines, Retry(g) PROVE (TypeOK /\ RequestsNamed)'
  BY <1>4 DEF Retry
<1>5. ASSUME NEW g \in Goroutines, TimeOut(g) PROVE (TypeOK /\ RequestsNamed)'
  BY <1>5 DEF TimeOut
<1>6. ASSUME NEW g \in Goroutines, Leave(g) PROVE (TypeOK /\ RequestsNamed)'
  BY <1>6 DEF Leave, Unlock
<1>7. ASSUME NEW g \in Goroutines, RUnlock(g) PROVE (TypeOK /\ RequestsNamed)'
  BY <1>7 DEF RUnlock, Unlock
<1>8. ASSUME NEW p \in Processes, Exit(p) PROVE (TypeOK /\ RequestsNamed)'
  BY <1>8 DEF Exit
<1>9. CASE UNCHANGED vars
  BY <1>9 DEF vars
<1> QED
  BY <1>1, <1>2, <1>3, <1>4, <1>5, <1>6, <1>7, <1>8, <1>9 DEF Next, Step

\* Every request moves on without leaving a lock nobody will release.
LEMMA LeakStep == LeakInv /\ [Next]_vars => NothingLeaks'
<1> SUFFICES ASSUME LeakInv, [Next]_vars PROVE NothingLeaks'
  OBVIOUS
<1> USE LockAssumption DEF LeakInv, TypeOK, RequestsNamed, handle, Goto, Steps, Modes,
                           Has, Holds, Writes, HoldsRead
<1> SUFFICES ASSUME NEW p \in Processes, NEW s \in Shelves, Has(p, s)'
             PROVE  \/ \E g \in Goroutines : Home[g] = p /\ Holds(g, s)'
                    \/ /\ Has(p, s)
                       /\ \A g \in Goroutines : Home[g] = p /\ Holds(g, s) => Holds(g, s)'
  BY Handover
<1>1. ASSUME NEW g \in Goroutines, NEW r \in Shelves \cup {None},
             NEW w \in Shelves \cup {None}, Begin(g, r, w)
      PROVE  Has(p, s) /\ \A h \in Goroutines : Holds(h, s) => Holds(h, s)'
  BY <1>1 DEF Begin
<1>2. ASSUME NEW g \in Goroutines, RLock(g)
      PROVE  \/ Home[g] = p /\ Holds(g, s)'
             \/ Has(p, s) /\ \A h \in Goroutines : Holds(h, s) => Holds(h, s)'
  BY <1>2 DEF RLock, TryRLock
<1>3. ASSUME NEW g \in Goroutines, Lock(g)
      PROVE  \/ Home[g] = p /\ Holds(g, s)'
             \/ Has(p, s) /\ \A h \in Goroutines : Holds(h, s) => Holds(h, s)'
  BY <1>3 DEF Lock, TryLock
<1>4. ASSUME NEW g \in Goroutines, Retry(g)
      PROVE  Has(p, s) /\ \A h \in Goroutines : Holds(h, s) => Holds(h, s)'
  BY <1>4 DEF Retry
<1>5. ASSUME NEW g \in Goroutines, TimeOut(g)
      PROVE  Has(p, s) /\ \A h \in Goroutines : Holds(h, s) => Holds(h, s)'
  BY <1>5 DEF TimeOut
<1>6. ASSUME NEW g \in Goroutines, Leave(g)
      PROVE  /\ Has(p, s)
             /\ \A h \in Goroutines : Home[h] = p /\ Holds(h, s) => Holds(h, s)'
  BY <1>6 DEF Leave, Unlock
<1>7. ASSUME NEW g \in Goroutines, RUnlock(g)
      PROVE  /\ Has(p, s)
             /\ \A h \in Goroutines : Home[h] = p /\ Holds(h, s) => Holds(h, s)'
  BY <1>7 DEF RUnlock, Unlock
<1>8. ASSUME NEW q \in Processes, Exit(q)
      PROVE  /\ Has(p, s)
             /\ \A h \in Goroutines : Home[h] = p /\ Holds(h, s) => Holds(h, s)'
  BY <1>8 DEF Exit
<1>9. CASE UNCHANGED vars
  BY <1>9 DEF vars
<1> HIDE DEF LeakInv, TypeOK, RequestsNamed, handle, Goto, Has, Holds
<1> QED
  BY <1>1, <1>2, <1>3, <1>4, <1>5, <1>6, <1>7, <1>8, <1>9 DEF Next, Step

\* A lock is held only for a request that will release it, for any number of
\* processes and of goroutines that share a handle (lock.go: every Lock and RLock
\* is paired with an Unlock on every path, lockForTransfer's failure included).
THEOREM LockNothingLeaks == Spec => []NothingLeaks
<1>1. LeakInv /\ [Next]_vars => LeakInv'
  BY LeakStep, TypeStep DEF LeakInv
<1> QED
  BY LeakInit, <1>1, PTL DEF Spec, LeakInv

-----------------------------------------------------------------------------
(* Processes that handle one request at a time.                            *)

OneEachAssumption == \A g, h \in Goroutines : Home[g] = Home[h] => g = h

ExactInv == TypeOK /\ RequestsNamed /\ HandlesExact

LEMMA ExactInit == Init => ExactInv
  BY LockAssumption
  DEF Init, ExactInv, TypeOK, RequestsNamed, HandlesExact, Writes, HoldsRead, Steps, Modes

LEMMA ExactStep ==
  ASSUME OneEachAssumption, ExactInv, [Next]_vars
  PROVE  HandlesExact'
<1> USE LockAssumption DEF OneEachAssumption, ExactInv, TypeOK, RequestsNamed, HandlesExact,
                           handle, Goto, Steps, Modes, Writes, HoldsRead
<1>1. ASSUME NEW g \in Goroutines, NEW r \in Shelves \cup {None},
             NEW w \in Shelves \cup {None}, Begin(g, r, w)
      PROVE  HandlesExact'
  BY <1>1 DEF Begin
<1>2. ASSUME NEW g \in Goroutines, RLock(g) PROVE HandlesExact'
  <2>1. read[g] \in Shelves /\ Home[g] \in Processes /\ read[g] \notin rflag[Home[g]]
    BY <1>2 DEF RLock
  <2>2. /\ \A q \in Processes \ {Home[g]} : os[q][read[g]] \in {"none", "shared"}
        /\ os' = [os EXCEPT ![Home[g]][read[g]] = "shared"]
        /\ rflag' = [rflag EXCEPT ![Home[g]] = @ \cup {read[g]}]
        /\ lflag' = lflag /\ read' = read /\ write' = write
        /\ pc' = [pc EXCEPT ![g] = IF write[g] = None THEN "in" ELSE "lock"]
    BY <1>2, <2>1 DEF RLock, TryRLock, GrantsRead, Grants
  <2>3. \A q \in Processes, s \in Shelves :
           os'[q][s] = IF q = Home[g] /\ s = read[g] THEN "shared" ELSE os[q][s]
    BY <2>1, <2>2
  <2>4. \A q \in Processes, s \in Shelves :
           s \in rflag'[q] <=> s \in rflag[q] \/ (q = Home[g] /\ s = read[g])
    BY <2>1, <2>2
  <2>5. ASSUME NEW h \in Goroutines, NEW s \in Shelves
        PROVE  /\ s \in lflag'[Home[h]] <=> Writes(h, s)'
               /\ s \in rflag'[Home[h]] <=> HoldsRead(h, s)'
               /\ os'[Home[h]][s] = IF Writes(h, s)' THEN "exclusive"
                                    ELSE IF HoldsRead(h, s)' THEN "shared" ELSE "none"
    <3>1. CASE h = g
      BY <1>2, <2>1, <2>2, <2>3, <2>4, <3>1 DEF RLock
    <3>2. CASE h # g
      BY <2>1, <2>2, <2>3, <2>4, <3>2
    <3> QED
      BY <3>1, <3>2
  <2>6. \A p, q \in Processes, s \in Shelves :
           p # q /\ os'[p][s] = "exclusive" => os'[q][s] = "none"
    BY <2>1, <2>2, <2>3
  <2> QED
    BY <2>5, <2>6
<1>3. ASSUME NEW g \in Goroutines, Lock(g) PROVE HandlesExact'
  <2>1. write[g] \in Shelves /\ Home[g] \in Processes /\ write[g] \notin lflag[Home[g]]
    BY <1>3 DEF Lock
  <2>2. /\ \A q \in Processes \ {Home[g]} : os[q][write[g]] \in {"none"}
        /\ os' = [os EXCEPT ![Home[g]][write[g]] = "exclusive"]
        /\ lflag' = [lflag EXCEPT ![Home[g]] = @ \cup {write[g]}]
        /\ rflag' = rflag /\ read' = read /\ write' = write
        /\ pc' = [pc EXCEPT ![g] = "in"]
    BY <1>3, <2>1 DEF Lock, TryLock, GrantsWrite, Grants
  <2>3. \A q \in Processes, s \in Shelves :
           os'[q][s] = IF q = Home[g] /\ s = write[g] THEN "exclusive" ELSE os[q][s]
    BY <2>1, <2>2
  <2>4. \A q \in Processes, s \in Shelves :
           s \in lflag'[q] <=> s \in lflag[q] \/ (q = Home[g] /\ s = write[g])
    BY <2>1, <2>2
  <2>5. ASSUME NEW h \in Goroutines, NEW s \in Shelves
        PROVE  /\ s \in lflag'[Home[h]] <=> Writes(h, s)'
               /\ s \in rflag'[Home[h]] <=> HoldsRead(h, s)'
               /\ os'[Home[h]][s] = IF Writes(h, s)' THEN "exclusive"
                                    ELSE IF HoldsRead(h, s)' THEN "shared" ELSE "none"
    <3>1. CASE h = g
      BY <1>3, <2>1, <2>2, <2>3, <2>4, <3>1 DEF Lock
    <3>2. CASE h # g
      BY <2>1, <2>2, <2>3, <2>4, <3>2
    <3> QED
      BY <3>1, <3>2
  <2>6. \A p, q \in Processes, s \in Shelves :
           p # q /\ os'[p][s] = "exclusive" => os'[q][s] = "none"
    BY <2>1, <2>2, <2>3
  <2> QED
    BY <2>5, <2>6
<1>4. ASSUME NEW g \in Goroutines, Retry(g) PROVE HandlesExact'
  BY <1>4 DEF Retry
<1>5. ASSUME NEW g \in Goroutines, TimeOut(g) PROVE HandlesExact'
  BY <1>5 DEF TimeOut
<1>6. ASSUME NEW g \in Goroutines, Leave(g) PROVE HandlesExact'
  BY <1>6 DEF Leave, Unlock
<1>7. ASSUME NEW g \in Goroutines, RUnlock(g) PROVE HandlesExact'
  BY <1>7 DEF RUnlock, Unlock
<1>8. ASSUME NEW p \in Processes, Exit(p) PROVE HandlesExact'
  BY <1>8 DEF Exit
<1>9. CASE UNCHANGED vars
  BY <1>9 DEF vars
<1> QED
  BY <1>1, <1>2, <1>3, <1>4, <1>5, <1>6, <1>7, <1>8, <1>9 DEF Next, Step

\* The lock keeps instances of PlainShelf out of each other's critical sections,
\* whatever their number and that of the shelves, as long as no process has two
\* requests in progress (the flock that lock.go takes is per process).
THEOREM LockSerialized ==
  ASSUME OneEachAssumption
  PROVE  Spec => []Serialized
<1>1. ExactInv /\ [Next]_vars => ExactInv'
  BY OneEachAssumption, ExactStep, TypeStep DEF ExactInv
<1>2. ExactInv => Serialized
  BY LockAssumption, OneEachAssumption
  DEF ExactInv, TypeOK, HandlesExact, Serialized, Writes, Reads, HoldsRead, OneEachAssumption
<1> QED
  BY ExactInit, <1>1, <1>2, PTL DEF Spec
=============================================================================
