--------------------------- MODULE TaskPoolProofs ---------------------------
(***************************************************************************)
(* What the pool promises for every queue length, retention and number of  *)
(* submissions.  PoolInv is the inductive invariant: the worker's place in *)
(* its loop decides the status of the chain it holds, and a queued chain   *)
(* has not been touched yet.  Without it OneActivePerKey does not carry    *)
(* over a step: an evicted chain could still be running.                   *)
(***************************************************************************)
EXTENDS TaskPool, FiniteSetTheorems, WellFoundedInduction, TLAPS

\* The worker holds a chain exactly when it is not waiting for one.
HoldsChain == (pc = "idle") <=> (current = 0)

\* The status of the held chain follows the worker's place in Run.
HeldStatus ==
    /\ pc = "start" => chain[current].status = "pending"
    /\ pc \in {"list", "tree", "loop", "item"} => chain[current].status = "running"
    /\ pc \in {"start", "list", "tree", "loop", "item"} => ~chain[current].panicked
    /\ pc = "done" => ~Active(current)

\* A waiting chain is pending, is waiting once, and is not held.
QueueFresh ==
    /\ \A i \in 1..Len(queue) :
          /\ chain[queue[i]].status = "pending" /\ ~chain[queue[i]].panicked
          /\ queue[i] # current
    /\ \A i, j \in 1..Len(queue) : queue[i] = queue[j] => i = j

PoolInv == TypeOK /\ HoldsChain /\ HeldStatus /\ QueueFresh
              /\ ActiveIsScheduled /\ OneActivePerKey

\* Eviction removes settled chains only.
LEMMA EvictsSettled ==
    ASSUME NEW ids, NEW c \in Evict(ids) PROVE c \in ids /\ ~Active(c)
  BY DEF Evict

\* The pool starts in the invariant.
LEMMA PoolInit == Init => PoolInv
<1> SUFFICES ASSUME Init PROVE PoolInv
  OBVIOUS
<1>1. (CHOOSE k \in Kinds : TRUE) \in ListingKinds \cup PlannedKinds
  BY ConstantsAssumption
<1>2. Blank \in TaskRecord
  BY <1>1 DEF Blank, Fresh, TaskRecord, Statuses
<1>3. TypeOK
  BY <1>2, ConstantsAssumption DEF Init, TypeOK, Accepted, TaskRecord
<1> QED
  BY <1>3 DEF Init, PoolInv, HoldsChain, HeldStatus, QueueFresh,
              ActiveIsScheduled, OneActivePerKey, Accepted

\* A step of the running task: a well-typed new record keeps the types.
LEMMA TaskStepType ==
    ASSUME PoolInv, pc # "idle",
           NEW next \in {"loop", "item", "list", "tree", "done"},
           NEW task \in TaskRecord, TaskStep(next, task)
    PROVE  TypeOK'
<1>1. current \in Chains
  BY ConstantsAssumption DEF PoolInv, TypeOK, HoldsChain, Chains
<1> QED
  BY <1>1 DEF PoolInv, TypeOK, TaskStep, Accepted

\* A step of the running task keeps the invariant when the status it leaves
\* fits the place it moves to, and the key is left alone.
LEMMA TaskStepInv ==
    ASSUME PoolInv, pc \notin {"idle", "done"},
           NEW next \in {"loop", "item", "list", "tree", "done"},
           NEW task \in TaskRecord, TaskStep(next, task),
           task.key = chain[current].key,
           next # "done" => task.status = "running" /\ ~task.panicked,
           next = "done" => task.panicked \/ IsTerminal(task.status)
    PROVE  PoolInv'
<1>1. TypeOK'
  BY TaskStepType
<1>2. current \in Chains /\ current # 0 /\ current' = current /\ pc' = next
  BY ConstantsAssumption DEF PoolInv, TypeOK, HoldsChain, Chains, TaskStep
<1>3. /\ chain'[current] = task
      /\ \A c \in Chains : c # current => chain'[c] = chain[c]
  BY <1>2 DEF PoolInv, TypeOK, TaskStep
<1>4. Accepted \subseteq Chains /\ Accepted' = Accepted
  BY ConstantsAssumption DEF PoolInv, TypeOK, Accepted, Chains, TaskStep
<1>5. Active(current)
  BY DEF PoolInv, TypeOK, HeldStatus, Active, Status, IsTerminal
<1>6. \A c \in Accepted : Active(c)' => Active(c)
  BY <1>2, <1>3, <1>4, <1>5 DEF Active, Status
<1>7. \A c \in Accepted : chain'[c].key = chain[c].key
  BY <1>2, <1>3, <1>4
<1>8. HoldsChain' /\ HeldStatus'
  BY <1>2, <1>3 DEF HoldsChain, HeldStatus, Active, Status, IsTerminal
<1>9. \A i \in 1..Len(queue) : queue[i] \in Chains
  BY <1>4 DEF PoolInv, TypeOK
<1>10. QueueFresh'
  BY <1>2, <1>3, <1>9 DEF PoolInv, QueueFresh, TaskStep
<1>11. ActiveIsScheduled'
  BY <1>2, <1>4, <1>6 DEF PoolInv, ActiveIsScheduled, TaskStep
<1>12. OneActivePerKey'
  BY <1>4, <1>6, <1>7 DEF PoolInv, OneActivePerKey
<1> QED
  BY <1>1, <1>8, <1>10, <1>11, <1>12 DEF PoolInv

\* Submitting keeps the invariant: the new chain is pending at the end of the
\* queue, and nothing active is evicted to make room for it.
LEMMA SubmitInv ==
    ASSUME PoolInv, NEW key \in Keys \cup {NoKey}, NEW kind \in Kinds,
           NEW total \in Nat, Submit(key, kind, total)
    PROVE  PoolInv'
<1> DEFINE c == submitted + 1
<1>1. c \in Chains /\ c \notin Accepted /\ Accepted' = Accepted \cup {c}
      /\ Accepted \subseteq Chains
  BY ConstantsAssumption DEF PoolInv, TypeOK, Submit, Chains, Accepted
<1>2. Fresh(key, kind, total) \in TaskRecord
  BY ConstantsAssumption DEF Fresh, TaskRecord, Statuses
<1>3. /\ chain' \in [Chains -> TaskRecord]
      /\ chain'[c] = Fresh(key, kind, total)
      /\ \A d \in Accepted : chain'[d] = chain[d]
  BY <1>1, <1>2 DEF PoolInv, TypeOK, Submit
<1>4. c \in kept' /\ kept' \subseteq Accepted'
      /\ \A d \in kept : Active(d) => d \in kept'
  BY <1>1, EvictsSettled DEF PoolInv, TypeOK, Submit
<1>5. /\ queue \in Seq(Accepted) /\ queue' = Append(queue, c)
      /\ queue' \in Seq(Accepted') /\ Len(queue') = Len(queue) + 1
      /\ queue'[Len(queue) + 1] = c
      /\ \A i \in 1..Len(queue) : queue'[i] = queue[i] /\ queue[i] \in Accepted
  <2>1. queue \in Seq(Accepted) /\ queue' = Append(queue, c)
    BY DEF PoolInv, TypeOK, Submit
  <2>2. queue \in Seq(Accepted')
    BY <1>1, <2>1
  <2> QED
    BY <1>1, <2>1, <2>2
<1>6. TypeOK'
  <2>1. submitted' \in 0..MaxChains /\ current' \in 0..submitted'
    BY ConstantsAssumption DEF PoolInv, TypeOK, Submit
  <2> QED
    BY <1>3, <1>4, <1>5, <2>1 DEF PoolInv, TypeOK, Submit
<1>7. current # c /\ current' = current /\ pc' = pc
  BY <1>1 DEF PoolInv, TypeOK, Submit, Accepted
<1>8. \A d \in Accepted : Active(d)' <=> Active(d)
  BY <1>3 DEF Active, Status
<1>9. HoldsChain' /\ HeldStatus'
  <2>1. pc # "idle" => current \in Accepted
    BY DEF PoolInv, TypeOK, HoldsChain, Accepted
  <2> QED
    BY <1>3, <1>7, <1>8, <2>1 DEF PoolInv, TypeOK, HoldsChain, HeldStatus
<1>10. QueueFresh'
  <2>1. \A i \in 1..Len(queue') :
           /\ chain'[queue'[i]].status = "pending" /\ ~chain'[queue'[i]].panicked
           /\ queue'[i] # current'
    BY <1>3, <1>5, <1>7 DEF PoolInv, QueueFresh, Fresh
  <2>2. \A i, j \in 1..Len(queue') : queue'[i] = queue'[j] => i = j
    BY <1>1, <1>5 DEF PoolInv, QueueFresh
  <2> QED
    BY <2>1, <2>2 DEF QueueFresh
<1>11. ActiveIsScheduled'
  <2> SUFFICES ASSUME NEW d \in Accepted', Active(d)'
               PROVE  d \in kept' /\ (d = current' \/ \E i \in 1..Len(queue') : queue'[i] = d)
    BY DEF ActiveIsScheduled
  <2>1. CASE d = c
    BY <1>4, <1>5, <2>1
  <2>2. CASE d \in Accepted
    BY <1>4, <1>5, <1>7, <1>8, <2>2 DEF PoolInv, ActiveIsScheduled
  <2> QED
    BY <1>1, <2>1, <2>2
<1>12. OneActivePerKey'
  <2>1. \A d \in Accepted : Active(d) /\ chain[d].key = key => key = NoKey
    BY DEF PoolInv, ActiveIsScheduled, Submit, FindActive
  <2>2. chain'[c].key = key
    BY <1>3 DEF Fresh
  <2> QED
    BY <1>1, <1>3, <1>8, <2>1, <2>2 DEF PoolInv, OneActivePerKey
<1> QED
  BY <1>6, <1>9, <1>10, <1>11, <1>12 DEF PoolInv

\* Marking a chain's context cancelled changes nothing the invariant reads.
LEMMA CancelInv ==
    ASSUME PoolInv, NEW c \in Accepted,
           chain' = [chain EXCEPT ![c].cancelled = TRUE],
           UNCHANGED <<submitted, kept, queue, current, pc, closing, live>>
    PROVE  PoolInv'
<1>1. Accepted \subseteq Chains /\ Accepted' = Accepted
  BY ConstantsAssumption DEF PoolInv, TypeOK, Accepted, Chains
<1>2. /\ chain' \in [Chains -> TaskRecord]
      /\ \A d \in Chains : /\ chain'[d].status = chain[d].status
                           /\ chain'[d].panicked = chain[d].panicked
                           /\ chain'[d].key = chain[d].key
  BY <1>1 DEF PoolInv, TypeOK, TaskRecord
<1>3. \A d \in Chains : Active(d)' <=> Active(d)
  BY <1>2 DEF Active, Status
<1>4. pc # "idle" => current \in Chains
  BY ConstantsAssumption DEF PoolInv, TypeOK, HoldsChain, Chains
<1>5. TypeOK' /\ HoldsChain'
  BY <1>1, <1>2 DEF PoolInv, TypeOK, HoldsChain
<1>6. HeldStatus'
  BY <1>2, <1>3, <1>4 DEF PoolInv, TypeOK, HeldStatus
<1>7. QueueFresh'
  <2>1. \A i \in 1..Len(queue) : queue[i] \in Chains
    BY <1>1 DEF PoolInv, TypeOK
  <2> QED
    BY <1>2, <2>1 DEF PoolInv, QueueFresh
<1>8. ActiveIsScheduled' /\ OneActivePerKey'
  BY <1>1, <1>2, <1>3 DEF PoolInv, ActiveIsScheduled, OneActivePerKey
<1> QED
  BY <1>5, <1>6, <1>7, <1>8 DEF PoolInv

\* Receiving the next chain hands it from the queue to the worker.
LEMMA TakeInv == ASSUME PoolInv, Take PROVE PoolInv'
<1>1. /\ queue \in Seq(Accepted) /\ queue # <<>> /\ Len(queue) > 0
      /\ current' = queue[1] /\ queue' = Tail(queue)
      /\ Len(queue') = Len(queue) - 1
      /\ \A i \in 1..Len(queue') : queue'[i] = queue[i + 1] /\ i + 1 \in 1..Len(queue)
  BY DEF PoolInv, TypeOK, Take
<1>2. current' \in Accepted /\ current' # 0 /\ Accepted' = Accepted
  BY <1>1 DEF PoolInv, TypeOK, Take, Accepted
<1>3. queue' \in Seq(Accepted')
  BY <1>1, <1>2
<1>4. TypeOK' /\ HoldsChain'
  BY <1>2, <1>3 DEF PoolInv, TypeOK, HoldsChain, Take, Accepted
<1>5. HeldStatus'
  BY <1>1 DEF PoolInv, HeldStatus, QueueFresh, Take
<1>6. QueueFresh'
  <2>1. \A i \in 1..Len(queue') : i + 1 # 1
    BY <1>1
  <2>2. \A i \in 1..Len(queue') : queue'[i] # current'
    BY <1>1, <2>1 DEF PoolInv, QueueFresh
  <2>3. \A i, j \in 1..Len(queue') : queue'[i] = queue'[j] => i + 1 = j + 1
    BY <1>1 DEF PoolInv, QueueFresh
  <2>4. \A i, j \in 1..Len(queue') : i + 1 = j + 1 => i = j
    BY <1>1
  <2> QED
    BY <1>1, <2>2, <2>3, <2>4 DEF PoolInv, QueueFresh, Take
<1>7. ActiveIsScheduled'
  <2> SUFFICES ASSUME NEW d \in Accepted, Active(d)
               PROVE  d \in kept /\ (d = current' \/ \E i \in 1..Len(queue') : queue'[i] = d)
    BY <1>2 DEF ActiveIsScheduled, Active, Status, Take
  <2>1. d \in kept /\ (d = current \/ \E i \in 1..Len(queue) : queue[i] = d)
    BY DEF PoolInv, ActiveIsScheduled
  <2>2. d # current
    BY DEF PoolInv, HoldsChain, Take, TypeOK, Accepted
  <2>3. PICK i \in 1..Len(queue) : queue[i] = d
    BY <2>1, <2>2
  <2>4. CASE i = 1
    BY <1>1, <2>1, <2>3, <2>4
  <2>5. CASE i # 1
    <3>1. i - 1 \in 1..Len(queue') /\ (i - 1) + 1 = i
      BY <1>1, <2>5
    <3> QED
      BY <1>1, <2>1, <2>3, <3>1
  <2> QED
    BY <2>4, <2>5
<1>8. OneActivePerKey'
  BY <1>2 DEF PoolInv, OneActivePerKey, Active, Status, Take
<1> QED
  BY <1>4, <1>5, <1>6, <1>7, <1>8 DEF PoolInv

\* The task returned: the worker lets go of a chain that has settled.
LEMMA DoneInv == ASSUME PoolInv, Done PROVE PoolInv'
<1>1. Accepted \subseteq Chains /\ Accepted' = Accepted
  BY ConstantsAssumption DEF PoolInv, TypeOK, Accepted, Chains, Done
<1>2. current \in Accepted /\ current # 0
  BY DEF PoolInv, TypeOK, HoldsChain, Accepted, Done
<1>3. /\ chain' \in [Chains -> TaskRecord]
      /\ \A d \in Chains : /\ chain'[d].status = chain[d].status
                           /\ chain'[d].panicked = chain[d].panicked
                           /\ chain'[d].key = chain[d].key
  BY <1>1, <1>2 DEF PoolInv, TypeOK, TaskRecord, Done
<1>4. \A d \in Chains : Active(d)' <=> Active(d)
  BY <1>3 DEF Active, Status
<1>5. TypeOK' /\ HoldsChain' /\ HeldStatus'
  BY <1>1, <1>3 DEF PoolInv, TypeOK, HoldsChain, HeldStatus, Done
<1>6. QueueFresh'
  <2>1. \A i \in 1..Len(queue) : queue[i] \in Chains
    BY <1>1 DEF PoolInv, TypeOK
  <2>2. \A c \in Chains : c # 0
    BY ConstantsAssumption DEF Chains
  <2> QED
    BY <1>3, <2>1, <2>2 DEF PoolInv, QueueFresh, Done
<1>7. ~Active(current)
  BY DEF PoolInv, HeldStatus, Done
<1>8. ActiveIsScheduled' /\ OneActivePerKey'
  BY <1>1, <1>3, <1>4, <1>7 DEF PoolInv, ActiveIsScheduled, OneActivePerKey, Done
<1> QED
  BY <1>5, <1>6, <1>8 DEF PoolInv

\* Steps that touch neither the chains nor the worker's place.
LEMMA FlagInv ==
    ASSUME PoolInv, UNCHANGED <<submitted, kept, chain, queue, current, pc>>,
           closing' \in {"open", "closed", "cancelled", "returned"},
           live' \in BOOLEAN
    PROVE  PoolInv'
  BY DEF PoolInv, TypeOK, HoldsChain, HeldStatus, QueueFresh, ActiveIsScheduled,
         OneActivePerKey, Active, Status, Accepted

\* Every step of the running task keeps the invariant.
LEMMA RunInv ==
    ASSUME PoolInv,
           \/ Start \/ ListFails \/ Check \/ Interrupt \/ Finish \/ SaveFails \/ Panic
           \/ \E n \in 0..MaxItems : List(n)
           \/ \E fails \in BOOLEAN : Tree(fails)
           \/ \E ok \in BOOLEAN : Item(ok)
    PROVE  PoolInv'
<1> USE DEF IsTerminal
<1>0. pc \notin {"idle", "done"} => chain[current] \in TaskRecord
  BY ConstantsAssumption DEF PoolInv, TypeOK, HoldsChain, Chains
<1>1. CASE Start
  <2> DEFINE task == [chain[current] EXCEPT !.status = "running"]
  <2>1. task \in TaskRecord /\ task.key = chain[current].key
        /\ task.status = "running" /\ ~task.panicked
    BY <1>0, <1>1 DEF Start, TaskRecord, Statuses, PoolInv, HeldStatus
  <2>2. PICK next \in {"list", "tree", "loop"} : TaskStep(next, task)
    BY <1>1 DEF Start
  <2> QED
    BY <1>1, <2>1, <2>2, TaskStepInv DEF Start
<1>2. CASE \E n \in 0..MaxItems : List(n)
  <2>1. PICK n \in 0..MaxItems : List(n)
    BY <1>2
  <2> DEFINE nothing == n = 0 /\ chain[current].kind # "fingerprint_sources"
             task == [chain[current] EXCEPT !.total = n,
                         !.status = IF nothing THEN "completed" ELSE @]
  <2>2. n \in Nat
    BY ConstantsAssumption
  <2>3. task \in TaskRecord /\ task.key = chain[current].key
        /\ task.panicked = chain[current].panicked
        /\ task.status = IF nothing THEN "completed" ELSE chain[current].status
    BY <1>0, <2>1, <2>2 DEF List, TaskRecord, Statuses
  <2>4. pc = "list" /\ TaskStep(IF nothing THEN "done" ELSE "loop", task)
    BY <2>1 DEF List
  <2>5. chain[current].status = "running" /\ ~chain[current].panicked
    BY <2>4 DEF PoolInv, HeldStatus
  <2> HIDE DEF task, nothing
  <2>6. CASE nothing
    <3>1. TaskStep("done", task) /\ task.status = "completed"
      BY <2>3, <2>4, <2>6
    <3> QED
      BY <2>3, <2>4, <3>1, TaskStepInv
  <2>7. CASE ~nothing
    <3>1. TaskStep("loop", task) /\ task.status = "running" /\ ~task.panicked
      BY <2>3, <2>4, <2>5, <2>7
    <3> QED
      BY <2>3, <2>4, <3>1, TaskStepInv
  <2> QED
    BY <2>6, <2>7
<1>3. ASSUME NEW st \in {"partially_completed", "completed", "failed"},
             pc \notin {"idle", "done"}, Settle(st)
      PROVE  PoolInv'
  <2> DEFINE task == [chain[current] EXCEPT !.status = st]
  <2>1. task \in TaskRecord /\ task.key = chain[current].key /\ task.status = st
    BY <1>0, <1>3 DEF TaskRecord, Statuses
  <2>2. TaskStep("done", task)
    BY <1>3 DEF Settle
  <2> HIDE DEF task
  <2> QED
    BY <1>3, <2>1, <2>2, TaskStepInv
<1>4. CASE ListFails
  BY <1>3, <1>4 DEF ListFails
<1>5. CASE Interrupt
  BY <1>3, <1>5 DEF Interrupt, InterruptedStatus
<1>6. CASE Finish
  BY <1>3, <1>6 DEF Finish, FinishStatus
<1>7. CASE SaveFails
  BY <1>3, <1>7 DEF SaveFails
<1>8. CASE Panic
  <2> DEFINE task == [chain[current] EXCEPT !.panicked = TRUE]
  <2>1. task \in TaskRecord /\ task.key = chain[current].key /\ task.panicked
    BY <1>0, <1>8 DEF TaskRecord, Panic
  <2>2. pc \in {"list", "tree", "item"} /\ TaskStep("done", task)
    BY <1>8 DEF Panic
  <2> HIDE DEF task
  <2> QED
    BY <2>1, <2>2, TaskStepInv
<1>9. CASE \E fails \in BOOLEAN : Tree(fails)
  <2>1. PICK fails \in BOOLEAN : Tree(fails)
    BY <1>9
  <2> DEFINE task == [chain[current] EXCEPT !.folderFailed = fails]
  <2>2. pc = "tree" /\ TaskStep("loop", task)
    BY <2>1 DEF Tree
  <2>3. task \in TaskRecord /\ task.key = chain[current].key
        /\ task.status = "running" /\ ~task.panicked
    BY <1>0, <2>2 DEF TaskRecord, PoolInv, HeldStatus
  <2> HIDE DEF task
  <2> QED
    BY <2>2, <2>3, TaskStepInv
<1>10. CASE Check
  <2>1. pc = "loop" /\ TaskStep("item", chain[current])
    BY <1>10 DEF Check
  <2>2. chain[current].status = "running" /\ ~chain[current].panicked
    BY <2>1 DEF PoolInv, HeldStatus
  <2> QED
    BY <1>0, <2>1, <2>2, TaskStepInv
<1>11. CASE \E ok \in BOOLEAN : Item(ok)
  <2>1. PICK ok \in BOOLEAN : Item(ok)
    BY <1>11
  <2> DEFINE task == IF ok THEN [chain[current] EXCEPT !.ok = @ + 1]
                           ELSE [chain[current] EXCEPT !.failed = @ + 1]
  <2>2. pc = "item" /\ TaskStep("loop", task)
    BY <2>1 DEF Item
  <2>3. chain[current].ok + 1 \in Nat /\ chain[current].failed + 1 \in Nat
    BY <1>0, <2>2 DEF TaskRecord
  <2>4. task \in TaskRecord /\ task.key = chain[current].key
        /\ task.status = "running" /\ ~task.panicked
    BY <1>0, <2>2, <2>3 DEF TaskRecord, PoolInv, HeldStatus
  <2> HIDE DEF task
  <2> QED
    BY <2>2, <2>4, TaskStepInv
<1> QED
  BY <1>1, <1>2, <1>4, <1>5, <1>6, <1>7, <1>8, <1>9, <1>10, <1>11

\* The invariant is inductive.
LEMMA PoolStep == PoolInv /\ [Next]_vars => PoolInv'
<1> SUFFICES ASSUME PoolInv, [Next]_vars PROVE PoolInv'
  OBVIOUS
<1>1. CASE Handlers
  <2>1. ASSUME NEW key \in Keys \cup {NoKey}, NEW kind \in Kinds,
               NEW total \in Totals(kind), Submit(key, kind, total)
        PROVE  PoolInv'
    <3>1. total \in Nat
      BY ConstantsAssumption DEF Totals
    <3> QED
      BY <2>1, <3>1, SubmitInv
  <2>2. ASSUME NEW c \in Chains, Cancel(c) PROVE PoolInv'
    <3>1. c \in Accepted
      BY <2>2 DEF Cancel, PoolInv, TypeOK
    <3> QED
      BY <2>2, <3>1, CancelInv DEF Cancel
  <2> QED
    BY <1>1, <2>1, <2>2 DEF Handlers
<1>2. CASE Work
  <2>1. CASE Exit
    <3>1. closing' = closing /\ live' = FALSE
      BY <2>1 DEF Exit
    <3> QED
      BY <2>1, <3>1, FlagInv DEF Exit, PoolInv, TypeOK
  <2> QED
    BY <1>2, <2>1, TakeInv, DoneInv, RunInv DEF Work
<1>3. CASE Close
  <2>1. live' = live
    BY <1>3 DEF Close, CloseChannel, CloseCancels, CloseReturns
  <2> QED
    BY <1>3, <2>1, FlagInv
       DEF Close, CloseChannel, CloseCancels, CloseReturns, PoolInv, TypeOK
<1>4. CASE UNCHANGED vars
  BY <1>4, FlagInv DEF vars, PoolInv, TypeOK
<1> QED
  BY <1>1, <1>2, <1>3, <1>4 DEF Next

\* PoolInv holds throughout every behaviour of the pool.
THEOREM PoolInvariant == Spec => []PoolInv
<1> QED
  BY PoolInit, PoolStep, PTL DEF Spec

\* Pool.Submit's duplicate check works: no two unfinished chains share a key,
\* for any queue length, retention, set of keys and number of submissions.
THEOREM PoolOneActivePerKey == Spec => []OneActivePerKey
<1>1. PoolInv => OneActivePerKey
  BY DEF PoolInv
<1> QED
  BY <1>1, PoolInvariant, PTL

\* evictLocked never forgets a chain the worker has yet to finish.
THEOREM PoolActiveIsScheduled == Spec => []ActiveIsScheduled
<1>1. PoolInv => ActiveIsScheduled
  BY DEF PoolInv
<1> QED
  BY <1>1, PoolInvariant, PTL

\* The pool's fields keep their types, for every value of the constants.
THEOREM PoolTypeOK == Spec => []TypeOK
<1>1. PoolInv => TypeOK
  BY DEF PoolInv
<1> QED
  BY <1>1, PoolInvariant, PTL

\* A step of the running task changes one chain, which has not settled.
LEMMA RunningIsActive ==
    ASSUME PoolInv, pc \notin {"idle", "done"}, NEW task,
           chain' = [chain EXCEPT ![current] = task], NEW c \in Accepted, ~Active(c)
    PROVE  Status(c)' = Status(c)
<1>1. Active(current)
  BY DEF PoolInv, TypeOK, HeldStatus, Active, Status, IsTerminal
<1>2. c \in Chains /\ c # current
  BY <1>1, ConstantsAssumption DEF PoolInv, TypeOK, Accepted, Chains
<1>3. chain'[c] = chain[c]
  BY <1>2 DEF PoolInv, TypeOK
<1> QED
  BY <1>3 DEF Status

\* Cancelling a chain's context does not change what its task reports.
LEMMA CancelKeepsStatus ==
    ASSUME PoolInv, NEW d, chain' = [chain EXCEPT ![d].cancelled = TRUE],
           NEW c \in Accepted
    PROVE  Status(c)' = Status(c)
<1>1. c \in Chains
  BY ConstantsAssumption DEF PoolInv, TypeOK, Accepted, Chains
<1>2. chain'[c].status = chain[c].status /\ chain'[c].panicked = chain[c].panicked
  BY <1>1 DEF PoolInv, TypeOK, TaskRecord
<1> QED
  BY <1>2 DEF Status

\* A settled chain keeps its status in every step: the worker only touches the
\* chain it holds, which is unfinished until its last step, and a submission
\* only a chain that was not there.
LEMMA SettledStep ==
    ASSUME PoolInv, Next, NEW c \in Accepted, ~Active(c)
    PROVE  Status(c)' = Status(c)
<1>1. CASE Handlers
  <2>1. ASSUME NEW key, NEW kind, NEW total, Submit(key, kind, total)
        PROVE  Status(c)' = Status(c)
    <3>1. c \in Chains /\ c # submitted + 1
      BY ConstantsAssumption DEF PoolInv, TypeOK, Accepted, Chains
    <3>2. chain'[c] = chain[c]
      BY <2>1, <3>1 DEF Submit, PoolInv, TypeOK
    <3> QED
      BY <3>2 DEF Status
  <2>2. ASSUME NEW d \in Chains, Cancel(d) PROVE Status(c)' = Status(c)
    BY <2>2, CancelKeepsStatus DEF Cancel
  <2> QED
    BY <1>1, <2>1, <2>2 DEF Handlers
<1>2. CASE Done
  BY <1>2, CancelKeepsStatus DEF Done
<1>3. CASE \/ Start \/ ListFails \/ Check \/ Interrupt \/ Finish \/ SaveFails \/ Panic
           \/ \E n \in 0..MaxItems : List(n)
           \/ \E fails \in BOOLEAN : Tree(fails)
           \/ \E ok \in BOOLEAN : Item(ok)
  <2>1. pc \notin {"idle", "done"}
    BY <1>3 DEF Start, ListFails, Check, Interrupt, Finish, SaveFails, Panic, List,
                Tree, Item
  <2>2. \E task : chain' = [chain EXCEPT ![current] = task]
    BY <1>3 DEF Start, ListFails, Check, Interrupt, Finish, SaveFails, Panic, List,
                Tree, Item, Settle, TaskStep
  <2> QED
    BY <2>1, <2>2, RunningIsActive
<1>4. CASE Take \/ Exit \/ Close
  <2>1. chain' = chain
    BY <1>4 DEF Take, Exit, Close, CloseChannel, CloseCancels, CloseReturns
  <2> QED
    BY <2>1 DEF Status
<1> QED
  BY <1>1, <1>2, <1>3, <1>4 DEF Next, Work

\* What a client was told of a finished chain stays true: neither Cancel, nor
\* Close, nor the worker's own clean-up changes the status of a settled chain.
THEOREM PoolSettledStays == Spec => SettledStays
<1>1. PoolInv /\ [Next]_vars =>
        [\A c \in Accepted : ~Active(c) => Status(c)' = Status(c)]_vars
  BY SettledStep
<1> QED
  BY <1>1, PoolInvariant, PTL DEF Spec, SettledStays

\* The goroutine has returned only after the channel was closed and drained, and
\* Close returns only after the goroutine has.
Drained ==
    /\ ~live => pc = "idle" /\ queue = <<>> /\ closing # "open"
    /\ closing = "returned" => ~live

\* No submission, and no other step, gives a returned worker a chain.
LEMMA DrainedStep == PoolInv /\ Drained /\ [Next]_vars => Drained'
<1> SUFFICES ASSUME PoolInv, Drained, [Next]_vars PROVE Drained'
  OBVIOUS
<1> USE DEF Drained
<1>1. CASE Handlers
  BY <1>1 DEF Handlers, Submit, Cancel
<1>2. CASE Work
  BY <1>2 DEF Work, Take, Done, Exit, Start, ListFails, Check, Interrupt, Finish,
              SaveFails, Panic, List, Tree, Item, Settle, TaskStep, PoolInv, TypeOK
<1>3. CASE Close
  BY <1>3 DEF Close, CloseChannel, CloseCancels, CloseReturns
<1>4. CASE UNCHANGED vars
  BY <1>4 DEF vars
<1> QED
  BY <1>1, <1>2, <1>3, <1>4 DEF Next

\* When Worker.Close has returned no task is running or will run, so that the
\* shelves can be closed behind it.
THEOREM PoolClosedMeansIdle == Spec => []ClosedMeansIdle
<1>1. Init => Drained
  BY DEF Init, Drained
<1>2. PoolInv /\ Drained => ClosedMeansIdle
  BY DEF PoolInv, Drained, ClosedMeansIdle, ActiveIsScheduled, HoldsChain, TypeOK,
         Accepted
<1> QED
  BY <1>1, <1>2, PoolInvariant, DrainedStep, PTL DEF Spec

-----------------------------------------------------------------------------
(* What a task reports of itself.                                          *)

\* A task that has not settled, or has settled honestly: `task` is one chain's record.
Honest(task) ==
    /\ task.status = "pending" => task.ok = 0 /\ task.failed = 0 /\ ~task.folderFailed
    /\ task.status = "completed" /\ ~task.panicked =>
          task.failed = 0 /\ ~task.folderFailed /\ task.ok = task.total
    /\ task.status = "failed" /\ task.kind \in PlannedKinds /\ ~task.panicked => task.ok = 0

\* Before its first book a task has counted nothing, and only a listing task lists.
HeldCount ==
    /\ pc = "list" => chain[current].kind \in ListingKinds
    /\ pc \in {"list", "tree"} =>
          chain[current].ok = 0 /\ chain[current].failed = 0 /\ ~chain[current].folderFailed

HonestInv == HeldCount /\ \A c \in Chains : Honest(chain[c])

LEMMA AllHonest == PoolInv /\ HonestInv => HonestStatus
<1>1. PoolInv => Accepted \subseteq Chains
  BY ConstantsAssumption DEF PoolInv, TypeOK, Accepted, Chains
<1> QED
  BY <1>1 DEF HonestInv, Honest, HonestStatus, Status

\* A step of the running task is honest if what it leaves is.
LEMMA TaskStepHonest ==
    ASSUME PoolInv, HonestInv, pc \notin {"idle", "done"}, NEW next, NEW task,
           TaskStep(next, task), Honest(task),
           next = "list" => task.kind \in ListingKinds,
           next \in {"list", "tree"} => task.ok = 0 /\ task.failed = 0 /\ ~task.folderFailed
    PROVE  HonestInv'
<1>1. current \in Chains /\ current' = current /\ pc' = next
  BY ConstantsAssumption DEF PoolInv, TypeOK, HoldsChain, Chains, TaskStep
<1>2. /\ chain'[current] = task
      /\ \A c \in Chains : c # current => chain'[c] = chain[c]
  BY <1>1 DEF PoolInv, TypeOK, TaskStep
<1> HIDE DEF Honest
<1> QED
  BY <1>1, <1>2 DEF HonestInv, HeldCount

LEMMA RunHonest ==
    ASSUME PoolInv, HonestInv,
           \/ Start \/ ListFails \/ Check \/ Interrupt \/ Finish \/ SaveFails \/ Panic
           \/ \E n \in 0..MaxItems : List(n)
           \/ \E fails \in BOOLEAN : Tree(fails)
           \/ \E ok \in BOOLEAN : Item(ok)
    PROVE  HonestInv'
<1> DEFINE held == chain[current]
<1>0. /\ pc \notin {"idle", "done"} => held \in TaskRecord /\ Honest(held)
      /\ pc = "start" => held.status = "pending" /\ ~held.panicked
      /\ pc \in {"list", "tree", "loop", "item"} => held.status = "running" /\ ~held.panicked
  BY ConstantsAssumption DEF PoolInv, TypeOK, HoldsChain, HeldStatus, Chains, HonestInv
<1>1. CASE Start
  <2> DEFINE task == [held EXCEPT !.status = "running"]
  <2>1. pc = "start" /\ held \in TaskRecord /\ Honest(held) /\ held.status = "pending"
    BY <1>0, <1>1 DEF Start
  <2>2. /\ task.status = "running" /\ task.ok = held.ok /\ task.failed = held.failed
        /\ task.folderFailed = held.folderFailed /\ task.kind = held.kind
    BY <2>1 DEF TaskRecord
  <2>3. PICK next : TaskStep(next, task) /\ (next = "list" => held.kind \in ListingKinds)
    BY <1>1 DEF Start
  <2> HIDE DEF task
  <2>4. Honest(task) /\ task.ok = 0 /\ task.failed = 0 /\ ~task.folderFailed
    BY <2>1, <2>2 DEF Honest
  <2> QED
    BY <2>1, <2>2, <2>3, <2>4, TaskStepHonest
<1>2. ASSUME NEW n \in 0..MaxItems, List(n) PROVE HonestInv'
  <2> DEFINE nothing == n = 0 /\ held.kind # "fingerprint_sources"
             task == [held EXCEPT !.total = n, !.status = IF nothing THEN "completed" ELSE @]
  <2>a. pc = "list"
    BY <1>2 DEF List
  <2>b. n \in Nat
    BY ConstantsAssumption
  <2>0. pc = "list" /\ n \in Nat
    BY <2>a, <2>b
  <2>1. /\ held \in TaskRecord /\ held.status = "running"
        /\ held.ok = 0 /\ held.failed = 0 /\ ~held.folderFailed
    BY <1>0, <2>0 DEF HonestInv, HeldCount
  <2>2. /\ task.status = (IF nothing THEN "completed" ELSE "running") /\ task.ok = held.ok
        /\ task.failed = held.failed /\ task.folderFailed = held.folderFailed
        /\ task.total = n
    BY <2>0, <2>1 DEF TaskRecord
  <2>3. TaskStep(IF nothing THEN "done" ELSE "loop", task)
    BY <1>2 DEF List
  <2> HIDE DEF task
  <2>4. Honest(task)
    BY <2>0, <2>1, <2>2 DEF Honest
  <2> HIDE DEF nothing
  <2> QED
    BY <2>0, <2>1, <2>3, <2>4, TaskStepHonest
<1>3. ASSUME NEW st \in {"partially_completed", "completed", "failed"}, pc \notin {"idle", "done"},
             st = "completed" => held.failed = 0 /\ ~held.folderFailed /\ held.ok = held.total,
             st = "failed" /\ held.kind \in PlannedKinds => held.ok = 0, Settle(st)
      PROVE  HonestInv'
  <2> DEFINE task == [held EXCEPT !.status = st]
  <2>1. /\ task.status = st /\ task.ok = held.ok /\ task.failed = held.failed
        /\ task.folderFailed = held.folderFailed /\ task.total = held.total
        /\ task.kind = held.kind
    BY <1>0, <1>3 DEF TaskRecord
  <2>2. TaskStep("done", task)
    BY <1>3 DEF Settle
  <2> HIDE DEF task
  <2>3. Honest(task)
    BY <1>3, <2>1 DEF Honest
  <2> QED
    BY <1>3, <2>2, <2>3, TaskStepHonest
<1>4. CASE ListFails
  <2>1. pc = "list" /\ Settle("failed") /\ held.ok = 0
    BY <1>4 DEF ListFails, HonestInv, HeldCount
  <2> QED
    BY <1>3, <2>1
<1>5. CASE Interrupt
  <2>1. /\ pc \in {"tree", "loop"} /\ Settle(InterruptedStatus(current))
        /\ held.ok \in Nat /\ held.failed \in Nat
    BY <1>0, <1>5 DEF Interrupt, TaskRecord
  <2>2. /\ InterruptedStatus(current) \in {"partially_completed", "failed"}
        /\ InterruptedStatus(current) = "failed" => held.ok = 0
    BY <2>1 DEF InterruptedStatus, Processed
  <2> QED
    BY <1>3, <2>1, <2>2
<1>6. CASE Finish
  <2>1. /\ pc = "loop" /\ Settle(FinishStatus(current)) /\ held.ok + held.failed = held.total
        /\ held.ok \in Nat /\ held.failed \in Nat
    BY <1>0, <1>6 DEF Finish, TaskRecord, Processed
  <2>2. /\ FinishStatus(current) \in {"partially_completed", "completed", "failed"}
        /\ FinishStatus(current) = "completed" =>
              held.failed = 0 /\ ~held.folderFailed /\ held.ok = held.total
        /\ FinishStatus(current) = "failed" => held.ok = 0
    BY <2>1 DEF FinishStatus
  <2> QED
    BY <1>3, <2>1, <2>2
<1>7. CASE SaveFails
  <2>1. pc = "loop" /\ Settle("failed") /\ held.kind \notin PlannedKinds
    BY <1>7 DEF SaveFails, PlannedKinds
  <2> QED
    BY <1>3, <2>1
<1>8. CASE Panic
  <2> DEFINE task == [held EXCEPT !.panicked = TRUE]
  <2>1. pc \in {"list", "tree", "item"} /\ TaskStep("done", task)
    BY <1>8 DEF Panic
  <2>2. task.panicked /\ task.status = "running"
    BY <1>0, <2>1 DEF TaskRecord
  <2> HIDE DEF task
  <2>3. Honest(task)
    BY <2>2 DEF Honest
  <2> QED
    BY <2>1, <2>3, TaskStepHonest
<1>9. ASSUME NEW fails \in BOOLEAN, Tree(fails) PROVE HonestInv'
  <2> DEFINE task == [held EXCEPT !.folderFailed = fails]
  <2>1. pc = "tree" /\ TaskStep("loop", task)
    BY <1>9 DEF Tree
  <2>2. task.status = "running"
    BY <1>0, <2>1 DEF TaskRecord
  <2> HIDE DEF task
  <2>3. Honest(task)
    BY <2>2 DEF Honest
  <2> QED
    BY <2>1, <2>3, TaskStepHonest
<1>10. CASE Check
  BY <1>0, <1>10, TaskStepHonest DEF Check
<1>11. ASSUME NEW ok \in BOOLEAN, Item(ok) PROVE HonestInv'
  <2> DEFINE task == IF ok THEN [held EXCEPT !.ok = @ + 1] ELSE [held EXCEPT !.failed = @ + 1]
  <2>1. pc = "item" /\ TaskStep("loop", task)
    BY <1>11 DEF Item
  <2>2. task.status = "running"
    BY <1>0, <2>1 DEF TaskRecord
  <2> HIDE DEF task
  <2>3. Honest(task)
    BY <2>2 DEF Honest
  <2> QED
    BY <2>1, <2>3, TaskStepHonest
<1> QED
  BY <1>1, <1>2, <1>4, <1>5, <1>6, <1>7, <1>8, <1>9, <1>10, <1>11

LEMMA HonestStep == PoolInv /\ HonestInv /\ [Next]_vars => HonestInv'
<1> SUFFICES ASSUME PoolInv, HonestInv, [Next]_vars PROVE HonestInv'
  OBVIOUS
<1>1. ASSUME NEW key, NEW kind, NEW total, Submit(key, kind, total) PROVE HonestInv'
  <2>1. /\ \A c \in Chains : c # submitted + 1 => chain'[c] = chain[c]
        /\ submitted + 1 \in Chains => chain'[submitted + 1] = Fresh(key, kind, total)
        /\ pc' = pc /\ current' = current
    BY <1>1 DEF Submit, PoolInv, TypeOK
  <2>2. Honest(Fresh(key, kind, total))
    BY DEF Honest, Fresh
  <2>3. pc # "idle" => current \in Chains /\ current # submitted + 1
    BY ConstantsAssumption DEF PoolInv, TypeOK, HoldsChain, Chains
  <2> HIDE DEF Honest
  <2> QED
    BY <2>1, <2>2, <2>3 DEF HonestInv, HeldCount
<1>2. ASSUME NEW d \in Chains, chain' = [chain EXCEPT ![d].cancelled = TRUE],
             pc' \in {pc, "idle"}, pc' # "idle" => current' = current
      PROVE  HonestInv'
  <2>1. \A c \in Chains :
           /\ chain'[c].status = chain[c].status /\ chain'[c].panicked = chain[c].panicked
           /\ chain'[c].ok = chain[c].ok /\ chain'[c].failed = chain[c].failed
           /\ chain'[c].folderFailed = chain[c].folderFailed
           /\ chain'[c].total = chain[c].total /\ chain'[c].kind = chain[c].kind
    BY <1>2 DEF PoolInv, TypeOK, TaskRecord
  <2>2. pc # "idle" => current \in Chains
    BY ConstantsAssumption DEF PoolInv, TypeOK, HoldsChain, Chains
  <2>3. \A c \in Chains : Honest(chain[c])'
    BY <2>1 DEF HonestInv, Honest
  <2>4. HeldCount'
    BY <1>2, <2>1, <2>2 DEF HonestInv, HeldCount
  <2> QED
    BY <2>3, <2>4 DEF HonestInv
<1>3. CASE Done
  <2>1. current \in Chains
    BY <1>3, ConstantsAssumption DEF Done, PoolInv, TypeOK, HoldsChain, Chains
  <2> QED
    BY <1>2, <1>3, <2>1 DEF Done
<1>4. ASSUME NEW c \in Chains, Cancel(c) PROVE HonestInv'
  BY <1>2, <1>4 DEF Cancel
<1>5. CASE Take
  BY <1>5 DEF Take, HonestInv, HeldCount
<1>6. CASE Exit \/ Close \/ UNCHANGED vars
  BY <1>6 DEF Exit, Close, CloseChannel, CloseCancels, CloseReturns, vars, HonestInv, HeldCount
<1> QED
  BY <1>1, <1>3, <1>4, <1>5, <1>6, RunHonest DEF Next, Handlers, Work

\* A finished task tells the truth: completed means that every book was done, and a
\* planned task that failed changed none (finishStatus, interruptedStatus, runTask).
THEOREM PoolHonestStatus == Spec => []HonestStatus
<1>1. Init => HonestInv
  BY DEF Init, HonestInv, HeldCount, Honest, Blank, Fresh
<1> QED
  BY <1>1, AllHonest, PoolInvariant, HonestStep, PTL DEF Spec
-----------------------------------------------------------------------------
(* The pool's memory.                                                      *)

\* The channel never holds more than its capacity, and a chain not yet submitted
\* is not mistaken for a settled one.
RetentionInv ==
    /\ Len(queue) <= MaxLen
    /\ \A c \in Chains \ Accepted : chain[c].status = "pending" /\ ~chain[c].panicked
    /\ RetentionBound

\* A non-empty set of numbers has a least one.
LEMMA LeastOf ==
    ASSUME NEW T, T \subseteq Nat, T # {} PROVE \E x \in T : \A y \in T : x <= y
<1> DEFINE R == OpToRel(<, Nat)
<1>1. IsWellFoundedOn(R, Nat)
  BY NatLessThanWellFounded
<1> HIDE DEF R
<1>2. PICK x \in T : \A y \in T : ~(<<y, x>> \in R)
  BY <1>1, WFMin
<1>3. \A y \in T : ~(y < x)
  BY <1>2 DEF R, OpToRel
<1> QED
  BY <1>3

\* evictLocked takes every settled chain or as many as it was asked for: those
\* it takes are the oldest, so the first it leaves tells how many came before.
LEMMA OldestTaken ==
    ASSUME NEW settled, settled \subseteq Nat, IsFiniteSet(settled), NEW surplus \in Int,
           NEW taken,
           taken = {c \in settled : Cardinality({d \in settled : d <= c}) <= surplus}
    PROVE  taken = settled \/ Cardinality(taken) >= surplus
<1> DEFINE UpTo(c) == {d \in settled : d <= c}
<1> SUFFICES ASSUME taken # settled PROVE Cardinality(taken) >= surplus
  OBVIOUS
<1>1. taken \subseteq settled /\ settled \ taken # {} /\ settled \ taken \subseteq Nat
  OBVIOUS
<1>2. PICK first \in settled \ taken : \A y \in settled \ taken : first <= y
  BY <1>1, LeastOf
<1>3. \A c : IsFiniteSet(UpTo(c)) /\ Cardinality(UpTo(c)) \in Nat
  <2> TAKE c
  <2>1. UpTo(c) \in SUBSET settled
    OBVIOUS
  <2> QED
    BY <2>1, FS_Subset, FS_CardinalityType
<1>4. ASSUME NEW c \in taken PROVE c <= first
  <2> SUFFICES ASSUME first <= c PROVE FALSE
    BY <1>1, <1>2
  <2>1. UpTo(first) \in SUBSET UpTo(c)
    <3>1. first \in Nat /\ c \in Nat /\ \A d \in settled : d \in Nat
      BY <1>1, <1>2
    <3>2. \A d \in settled : d <= first => d <= c
      BY <3>1
    <3> QED
      BY <3>2
  <2>2. Cardinality(UpTo(first)) <= Cardinality(UpTo(c))
    BY <2>1, <1>3, FS_Subset
  <2>3. Cardinality(UpTo(c)) <= surplus /\ ~(Cardinality(UpTo(first)) <= surplus)
    BY <1>2
  <2> HIDE DEF UpTo
  <2> QED
    BY <1>3, <2>2, <2>3
<1>5. UpTo(first) = taken \cup {first} /\ first \notin taken
  <2>1. first \in settled /\ first \in Nat /\ first \notin taken
    BY <1>1, <1>2
  <2>2. \A d \in settled : d \in Nat
    OBVIOUS
  <2>3. \A d \in settled : d <= first => d \in taken \/ d = first
    BY <1>2, <2>1, <2>2
  <2>4. \A d \in taken : d \in settled /\ d <= first
    BY <1>1, <1>4
  <2>5. first <= first
    BY <2>1
  <2>6. \A d : d \in UpTo(first) <=> d \in taken \cup {first}
    BY <2>1, <2>3, <2>4, <2>5
  <2> QED
    BY <2>1, <2>6
<1>6. IsFiniteSet(taken) /\ Cardinality(taken) \in Nat
  BY <1>1, FS_Subset, FS_CardinalityType
<1>7. Cardinality(UpTo(first)) = Cardinality(taken) + 1
  BY <1>5, <1>6, FS_AddElement
<1>8. ~(Cardinality(UpTo(first)) <= surplus)
  BY <1>2
<1> HIDE DEF UpTo
<1> QED
  BY <1>6, <1>7, <1>8

\* What waits or runs is never more than the channel holds and one chain beside.
LEMMA ScheduledBound ==
    ASSUME NEW q, Len(q) \in Nat, Len(q) <= MaxLen, NEW cur, NEW ids,
           \A c \in ids : c = cur \/ \E i \in 1..Len(q) : q[i] = c
    PROVE  IsFiniteSet(ids) /\ Cardinality(ids) <= MaxLen + 1
<1> DEFINE place == [i \in 0..Len(q) |-> IF i = 0 THEN cur ELSE q[i]]
           there == {place[i] : i \in 0..Len(q)}
<1>1. Len(q) \in Nat /\ MaxLen \in Nat
  BY ConstantsAssumption
<1>2. place \in Surjection(0..Len(q), there)
  BY DEF Surjection
<1>3. /\ IsFiniteSet(0..Len(q))
      /\ Cardinality(0..Len(q)) = Len(q) + 1
  BY <1>1, FS_Interval
<1>4. IsFiniteSet(there) /\ Cardinality(there) <= Len(q) + 1
  <2> HIDE DEF place, there
  <2> QED
    BY <1>2, <1>3, FS_Surjection
<1>5. ids \in SUBSET there
  <2> SUFFICES ASSUME NEW c \in ids PROVE c \in there
    OBVIOUS
  <2>1. c = cur \/ \E i \in 1..Len(q) : q[i] = c
    OBVIOUS
  <2>2. CASE c = cur
    <3>1. 0 \in 0..Len(q) /\ place[0] = c
      BY <1>1, <2>2
    <3> HIDE DEF place
    <3> QED
      BY <3>1
  <2>3. ASSUME NEW i \in 1..Len(q), q[i] = c PROVE c \in there
    <3>1. i \in 0..Len(q) /\ place[i] = c
      BY <1>1, <2>3
    <3> HIDE DEF place
    <3> QED
      BY <3>1
  <2> QED
    BY <2>1, <2>2, <2>3
<1>6. IsFiniteSet(ids) /\ Cardinality(ids) <= Cardinality(there)
  BY <1>4, <1>5, FS_Subset
<1>7. Cardinality(ids) \in Nat /\ Cardinality(there) \in Nat
  BY <1>4, <1>6, FS_CardinalityType
<1> HIDE DEF there
<1> QED
  BY <1>1, <1>4, <1>6, <1>7

\* Submitting: either everything settled was evicted, and what is left is
\* scheduled, or as many were evicted as there were chains too many.
LEMMA SubmitRetention ==
    ASSUME PoolInv, RetentionInv, PoolInv', NEW key \in Keys \cup {NoKey},
           NEW kind \in Kinds, NEW total \in Nat, Submit(key, kind, total)
    PROVE  RetentionInv'
<1> DEFINE c == submitted + 1
           ids == kept \cup {c}
           settled == {d \in ids : ~Active(d)}
           taken == Evict(ids)
           surplus == Cardinality(ids) - MaxKeep
<1>1. c \in Chains /\ c \notin Accepted /\ Accepted' = Accepted \cup {c}
      /\ Accepted \subseteq Chains /\ Chains \subseteq Nat /\ submitted' = c
  BY ConstantsAssumption DEF PoolInv, TypeOK, Submit, Chains, Accepted
<1>2. /\ \A d \in Chains : d # c => chain'[d] = chain[d]
      /\ chain'[c].status = "pending" /\ ~chain'[c].panicked
  BY <1>1 DEF PoolInv, TypeOK, Submit, Fresh
<1>3. Active(c)
  BY <1>1 DEF RetentionInv, Active, Status, IsTerminal
<1>4. IsFiniteSet(ids) /\ Cardinality(ids) \in Nat /\ ids \subseteq Chains
      /\ ids \subseteq Accepted'
  <2>1. ids \subseteq Chains /\ ids \subseteq Accepted'
    BY <1>1 DEF PoolInv, TypeOK
  <2>2. IsFiniteSet(Chains)
    BY FS_Interval, ConstantsAssumption DEF Chains
  <2> HIDE DEF ids
  <2> QED
    BY <2>1, <2>2, FS_Subset, FS_CardinalityType
<1>5. Len(queue') <= MaxLen
  <2>1. queue \in Seq(Accepted) /\ queue' = Append(queue, c) /\ Len(queue) < MaxLen
    BY DEF PoolInv, TypeOK, Submit
  <2> QED
    BY <2>1, ConstantsAssumption
<1>6. kept' = ids \ taken
  BY <1>3, EvictsSettled DEF Submit
<1>7. taken = {d \in settled : Cardinality({e \in settled : e <= d}) <= surplus}
  BY DEF Evict
<1>8. settled \in SUBSET ids /\ settled \subseteq Nat /\ IsFiniteSet(settled)
  <2>1. settled \in SUBSET ids
    OBVIOUS
  <2> HIDE DEF settled, ids
  <2> QED
    BY <1>1, <1>4, <2>1, FS_Subset
<1>9. surplus \in Int /\ MaxKeep \in Nat /\ MaxLen \in Nat
  BY <1>4, ConstantsAssumption
<1>10. taken = settled \/ Cardinality(taken) >= surplus
  <2> HIDE DEF settled, taken, surplus, ids
  <2> QED
    BY <1>7, <1>8, <1>9, OldestTaken
<1>11. ASSUME taken = settled PROVE RetentionBound'
  <2>1. \A d \in kept' : Active(d)' /\ d \in Accepted'
    BY <1>1, <1>2, <1>3, <1>4, <1>6, <1>11 DEF Active, Status, IsTerminal
  <2>2. Cardinality(kept') <= MaxLen + 1 /\ IsFiniteSet(kept')
    <3>1. \A d \in kept' : d = current' \/ \E i \in 1..Len(queue') : queue'[i] = d
      BY <2>1 DEF PoolInv, ActiveIsScheduled
    <3>2. Len(queue') \in Nat
      BY DEF PoolInv, TypeOK
    <3> QED
      BY <1>5, <3>1, <3>2, ScheduledBound
  <2>3. Cardinality(kept') \in Nat
    BY <2>2, FS_CardinalityType
  <2> QED
    BY <1>9, <2>2, <2>3 DEF RetentionBound
<1>12. ASSUME Cardinality(taken) >= surplus PROVE RetentionBound'
  <2>1. taken \in SUBSET ids
    BY EvictsSettled
  <2>2. ids \cap taken = taken
    BY <2>1
  <2> HIDE DEF ids, taken
  <2>3. IsFiniteSet(taken) /\ Cardinality(taken) \in Nat
    BY <1>4, <2>1, FS_Subset, FS_CardinalityType
  <2>4. Cardinality(kept') = Cardinality(ids) - Cardinality(taken)
    <3>1. Cardinality(ids \ taken) = Cardinality(ids) - Cardinality(ids \cap taken)
      BY <1>4, FS_Difference
    <3> QED
      BY <1>6, <2>2, <3>1
  <2>5. Cardinality(kept') <= MaxKeep /\ Cardinality(kept') \in Int
    BY <1>4, <1>9, <1>12, <2>3, <2>4
  <2> QED
    BY <1>9, <2>5 DEF RetentionBound
<1>13. \A d \in Chains \ Accepted' : chain'[d].status = "pending" /\ ~chain'[d].panicked
  BY <1>1, <1>2 DEF RetentionInv
<1> QED
  BY <1>5, <1>10, <1>11, <1>12, <1>13 DEF RetentionInv

LEMMA RetentionStep == PoolInv /\ RetentionInv /\ [Next]_vars => RetentionInv'
<1> SUFFICES ASSUME PoolInv, RetentionInv, [Next]_vars PROVE RetentionInv'
  OBVIOUS
<1>1. ASSUME NEW key \in Keys \cup {NoKey}, NEW kind \in Kinds,
             NEW total \in Totals(kind), Submit(key, kind, total)
      PROVE  RetentionInv'
  <2>1. total \in Nat
    BY ConstantsAssumption DEF Totals
  <2>2. PoolInv'
    BY PoolStep
  <2> QED
    BY <1>1, <2>1, <2>2, SubmitRetention
<1>2. ASSUME submitted' = submitted, kept' = kept,
             queue' = queue \/ (queue # <<>> /\ queue' = Tail(queue)),
             \/ chain' = chain
             \/ \E d \in Accepted : \E task : chain' = [chain EXCEPT ![d] = task]
      PROVE  RetentionInv'
  <2>1. Accepted' = Accepted /\ RetentionBound'
    BY <1>2 DEF Accepted, RetentionBound, RetentionInv
  <2>2. Len(queue') <= MaxLen
    <3>1. queue \in Seq(Accepted) /\ Len(queue) <= MaxLen /\ MaxLen \in Nat
      BY ConstantsAssumption DEF PoolInv, TypeOK, RetentionInv
    <3> QED
      BY <1>2, <3>1
  <2>3. \A c \in Chains \ Accepted : chain'[c] = chain[c]
    BY <1>2 DEF PoolInv, TypeOK
  <2> QED
    BY <2>1, <2>2, <2>3 DEF RetentionInv
<1>3. ASSUME NEW c \in Chains, Cancel(c) PROVE RetentionInv'
  <2>1. c \in Accepted
    BY <1>3 DEF Cancel, PoolInv, TypeOK
  <2>2. chain' = [chain EXCEPT ![c] = [chain[c] EXCEPT !.cancelled = TRUE]]
    BY <1>3 DEF Cancel
  <2>3. submitted' = submitted /\ kept' = kept /\ queue' = queue
    BY <1>3 DEF Cancel
  <2> QED
    BY <1>2, <2>1, <2>2, <2>3
<1>4. CASE Take
  BY <1>2, <1>4 DEF Take
<1>5. CASE Done
  <2>1. current \in Accepted
    BY <1>5 DEF Done, PoolInv, TypeOK, HoldsChain, Accepted
  <2>2. chain' = [chain EXCEPT ![current] = [chain[current] EXCEPT !.cancelled = TRUE]]
    BY <1>5 DEF Done
  <2>3. submitted' = submitted /\ kept' = kept /\ queue' = queue
    BY <1>5 DEF Done
  <2> QED
    BY <1>2, <2>1, <2>2, <2>3
<1>6. CASE Exit \/ Close \/ UNCHANGED vars
  BY <1>2, <1>6 DEF Exit, Close, CloseChannel, CloseCancels, CloseReturns, vars
<1>7. ASSUME NEW next, NEW task, pc # "idle", TaskStep(next, task) PROVE RetentionInv'
  <2>1. current \in Accepted
    BY <1>7 DEF PoolInv, TypeOK, HoldsChain, Accepted
  <2> QED
    BY <1>2, <1>7, <2>1 DEF TaskStep
<1>8. CASE \/ Start \/ ListFails \/ Check \/ Interrupt \/ Finish \/ SaveFails \/ Panic
           \/ \E n \in 0..MaxItems : List(n)
           \/ \E fails \in BOOLEAN : Tree(fails)
           \/ \E ok \in BOOLEAN : Item(ok)
  <2>1. pc # "idle" /\ \E next, task : TaskStep(next, task)
    BY <1>8 DEF Start, ListFails, Check, Interrupt, Finish, SaveFails, Panic, List, Tree,
                Item, Settle
  <2> QED
    BY <1>7, <2>1
<1> QED
  BY <1>1, <1>3, <1>4, <1>5, <1>6, <1>8 DEF Next, Handlers, Work

\* The pool never remembers more chains than maxKeep, or than can be waiting and
\* running at once if that is more: evictLocked stopping early at chains that
\* have not settled does not let order and byID grow without bound.
THEOREM PoolRetentionBound == Spec => []RetentionBound
<1>1. Init => RetentionInv
  <2> SUFFICES ASSUME Init PROVE RetentionInv
    OBVIOUS
  <2>1. Cardinality({}) = 0
    BY FS_EmptySet
  <2> QED
    BY <2>1, ConstantsAssumption DEF Init, RetentionInv, RetentionBound, Blank, Fresh, Chains
<1>2. RetentionInv => RetentionBound
  BY DEF RetentionInv
<1> QED
  BY <1>1, <1>2, PoolInvariant, RetentionStep, PTL DEF Spec
=============================================================================
