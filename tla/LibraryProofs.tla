--------------------------- MODULE LibraryProofs ---------------------------
(***************************************************************************)
(* What surrounds the books of a shelf, for every value of the constants:  *)
(* the reading records (ReadingRecords and the store it implements), books *)
(* that move to another shelf (Transfer), the shelves of the mobile and of *)
(* the desktop app, and offline copies (Offline).                          *)
(***************************************************************************)
EXTENDS MCLibrary, FiniteSetTheorems, WellFoundedInduction, TLAPS

-----------------------------------------------------------------------------
(* ReadingRecords.                                                         *)

Places == {"idle", "lock", "read", "write", "unlock"}

\* A call has the fields of Idle.
IsCall(v) ==
    /\ v = [pc |-> v.pc, op |-> v.op, next |-> v.next, adds |-> v.adds]
    /\ v.pc \in Places
    /\ v.adds \in BOOLEAN
    /\ v.pc \in {"lock", "read", "write"} => v.op \in AllOperations

\* What a call is about to write was computed from the file as it still is, with the
\* shelves and the date of a moment that has been.
Computed(v) ==
    \E t \in 1..today, h \in [Books -> Shelves \cup {None}] :
        /\ \A b \in Books : h[b] \in {None, home[b]}
        /\ v.next = ApplyTo(v.op, file, h, t)

RecordsInv ==
    /\ kind \in Kinds /\ today \in Nat \ {0}
    /\ home \in [Books -> Shelves \cup {None}]
    /\ staged \in [Apps -> [Scopes -> [Books -> Entries \cup {NoEntry}]]]
    /\ call = [c \in Callers |-> call[c]]
    /\ \A c \in Callers :
          /\ IsCall(call[c])
          /\ call[c].pc \in {"read", "write", "unlock"} => lock = c
          /\ call[c].pc = "write" => Computed(call[c])

LEMMA RecordsInitial == Init => RecordsInv
<1> SUFFICES ASSUME Init PROVE RecordsInv
  OBVIOUS
<1>1. IsCall(Idle)
  BY DEF IsCall, Idle, Places
<1> QED
  BY <1>1 DEF Init, RecordsInv, Idle, NoStage

\* A step of one call that leaves the file alone.
LEMMA CallStep ==
    ASSUME RecordsInv, NEW c \in Callers, NEW v, IsCall(v),
           call' = [call EXCEPT ![c] = v],
           v.pc \in {"read", "write", "unlock"} => lock' = c,
           \A d \in Callers \ {c} : lock = d => lock' = d,
           v.pc = "write" => Computed(v),
           UNCHANGED <<world, file>>,
           staged' \in [Apps -> [Scopes -> [Books -> Entries \cup {NoEntry}]]]
    PROVE  RecordsInv'
<1>1. /\ call' = [d \in Callers |-> call'[d]] /\ call'[c] = v
      /\ \A d \in Callers \ {c} : call'[d] = call[d]
  BY DEF RecordsInv
<1>2. \A x : Computed(x)' <=> Computed(x)
  BY DEF Computed, world
<1> HIDE DEF Computed, IsCall
<1>3. \A d \in Callers : d # c /\ lock = d => lock' = d
  OBVIOUS
<1> QED
  BY <1>1, <1>2, <1>3 DEF RecordsInv, world

\* One(s, b, e) is a document to merge.
LEMMA OneTyped ==
    ASSUME NEW s \in Scopes, NEW b \in Books, NEW e \in Entries
    PROVE  One(s, b, e) \in [Scopes -> [Books -> Entries \cup {NoEntry}]]
  BY DEF One, NoStage

LEMMA OperationsKnown ==
    ASSUME RecordsInv, NEW c \in Callers, NEW o \in Operations(AppOf[c])
    PROVE  o \in AllOperations
<1>0. AppOf[c] \in Apps /\ Followed \subseteq Books
  BY RecordsAssumption
<1>1. CASE kind = "progress"
  <2>1. PICK s \in Scopes, b \in Followed, e \in Entries :
            o = [do |-> "merge", write |-> One(s, b, e)]
    BY <1>1 DEF Operations
  <2>2. One(s, b, e) \in [Scopes -> [Books -> Entries \cup {NoEntry}]]
    BY <1>0, OneTyped
  <2> QED
    BY <2>1, <2>2 DEF AllOperations
<1>2. CASE kind = "stats"
  <2>1. PICK k \in Shelves \cup ({Reader} \X Books), d \in Days :
            o = [do |-> "add", key |-> k, date |-> d, seconds |-> 1]
    BY <1>2 DEF Operations
  <2>2. k \in StatKeys
    BY DEF StatKeys, Scopes
  <2> QED
    BY <2>1, <2>2 DEF AllOperations
<1>3. CASE kind = "history"
  <2> HIDE DEF Scopes
  <2>1. o \in {[do |-> "record", shelf |-> s, book |-> b] : s \in Scopes, b \in Books}
             \cup {[do |-> "clear", shelf |-> s] : s \in Scopes}
             \cup {[do |-> "limit", limit |-> n] : n \in Limits}
    BY <1>3 DEF Operations
  <2> QED
    BY <2>1 DEF AllOperations
<1>4. CASE kind = "preferences"
  <2>1. PICK x \in BOOLEAN, v \in Ats \cup {None} :
            o = [do |-> "set", app |-> AppOf[c], scoped |-> x, value |-> v]
    BY <1>4 DEF Operations
  <2> QED
    BY <1>0, <2>1 DEF AllOperations
<1> QED
  BY <1>1, <1>2, <1>3, <1>4 DEF RecordsInv, Kinds

\* What the store sees of a step: the file, the world, and the operation of each call.
Same == UNCHANGED <<kind, file, home, today>>
SameCalls(C) == \A d \in Callers \ C : Asked(d)' = Asked(d)
Step == [Store!SNext]_(Store!svars)

LEMMA StepStays == ASSUME Same, SameCalls({}) PROVE Step
  BY DEF Same, SameCalls, Step, Store!svars

LEMMA StepAsks ==
    ASSUME NEW c \in Callers, Same, SameCalls({c}), Asked(c) = None, Asked(c)' # None
    PROVE  Step
  BY DEF Same, SameCalls, Step, Store!SNext, Store!Ask

LEMMA StepDrops ==
    ASSUME Same, \A c \in Callers : Asked(c)' \in {None, Asked(c)} PROVE Step
  BY DEF Same, Step, Store!SNext, Store!Drop

LEMMA StepPasses ==
    ASSUME UNCHANGED <<kind, file>>, SameCalls({}), today' >= today,
           \A b \in Books : home[b] # None => home'[b] = home[b]
    PROVE  Step
  BY DEF SameCalls, Step, Store!SNext, Store!Passes

LEMMA StepCommits ==
    ASSUME NEW c \in Callers, SameCalls({c}), Asked(c) # None, Asked(c)' = None,
           UNCHANGED <<kind, home, today>>,
           NEW t \in 1..today, NEW h \in [Books -> Shelves \cup {None}],
           \A b \in Books : h[b] \in {None, home[b]},
           file' = ApplyTo(Asked(c), file, h, t)
    PROVE  Step
<1> HIDE DEF ApplyTo, Asked
<1>1. [d \in Callers |-> Asked(d)]' = [[d \in Callers |-> Asked(d)] EXCEPT ![c] = None]
  BY DEF SameCalls, Asked
<1>2. [d \in Callers |-> Asked(d)][c] = Asked(c)
  OBVIOUS
<1>3. Store!Commit(c)
  BY <1>1, <1>2 DEF Store!Commit
<1> QED
  BY <1>3 DEF Step, Store!SNext

\* A step of the call c alone.
LEMMA CallAsks ==
    ASSUME RecordsInv, NEW c \in Callers, NEW v, call' = [call EXCEPT ![c] = v]
    PROVE  /\ call'[c] = v
           /\ SameCalls({c})
           /\ Asked(c)' = (IF v.pc \in {"idle", "unlock"} THEN None ELSE v.op)
<1>1. call'[c] = v /\ \A d \in Callers \ {c} : call'[d] = call[d]
  BY DEF RecordsInv
<1> QED
  BY <1>1 DEF SameCalls, Asked

LEMMA AskedIs ==
    ASSUME NEW o
    PROVE  [Idle EXCEPT !.pc = "lock", !.op = o]
             = [pc |-> "lock", op |-> o, next |-> None, adds |-> FALSE]
<1> DEFINE i == [pc |-> "idle", op |-> None, next |-> None, adds |-> FALSE]
           v == [i EXCEPT !.pc = "lock", !.op = o]
<1>1. v.pc = "lock" /\ v.op = o
  OBVIOUS
<1>2. v.next = None /\ v.adds = FALSE
  OBVIOUS
<1>3. v = [f \in {"pc", "op", "next", "adds"} |-> v[f]]
  OBVIOUS
<1> HIDE DEF v
<1>4. v = [pc |-> "lock", op |-> o, next |-> None, adds |-> FALSE]
  BY <1>1, <1>2, <1>3
<1> QED
  BY <1>4 DEF v, Idle

\* Request, ReadAndProject and PersistOnClose.
LEMMA BeginStep ==
    ASSUME RecordsInv, NEW c \in Callers, NEW o \in AllOperations, call[c].pc = "idle",
           call' = [call EXCEPT ![c] = [Idle EXCEPT !.pc = "lock", !.op = o]],
           UNCHANGED <<world, written, lock>>,
           staged' \in [Apps -> [Scopes -> [Books -> Entries \cup {NoEntry}]]]
    PROVE  RecordsInv' /\ Step
<1> DEFINE v == [Idle EXCEPT !.pc = "lock", !.op = o]
<1>0. v = [pc |-> "lock", op |-> o, next |-> None, adds |-> FALSE]
  BY AskedIs
<1>1. v.pc = "lock" /\ v.op = o /\ IsCall(v)
  BY <1>0 DEF IsCall, Places
<1> HIDE DEF v
<1>2. call' = [call EXCEPT ![c] = v]
  BY DEF v
<1>3. RecordsInv'
  BY <1>1, <1>2, CallStep DEF written
<1>4. Asked(c) = None /\ Asked(c)' = o /\ o # None /\ SameCalls({c})
  BY <1>1, <1>2, CallAsks, RecordsAssumption DEF Asked
<1>5. Same
  BY DEF Same, world, written
<1> QED
  BY <1>3, <1>4, <1>5, StepAsks

LEMMA AskingSteps ==
    ASSUME RecordsInv, NEW c \in Callers,
           Request(c) \/ ReadAndProject(c) \/ PersistOnClose(c)
    PROVE  RecordsInv' /\ Step
<1>0. staged \in [Apps -> [Scopes -> [Books -> Entries \cup {NoEntry}]]] /\ kind \in Kinds
  BY DEF RecordsInv
<1>1. CASE Request(c)
  <2>1. PICK o \in Operations(AppOf[c]) :
            call' = [call EXCEPT ![c] = [Idle EXCEPT !.pc = "lock", !.op = o]]
    BY <1>1 DEF Request
  <2>2. o \in AllOperations
    BY OperationsKnown
  <2>3. call[c].pc = "idle" /\ UNCHANGED <<world, written, lock, staged>>
    BY <1>1 DEF Request
  <2> QED
    BY <1>0, <2>1, <2>2, <2>3, BeginStep
<1>2. CASE ReadAndProject(c)
  <2>1. [do |-> "project", kind |-> kind] \in AllOperations
    BY <1>0 DEF AllOperations
  <2>2. call[c].pc = "idle" /\ UNCHANGED <<world, written, lock, staged>>
    BY <1>2 DEF ReadAndProject
  <2>3. call' = [call EXCEPT ![c] = [Idle EXCEPT !.pc = "lock",
                                         !.op = [do |-> "project", kind |-> kind]]]
    BY <1>2 DEF ReadAndProject
  <2> QED
    BY <1>0, <2>1, <2>2, <2>3, BeginStep
<1>3. CASE PersistOnClose(c)
  <2> DEFINE o == [do |-> "merge", write |-> staged[AppOf[c]]]
  <2>1. AppOf[c] \in Apps
    BY RecordsAssumption
  <2>2. o \in AllOperations
    BY <1>0, <2>1 DEF AllOperations
  <2>3. call[c].pc = "idle" /\ UNCHANGED <<world, written, lock>>
    BY <1>3 DEF PersistOnClose
  <2>4. call' = [call EXCEPT ![c] = [Idle EXCEPT !.pc = "lock", !.op = o]]
    BY <1>3 DEF PersistOnClose
  <2>5. staged' \in [Apps -> [Scopes -> [Books -> Entries \cup {NoEntry}]]]
    BY <1>0, <1>3 DEF PersistOnClose, NoStage
  <2> HIDE DEF o
  <2> QED
    BY <2>2, <2>3, <2>4, <2>5, BeginStep
<1> QED
  BY <1>1, <1>2, <1>3

\* Goto keeps what is asked for, until the file is renamed or the call has failed.
LEMMA GotoIs ==
    ASSUME RecordsInv, NEW c \in Callers, NEW place \in Places, Goto(c, place)
    PROVE  \E v : /\ call' = [call EXCEPT ![c] = v]
                  /\ v = [call[c] EXCEPT !.pc = place]
                  /\ v.pc = place /\ v.op = call[c].op /\ v.next = call[c].next
                  /\ (place \in {"lock", "read", "write"} => v.op \in AllOperations) => IsCall(v)
<1> DEFINE v == [call[c] EXCEPT !.pc = place]
<1>1. IsCall(call[c])
  BY DEF RecordsInv
<1>2. /\ v.pc = place /\ v.op = call[c].op /\ v.next = call[c].next /\ v.adds = call[c].adds
      /\ v = [pc |-> v.pc, op |-> v.op, next |-> v.next, adds |-> v.adds]
  BY <1>1 DEF IsCall
<1>3. call' = [call EXCEPT ![c] = v]
  BY DEF Goto
<1> HIDE DEF v
<1>4. (place \in {"lock", "read", "write"} => v.op \in AllOperations) => IsCall(v)
  BY <1>1, <1>2 DEF IsCall
<1> QED
  BY <1>2, <1>3, <1>4 DEF v

LEMMA LockSteps ==
    ASSUME RecordsInv, NEW c \in Callers, Lock(c) \/ TimeOut(c) \/ Fail(c) \/ Unlock(c)
    PROVE  RecordsInv' /\ Step
<1>0. /\ staged' \in [Apps -> [Scopes -> [Books -> Entries \cup {NoEntry}]]]
      /\ UNCHANGED <<world, file>> /\ Same
  BY DEF RecordsInv, Lock, TimeOut, Fail, Unlock, written, world, Same
<1>a. Idle.pc = "idle" /\ IsCall(Idle)
  BY DEF Idle, IsCall, Places
<1>b. None \notin Callers
  BY RecordsAssumption
<1>c. \A d \in Callers : call[d].pc \in {"read", "write", "unlock"} => lock = d
  BY DEF RecordsInv
<1>1. CASE Lock(c)
  <2>1. call[c].pc = "lock" /\ lock = None /\ lock' = c /\ Goto(c, "read")
    BY <1>1 DEF Lock
  <2>2. PICK v : /\ call' = [call EXCEPT ![c] = v] /\ v.pc = "read" /\ v.op = call[c].op
                 /\ ("read" \in {"lock", "read", "write"} => v.op \in AllOperations) => IsCall(v)
    BY <2>1, GotoIs DEF Places
  <2>3. IsCall(v)
    BY <2>1, <2>2 DEF RecordsInv, IsCall
  <2>4. RecordsInv'
    BY <1>0, <1>b, <2>1, <2>2, <2>3, CallStep
  <2>5. SameCalls({c}) /\ Asked(c)' = Asked(c)
    BY <2>1, <2>2, CallAsks DEF Asked
  <2> QED
    BY <1>0, <2>4, <2>5, StepStays DEF SameCalls
<1>2. CASE TimeOut(c)
  <2>1. call' = [call EXCEPT ![c] = Idle] /\ lock' = lock
    BY <1>2 DEF TimeOut, Ends
  <2>2. RecordsInv'
    BY <1>0, <1>a, <2>1, CallStep
  <2>3. SameCalls({c}) /\ Asked(c)' = None
    BY <1>a, <2>1, CallAsks
  <2> QED
    BY <1>0, <2>2, <2>3, StepDrops DEF SameCalls
<1>3. CASE Fail(c)
  <2>1. call[c].pc \in {"read", "write"} /\ lock' = lock /\ Goto(c, "unlock")
    BY <1>3 DEF Fail
  <2>2. PICK v : /\ call' = [call EXCEPT ![c] = v] /\ v.pc = "unlock"
                 /\ ("unlock" \in {"lock", "read", "write"} => v.op \in AllOperations) => IsCall(v)
    BY <2>1, GotoIs DEF Places
  <2>3. RecordsInv'
    BY <1>0, <1>c, <2>1, <2>2, CallStep
  <2>4. SameCalls({c}) /\ Asked(c)' = None
    BY <2>2, CallAsks
  <2> QED
    BY <1>0, <2>3, <2>4, StepDrops DEF SameCalls
<1>4. CASE Unlock(c)
  <2>1. call[c].pc = "unlock" /\ call' = [call EXCEPT ![c] = Idle]
        /\ lock' = IF lock = c THEN None ELSE lock
    BY <1>4 DEF Unlock, Ends
  <2>2. RecordsInv'
    BY <1>0, <1>a, <2>1, CallStep
  <2>3. SameCalls({c}) /\ Asked(c)' = None /\ Asked(c) = None
    BY <1>a, <2>1, CallAsks DEF Asked
  <2> QED
    BY <1>0, <2>2, <2>3, StepStays DEF SameCalls
<1> QED
  BY <1>1, <1>2, <1>3, <1>4

LEMMA ReadStep == ASSUME RecordsInv, NEW c \in Callers, Read(c) PROVE RecordsInv' /\ Step
<1> DEFINE o == call[c].op
           n == ApplyTo(o, file, home, today)
           a == o.do = "add" /\ Kept(o.date, today)
           v == [pc |-> "write", op |-> o, next |-> n, adds |-> a]
<1> HIDE DEF n
<1>1. call[c].pc = "read" /\ call' = [call EXCEPT ![c] = v]
      /\ UNCHANGED <<world, written, lock, staged>>
  BY DEF Read, n
<1>2. o \in AllOperations /\ lock = c /\ today \in Nat \ {0}
      /\ home \in [Books -> Shelves \cup {None}]
  BY <1>1 DEF RecordsInv, IsCall
<1> HIDE DEF o
<1>3. a \in BOOLEAN
  OBVIOUS
<1> HIDE DEF a
<1>4. v.pc = "write" /\ v.op = o /\ v.next = n /\ IsCall(v)
  BY <1>2, <1>3 DEF IsCall, Places
<1> HIDE DEF v
<1>5. Computed(v)
  <2>1. today \in 1..today
    BY <1>2
  <2>2. v.next = ApplyTo(v.op, file, home, today)
    BY <1>4 DEF n
  <2> QED
    BY <1>2, <2>1, <2>2 DEF Computed
<1>6. RecordsInv'
  BY <1>1, <1>2, <1>4, <1>5, CallStep DEF written, RecordsInv
<1>7. SameCalls({c}) /\ Asked(c)' = o /\ Asked(c) = o
  BY <1>1, <1>4, CallAsks DEF Asked, o
<1> QED
  BY <1>1, <1>6, <1>7, StepStays DEF SameCalls, Same, world, written

LEMMA RenameStep == ASSUME RecordsInv, NEW c \in Callers, Rename(c) PROVE RecordsInv' /\ Step
<1>1. /\ call[c].pc = "write" /\ file' = call[c].next /\ Goto(c, "unlock")
      /\ UNCHANGED <<world, lock, staged>>
  BY DEF Rename
<1>2. PICK v : /\ call' = [call EXCEPT ![c] = v] /\ v.pc = "unlock"
               /\ ("unlock" \in {"lock", "read", "write"} => v.op \in AllOperations) => IsCall(v)
  BY <1>1, GotoIs DEF Places
<1>3. lock = c /\ call[c].op \in AllOperations /\ Computed(call[c])
  BY <1>1 DEF RecordsInv, IsCall
<1>4. SameCalls({c}) /\ Asked(c)' = None /\ Asked(c) = call[c].op
  BY <1>1, <1>2, CallAsks DEF Asked
<1>5. Asked(c) # None
  BY <1>3, <1>4, RecordsAssumption
<1>6. PICK t \in 1..today, h \in [Books -> Shelves \cup {None}] :
          /\ \A b \in Books : h[b] \in {None, home[b]}
          /\ call[c].next = ApplyTo(call[c].op, file, h, t)
  BY <1>3 DEF Computed
<1>7. Step
  BY <1>1, <1>4, <1>5, <1>6, StepCommits DEF world
<1>8. RecordsInv'
  <2>1. /\ call' = [d \in Callers |-> call'[d]] /\ call'[c] = v
        /\ \A d \in Callers \ {c} : call'[d] = call[d]
    BY <1>2 DEF RecordsInv
  <2>2. \A d \in Callers \ {c} : call[d].pc \notin {"read", "write", "unlock"}
    BY <1>3 DEF RecordsInv
  <2>3. \A d \in Callers : IsCall(call'[d])
    BY <1>2, <2>1 DEF RecordsInv
  <2>4. \A d \in Callers : call'[d].pc # "write"
    BY <1>2, <2>1, <2>2
  <2>5. \A d \in Callers : call'[d].pc \in {"read", "write", "unlock"} => lock' = d
    BY <1>1, <1>2, <1>3, <2>1, <2>2
  <2> QED
    BY <1>1, <2>1, <2>3, <2>4, <2>5 DEF RecordsInv, world
<1> QED
  BY <1>7, <1>8

LEMMA OtherSteps ==
    ASSUME RecordsInv,
           \/ \E a \in Apps : Exit(a)
           \/ \E a \in Apps, s \in Scopes, b \in Followed, e \in Entries : Stage(a, s, b, e)
           \/ \E b \in Books : Discover(b)
           \/ NextDay
           \/ UNCHANGED rvars
    PROVE  RecordsInv' /\ Step
<1>a. Idle.pc = "idle" /\ IsCall(Idle)
  BY DEF Idle, IsCall, Places
<1>1. ASSUME NEW a \in Apps, Exit(a) PROVE RecordsInv' /\ Step
  <2>1. /\ call' = [c \in Callers |-> IF AppOf[c] = a THEN Idle ELSE call[c]]
        /\ lock' = (IF lock # None /\ AppOf[lock] = a THEN None ELSE lock)
        /\ staged' = [staged EXCEPT ![a] = NoStage]
        /\ UNCHANGED <<kind, home, today, file>>
    BY <1>1 DEF Exit, world, written
  <2>2. \A c \in Callers : call'[c] = (IF AppOf[c] = a THEN Idle ELSE call[c])
    BY <2>1
  <2>3. staged' \in [Apps -> [Scopes -> [Books -> Entries \cup {NoEntry}]]]
    BY <2>1 DEF RecordsInv, NoStage
  <2>4. \A x : Computed(x)' <=> Computed(x)
    BY <2>1 DEF Computed
  <2>5. call' = [c \in Callers |-> call'[c]]
    BY <2>1
  <2>6. \A c \in Callers : call'[c] = Idle \/ (call'[c] = call[c] /\ (lock = c => lock' = c))
    BY <2>1, <2>2
  <2>7. RecordsInv'
    <3> HIDE DEF Computed, IsCall
    <3>1. \A c \in Callers : IsCall(call'[c])
      BY <1>a, <2>6 DEF RecordsInv
    <3>2. \A c \in Callers : call'[c].pc \in {"read", "write", "unlock"} => lock' = c
      BY <1>a, <2>6 DEF RecordsInv
    <3>3. \A c \in Callers : call'[c].pc = "write" => Computed(call'[c])
      BY <1>a, <2>6 DEF RecordsInv
    <3>4. \A c \in Callers : call'[c].pc = "write" => Computed(call[c])'
      BY <2>1, <3>3 DEF Computed
    <3> QED
      BY <2>1, <2>3, <2>5, <3>1, <3>2, <3>4 DEF RecordsInv
  <2>8. \A c \in Callers : Asked(c)' \in {None, Asked(c)}
    BY <1>a, <2>6 DEF Asked
  <2> QED
    BY <2>1, <2>7, <2>8, StepDrops DEF Same
<1>2. ASSUME NEW a \in Apps, NEW s \in Scopes, NEW b \in Followed, NEW e \in Entries,
             Stage(a, s, b, e)
      PROVE  RecordsInv' /\ Step
  <2>1. UNCHANGED <<kind, home, today, file, lock, call>>
        /\ staged' = [staged EXCEPT ![a][s][b] = e]
    BY <1>2 DEF Stage, world, written
  <2>2. staged' \in [Apps -> [Scopes -> [Books -> Entries \cup {NoEntry}]]]
    BY <2>1, RecordsAssumption DEF RecordsInv
  <2>a. \A x : Computed(x)' <=> Computed(x)
    BY <2>1 DEF Computed
  <2>b. \A c \in Callers : call[c].pc = "write" => Computed(call[c])'
    BY <2>1, <2>a DEF RecordsInv, Computed
  <2>3. RecordsInv'
    BY <2>1, <2>2, <2>b DEF RecordsInv
  <2>4. Same /\ SameCalls({})
    BY <2>1 DEF Same, SameCalls, Asked
  <2> QED
    BY <2>3, <2>4, StepStays
<1>3. ASSUME UNCHANGED <<kind, file, lock, call, staged>>,
             home' \in [Books -> Shelves \cup {None}], today' \in Nat, today' >= today,
             \A b \in Books : home[b] # None => home'[b] = home[b]
      PROVE  RecordsInv' /\ Step
  <2>1. \A x : Computed(x) => Computed(x)'
    <3> SUFFICES ASSUME NEW x, Computed(x) PROVE Computed(x)'
      OBVIOUS
    <3>1. PICK t \in 1..today, h \in [Books -> Shelves \cup {None}] :
              /\ \A b \in Books : h[b] \in {None, home[b]}
              /\ x.next = ApplyTo(x.op, file, h, t)
      BY DEF Computed
    <3>2. t \in 1..today'
      BY <1>3 DEF RecordsInv
    <3>3. \A b \in Books : h[b] \in {None, home'[b]}
      BY <1>3, <3>1
    <3> QED
      BY <1>3, <3>1, <3>2, <3>3 DEF Computed
  <2>2. today' \in Nat \ {0}
    BY <1>3 DEF RecordsInv
  <2>3. \A c \in Callers : IsCall(call[c])' /\ (call[c].pc = "write" => Computed(call[c])')
    <3>1. \A c \in Callers : call[c].pc = "write" => Computed(call[c])
      BY DEF RecordsInv
    <3>2. \A c \in Callers : call[c].pc = "write" => \E t \in 1..today', h \in [Books -> Shelves \cup {None}] :
              /\ \A b \in Books : h[b] \in {None, home'[b]}
              /\ call[c].next = ApplyTo(call[c].op, file, h, t)
      BY <1>3, <2>1, <3>1 DEF Computed
    <3> QED
      BY <1>3, <3>2 DEF RecordsInv, Computed, IsCall
  <2>4. RecordsInv'
    BY <1>3, <2>2, <2>3 DEF RecordsInv
  <2>5. SameCalls({})
    BY <1>3 DEF SameCalls, Asked
  <2> QED
    BY <1>3, <2>4, <2>5, StepPasses
<1>4. ASSUME NEW b \in Books, Discover(b) PROVE RecordsInv' /\ Step
  <2>1. /\ home[b] = None /\ UNCHANGED <<kind, file, lock, call, staged, today>>
        /\ \E s \in Shelves : home' = [home EXCEPT ![b] = s]
    BY <1>4 DEF Discover, written
  <2> QED
    BY <1>3, <2>1 DEF RecordsInv
<1>5. CASE NextDay
  BY <1>3, <1>5 DEF NextDay, RecordsInv, written
<1>6. CASE UNCHANGED rvars
  BY <1>3, <1>6 DEF rvars, RecordsInv
<1> QED
  BY <1>1, <1>2, <1>4, <1>5, <1>6

LEMMA RecordsStep == RecordsInv /\ [Next]_rvars => RecordsInv' /\ Step
  BY AskingSteps, LockSteps, ReadStep, RenameStep, OtherSteps DEF Next

\* However the calls of the two apps overlap, fail, time out or end with their process,
\* each document goes through the values it would have if they came one after another:
\* lockedfile.Mutate under its lock implements RecordStore, for any documents,
\* operations, callers and processes.
THEOREM RecordsOneAfterAnother == Spec => OneAfterAnother
<1>1. Init => Store!SInit
  <2> SUFFICES ASSUME Init PROVE Store!SInit
    OBVIOUS
  <2>1. \A c \in Callers : Asked(c) = None
    BY DEF Init, Asked, Idle
  <2> QED
    BY <2>1 DEF Init, Store!SInit
<1> QED
  BY <1>1, RecordsInitial, RecordsStep, PTL DEF Spec, OneAfterAnother, Store!SSpec, Step

-----------------------------------------------------------------------------
(* What a step does to the calls and to the document, whichever it is.     *)

Due == {"lock", "read", "write"}

\* The operations on each document.
Verbs(k) ==
    CASE k = "progress" -> {"merge", "project"}
      [] k = "stats" -> {"add", "project"}
      [] k = "history" -> {"record", "clear", "limit", "project"}
      [] k = "preferences" -> {"set"}

AboutDoc(o) == o \in AllOperations /\ o.do \in Verbs(kind) /\ (o.do = "project" => o.kind = kind)

\* Only progress is staged, and what is asked for is about the document.
Unstaged == kind # "progress" => \A a \in Apps : staged[a] = NoStage
AskedInv == Unstaged /\ \A c \in Callers : call[c].pc \in Due => AboutDoc(call[c].op)

\* A call has just computed what it will write.
JustRead(v) ==
    /\ v.next = ApplyTo(v.op, file, home, today)
    /\ v.adds = (v.op.do = "add" /\ Kept(v.op.date, today))

\* A step other than Rename: nothing is written, and a call that will write has read now
\* or was about to write already.
Quiet ==
    /\ UNCHANGED <<kind, written>> /\ today' >= today /\ Unstaged'
    /\ \A c \in Callers :
          /\ call'[c].pc \in Due => \/ AboutDoc(call'[c].op)
                                    \/ call[c].pc \in Due /\ call'[c].op = call[c].op
          /\ call'[c].pc = "write" => \/ call[c].pc = "write" /\ call'[c] = call[c]
                                      \/ JustRead(call'[c]) /\ UNCHANGED world

LEMMA QuietCall ==
    ASSUME RecordsInv, NEW c \in Callers, NEW v, call' = [call EXCEPT ![c] = v],
           UNCHANGED <<kind, written, today>>, Unstaged',
           v.pc \in Due => AboutDoc(v.op) \/ (call[c].pc \in Due /\ v.op = call[c].op),
           v.pc = "write" => JustRead(v) /\ UNCHANGED world
    PROVE  Quiet
<1>1. call'[c] = v /\ \A d \in Callers \ {c} : call'[d] = call[d]
  BY DEF RecordsInv
<1>2. today' >= today
  BY DEF RecordsInv
<1> QED
  BY <1>1, <1>2 DEF Quiet

LEMMA AskingQuiet ==
    ASSUME RecordsInv, AskedInv, NEW c \in Callers,
           Request(c) \/ ReadAndProject(c) \/ PersistOnClose(c)
    PROVE  Quiet
<1>0. Unstaged'
  BY RecordsAssumption DEF AskedInv, Unstaged, RecordsInv, Request, ReadAndProject,
                           PersistOnClose, world
<1>1. ASSUME NEW o, AboutDoc(o), UNCHANGED <<world, written>>,
             call' = [call EXCEPT ![c] = [Idle EXCEPT !.pc = "lock", !.op = o]]
      PROVE  Quiet
  <2> DEFINE v == [Idle EXCEPT !.pc = "lock", !.op = o]
  <2>1. v.pc = "lock" /\ v.op = o
    BY AskedIs
  <2> HIDE DEF v
  <2>2. call' = [call EXCEPT ![c] = v]
    BY <1>1 DEF v
  <2> QED
    BY <1>0, <1>1, <2>1, <2>2, QuietCall DEF world
<1>2. CASE Request(c)
  <2>1. PICK o \in Operations(AppOf[c]) :
            call' = [call EXCEPT ![c] = [Idle EXCEPT !.pc = "lock", !.op = o]]
    BY <1>2 DEF Request
  <2>2. o \in AllOperations
    BY OperationsKnown
  <2>3. o.do \in Verbs(kind) /\ o.do # "project"
    <3> HIDE DEF Scopes
    <3> QED
      BY DEF RecordsInv, Kinds, Operations, Verbs
  <2> QED
    BY <1>1, <1>2, <2>1, <2>2, <2>3 DEF Request, AboutDoc
<1>3. CASE ReadAndProject(c)
  <2> DEFINE o == [do |-> "project", kind |-> kind]
  <2>1. o.do = "project" /\ o.kind = kind /\ kind \in Kinds \ {"preferences"}
    BY <1>3 DEF ReadAndProject, RecordsInv
  <2>2. o \in AllOperations
    BY <2>1 DEF AllOperations
  <2>3. AboutDoc(o)
    BY <2>1, <2>2 DEF AboutDoc, Verbs, Kinds
  <2>4. /\ call' = [call EXCEPT ![c] = [Idle EXCEPT !.pc = "lock", !.op = o]]
        /\ UNCHANGED <<written, world>>
    BY <1>3 DEF ReadAndProject
  <2> HIDE DEF o
  <2> QED
    BY <1>1, <2>3, <2>4
<1>4. CASE PersistOnClose(c)
  <2> DEFINE o == [do |-> "merge", write |-> staged[AppOf[c]]]
  <2>1. /\ call' = [call EXCEPT ![c] = [Idle EXCEPT !.pc = "lock", !.op = o]]
        /\ UNCHANGED <<written, world>>
    BY <1>4 DEF PersistOnClose
  <2>2. o \in AllOperations
    BY RecordsAssumption DEF AllOperations, RecordsInv
  <2>3. kind = "progress"
    BY <1>4, RecordsAssumption DEF PersistOnClose, AskedInv, Unstaged
  <2>4. AboutDoc(o)
    BY <2>2, <2>3 DEF AboutDoc, Verbs
  <2> HIDE DEF o
  <2> QED
    BY <1>1, <2>1, <2>4
<1> QED
  BY <1>2, <1>3, <1>4

LEMMA LockQuiet ==
    ASSUME RecordsInv, AskedInv, NEW c \in Callers,
           Lock(c) \/ TimeOut(c) \/ Read(c) \/ Fail(c) \/ Unlock(c)
    PROVE  Quiet
<1>0. UNCHANGED <<written, world, kind, today, staged>> /\ Unstaged'
  BY DEF AskedInv, Unstaged, Lock, TimeOut, Read, Fail, Unlock, world
<1>1. CASE TimeOut(c) \/ Unlock(c)
  <2>1. call' = [call EXCEPT ![c] = Idle] /\ Idle.pc = "idle"
    BY <1>1 DEF TimeOut, Unlock, Ends, Idle
  <2> QED
    BY <1>0, <2>1, QuietCall DEF Due
<1>2. CASE Lock(c)
  <2>1. call[c].pc = "lock" /\ Goto(c, "read")
    BY <1>2 DEF Lock
  <2>2. PICK v : call' = [call EXCEPT ![c] = v] /\ v.pc = "read" /\ v.op = call[c].op
    BY <2>1, GotoIs DEF Places
  <2> QED
    BY <1>0, <2>1, <2>2, QuietCall DEF Due
<1>3. CASE Fail(c)
  <2>1. Goto(c, "unlock")
    BY <1>3 DEF Fail
  <2>2. PICK v : call' = [call EXCEPT ![c] = v] /\ v.pc = "unlock"
    BY <2>1, GotoIs DEF Places
  <2> QED
    BY <1>0, <2>2, QuietCall DEF Due
<1>4. CASE Read(c)
  <2> DEFINE o == call[c].op
             n == ApplyTo(o, file, home, today)
             a == o.do = "add" /\ Kept(o.date, today)
             v == [pc |-> "write", op |-> o, next |-> n, adds |-> a]
  <2> HIDE DEF n, a
  <2>1. call[c].pc = "read" /\ call' = [call EXCEPT ![c] = v]
    BY <1>4 DEF Read, n, a
  <2>2. v.op = o /\ v.next = n /\ v.adds = a
    OBVIOUS
  <2> HIDE DEF v
  <2>3. JustRead(v)
    BY <2>2 DEF JustRead, n, a
  <2> QED
    BY <1>0, <2>1, <2>2, <2>3, QuietCall DEF Due
<1> QED
  BY <1>1, <1>2, <1>3, <1>4

LEMMA OtherQuiet ==
    ASSUME RecordsInv, AskedInv,
           \/ \E a \in Apps : Exit(a)
           \/ \E a \in Apps, s \in Scopes, b \in Followed, e \in Entries : Stage(a, s, b, e)
           \/ \E b \in Books : Discover(b)
           \/ NextDay
           \/ UNCHANGED rvars
    PROVE  Quiet
<1>1. ASSUME NEW a \in Apps, Exit(a) PROVE Quiet
  <2>1. \A c \in Callers : call'[c] = Idle \/ call'[c] = call[c]
    BY <1>1 DEF Exit
  <2>2. Unstaged' /\ UNCHANGED <<kind, written>> /\ today' >= today
    BY <1>1 DEF Exit, AskedInv, Unstaged, RecordsInv, world
  <2> QED
    BY <2>1, <2>2 DEF Quiet, Idle, Due
<1>2. CASE \/ \E a \in Apps, s \in Scopes, b \in Followed, e \in Entries : Stage(a, s, b, e)
           \/ \E b \in Books : Discover(b)
           \/ NextDay
           \/ UNCHANGED rvars
  <2>1. UNCHANGED <<written, kind, call>> /\ (staged' = staged \/ kind = "progress")
    BY <1>2 DEF Stage, Discover, NextDay, rvars, world, written
  <2>2. Unstaged'
    BY <2>1 DEF AskedInv, Unstaged
  <2>3. today' >= today
    BY <1>2 DEF Stage, Discover, NextDay, rvars, world, RecordsInv
  <2> QED
    BY <2>1, <2>2, <2>3 DEF Quiet
<1> QED
  BY <1>1, <1>2

LEMMA StepIsQuiet ==
    ASSUME RecordsInv, AskedInv, [Next]_rvars
    PROVE  Quiet \/ \E c \in Callers : Rename(c)
  BY AskingQuiet, LockQuiet, OtherQuiet DEF Next

\* Rename alone changes the document, to what the operation makes of it.
LEMMA RenameIs ==
    ASSUME RecordsInv, AskedInv, NEW c \in Callers, Rename(c)
    PROVE  /\ UNCHANGED world /\ Unstaged' /\ call[c].pc = "write" /\ AboutDoc(call[c].op)
           /\ file' = call[c].next /\ Computed(call[c])
           /\ \A d \in Callers : call'[d].pc # "write"
           /\ \A d \in Callers : call'[d].pc \in Due =>
                 call[d].pc \in Due /\ call'[d].op = call[d].op
<1>1. call[c].pc = "write" /\ file' = call[c].next /\ Goto(c, "unlock")
      /\ UNCHANGED <<world, staged>>
  BY DEF Rename
<1>2. Computed(call[c]) /\ lock = c /\ AboutDoc(call[c].op)
  BY <1>1 DEF RecordsInv, AskedInv, Due
<1>3. PICK v : call' = [call EXCEPT ![c] = v] /\ v.pc = "unlock"
  BY <1>1, GotoIs DEF Places
<1>4. \A d \in Callers \ {c} : call'[d] = call[d] /\ call[d].pc # "write"
  BY <1>2, <1>3 DEF RecordsInv
<1>5. call'[c] = v
  BY <1>3 DEF RecordsInv
<1>6. Unstaged'
  BY <1>1 DEF AskedInv, Unstaged, world
<1> HIDE DEF Computed
<1> QED
  BY <1>1, <1>2, <1>3, <1>4, <1>5, <1>6 DEF Due

LEMMA AskedInitial == Init => AskedInv
  BY DEF Init, AskedInv, Unstaged, Idle, Due

LEMMA AskedStep == RecordsInv /\ AskedInv /\ [Next]_rvars => AskedInv'
<1> SUFFICES ASSUME RecordsInv, AskedInv, [Next]_rvars PROVE AskedInv'
  OBVIOUS
<1>1. kind' = kind => \A o : AboutDoc(o)' <=> AboutDoc(o)
  BY DEF AboutDoc
<1>2. CASE Quiet
  <2> QED
    BY <1>2 DEF Quiet, AskedInv, AboutDoc
<1>3. ASSUME NEW c \in Callers, Rename(c) PROVE AskedInv'
  <2>1. kind' = kind
    BY <1>3 DEF Rename, world
  <2> QED
    BY <1>3, <2>1, RenameIs DEF AskedInv, AboutDoc
<1> QED
  BY <1>2, <1>3, StepIsQuiet

-----------------------------------------------------------------------------
(* Reading progress.                                                       *)

EntryRecord == [offset : Nat, at : Nat]
ProgressDoc == [Scopes -> [Books -> EntryRecord]]
ProgressOps ==
    [do : {"merge"}, write : [Scopes -> [Books -> Entries \cup {NoEntry}]]]
      \cup [do : {"project"}, kind : {"progress"}]

ProgressInv ==
    kind = "progress" =>
        /\ file \in ProgressDoc
        /\ merged \in [Scopes -> [Books -> Nat]]
        /\ ProgressKept

\* Of two entries the one kept is as recent as both.
LEMMA NewestIsLatest ==
    ASSUME NEW x \in EntryRecord, NEW y \in EntryRecord
    PROVE  /\ Newest(x, y) \in EntryRecord
           /\ Newest(x, y).at >= x.at /\ Newest(x, y).at >= y.at
  BY DEF Newest, EntryRecord

\* No operation takes an entry back, and a merge leaves none older than what it merges.
LEMMA ProgressAdvances ==
    ASSUME NEW doc \in ProgressDoc, NEW o \in ProgressOps, NEW h, NEW t
    PROVE  /\ ApplyTo(o, doc, h, t) \in ProgressDoc
           /\ \A s \in Scopes, b \in Books :
                 /\ ApplyTo(o, doc, h, t)[s][b].at >= doc[s][b].at
                 /\ o.do = "merge" =>
                       /\ o.write[s][b] \in EntryRecord
                       /\ ApplyTo(o, doc, h, t)[s][b].at >= o.write[s][b].at
<1>0. \A s \in Scopes, b \in Books : doc[s][b] \in EntryRecord /\ doc[Reader][b] \in EntryRecord
  BY DEF ProgressDoc, Scopes
<1>a. \A s \in Scopes, b \in Books : doc[s][b].at \in Nat
  BY <1>0 DEF EntryRecord
<1>1. CASE o \in [do : {"merge"}, write : [Scopes -> [Books -> Entries \cup {NoEntry}]]]
  <2> DEFINE n == MergeNewest(doc, o.write)
  <2>1. o.do = "merge" /\ ApplyTo(o, doc, h, t) = n
    BY <1>1 DEF ApplyTo
  <2>2. Entries \cup {NoEntry} \subseteq EntryRecord
    <3>1. NoEntry \in EntryRecord
      BY DEF NoEntry, EntryRecord
    <3>2. \A e \in Entries : e \in EntryRecord
      BY RecordsAssumption DEF Entries, EntryRecord
    <3> QED
      BY <3>1, <3>2
  <2>3. \A s \in Scopes, b \in Books : o.write[s][b] \in EntryRecord
    BY <1>1, <2>2
  <2>4. n = [s \in Scopes |-> [b \in Books |-> Newest(doc[s][b], o.write[s][b])]]
    BY DEF MergeNewest
  <2> HIDE DEF n
  <2>5. \A s \in Scopes, b \in Books : n[s][b] = Newest(doc[s][b], o.write[s][b])
    BY <2>4
  <2>6. \A s \in Scopes, b \in Books :
            /\ n[s][b] \in EntryRecord
            /\ n[s][b].at >= doc[s][b].at /\ n[s][b].at >= o.write[s][b].at
    BY <1>0, <2>3, <2>5, NewestIsLatest
  <2>7. n \in ProgressDoc
    BY <2>4, <2>5, <2>6 DEF ProgressDoc
  <2> QED
    BY <2>1, <2>3, <2>6, <2>7
<1>2. CASE o \in [do : {"project"}, kind : {"progress"}]
  <2> DEFINE n == ProjectProgress(doc, h)
  <2>1. o.do = "project" /\ ApplyTo(o, doc, h, t) = n
    BY <1>2 DEF ApplyTo
  <2>2. n = [s \in Scopes |-> [b \in Books |->
                IF s = h[b] THEN Newest(doc[s][b], doc[Reader][b]) ELSE doc[s][b]]]
    BY DEF ProjectProgress
  <2> HIDE DEF n
  <2>3. \A s \in Scopes, b \in Books :
            n[s][b] \in {Newest(doc[s][b], doc[Reader][b]), doc[s][b]}
    BY <2>2
  <2>4. \A s \in Scopes, b \in Books : n[s][b] \in EntryRecord /\ n[s][b].at >= doc[s][b].at
    <3> TAKE s \in Scopes, b \in Books
    <3>1. doc[s][b].at >= doc[s][b].at
      BY <1>a
    <3> QED
      BY <1>0, <2>3, <3>1, NewestIsLatest
  <2>5. n \in ProgressDoc
    BY <2>2, <2>4 DEF ProgressDoc
  <2> QED
    BY <2>1, <2>4, <2>5
<1> QED
  BY <1>1, <1>2 DEF ProgressOps

LEMMA ProgressInitial == Init => ProgressInv
<1> SUFFICES ASSUME Init, kind = "progress" PROVE ProgressInv
  BY DEF ProgressInv
<1>1. file = [s \in Scopes |-> [b \in Books |-> NoEntry]]
  BY DEF Init, New
<1> QED
  BY <1>1 DEF Init, ProgressInv, ProgressKept, ProgressDoc, EntryRecord, NoEntry

LEMMA ProgressStep == RecordsInv /\ AskedInv /\ ProgressInv /\ [Next]_rvars => ProgressInv'
<1> SUFFICES ASSUME RecordsInv, AskedInv, ProgressInv, [Next]_rvars PROVE ProgressInv'
  OBVIOUS
<1>1. CASE Quiet
  BY <1>1 DEF Quiet, ProgressInv, ProgressKept, written
<1>2. ASSUME NEW c \in Callers, Rename(c), kind = "progress" PROVE ProgressInv'
  <2>0. file \in ProgressDoc /\ merged \in [Scopes -> [Books -> Nat]] /\ ProgressKept
    BY <1>2 DEF ProgressInv
  <2> DEFINE o == call[c].op
  <2>1. UNCHANGED world /\ file' = call[c].next /\ AboutDoc(o) /\ Computed(call[c])
    BY <1>2, RenameIs
  <2>2. o \in ProgressOps
    BY <1>2, <2>1 DEF AboutDoc, Verbs, AllOperations, ProgressOps
  <2>3. PICK t \in 1..today, h \in [Books -> Shelves \cup {None}] :
            call[c].next = ApplyTo(o, file, h, t)
    BY <2>1 DEF Computed
  <2>4. merged' = IF o.do = "merge"
                    THEN [s \in Scopes |-> [b \in Books |-> Later(s, b, o)]] ELSE merged
    BY <1>2 DEF Rename
  <2> HIDE DEF o
  <2>5. /\ file' \in ProgressDoc
        /\ \A s \in Scopes, b \in Books :
              /\ file'[s][b].at >= file[s][b].at
              /\ o.do = "merge" => /\ o.write[s][b] \in EntryRecord
                                   /\ file'[s][b].at >= o.write[s][b].at
    BY <2>0, <2>1, <2>2, <2>3, ProgressAdvances
  <2>6. \A s \in Scopes, b \in Books : file'[s][b].at >= merged[s][b] /\ merged[s][b] \in Nat
    <3> TAKE s \in Scopes, b \in Books
    <3>1. file[s][b].at >= merged[s][b] /\ merged[s][b] \in Nat
      BY <1>2, <2>0 DEF ProgressKept
    <3>2. file[s][b].at \in Nat /\ file'[s][b].at \in Nat
      BY <2>0, <2>5 DEF ProgressDoc, EntryRecord
    <3>3. file'[s][b].at >= file[s][b].at
      BY <2>5
    <3> QED
      BY <3>1, <3>2, <3>3
  <2>7. CASE o.do = "merge"
    <3>1. merged' = [s \in Scopes |-> [b \in Books |-> Later(s, b, o)]]
      BY <2>4, <2>7
    <3>2. \A s \in Scopes, b \in Books : Later(s, b, o) \in Nat /\ file'[s][b].at >= Later(s, b, o)
      BY <2>5, <2>6, <2>7 DEF Later, EntryRecord
    <3>3. merged' \in [Scopes -> [Books -> Nat]]
      BY <3>1, <3>2
    <3>4. \A s \in Scopes, b \in Books : file'[s][b].at >= merged'[s][b]
      BY <3>1, <3>2
    <3> QED
      BY <2>1, <2>5, <3>3, <3>4 DEF ProgressInv, ProgressKept, world
  <2>8. CASE o.do # "merge"
    BY <2>0, <2>1, <2>4, <2>5, <2>6, <2>8 DEF ProgressInv, ProgressKept, world
  <2> QED
    BY <2>7, <2>8
<1>3. ASSUME NEW c \in Callers, Rename(c) PROVE kind' = kind
  BY <1>3 DEF Rename, world
<1> QED
  BY <1>1, <1>2, <1>3, StepIsQuiet DEF ProgressInv

\* No write, projection or late flush of a closing app takes reading progress back, for
\* any books, callers and times: MergeNewest and Project keep the newest of the entries
\* they read, and by RecordsInv that is what the file still has.
THEOREM RecordsProgressKept == Spec => []ProgressKept
<1>1. ProgressInv => ProgressKept
  BY DEF ProgressInv, ProgressKept
<1> QED
  BY <1>1, ProgressInitial, RecordsInitial, RecordsStep, AskedInitial, AskedStep, ProgressStep,
     PTL DEF Spec

-----------------------------------------------------------------------------
(* Induction and sums.                                                     *)

LEMMA LeastOf ==
    ASSUME NEW T, T \subseteq Nat, T # {} PROVE \E x \in T : \A y \in T : x <= y
<1> DEFINE R == OpToRel(<, Nat)
<1>1. IsWellFoundedOn(R, Nat)
  BY NatLessThanWellFounded
<1> HIDE DEF R
<1>2. PICK x \in T : \A y \in T : ~(<<y, x>> \in R)
  BY <1>1, WFMin
<1>3. \A y \in T : ~(y < x)
  BY <1>2 DEF R, OpToRel
<1> QED
  BY <1>3

\* Induction, with the set of the numbers or of the sets that have the property.
LEMMA EveryNumber ==
    ASSUME NEW T, 0 \in T, \A n \in Nat : n \in T => n + 1 \in T PROVE Nat \subseteq T
<1> SUFFICES ASSUME Nat \ T # {} PROVE FALSE
  OBVIOUS
<1>1. PICK n \in Nat \ T : \A m \in Nat \ T : n <= m
  <2> DEFINE U == Nat \ T
  <2>1. U \subseteq Nat /\ U # {}
    OBVIOUS
  <2> HIDE DEF U
  <2>2. \E n \in U : \A m \in U : n <= m
    BY <2>1, LeastOf
  <2> QED
    BY <2>2 DEF U
<1>2. n # 0 /\ n - 1 \in Nat /\ n - 1 \in T
  BY <1>1
<1>3. (n - 1) + 1 \in T
  BY <1>2
<1> QED
  BY <1>1, <1>3

LEMMA EverySubset ==
    ASSUME NEW S, IsFiniteSet(S), NEW T, {} \in T,
           \A U \in SUBSET S, x \in S : U \in T /\ x \notin U => U \cup {x} \in T
    PROVE  SUBSET S \subseteq T
<1> DEFINE N == {n \in Nat : \A U \in SUBSET S : Cardinality(U) = n => U \in T}
<1>0. \A U \in SUBSET S : IsFiniteSet(U) /\ Cardinality(U) \in Nat
  BY FS_Subset, FS_CardinalityType
<1>1. 0 \in N
  BY <1>0, FS_EmptySet
<1>2. ASSUME NEW n \in Nat, n \in N PROVE n + 1 \in N
  <2> SUFFICES ASSUME NEW U \in SUBSET S, Cardinality(U) = n + 1 PROVE U \in T
    OBVIOUS
  <2>1. PICK x : x \in U
    BY FS_EmptySet
  <2>2. Cardinality(U \ {x}) = n /\ U \ {x} \in SUBSET S
    <3>1. Cardinality(U \ {x}) = Cardinality(U) - 1
      BY <1>0, <2>1, FS_RemoveElement
    <3> QED
      BY <3>1
  <2>3. U \ {x} \in T
    BY <1>2, <2>2
  <2>4. (U \ {x}) \cup {x} = U /\ x \in S /\ x \notin U \ {x}
    BY <2>1
  <2> QED
    BY <2>2, <2>3, <2>4
<1> HIDE DEF N
<1>3. Nat \subseteq N
  BY <1>1, <1>2, EveryNumber
<1> QED
  BY <1>0, <1>3 DEF N

Pick(s) == CHOOSE x \in s : TRUE

\* The function by which SecondsOf is defined.
Totals(doc, K, d, f) ==
    f = [s \in SUBSET K |-> IF s = {} THEN 0 ELSE doc[Pick(s)][d] + f[s \ {Pick(s)}]]

LEMMA PickIs == \A s : s # {} => Pick(s) \in s
  BY DEF Pick

LEMMA Smaller ==
    ASSUME NEW K, IsFiniteSet(K), NEW s \in SUBSET K, NEW x \in s
    PROVE  /\ Cardinality(s) \in Nat /\ Cardinality(s \ {x}) \in Nat
           /\ Cardinality(s \ {x}) = Cardinality(s) - 1
           /\ s \ {x} \in SUBSET K
<1>1. IsFiniteSet(s) /\ IsFiniteSet(s \ {x})
  BY FS_Subset
<1>2. Cardinality(s) \in Nat /\ Cardinality(s \ {x}) \in Nat
  BY <1>1, FS_CardinalityType
<1>3. Cardinality(s \ {x}) = Cardinality(s) - 1
  BY <1>1, FS_RemoveElement
<1> QED
  BY <1>2, <1>3

LEMMA TotalsExist ==
    ASSUME NEW K, IsFiniteSet(K), NEW doc, NEW d PROVE \E f : Totals(doc, K, d, f)
<1> DEFINE Few(n) == {s \in SUBSET K : Cardinality(s) <= n}
           Next1(f, s) == IF s = {} THEN 0 ELSE doc[Pick(s)][d] + f[s \ {Pick(s)}]
           Defines(f, n) == f = [s \in Few(n) |-> Next1(f, s)]
           N == {n \in Nat : \E f : Defines(f, n)}
<1>0. \A s \in SUBSET K : /\ Cardinality(s) \in Nat /\ Cardinality(s) <= Cardinality(K)
                          /\ Cardinality(s) = 0 <=> s = {}
  BY FS_Subset, FS_CardinalityType, FS_EmptySet
<1>1. 0 \in N
  <2> DEFINE f == [s \in Few(0) |-> 0]
  <2>1. \A s \in Few(0) : s = {}
    BY <1>0
  <2>2. f = [s \in Few(0) |-> Next1(f, s)]
    BY <2>1
  <2> QED
    BY <2>2
<1>2. ASSUME NEW n \in Nat, n \in N PROVE n + 1 \in N
  <2>1. PICK f : Defines(f, n)
    BY <1>2
  <2> DEFINE g == [s \in Few(n + 1) |-> Next1(f, s)]
  <2>2. ASSUME NEW s \in Few(n + 1), s # {} PROVE s \ {Pick(s)} \in Few(n)
    <3>1. Pick(s) \in s
      BY <2>2, PickIs
    <3> QED
      BY <3>1, Smaller
  <2>a. \A s \in Few(n) : s \in Few(n + 1)
    BY <1>0
  <2> HIDE DEF Few
  <2>3. \A s \in Few(n) : s \in Few(n + 1) /\ f[s] = Next1(f, s)
    BY <2>1, <2>a
  <2>4. \A s \in Few(n) : g[s] = f[s]
    BY <2>3
  <2>5. \A s \in Few(n + 1) : Next1(f, s) = Next1(g, s)
    BY <2>2, <2>4
  <2>6. Defines(g, n + 1)
    BY <2>5
  <2> HIDE DEF Defines, g
  <2> QED
    BY <2>6
<1>3. Nat \subseteq N
  <2> HIDE DEF N
  <2> QED
    BY <1>1, <1>2, EveryNumber
<1>4. PICK f : Defines(f, Cardinality(K))
  BY <1>3, FS_CardinalityType
<1>5. Few(Cardinality(K)) = SUBSET K
  BY <1>0
<1> QED
  BY <1>4, <1>5 DEF Totals

\* Two of them agree where both are defined.
LEMMA TotalsAgree ==
    ASSUME NEW K, IsFiniteSet(K), NEW L \in SUBSET K, NEW doc, NEW d, NEW f, NEW g,
           Totals(doc, K, d, f), Totals(doc, L, d, g)
    PROVE  \A s \in SUBSET L : f[s] = g[s]
<1> DEFINE N == {n \in Nat : \A s \in SUBSET L : Cardinality(s) <= n => f[s] = g[s]}
<1>0. \A s \in SUBSET L : /\ IsFiniteSet(s) /\ Cardinality(s) \in Nat
                          /\ Cardinality(s) = 0 <=> s = {}
  BY FS_Subset, FS_CardinalityType, FS_EmptySet
<1>1. 0 \in N
  BY <1>0 DEF Totals
<1>2. ASSUME NEW n \in Nat, n \in N PROVE n + 1 \in N
  <2> SUFFICES ASSUME NEW s \in SUBSET L, Cardinality(s) <= n + 1 PROVE f[s] = g[s]
    OBVIOUS
  <2>1. CASE s = {}
    BY <2>1 DEF Totals
  <2>2. CASE s # {}
    <3>1. Pick(s) \in s
      BY <2>2, PickIs
    <3>2. s \ {Pick(s)} \in SUBSET L /\ Cardinality(s \ {Pick(s)}) <= n
      BY <3>1, Smaller
    <3>3. f[s \ {Pick(s)}] = g[s \ {Pick(s)}]
      BY <1>2, <3>2
    <3> QED
      BY <2>2, <3>3 DEF Totals
  <2> QED
    BY <2>1, <2>2
<1>3. Nat \subseteq N
  <2> HIDE DEF N
  <2> QED
    BY <1>1, <1>2, EveryNumber
<1> QED
  BY <1>0, <1>3

LEMMA SecondsTotal ==
    ASSUME NEW K, IsFiniteSet(K), NEW doc, NEW d
    PROVE  \E f : Totals(doc, K, d, f) /\ SecondsOf(doc, K, d) = f[K]
<1>1. \E f : f = [s \in SUBSET K |-> IF s = {} THEN 0
                      ELSE doc[CHOOSE x \in s : TRUE][d] + f[s \ {CHOOSE x \in s : TRUE}]]
  <2>1. PICK f : Totals(doc, K, d, f)
    BY TotalsExist
  <2> QED
    BY <2>1, Zenon DEF Totals, Pick
<1>2. PICK f : /\ f = CHOOSE g : g = [s \in SUBSET K |-> IF s = {} THEN 0
                      ELSE doc[CHOOSE x \in s : TRUE][d] + g[s \ {CHOOSE x \in s : TRUE}]]
               /\ SecondsOf(doc, K, d) = f[K]
  BY Zenon DEF SecondsOf, MapThenSumSet, MapThenFoldSet
<1>3. f = [s \in SUBSET K |-> IF s = {} THEN 0
              ELSE doc[CHOOSE x \in s : TRUE][d] + f[s \ {CHOOSE x \in s : TRUE}]]
  BY <1>1, <1>2, Zenon
<1> QED
  BY <1>2, <1>3 DEF Totals, Pick

\* One key's seconds and those of the others.
Parts(doc, K, k, d) == doc[k][d] + SecondsOf(doc, K \ {k}, d)

LEMMA SecondsPick ==
    ASSUME NEW K, IsFiniteSet(K), NEW doc, NEW d
    PROVE  /\ K = {} => SecondsOf(doc, K, d) = 0
           /\ K # {} => SecondsOf(doc, K, d) = Parts(doc, K, Pick(K), d)
<1> DEFINE L == K \ {Pick(K)}
<1>1. IsFiniteSet(L) /\ L \in SUBSET K
  BY FS_Subset
<1>2. PICK f : Totals(doc, K, d, f) /\ SecondsOf(doc, K, d) = f[K]
  BY SecondsTotal
<1>3. PICK g : Totals(doc, L, d, g) /\ SecondsOf(doc, L, d) = g[L]
  BY <1>1, SecondsTotal
<1> HIDE DEF L
<1>4. f[L] = g[L]
  BY <1>1, <1>2, <1>3, TotalsAgree
<1>5. f[K] = IF K = {} THEN 0 ELSE doc[Pick(K)][d] + f[K \ {Pick(K)}]
  BY <1>2 DEF Totals
<1> QED
  BY <1>2, <1>3, <1>4, <1>5 DEF L, Parts

LEMMA SecondsAre ==
    ASSUME NEW K, IsFiniteSet(K), NEW doc, NEW d, \A k \in K : doc[k][d] \in Nat
    PROVE  /\ SecondsOf(doc, K, d) \in Nat
           /\ \A k \in K : SecondsOf(doc, K, d) = doc[k][d] + SecondsOf(doc, K \ {k}, d)
<1> DEFINE Sum(s) == SecondsOf(doc, s, d)
           Adds(s) == Sum(s) \in Nat /\ \A k \in s : Sum(s) = doc[k][d] + Sum(s \ {k})
           N == {n \in Nat : \A s \in SUBSET K : Cardinality(s) <= n => Adds(s)}
<1> HIDE DEF Sum
<1>0. \A s \in SUBSET K : /\ IsFiniteSet(s) /\ Cardinality(s) \in Nat
                          /\ Cardinality(s) = 0 <=> s = {}
  BY FS_Subset, FS_CardinalityType, FS_EmptySet
<1>1. \A s \in SUBSET K : /\ s = {} => Sum(s) = 0
                          /\ s # {} => Sum(s) = doc[Pick(s)][d] + Sum(s \ {Pick(s)})
  <2> SUFFICES ASSUME NEW s \in SUBSET K
               PROVE  /\ s = {} => Sum(s) = 0
                      /\ s # {} => Sum(s) = doc[Pick(s)][d] + Sum(s \ {Pick(s)})
    OBVIOUS
  <2>1. IsFiniteSet(s)
    BY <1>0
  <2>2. CASE s = {}
    <3>1. SecondsOf(doc, s, d) = 0
      BY <2>1, <2>2, SecondsPick
    <3> QED
      BY <2>2, <3>1 DEF Sum
  <2>3. CASE s # {}
    <3>1. SecondsOf(doc, s, d) = Parts(doc, s, Pick(s), d)
      BY <2>1, <2>3, SecondsPick
    <3> QED
      BY <2>3, <3>1 DEF Sum, Parts
  <2> QED
    BY <2>2, <2>3
<1>2. 0 \in N
  BY <1>0, <1>1
<1>3. ASSUME NEW n \in Nat, n \in N PROVE n + 1 \in N
  <2> SUFFICES ASSUME NEW s \in SUBSET K, Cardinality(s) <= n + 1 PROVE Adds(s)
    OBVIOUS
  <2>1. CASE s = {}
    <3>1. Sum(s) = 0
      BY <1>1, <2>1
    <3> QED
      BY <2>1, <3>1
  <2>2. CASE s # {}
    <3>0. PICK x : x = Pick(s)
      OBVIOUS
    <3>1. x \in s /\ Sum(s) = doc[x][d] + Sum(s \ {x})
      BY <1>1, <2>2, <3>0, PickIs
    <3>2. ASSUME NEW t \in SUBSET s, NEW y \in s, t \subseteq s \ {y} PROVE Adds(t)
      <4>1. s \ {y} \in SUBSET K /\ Cardinality(s \ {y}) <= n
        BY Smaller
      <4>2. Cardinality(t) <= Cardinality(s \ {y}) /\ Cardinality(t) \in Nat
            /\ Cardinality(s \ {y}) \in Nat
        BY <1>0, <3>2, <4>1, FS_Subset
      <4> QED
        BY <1>3, <4>1, <4>2
    <3>3. Sum(s) \in Nat
      BY <3>1, <3>2
    <3>4. ASSUME NEW k \in s, k # x PROVE Sum(s) = doc[k][d] + Sum(s \ {k})
      <4>1. Sum(s \ {x}) = doc[k][d] + Sum((s \ {x}) \ {k})
        BY <3>1, <3>2, <3>4
      <4>2. Sum(s \ {k}) = doc[x][d] + Sum((s \ {k}) \ {x})
        BY <3>1, <3>2, <3>4
      <4>3. (s \ {x}) \ {k} = (s \ {k}) \ {x} /\ Sum((s \ {x}) \ {k}) \in Nat
        BY <3>1, <3>2
      <4>4. doc[k][d] \in Nat /\ doc[x][d] \in Nat
        BY <3>1
      <4>5. PICK m \in Nat : m = Sum((s \ {x}) \ {k})
        BY <4>3
      <4>6. /\ Sum(s) = doc[x][d] + (doc[k][d] + m)
            /\ Sum(s \ {k}) = doc[x][d] + m
        BY <3>1, <4>1, <4>2, <4>3, <4>5
      <4> QED
        BY <4>4, <4>6
    <3> QED
      BY <3>1, <3>3, <3>4
  <2> QED
    BY <2>1, <2>2
<1>4. Nat \subseteq N
  <2> HIDE DEF N
  <2> QED
    BY <1>2, <1>3, EveryNumber
<1>5. Adds(K)
  BY <1>0, <1>4
<1> QED
  BY <1>5 DEF Sum

\* What the sum goes by is what the keys have that day.
LEMMA SecondsSame ==
    ASSUME NEW K, IsFiniteSet(K), NEW doc, NEW new, NEW d,
           \A k \in K : doc[k][d] \in Nat /\ new[k][d] = doc[k][d]
    PROVE  SecondsOf(new, K, d) = SecondsOf(doc, K, d)
<1> DEFINE T == {s \in SUBSET K : SecondsOf(new, s, d) = SecondsOf(doc, s, d)}
<1>0. \A s \in SUBSET K : IsFiniteSet(s)
  BY FS_Subset
<1>1. {} \in T
  BY <1>0, SecondsPick
<1>2. ASSUME NEW U \in SUBSET K, NEW x \in K, U \in T, x \notin U PROVE U \cup {x} \in T
  <2> DEFINE V == U \cup {x}
  <2>1. V \in SUBSET K /\ IsFiniteSet(V) /\ x \in V /\ V \ {x} = U
    BY <1>0, <1>2
  <2> HIDE DEF V
  <2>2. SecondsOf(doc, V, d) = doc[x][d] + SecondsOf(doc, V \ {x}, d)
    BY <2>1, SecondsAre
  <2>3. SecondsOf(new, V, d) = new[x][d] + SecondsOf(new, V \ {x}, d)
    BY <2>1, SecondsAre
  <2> QED
    BY <1>2, <2>1, <2>2, <2>3 DEF V
<1>3. SUBSET K \subseteq T
  <2> HIDE DEF T
  <2> QED
    BY <1>1, <1>2, EverySubset
<1> QED
  BY <1>3

LEMMA SecondsNone ==
    ASSUME NEW K, IsFiniteSet(K), NEW doc, NEW d, \A k \in K : doc[k][d] = 0
    PROVE  SecondsOf(doc, K, d) = 0
<1> DEFINE T == {s \in SUBSET K : SecondsOf(doc, s, d) = 0}
<1>0. \A s \in SUBSET K : IsFiniteSet(s)
  BY FS_Subset
<1>1. {} \in T
  BY <1>0, SecondsPick
<1>2. ASSUME NEW U \in SUBSET K, NEW x \in K, U \in T, x \notin U PROVE U \cup {x} \in T
  <2> DEFINE V == U \cup {x}
  <2>1. V \in SUBSET K /\ IsFiniteSet(V) /\ x \in V /\ V \ {x} = U
    BY <1>0, <1>2
  <2> HIDE DEF V
  <2>2. SecondsOf(doc, V, d) = doc[x][d] + SecondsOf(doc, V \ {x}, d)
    BY <2>1, SecondsAre
  <2>3. doc[x][d] = 0 /\ SecondsOf(doc, V \ {x}, d) = 0
    BY <1>2, <2>1
  <2>4. SecondsOf(doc, V, d) = 0
    BY <2>2, <2>3
  <2> QED
    BY <2>1, <2>4 DEF V
<1>3. SUBSET K \subseteq T
  <2> HIDE DEF T
  <2> QED
    BY <1>1, <1>2, EverySubset
<1> QED
  BY <1>3

\* One key has n more than it had.
LEMMA SecondsRaised ==
    ASSUME NEW K, IsFiniteSet(K), NEW doc, NEW new, NEW d, NEW a \in K, NEW n \in Nat,
           \A k \in K : doc[k][d] \in Nat,
           new[a][d] = doc[a][d] + n,
           \A k \in K \ {a} : new[k][d] = doc[k][d]
    PROVE  SecondsOf(new, K, d) = SecondsOf(doc, K, d) + n
<1>1. IsFiniteSet(K \ {a})
  BY FS_Subset
<1>2. SecondsOf(new, K \ {a}, d) = SecondsOf(doc, K \ {a}, d)
  <2>1. \A k \in K \ {a} : doc[k][d] \in Nat /\ new[k][d] = doc[k][d]
    OBVIOUS
  <2> QED
    BY <1>1, <2>1, SecondsSame
<1>3. PICK m \in Nat : m = SecondsOf(doc, K \ {a}, d)
  BY <1>1, SecondsAre
<1>4. \A k \in K : new[k][d] \in Nat
  OBVIOUS
<1>5. SecondsOf(doc, K, d) = doc[a][d] + m
  BY <1>3, SecondsAre
<1>6. SecondsOf(new, K, d) = new[a][d] + m
  BY <1>2, <1>3, <1>4, SecondsAre
<1>7. doc[a][d] \in Nat
  OBVIOUS
<1> QED
  BY <1>5, <1>6, <1>7

\* The seconds of one key go to another.
Shifted(doc, new, K, d, a, s) ==
    /\ \A k \in K : doc[k][d] \in Nat
    /\ a # s /\ new[a][d] = 0 /\ new[s][d] = doc[s][d] + doc[a][d]
    /\ \A k \in K \ {a, s} : new[k][d] = doc[k][d]

LEMMA SecondsMoved ==
    ASSUME NEW K, IsFiniteSet(K), NEW doc, NEW new, NEW d, NEW a \in K, NEW s \in K,
           Shifted(doc, new, K, d, a, s)
    PROVE  SecondsOf(new, K, d) = SecondsOf(doc, K, d)
<1> USE DEF Shifted
<1>0. PICK n \in Nat : doc[a][d] = n
  OBVIOUS
<1> DEFINE L == K \ {a}
<1>1. IsFiniteSet(L) /\ s \in L
  BY FS_Subset
<1>2. SecondsOf(new, L, d) = SecondsOf(doc, L, d) + n
  <2>1. /\ \A k \in L : doc[k][d] \in Nat
        /\ \A k \in L \ {s} : new[k][d] = doc[k][d]
        /\ new[s][d] = doc[s][d] + n
    BY <1>0
  <2> HIDE DEF L
  <2> QED
    BY <1>1, <2>1, SecondsRaised
<1>3. \A k \in K : new[k][d] \in Nat
  BY <1>0
<1>4. PICK m \in Nat : m = SecondsOf(doc, L, d)
  <2>1. \A k \in L : doc[k][d] \in Nat
    OBVIOUS
  <2> HIDE DEF L
  <2> QED
    BY <1>1, <2>1, SecondsAre
<1>5. SecondsOf(doc, K, d) = doc[a][d] + m
  BY <1>4, SecondsAre
<1>6. SecondsOf(new, K, d) = new[a][d] + SecondsOf(new, L, d)
  BY <1>3, SecondsAre
<1>7. doc[a][d] \in Nat /\ new[a][d] = 0
  OBVIOUS
<1> HIDE DEF L
<1> QED
  BY <1>0, <1>2, <1>4, <1>5, <1>6, <1>7

\* No key has more than all of them.
LEMMA SecondsBound ==
    ASSUME NEW K, IsFiniteSet(K), NEW doc, NEW d, NEW k \in K, \A x \in K : doc[x][d] \in Nat
    PROVE  doc[k][d] <= SecondsOf(doc, K, d)
<1>1. IsFiniteSet(K \ {k})
  BY FS_Subset
<1>2. PICK m \in Nat : m = SecondsOf(doc, K \ {k}, d)
  BY <1>1, SecondsAre
<1>3. SecondsOf(doc, K, d) = doc[k][d] + m
  BY <1>2, SecondsAre
<1> QED
  BY <1>3

-----------------------------------------------------------------------------
(* Reading statistics.                                                     *)

LEMMA KeysFinite == IsFiniteSet(StatKeys)
<1>1. IsFiniteSet(Scopes)
  BY DocumentsAssumption, FS_AddElement DEF Scopes
<1>2. IsFiniteSet({Reader} \X Books)
  BY DocumentsAssumption, FS_Singleton, FS_Product
<1> QED
  BY <1>1, <1>2, FS_Union DEF StatKeys

\* What the books of B, moved by h, take to the key k.
Taken(B, k, h) == {<<Reader, b>> : b \in {b \in B : h[b] = k}}

\* The document once the books of B have moved, without the daily cap.
Projected(doc, B, h) ==
    [k \in StatKeys |-> [d \in Days |->
        IF \E b \in B : k = <<Reader, b>> /\ h[b] # None THEN 0
        ELSE doc[k][d] + SecondsOf(doc, Taken(B, k, h), d)]]

LEMMA TakenIs ==
    ASSUME NEW h \in [Books -> Shelves \cup {None}], NEW doc \in [StatKeys -> [Days -> Nat]],
           NEW B \in SUBSET Books, NEW k \in StatKeys, NEW d \in Days
    PROVE  /\ Taken(B, k, h) \subseteq StatKeys /\ IsFiniteSet(Taken(B, k, h))
           /\ SecondsOf(doc, Taken(B, k, h), d) \in Nat
           /\ k \notin Shelves => SecondsOf(doc, Taken(B, k, h), d) = 0
<1> DEFINE T == Taken(B, k, h)
<1>1. T \subseteq StatKeys
  BY DEF Taken, StatKeys
<1>2. IsFiniteSet(T)
  BY <1>1, KeysFinite, FS_Subset
<1>3. \A x \in T : doc[x][d] \in Nat
  BY <1>1
<1>4. SecondsOf(doc, T, d) \in Nat
  <2> HIDE DEF T
  <2> QED
    BY <1>2, <1>3, SecondsAre
<1>5. ASSUME k \notin Shelves PROVE SecondsOf(doc, T, d) = 0
  <2>1. \A b \in B : h[b] # k
    <3>1. CASE k # None
      BY <1>5, <3>1
    <3>2. CASE k = None
      BY <3>2, DocumentsAssumption
    <3> QED
      BY <3>1, <3>2
  <2>2. T = {}
    BY <2>1 DEF Taken
  <2> HIDE DEF T
  <2> QED
    BY <1>2, <2>2, SecondsPick
<1> QED
  BY <1>1, <1>2, <1>4, <1>5

LEMMA ProjectedOne ==
    ASSUME NEW h \in [Books -> Shelves \cup {None}], NEW doc \in [StatKeys -> [Days -> Nat]],
           NEW B \in SUBSET Books, NEW b \in Books, b \notin B, NEW d \in Days
    PROVE  SecondsOf(Projected(doc, B \cup {b}, h), StatKeys, d)
             = SecondsOf(Projected(doc, B, h), StatKeys, d)
<1> DEFINE a == <<Reader, b>>
           s == h[b]
           C == B \cup {b}
           old == Projected(doc, B, h)
           new == Projected(doc, C, h)
           Moved(U, k) == \E x \in U : k = <<Reader, x>> /\ h[x] # None
<1>0. C \in SUBSET Books /\ a \in StatKeys /\ s \in Shelves \cup {None}
  BY DEF StatKeys
<1>1. \A k \in StatKeys :
          /\ old[k][d] = (IF Moved(B, k) THEN 0 ELSE doc[k][d] + SecondsOf(doc, Taken(B, k, h), d))
          /\ new[k][d] = (IF Moved(C, k) THEN 0 ELSE doc[k][d] + SecondsOf(doc, Taken(C, k, h), d))
  BY DEF Projected
<1> HIDE DEF old, new
<1>2. \A k \in StatKeys : k # a => (Moved(B, k) <=> Moved(C, k))
  OBVIOUS
<1>3. \A k \in StatKeys : k # s => Taken(C, k, h) = Taken(B, k, h)
  BY DEF Taken
<1>4. \A k \in StatKeys : k # a /\ k # s => new[k][d] = old[k][d]
  <2> HIDE DEF Moved
  <2> QED
    BY <1>1, <1>2, <1>3
<1>5. \A k \in StatKeys : old[k][d] \in Nat /\ doc[k][d] \in Nat
  <2> TAKE k \in StatKeys
  <2>1. doc[k][d] \in Nat /\ SecondsOf(doc, Taken(B, k, h), d) \in Nat
    BY TakenIs
  <2> HIDE DEF Moved
  <2> QED
    BY <1>1, <2>1
<1>6. ~ Moved(B, a) /\ SecondsOf(doc, Taken(B, a, h), d) = 0
      /\ SecondsOf(doc, Taken(C, a, h), d) = 0 /\ a \notin Shelves
  <2>1. a \notin Shelves
    BY DocumentsAssumption DEF Scopes
  <2> HIDE DEF a
  <2>2. SecondsOf(doc, Taken(B, a, h), d) = 0 /\ SecondsOf(doc, Taken(C, a, h), d) = 0
    BY <1>0, <2>1, TakenIs
  <2>3. ~ Moved(B, a)
    BY DEF a
  <2> QED
    BY <2>1, <2>2, <2>3
<1>7. CASE s = None
  <2>1. ~ Moved(C, a) /\ s \notin StatKeys
    BY <1>7, DocumentsAssumption DEF StatKeys
  <2>2. new[a][d] = old[a][d]
    <3> HIDE DEF Moved
    <3> QED
      BY <1>0, <1>1, <1>5, <1>6, <2>1
  <2>3. \A k \in StatKeys : old[k][d] \in Nat /\ new[k][d] = old[k][d]
    BY <1>4, <1>5, <2>1, <2>2
  <2>4. SecondsOf(new, StatKeys, d) = SecondsOf(old, StatKeys, d)
    BY <2>3, KeysFinite, SecondsSame
  <2> QED
    BY <2>4 DEF old, new
<1>8. CASE s # None
  <2>1. s \in Shelves /\ s \in StatKeys /\ s # a
    BY <1>0, <1>6, <1>8 DEF StatKeys, Scopes
  <2>2. Moved(C, a)
    BY <1>8
  <2>3. ~ Moved(B, s) /\ ~ Moved(C, s)
    <3>1. \A x \in Books : <<Reader, x>> \notin Shelves
      BY DocumentsAssumption DEF Scopes
    <3> QED
      BY <1>0, <2>1, <3>1
  <2> HIDE DEF Moved
  <2>4. new[a][d] = 0 /\ old[a][d] = doc[a][d]
    BY <1>0, <1>1, <1>5, <1>6, <2>2
  <2>5. SecondsOf(doc, Taken(C, s, h), d) = doc[a][d] + SecondsOf(doc, Taken(B, s, h), d)
    <3> DEFINE T == Taken(C, s, h)
    <3>1. IsFiniteSet(T) /\ \A x \in T : doc[x][d] \in Nat
      BY <1>0, <1>5, <2>1, TakenIs
    <3>2. a \in T /\ T \ {a} = Taken(B, s, h)
      BY DEF Taken
    <3> HIDE DEF T, a
    <3>3. SecondsOf(doc, T, d) = doc[a][d] + SecondsOf(doc, T \ {a}, d)
      BY <3>1, <3>2, SecondsAre
    <3> QED
      BY <3>2, <3>3 DEF T
  <2>6. new[s][d] = old[s][d] + old[a][d]
    <3>1. PICK m \in Nat : m = SecondsOf(doc, Taken(B, s, h), d)
      BY <2>1, TakenIs
    <3>2. old[s][d] = doc[s][d] + m /\ new[s][d] = doc[s][d] + (doc[a][d] + m)
      BY <1>1, <2>1, <2>3, <2>5, <3>1
    <3>3. doc[s][d] \in Nat /\ doc[a][d] \in Nat
      BY <1>0, <1>5, <2>1
    <3> QED
      BY <2>4, <3>2, <3>3
  <2>7. \A k \in StatKeys \ {a, s} : new[k][d] = old[k][d]
    BY <1>4
  <2>8. \A k \in StatKeys : old[k][d] \in Nat
    BY <1>5
  <2> HIDE DEF a, s
  <2>9. SecondsOf(new, StatKeys, d) = SecondsOf(old, StatKeys, d)
    <3>1. Shifted(old, new, StatKeys, d, a, s)
      BY <2>1, <2>4, <2>6, <2>7, <2>8 DEF Shifted
    <3> QED
      BY <1>0, <2>1, <3>1, KeysFinite, SecondsMoved
  <2> QED
    BY <2>9 DEF old, new
<1> QED
  BY <1>7, <1>8

\* Moving books leaves each day's total as it was.
LEMMA ProjectedAll ==
    ASSUME NEW h \in [Books -> Shelves \cup {None}], NEW doc \in [StatKeys -> [Days -> Nat]],
           NEW d \in Days
    PROVE  SecondsOf(Projected(doc, Books, h), StatKeys, d) = SecondsOf(doc, StatKeys, d)
<1> DEFINE Sum(B) == SecondsOf(Projected(doc, B, h), StatKeys, d)
           T == {B \in SUBSET Books : Sum(B) = SecondsOf(doc, StatKeys, d)}
<1>1. {} \in T
  <2>1. ASSUME NEW k \in StatKeys
        PROVE  doc[k][d] \in Nat /\ Projected(doc, {}, h)[k][d] = doc[k][d]
    <3>1. SecondsOf(doc, Taken({}, k, h), d) = 0
      <4>1. Taken({}, k, h) = {}
        BY DEF Taken
      <4> QED
        BY <4>1, FS_EmptySet, SecondsPick
    <3> QED
      BY <3>1 DEF Projected
  <2> HIDE DEF Projected
  <2>2. Sum({}) = SecondsOf(doc, StatKeys, d)
    BY <2>1, KeysFinite, SecondsSame
  <2> QED
    BY <2>2
<1>2. ASSUME NEW U \in SUBSET Books, NEW x \in Books, U \in T, x \notin U PROVE U \cup {x} \in T
  <2>1. Sum(U \cup {x}) = Sum(U)
    BY <1>2, ProjectedOne
  <2> HIDE DEF Sum
  <2> QED
    BY <1>2, <2>1
<1>3. SUBSET Books \subseteq T
  <2> HIDE DEF T
  <2> QED
    BY <1>1, <1>2, DocumentsAssumption, EverySubset
<1>4. Books \in T
  BY <1>3
<1> QED
  BY <1>4

\* Project keeps each day's total, unless the cap is reached.
LEMMA ProjectConserves ==
    ASSUME NEW h \in [Books -> Shelves \cup {None}],
           NEW doc \in [StatKeys -> [Days -> 0..MaxPerDay]]
    PROVE  /\ ProjectStats(doc, h) \in [StatKeys -> [Days -> 0..MaxPerDay]]
           /\ \A d \in Days :
                 /\ SecondsOf(doc, StatKeys, d) <= MaxPerDay =>
                       SecondsOf(ProjectStats(doc, h), StatKeys, d) = SecondsOf(doc, StatKeys, d)
                 /\ (\A k \in StatKeys : doc[k][d] = 0) =>
                       \A k \in StatKeys : ProjectStats(doc, h)[k][d] = 0
<1> DEFINE new == ProjectStats(doc, h)
           full == Projected(doc, Books, h)
<1>0. doc \in [StatKeys -> [Days -> Nat]] /\ MaxPerDay \in Nat
  BY DocumentsAssumption
<1>1. \A k \in StatKeys, d \in Days :
          new[k][d] = (IF Pending(k, h) THEN 0
                       ELSE Least(doc[k][d] + SecondsOf(doc, Taken(Books, k, h), d), MaxPerDay))
  BY DEF ProjectStats, Taken
<1>2. \A k \in StatKeys, d \in Days :
          full[k][d] = (IF Pending(k, h) THEN 0
                        ELSE doc[k][d] + SecondsOf(doc, Taken(Books, k, h), d))
  BY DEF Projected, Pending
<1>3. new = [k \in StatKeys |-> [d \in Days |-> new[k][d]]]
  BY DEF ProjectStats
<1> HIDE DEF new, full
<1>4. \A k \in StatKeys, d \in Days : /\ doc[k][d] \in Nat
                                      /\ SecondsOf(doc, Taken(Books, k, h), d) \in Nat
  BY <1>0, TakenIs
<1>5. \A k \in StatKeys, d \in Days : /\ full[k][d] \in Nat
                                      /\ new[k][d] = Least(full[k][d], MaxPerDay)
                                      /\ new[k][d] \in 0..MaxPerDay
  <2> TAKE k \in StatKeys, d \in Days
  <2>1. PICK m \in Nat : m = SecondsOf(doc, Taken(Books, k, h), d)
    BY <1>4
  <2> QED
    BY <1>0, <1>1, <1>2, <1>4, <2>1 DEF Least
<1>6. new \in [StatKeys -> [Days -> 0..MaxPerDay]]
  BY <1>3, <1>5
<1>7. ASSUME NEW d \in Days, SecondsOf(doc, StatKeys, d) <= MaxPerDay
      PROVE  SecondsOf(new, StatKeys, d) = SecondsOf(doc, StatKeys, d)
  <2>1. SecondsOf(full, StatKeys, d) = SecondsOf(doc, StatKeys, d)
    BY <1>0, ProjectedAll DEF full
  <2>2. \A k \in StatKeys : full[k][d] \in Nat
    BY <1>5
  <2>3. \A k \in StatKeys : full[k][d] <= SecondsOf(full, StatKeys, d)
    BY <2>2, KeysFinite, SecondsBound
  <2>4. SecondsOf(full, StatKeys, d) \in Nat
    BY <2>2, KeysFinite, SecondsAre
  <2>5. \A k \in StatKeys : full[k][d] \in Nat /\ new[k][d] = full[k][d]
    BY <1>0, <1>5, <1>7, <2>1, <2>3, <2>4 DEF Least
  <2>6. SecondsOf(new, StatKeys, d) = SecondsOf(full, StatKeys, d)
    BY <2>5, KeysFinite, SecondsSame
  <2> QED
    BY <2>1, <2>6
<1>8. ASSUME NEW d \in Days, \A k \in StatKeys : doc[k][d] = 0, NEW k \in StatKeys
      PROVE  new[k][d] = 0
  <2>1. SecondsOf(doc, Taken(Books, k, h), d) = 0
    <3>1. IsFiniteSet(Taken(Books, k, h)) /\ \A x \in Taken(Books, k, h) : doc[x][d] = 0
      BY <1>0, <1>8, TakenIs
    <3> QED
      BY <3>1, SecondsNone
  <2> QED
    BY <1>0, <1>1, <1>8, <2>1 DEF Least
<1> QED
  BY <1>6, <1>7, <1>8 DEF new

StatsDoc == [StatKeys -> [Days -> 0..MaxPerDay]]
NoneAfter(doc, t) == \A k \in StatKeys, d \in Days : d > t => doc[k][d] = 0

LEMMA StatsNumbers ==
    ASSUME NEW doc \in StatsDoc, NEW d \in Days
    PROVE  /\ \A k \in StatKeys : doc[k][d] \in Nat /\ doc[k][d] <= MaxPerDay
           /\ SecondsOf(doc, StatKeys, d) \in Nat
<1>1. \A k \in StatKeys : doc[k][d] \in Nat /\ doc[k][d] <= MaxPerDay
  BY DocumentsAssumption DEF StatsDoc
<1> QED
  BY <1>1, KeysFinite, SecondsAre

\* withSeconds adds what it is given to a day that is kept, and drops none of those.
LEMMA AddConserves ==
    ASSUME NEW doc \in StatsDoc, NEW key \in StatKeys, NEW date \in Days, NEW t \in Nat,
           NoneAfter(doc, t), NEW new, new = WithSeconds(doc, key, date, 1, t)
    PROVE  /\ new \in StatsDoc /\ NoneAfter(new, t)
           /\ \A d \in Days : d > t - Retention =>
                 /\ ~(Kept(date, t) /\ d = date) =>
                       SecondsOf(new, StatKeys, d) = SecondsOf(doc, StatKeys, d)
                 /\ Kept(date, t) /\ d = date /\ SecondsOf(doc, StatKeys, d) + 1 <= MaxPerDay =>
                       SecondsOf(new, StatKeys, d) = SecondsOf(doc, StatKeys, d) + 1
<1>0. MaxPerDay \in Nat /\ Retention \in Nat /\ MaxDay \in Nat /\ \A d \in Days : d \in Nat
  BY DocumentsAssumption DEF Days
<1>1. CASE ~ Kept(date, t)
  <2>1. new = doc
    BY <1>1 DEF WithSeconds
  <2> QED
    BY <1>1, <2>1
<1>2. CASE Kept(date, t)
  <2>1. new = [doc EXCEPT ![key] = [d \in Days |->
                  IF d = date THEN Least(doc[key][d] + 1, MaxPerDay)
                  ELSE IF Kept(d, t) THEN doc[key][d] ELSE 0]]
    BY <1>2 DEF WithSeconds
  <2>2. \A d \in Days : new[key][d] = (IF d = date THEN Least(doc[key][d] + 1, MaxPerDay)
                                       ELSE IF Kept(d, t) THEN doc[key][d] ELSE 0)
    BY <2>1 DEF StatsDoc
  <2>3. \A k \in StatKeys \ {key} : new[k] = doc[k]
    BY <2>1 DEF StatsDoc
  <2>4. \A d \in Days : /\ doc[key][d] \in Nat /\ doc[key][d] <= MaxPerDay
                        /\ SecondsOf(doc, StatKeys, d) \in Nat
    BY StatsNumbers
  <2>5. \A d \in Days : Least(doc[key][d] + 1, MaxPerDay) \in 0..MaxPerDay
    BY <1>0, <2>4 DEF Least
  <2>6. new \in StatsDoc
    <3>1. \A d \in Days : doc[key][d] \in 0..MaxPerDay /\ 0 \in 0..MaxPerDay
      BY <1>0, <2>4
    <3> QED
      BY <2>1, <2>5, <3>1 DEF StatsDoc
  <2>7. NoneAfter(new, t)
    <3>1. ASSUME NEW d \in Days, d > t PROVE new[key][d] = 0
      <4>1. d # date /\ ~ Kept(d, t)
        BY <1>0, <1>2, <3>1 DEF Kept
      <4> QED
        BY <2>2, <4>1
    <3> QED
      BY <2>3, <3>1 DEF NoneAfter
  <2>8. ASSUME NEW d \in Days, d > t - Retention, d # date
        PROVE  SecondsOf(new, StatKeys, d) = SecondsOf(doc, StatKeys, d)
    <3>1. new[key][d] = doc[key][d]
      <4>1. Kept(d, t) \/ d > t
        BY <1>0, <2>8 DEF Kept
      <4>2. d > t => doc[key][d] = 0
        BY DEF NoneAfter
      <4> QED
        BY <2>2, <2>8, <4>1, <4>2
    <3>2. \A k \in StatKeys : doc[k][d] \in Nat /\ new[k][d] = doc[k][d]
      BY <2>3, <3>1, StatsNumbers
    <3> QED
      BY <3>2, KeysFinite, SecondsSame
  <2>9. ASSUME SecondsOf(doc, StatKeys, date) + 1 <= MaxPerDay
        PROVE  SecondsOf(new, StatKeys, date) = SecondsOf(doc, StatKeys, date) + 1
    <3>1. \A k \in StatKeys : doc[k][date] \in Nat
      BY StatsNumbers
    <3>2. doc[key][date] <= SecondsOf(doc, StatKeys, date)
      BY <3>1, KeysFinite, SecondsBound
    <3>3. new[key][date] = doc[key][date] + 1
      <4>1. doc[key][date] + 1 <= MaxPerDay
        BY <1>0, <2>4, <2>9, <3>2
      <4> QED
        BY <2>2, <4>1 DEF Least
    <3>4. \A k \in StatKeys \ {key} : new[k][date] = doc[k][date]
      BY <2>3
    <3> QED
      BY <3>1, <3>3, <3>4, KeysFinite, SecondsRaised
  <2>a. ASSUME NEW d \in Days, d > t - Retention
        PROVE  /\ ~(Kept(date, t) /\ d = date) =>
                     SecondsOf(new, StatKeys, d) = SecondsOf(doc, StatKeys, d)
               /\ Kept(date, t) /\ d = date /\ SecondsOf(doc, StatKeys, d) + 1 <= MaxPerDay =>
                     SecondsOf(new, StatKeys, d) = SecondsOf(doc, StatKeys, d) + 1
    <3>1. CASE d = date
      BY <1>2, <2>9, <3>1
    <3>2. CASE d # date
      BY <2>8, <2>a, <3>2
    <3> QED
      BY <3>1, <3>2
  <2> QED
    BY <2>6, <2>7, <2>a
<1> QED
  BY <1>1, <1>2

\* What a call is about to write was made on the day t, when the file had nothing of a
\* later day, as it still has.
MadeAt(v, t) ==
    /\ \E h \in [Books -> Shelves \cup {None}] : v.next = ApplyTo(v.op, file, h, t)
    /\ v.adds = (v.op.do = "add" /\ Kept(v.op.date, t))
    /\ NoneAfter(file, t)

\* Each day that is still kept, or is yet to come, has the seconds that were added.
StatsInv ==
    kind = "stats" =>
        /\ file \in StatsDoc /\ NoneAfter(file, today)
        /\ added \in [Days -> Nat] /\ \A d \in Days : d > today => added[d] = 0
        /\ \A d \in Days : d > today - Retention /\ added[d] <= MaxPerDay =>
              SecondsOf(file, StatKeys, d) = added[d]
        /\ \A c \in Callers : call[c].pc = "write" => \E t \in 1..today : MadeAt(call[c], t)

LEMMA StatsRename ==
    ASSUME RecordsInv, AskedInv, StatsInv, NEW c \in Callers, Rename(c), kind = "stats"
    PROVE  StatsInv'
<1> DEFINE o == call[c].op
<1>0. /\ file \in StatsDoc /\ added \in [Days -> Nat] /\ today \in Nat
      /\ \A d \in Days : d > today => added[d] = 0
      /\ \A d \in Days : d > today - Retention /\ added[d] <= MaxPerDay =>
            SecondsOf(file, StatKeys, d) = added[d]
  BY DEF StatsInv, RecordsInv
<1>n. MaxPerDay \in Nat /\ Retention \in Nat /\ MaxDay \in Nat /\ \A d \in Days : d \in Nat
  BY DocumentsAssumption DEF Days
<1>1. /\ kind' = kind /\ today' = today /\ AboutDoc(o) /\ file' = call[c].next
      /\ call[c].pc = "write" /\ \A d \in Callers : call'[d].pc # "write"
  BY RenameIs DEF world
<1>2. added' = IF call[c].adds THEN [added EXCEPT ![o.date] = @ + o.seconds] ELSE added
  BY DEF Rename
<1>3. PICK t \in 1..today : MadeAt(call[c], t)
  BY <1>1 DEF StatsInv
<1>4. PICK h \in [Books -> Shelves \cup {None}] : call[c].next = ApplyTo(o, file, h, t)
  BY <1>3 DEF MadeAt
<1>5. call[c].adds = (o.do = "add" /\ Kept(o.date, t)) /\ NoneAfter(file, t) /\ t \in Nat
  BY <1>3 DEF MadeAt
<1>6. o \in [do : {"add"}, key : StatKeys, date : Days, seconds : {1}]
        \cup [do : {"project"}, kind : {"stats"}]
  BY <1>1 DEF AboutDoc, Verbs, AllOperations
<1> HIDE DEF o
<1>7. \A d \in Days : d > today - Retention => d > t - Retention
  BY <1>0, <1>n
<1>8. CASE o \in [do : {"add"}, key : StatKeys, date : Days, seconds : {1}]
  <2>1. /\ o.do = "add" /\ o.key \in StatKeys /\ o.date \in Days /\ o.seconds = 1
        /\ file' = WithSeconds(file, o.key, o.date, 1, t)
    BY <1>1, <1>4, <1>8 DEF ApplyTo
  <2>2. /\ file' \in StatsDoc /\ NoneAfter(file', t)
        /\ \A d \in Days : d > t - Retention =>
              /\ ~(Kept(o.date, t) /\ d = o.date) =>
                    SecondsOf(file', StatKeys, d) = SecondsOf(file, StatKeys, d)
              /\ Kept(o.date, t) /\ d = o.date /\ SecondsOf(file, StatKeys, d) + 1 <= MaxPerDay =>
                    SecondsOf(file', StatKeys, d) = SecondsOf(file, StatKeys, d) + 1
    <3>1. PICK new : new = file'
      OBVIOUS
    <3> QED
      BY <1>0, <1>5, <2>1, <3>1, AddConserves
  <2>3. NoneAfter(file', today)
    BY <1>0, <1>n, <2>2 DEF NoneAfter
  <2>4. /\ added' = [added EXCEPT ![o.date] = IF Kept(o.date, t) THEN added[o.date] + 1
                                              ELSE added[o.date]]
        /\ \A d \in Days : added'[d] = IF Kept(o.date, t) /\ d = o.date THEN added[d] + 1
                                       ELSE added[d]
    BY <1>0, <1>2, <1>5, <2>1
  <2>5. added' \in [Days -> Nat] /\ \A d \in Days : d > today => added'[d] = 0
    <3>1. Kept(o.date, t) => o.date <= today
      BY <1>0, <1>n, <2>1 DEF Kept
    <3> QED
      BY <1>0, <1>n, <2>1, <2>4, <3>1
  <2>6. ASSUME NEW d \in Days, d > today - Retention, added'[d] <= MaxPerDay
        PROVE  SecondsOf(file', StatKeys, d) = added'[d]
    <3>1. d > t - Retention
      BY <1>7, <2>6
    <3>2. added[d] \in Nat
      BY <1>0
    <3>3. CASE Kept(o.date, t) /\ d = o.date
      <4>1. added'[d] = added[d] + 1
        BY <2>4, <3>3
      <4>2. SecondsOf(file, StatKeys, d) = added[d]
        BY <1>0, <1>n, <2>6, <3>2, <4>1
      <4> QED
        BY <2>2, <2>6, <3>1, <3>3, <4>1, <4>2
    <3>4. CASE ~(Kept(o.date, t) /\ d = o.date)
      <4>1. added'[d] = added[d]
        BY <2>4, <3>4
      <4> QED
        BY <1>0, <2>2, <2>6, <3>1, <3>4, <4>1
    <3> QED
      BY <3>3, <3>4
  <2> QED
    BY <1>1, <2>2, <2>3, <2>5, <2>6 DEF StatsInv
<1>9. CASE o \in [do : {"project"}, kind : {"stats"}]
  <2>1. o.do = "project" /\ file' = ProjectStats(file, h) /\ added' = added
    BY <1>1, <1>2, <1>4, <1>5, <1>9 DEF ApplyTo
  <2>2. file \in [StatKeys -> [Days -> 0..MaxPerDay]]
    BY <1>0 DEF StatsDoc
  <2>3. /\ file' \in StatsDoc
        /\ \A d \in Days :
              /\ SecondsOf(file, StatKeys, d) <= MaxPerDay =>
                    SecondsOf(file', StatKeys, d) = SecondsOf(file, StatKeys, d)
              /\ (\A k \in StatKeys : file[k][d] = 0) => \A k \in StatKeys : file'[k][d] = 0
    BY <2>1, <2>2, ProjectConserves DEF StatsDoc
  <2>4. NoneAfter(file', today)
    BY <1>0, <1>5, <1>n, <2>3 DEF NoneAfter
  <2>5. \A d \in Days : d > today - Retention /\ added[d] <= MaxPerDay =>
            SecondsOf(file', StatKeys, d) = added[d]
    BY <1>0, <2>3
  <2> QED
    BY <1>0, <1>1, <2>1, <2>3, <2>4, <2>5 DEF StatsInv
<1> QED
  BY <1>6, <1>8, <1>9

LEMMA StatsStep == RecordsInv /\ AskedInv /\ StatsInv /\ [Next]_rvars => StatsInv'
<1> SUFFICES ASSUME RecordsInv, AskedInv, StatsInv, [Next]_rvars PROVE StatsInv'
  OBVIOUS
<1>1. CASE Quiet
  <2> SUFFICES ASSUME kind = "stats" PROVE StatsInv'
    BY <1>1 DEF Quiet, StatsInv
  <2>0. /\ file \in StatsDoc /\ added \in [Days -> Nat] /\ NoneAfter(file, today)
        /\ \A d \in Days : d > today => added[d] = 0
        /\ \A d \in Days : d > today - Retention /\ added[d] <= MaxPerDay =>
              SecondsOf(file, StatKeys, d) = added[d]
        /\ \A c \in Callers : call[c].pc = "write" => \E t \in 1..today : MadeAt(call[c], t)
    BY DEF StatsInv
  <2>1. /\ kind' = kind /\ file' = file /\ added' = added
        /\ today \in Nat \ {0} /\ today' \in Nat \ {0} /\ today' >= today
        /\ home \in [Books -> Shelves \cup {None}]
    BY <1>1, RecordsStep DEF Quiet, written, RecordsInv
  <2>n. Retention \in Nat /\ MaxDay \in Nat /\ \A d \in Days : d \in Nat
    BY DocumentsAssumption DEF Days
  <2>2. NoneAfter(file, today') /\ \A d \in Days : d > today' => added[d] = 0
    BY <2>0, <2>1, <2>n DEF NoneAfter
  <2>3. \A d \in Days : d > today' - Retention /\ added[d] <= MaxPerDay =>
            SecondsOf(file, StatKeys, d) = added[d]
    BY <2>0, <2>1, <2>n
  <2>4. \A v, t : MadeAt(v, t)' <=> MadeAt(v, t)
    BY <2>1 DEF MadeAt
  <2>5. ASSUME NEW c \in Callers, call'[c].pc = "write"
        PROVE  \E t \in 1..today' : MadeAt(call'[c], t)
    <3>1. CASE call[c].pc = "write" /\ call'[c] = call[c]
      <4>1. PICK t \in 1..today : MadeAt(call[c], t)
        BY <2>0, <3>1
      <4>2. t \in 1..today'
        BY <2>1
      <4> QED
        BY <3>1, <4>1, <4>2
    <3>2. CASE JustRead(call'[c])
      <4>1. MadeAt(call'[c], today)
        BY <2>0, <2>1, <3>2 DEF MadeAt, JustRead
      <4>2. today \in 1..today'
        BY <2>1
      <4> QED
        BY <4>1, <4>2
    <3> QED
      BY <1>1, <2>5, <3>1, <3>2 DEF Quiet
  <2>6. \A c \in Callers : call'[c].pc = "write" => \E t \in 1..today' : MadeAt(call[c], t)'
    BY <2>1, <2>5 DEF MadeAt
  <2> QED
    BY <2>0, <2>1, <2>2, <2>3, <2>6 DEF StatsInv
<1>2. ASSUME NEW c \in Callers, Rename(c), kind = "stats" PROVE StatsInv'
  BY <1>2, StatsRename
<1>3. ASSUME NEW c \in Callers, Rename(c) PROVE kind' = kind
  BY <1>3 DEF Rename, world
<1> QED
  BY <1>1, <1>2, <1>3, StepIsQuiet DEF StatsInv

LEMMA StatsInitial == Init => StatsInv
<1> SUFFICES ASSUME Init, kind = "stats" PROVE StatsInv
  BY DEF StatsInv
<1>1. file = [k \in StatKeys |-> [d \in Days |-> 0]] /\ added = [d \in Days |-> 0]
  BY DEF Init, New
<1>2. \A c \in Callers : call[c].pc = "idle"
  BY DEF Init, Idle
<1>3. file \in StatsDoc /\ NoneAfter(file, today)
  BY <1>1, DocumentsAssumption DEF StatsDoc, NoneAfter
<1>4. ASSUME NEW d \in Days PROVE SecondsOf(file, StatKeys, d) = added[d]
  <2>1. \A k \in StatKeys : file[k][d] = 0
    BY <1>1
  <2>2. SecondsOf(file, StatKeys, d) = 0
    BY <2>1, KeysFinite, SecondsNone
  <2> QED
    BY <1>1, <2>2
<1> QED
  BY <1>1, <1>2, <1>3, <1>4 DEF StatsInv

LEMMA StatsConserved == ASSUME RecordsInv, StatsInv PROVE TimeConserved
<1>1. \A d \in Days : Kept(d, today) => d > today - Retention
  BY DocumentsAssumption DEF RecordsInv, Kept, Days
<1> QED
  BY <1>1 DEF StatsInv, TimeConserved

\* Reading time is neither lost nor counted twice, for any shelves, books, callers and
\* retention: a projection moves what a book's own key has to its shelf, the days that
\* withSeconds drops are no longer kept, and what is written was made from the file as it
\* still is (RecordsInv), though perhaps on an earlier day.
THEOREM RecordsTimeConserved == Spec => []TimeConserved
  BY RecordsInitial, RecordsStep, AskedInitial, AskedStep, StatsInitial, StatsStep,
     StatsConserved, PTL DEF Spec

-----------------------------------------------------------------------------
(* Read history.                                                           *)

\* The function by which Only is defined.
Filtered(f, ids, S, i) ==
    IF i = 0 THEN <<>> ELSE IF ids[i] \in S THEN Append(f[i - 1], ids[i]) ELSE f[i - 1]
Filters(f, ids, S, n) == f = [i \in 0..n |-> Filtered(f, ids, S, i)]

LEMMA FiltersExist ==
    ASSUME NEW ids, NEW S, NEW n \in Nat PROVE \E f : Filters(f, ids, S, n)
<1> DEFINE N == {m \in Nat : \E f : Filters(f, ids, S, m)}
<1>1. 0 \in N
  <2> DEFINE f == [i \in 0..0 |-> <<>>]
  <2>1. \A i \in 0..0 : Filtered(f, ids, S, i) = <<>>
    BY DEF Filtered
  <2>2. Filters(f, ids, S, 0)
    BY <2>1 DEF Filters
  <2> HIDE DEF f
  <2> QED
    BY <2>2
<1>2. ASSUME NEW m \in Nat, m \in N PROVE m + 1 \in N
  <2>1. PICK f : Filters(f, ids, S, m)
    BY <1>2
  <2> DEFINE g == [i \in 0..(m + 1) |-> Filtered(f, ids, S, i)]
  <2>2. \A i \in 0..m : i \in 0..(m + 1) /\ f[i] = Filtered(f, ids, S, i)
    <3>1. \A i \in 0..m : i \in 0..(m + 1)
      OBVIOUS
    <3> QED
      BY <2>1, <3>1 DEF Filters
  <2>3. \A i \in 0..m : g[i] = f[i]
    BY <2>2
  <2>4. \A i \in 0..(m + 1) : i = 0 \/ i - 1 \in 0..m
    OBVIOUS
  <2>5. \A i \in 0..(m + 1) : Filtered(f, ids, S, i) = Filtered(g, ids, S, i)
    <3> HIDE DEF g
    <3> QED
      BY <2>3, <2>4 DEF Filtered
  <2>6. Filters(g, ids, S, m + 1)
    BY <2>5 DEF Filters
  <2> HIDE DEF g
  <2> QED
    BY <2>6
<1>3. Nat \subseteq N
  <2> HIDE DEF N
  <2> QED
    BY <1>1, <1>2, EveryNumber
<1> QED
  BY <1>3

LEMMA OnlyFilters ==
    ASSUME NEW ids, NEW S, Len(ids) \in Nat
    PROVE  \E f : Filters(f, ids, S, Len(ids)) /\ Only(ids, S) = f[Len(ids)]
<1>1. \E f : f = [i \in 0..Len(ids) |-> IF i = 0 THEN <<>>
                    ELSE IF ids[i] \in S THEN Append(f[i - 1], ids[i]) ELSE f[i - 1]]
  <2>1. PICK f : Filters(f, ids, S, Len(ids))
    BY FiltersExist
  <2> QED
    BY <2>1, Zenon DEF Filters, Filtered
<1>2. PICK f : /\ f = CHOOSE g : g = [i \in 0..Len(ids) |-> IF i = 0 THEN <<>>
                    ELSE IF ids[i] \in S THEN Append(g[i - 1], ids[i]) ELSE g[i - 1]]
               /\ Only(ids, S) = f[Len(ids)]
  BY Zenon DEF Only
<1>3. f = [i \in 0..Len(ids) |-> IF i = 0 THEN <<>>
                    ELSE IF ids[i] \in S THEN Append(f[i - 1], ids[i]) ELSE f[i - 1]]
  BY <1>1, <1>2, Zenon
<1>4. Filters(f, ids, S, Len(ids))
  BY <1>3, Zenon DEF Filters, Filtered
<1> QED
  BY <1>2, <1>4

\* A list without repetition.
Distinct(ids) == \A i, j \in DOMAIN ids : ids[i] = ids[j] => i = j

\* The members of ids that are in S, each as often as there.
LEMMA OnlyIs ==
    ASSUME NEW B, NEW ids \in Seq(B), NEW S, Distinct(ids)
    PROVE  /\ Only(ids, S) \in Seq(B) /\ Len(Only(ids, S)) <= Len(ids)
           /\ Distinct(Only(ids, S))
           /\ \A i \in DOMAIN Only(ids, S) : Only(ids, S)[i] \in S
<1>1. PICK f : Filters(f, ids, S, Len(ids)) /\ Only(ids, S) = f[Len(ids)]
  BY OnlyFilters
<1> DEFINE Good(i) == /\ f[i] \in Seq(B) /\ Len(f[i]) <= i
                      /\ \A j \in 1..Len(f[i]) : /\ f[i][j] \in S
                                                /\ \E k \in 1..i : f[i][j] = ids[k]
                      /\ \A j, k \in 1..Len(f[i]) : f[i][j] = f[i][k] => j = k
           N == {n \in Nat : n <= Len(ids) => Good(n)}
<1>2. \A i \in 0..Len(ids) : f[i] = Filtered(f, ids, S, i)
  BY <1>1 DEF Filters
<1>3. 0 \in N
  <2>1. f[0] = <<>>
    BY <1>2 DEF Filtered
  <2>2. f[0] \in Seq(B) /\ Len(f[0]) = 0 /\ 1..Len(f[0]) = {}
    BY <2>1
  <2>3. Good(0)
    BY <2>2
  <2> HIDE DEF Good
  <2> QED
    BY <2>3
<1>4. ASSUME NEW n \in Nat, n \in N PROVE n + 1 \in N
  <2> SUFFICES ASSUME n + 1 <= Len(ids) PROVE Good(n + 1)
    OBVIOUS
  <2>1. Good(n) /\ ids[n + 1] \in B /\ n + 1 \in 1..Len(ids)
    BY <1>4
  <2>2. f[n + 1] = IF ids[n + 1] \in S THEN Append(f[n], ids[n + 1]) ELSE f[n]
    BY <1>2 DEF Filtered
  <2>3. CASE ids[n + 1] \notin S
    <3>1. f[n + 1] = f[n]
      BY <2>2, <2>3
    <3>2. \A k \in 1..n : k \in 1..(n + 1)
      OBVIOUS
    <3> QED
      BY <2>1, <3>1, <3>2
  <2>4. CASE ids[n + 1] \in S
    <3> DEFINE s == f[n]
               x == ids[n + 1]
    <3>1. f[n + 1] = Append(s, x)
      BY <2>2, <2>4
    <3>2. \A j \in 1..Len(s) : s[j] # x
      <4> SUFFICES ASSUME NEW j \in 1..Len(s), s[j] = x PROVE FALSE
        OBVIOUS
      <4>1. PICK k \in 1..n : s[j] = ids[k]
        BY <2>1
      <4>2. k \in DOMAIN ids /\ n + 1 \in DOMAIN ids
        BY <2>1
      <4>3. k # n + 1 /\ ids[k] = ids[n + 1]
        BY <4>1
      <4> QED
        BY <4>1, <4>2, <4>3 DEF Distinct
    <3>3. s \in Seq(B) /\ x \in B /\ Len(s) \in Nat
      BY <2>1
    <3>4. /\ Append(s, x) \in Seq(B) /\ Len(Append(s, x)) = Len(s) + 1
          /\ Append(s, x)[Len(s) + 1] = x
          /\ \A j \in 1..Len(s) : Append(s, x)[j] = s[j]
      BY <3>3
    <3>5. \A j \in 1..(Len(s) + 1) : j \in 1..Len(s) \/ j = Len(s) + 1
      BY <3>3
    <3> HIDE DEF s
    <3>6. \A j, k \in 1..Len(f[n + 1]) : f[n + 1][j] = f[n + 1][k] => j = k
      <4> HIDE DEF x
      <4> QED
        BY <2>1, <3>1, <3>2, <3>4, <3>5 DEF s
    <3>7. \A j \in 1..Len(f[n + 1]) : /\ f[n + 1][j] \in S
                                     /\ \E k \in 1..(n + 1) : f[n + 1][j] = ids[k]
      <4>1. \A k \in 1..n : k \in 1..(n + 1)
        OBVIOUS
      <4> QED
        BY <2>1, <2>4, <3>1, <3>4, <3>5, <4>1 DEF s
    <3>8. f[n + 1] \in Seq(B) /\ Len(f[n + 1]) <= n + 1
      BY <2>1, <3>1, <3>3, <3>4 DEF s
    <3> QED
      BY <3>6, <3>7, <3>8
  <2> QED
    BY <2>3, <2>4
<1>5. Nat \subseteq N
  <2> HIDE DEF N
  <2> QED
    BY <1>3, <1>4, EveryNumber
<1>6. Good(Len(ids))
  BY <1>5
<1>7. DOMAIN f[Len(ids)] = 1..Len(f[Len(ids)])
  BY <1>6
<1> QED
  BY <1>1, <1>6, <1>7 DEF Distinct

LEMMA CutIs ==
    ASSUME NEW B, NEW ids \in Seq(B), Distinct(ids), NEW n \in Nat
    PROVE  Cut(ids, n) \in Seq(B) /\ Len(Cut(ids, n)) <= n /\ Distinct(Cut(ids, n))
<1> DEFINE m == Least(Len(ids), n)
<1>1. m \in Nat /\ m <= Len(ids) /\ m <= n
  BY DEF Least
<1> HIDE DEF m
<1>2. /\ SubSeq(ids, 1, m) \in Seq(B) /\ Len(SubSeq(ids, 1, m)) = m
      /\ \A i \in 1..m : SubSeq(ids, 1, m)[i] = ids[i]
  BY <1>1
<1>3. DOMAIN SubSeq(ids, 1, m) = 1..m /\ \A i \in 1..m : i \in DOMAIN ids
  BY <1>1, <1>2
<1>4. Distinct(SubSeq(ids, 1, m))
  BY <1>2, <1>3 DEF Distinct
<1> QED
  BY <1>1, <1>2, <1>4 DEF Cut, m

LEMMA JoinIs ==
    ASSUME NEW B, NEW s \in Seq(B), NEW t \in Seq(B), Distinct(s), Distinct(t),
           \A i \in DOMAIN s, j \in DOMAIN t : s[i] # t[j]
    PROVE  s \o t \in Seq(B) /\ Distinct(s \o t)
<1> DEFINE u == s \o t
<1>1. /\ u \in Seq(B) /\ Len(u) = Len(s) + Len(t) /\ DOMAIN u = 1..(Len(s) + Len(t))
      /\ \A i \in 1..Len(s) : u[i] = s[i]
      /\ \A i \in 1..(Len(s) + Len(t)) : i > Len(s) => u[i] = t[i - Len(s)]
  OBVIOUS
<1>2. DOMAIN s = 1..Len(s) /\ DOMAIN t = 1..Len(t) /\ Len(s) \in Nat /\ Len(t) \in Nat
  OBVIOUS
<1> HIDE DEF u
<1>3. ASSUME NEW i \in DOMAIN u, NEW j \in DOMAIN u, u[i] = u[j] PROVE i = j
  <2>1. CASE i <= Len(s) /\ j <= Len(s)
    <3>1. i \in DOMAIN s /\ j \in DOMAIN s /\ s[i] = s[j]
      BY <1>1, <1>2, <1>3, <2>1
    <3> QED
      BY <3>1 DEF Distinct
  <2>2. CASE i > Len(s) /\ j > Len(s)
    <3>1. i - Len(s) \in DOMAIN t /\ j - Len(s) \in DOMAIN t /\ t[i - Len(s)] = t[j - Len(s)]
      BY <1>1, <1>2, <1>3, <2>2
    <3>2. i - Len(s) = j - Len(s)
      BY <3>1 DEF Distinct
    <3> QED
      BY <1>1, <1>2, <3>2
  <2>3. CASE i <= Len(s) /\ j > Len(s)
    <3>1. i \in DOMAIN s /\ j - Len(s) \in DOMAIN t
      BY <1>1, <1>2, <2>3
    <3>2. u[i] = s[i] /\ u[j] = t[j - Len(s)]
      BY <1>1, <1>2, <2>3, <3>1
    <3> QED
      BY <1>3, <3>1, <3>2
  <2>4. CASE i > Len(s) /\ j <= Len(s)
    <3>1. j \in DOMAIN s /\ i - Len(s) \in DOMAIN t
      BY <1>1, <1>2, <2>4
    <3>2. u[j] = s[j] /\ u[i] = t[i - Len(s)]
      BY <1>1, <1>2, <2>4, <3>1
    <3> QED
      BY <1>3, <3>1, <3>2
  <2> QED
    BY <1>1, <1>2, <2>1, <2>2, <2>3, <2>4
<1> QED
  BY <1>1, <1>3 DEF Distinct, u

HistoryDoc ==
    {doc \in [limit : Nat, ids : [Scopes -> Seq(Books)]] :
        \A s \in Scopes : Len(doc.ids[s]) <= doc.limit /\ Distinct(doc.ids[s])}

LEMMA RecordKeeps ==
    ASSUME NEW doc \in HistoryDoc, NEW s \in Scopes, NEW b \in Books
    PROVE  WithEntry(doc, s, b) \in HistoryDoc
<1>0. /\ doc \in [limit : Nat, ids : [Scopes -> Seq(Books)]]
      /\ \A r \in Scopes : Len(doc.ids[r]) <= doc.limit /\ Distinct(doc.ids[r])
  BY DEF HistoryDoc
<1> DEFINE rest == Only(doc.ids[s], Books \ {b})
           list == Cut(<<b>> \o rest, doc.limit)
<1>1. /\ rest \in Seq(Books) /\ Distinct(rest)
      /\ \A i \in DOMAIN rest : rest[i] \in Books \ {b}
  BY <1>0, OnlyIs
<1>2. list \in Seq(Books) /\ Len(list) <= doc.limit /\ Distinct(list)
  <2> HIDE DEF rest
  <2>1. <<b>> \in Seq(Books) /\ Distinct(<<b>>) /\ DOMAIN <<b>> = {1} /\ <<b>>[1] = b
    BY DEF Distinct
  <2>2. \A i \in DOMAIN <<b>>, j \in DOMAIN rest : <<b>>[i] # rest[j]
    BY <1>1, <2>1
  <2>3. <<b>> \o rest \in Seq(Books) /\ Distinct(<<b>> \o rest)
    BY <1>1, <2>1, <2>2, JoinIs
  <2> QED
    BY <1>0, <2>3, CutIs
<1>3. CASE doc.limit = 0
  BY <1>3 DEF WithEntry
<1>4. CASE doc.limit # 0
  <2>1. WithEntry(doc, s, b) = [doc EXCEPT !.ids[s] = list]
    BY <1>4 DEF WithEntry
  <2> HIDE DEF list
  <2> QED
    BY <1>0, <1>2, <2>1 DEF HistoryDoc
<1> QED
  BY <1>3, <1>4

LEMMA ClearAndLimitKeep ==
    ASSUME NEW doc \in HistoryDoc
    PROVE  /\ \A s \in Scopes : WithoutShelf(doc, s) \in HistoryDoc
           /\ \A n \in Nat : WithLimit(doc, n) \in HistoryDoc
<1>0. /\ doc \in [limit : Nat, ids : [Scopes -> Seq(Books)]]
      /\ \A r \in Scopes : Len(doc.ids[r]) <= doc.limit /\ Distinct(doc.ids[r])
  BY DEF HistoryDoc
<1>1. ASSUME NEW s \in Scopes PROVE WithoutShelf(doc, s) \in HistoryDoc
  <2>1. <<>> \in Seq(Books) /\ Len(<<>>) <= doc.limit /\ Distinct(<<>>)
    BY <1>0 DEF Distinct
  <2> QED
    BY <1>0, <2>1 DEF WithoutShelf, HistoryDoc
<1>2. ASSUME NEW n \in Nat PROVE WithLimit(doc, n) \in HistoryDoc
  <2>1. \A s \in Scopes : /\ Cut(doc.ids[s], n) \in Seq(Books)
                          /\ Len(Cut(doc.ids[s], n)) <= n /\ Distinct(Cut(doc.ids[s], n))
    BY <1>0, CutIs
  <2> QED
    BY <2>1 DEF WithLimit, HistoryDoc
<1> QED
  BY <1>1, <1>2

LEMMA ProjectKeeps ==
    ASSUME NEW doc \in HistoryDoc, NEW h PROVE ProjectHistory(doc, h) \in HistoryDoc
<1>0. /\ doc \in [limit : Nat, ids : [Scopes -> Seq(Books)]]
      /\ \A r \in Scopes : Len(doc.ids[r]) <= doc.limit /\ Distinct(doc.ids[r])
  BY DEF HistoryDoc
<1>r. Reader \in Scopes
  BY DEF Scopes
<1> DEFINE Moved(s) == Only(doc.ids[Reader], {b \in Books : h[b] = s})
           Stays(s) == Only(doc.ids[s], {b \in Books : h[b] = None})
           Others(s) == Only(doc.ids[s], Books \ In(Moved(s)))
           New1(s) == IF s = Reader THEN Stays(s) ELSE Cut(Moved(s) \o Others(s), doc.limit)
<1>1. ASSUME NEW s \in Scopes
      PROVE  New1(s) \in Seq(Books) /\ Len(New1(s)) <= doc.limit /\ Distinct(New1(s))
  <2>1. CASE s = Reader
    <3>1. Stays(s) \in Seq(Books) /\ Len(Stays(s)) <= Len(doc.ids[s]) /\ Distinct(Stays(s))
      BY <1>0, OnlyIs
    <3>2. Len(doc.ids[s]) \in Nat /\ Len(Stays(s)) \in Nat /\ Len(doc.ids[s]) <= doc.limit
          /\ doc.limit \in Nat
      BY <1>0, <3>1
    <3> HIDE DEF Stays
    <3> QED
      BY <2>1, <3>1, <3>2
  <2>2. CASE s # Reader
    <3>1. Moved(s) \in Seq(Books) /\ Distinct(Moved(s))
      BY <1>0, <1>r, OnlyIs
    <3>2. /\ Others(s) \in Seq(Books) /\ Distinct(Others(s))
          /\ \A i \in DOMAIN Others(s) : Others(s)[i] \in Books \ In(Moved(s))
      <4> HIDE DEF Moved
      <4> QED
        BY <1>0, OnlyIs
    <3> HIDE DEF Moved, Others
    <3>3. \A i \in DOMAIN Moved(s), j \in DOMAIN Others(s) : Moved(s)[i] # Others(s)[j]
      BY <3>2 DEF In
    <3>4. Moved(s) \o Others(s) \in Seq(Books) /\ Distinct(Moved(s) \o Others(s))
      BY <3>1, <3>2, <3>3, JoinIs
    <3>5. doc.limit \in Nat
      BY <1>0
    <3> QED
      BY <2>2, <3>4, <3>5, CutIs
  <2> QED
    BY <2>1, <2>2
<1>2. ProjectHistory(doc, h) = [doc EXCEPT !.ids = [s \in Scopes |-> New1(s)]]
  BY DEF ProjectHistory
<1> HIDE DEF New1
<1> QED
  BY <1>0, <1>1, <1>2 DEF HistoryDoc

HistoryInv == kind = "history" => file \in HistoryDoc

LEMMA HistoryInitial == Init => HistoryInv
<1> SUFFICES ASSUME Init, kind = "history" PROVE HistoryInv
  BY DEF HistoryInv
<1>1. file = [limit |-> Max(Limits), ids |-> [s \in Scopes |-> <<>>]]
  BY DEF Init, New
<1>2. Max(Limits) \in Nat
  <2>1. \E n \in Limits : \A m \in Limits : n >= m
    BY DocumentsAssumption
  <2>2. Max(Limits) \in Limits
    BY <2>1 DEF Max
  <2> QED
    BY <2>2, DocumentsAssumption
<1>3. <<>> \in Seq(Books) /\ Len(<<>>) = 0 /\ Distinct(<<>>)
  BY DEF Distinct
<1> HIDE DEF Distinct
<1> QED
  BY <1>1, <1>2, <1>3 DEF HistoryInv, HistoryDoc

LEMMA HistoryStep == RecordsInv /\ AskedInv /\ HistoryInv /\ [Next]_rvars => HistoryInv'
<1> SUFFICES ASSUME RecordsInv, AskedInv, HistoryInv, [Next]_rvars PROVE HistoryInv'
  OBVIOUS
<1>1. CASE Quiet
  BY <1>1 DEF Quiet, HistoryInv, written
<1>2. ASSUME NEW c \in Callers, Rename(c), kind = "history" PROVE HistoryInv'
  <2> DEFINE o == call[c].op
  <2>0. file \in HistoryDoc
    BY <1>2 DEF HistoryInv
  <2>1. file' = call[c].next /\ AboutDoc(o) /\ Computed(call[c])
    BY <1>2, RenameIs
  <2>2. PICK t, h : file' = ApplyTo(o, file, h, t)
    BY <2>1 DEF Computed
  <2>3. \/ o \in [do : {"record"}, shelf : Scopes, book : Books]
        \/ o \in [do : {"clear"}, shelf : Scopes]
        \/ o \in [do : {"limit"}, limit : Limits]
        \/ o \in [do : {"project"}, kind : {"history"}]
    BY <1>2, <2>1 DEF AboutDoc, Verbs, AllOperations
  <2> HIDE DEF o
  <2>4. file' \in HistoryDoc
    <3>1. CASE o \in [do : {"record"}, shelf : Scopes, book : Books]
      <4>1. o.do = "record" /\ file' = WithEntry(file, o.shelf, o.book)
        BY <2>2, <3>1 DEF ApplyTo
      <4> QED
        BY <2>0, <3>1, <4>1, RecordKeeps
    <3>2. CASE o \in [do : {"clear"}, shelf : Scopes]
      <4>1. o.do = "clear" /\ file' = WithoutShelf(file, o.shelf)
        BY <2>2, <3>2 DEF ApplyTo
      <4> QED
        BY <2>0, <3>2, <4>1, ClearAndLimitKeep
    <3>3. CASE o \in [do : {"limit"}, limit : Limits]
      <4>1. o.do = "limit" /\ file' = WithLimit(file, o.limit) /\ o.limit \in Nat
        BY <2>2, <3>3, DocumentsAssumption DEF ApplyTo
      <4> QED
        BY <2>0, <4>1, ClearAndLimitKeep
    <3>4. CASE o \in [do : {"project"}, kind : {"history"}]
      <4>1. o.do = "project" /\ file' = ProjectHistory(file, h)
        BY <2>2, <3>4 DEF ApplyTo
      <4> QED
        BY <2>0, <4>1, ProjectKeeps
    <3> QED
      BY <2>3, <3>1, <3>2, <3>3, <3>4
  <2> QED
    BY <2>4 DEF HistoryInv
<1>3. ASSUME NEW c \in Callers, Rename(c) PROVE kind' = kind
  BY <1>3 DEF Rename, world
<1> QED
  BY <1>1, <1>2, <1>3, StepIsQuiet DEF HistoryInv

\* A shelf's history names no book twice and keeps to its limit, for any shelves, books,
\* limits and callers, whatever limits, clearings and projections come between.
THEOREM RecordsHistoryListed == Spec => []HistoryListed
<1>1. HistoryInv => HistoryListed
  BY DEF HistoryInv, HistoryListed, HistoryDoc, Distinct
<1> QED
  BY <1>1, RecordsInitial, RecordsStep, AskedInitial, AskedStep, HistoryInitial, HistoryStep,
     PTL DEF Spec

-----------------------------------------------------------------------------
(* All of the records, as a part of the whole.                             *)

AllRecords == RecordsInv /\ AskedInv /\ ProgressInv /\ StatsInv /\ HistoryInv

\* Whatever document it is, what the apps of both processes have recorded is kept: no
\* progress goes back, no time is lost or counted twice, no history repeats itself.
THEOREM LibraryKeepsRecords == MCSpec => []RecordsKept
<1>1. MCInit => AllRecords
  BY RecordsInitial, AskedInitial, ProgressInitial, StatsInitial, HistoryInitial
     DEF MCInit, AllRecords
<1>2. AllRecords /\ [Next]_rvars => AllRecords'
  BY RecordsStep, AskedStep, ProgressStep, StatsStep, HistoryStep DEF AllRecords
<1>3. [MCNext]_<<part, rvars, offlinevars, transfervars, managervars, mobilevars, desktopvars>>
        => [Next]_rvars
  BY DEF MCNext
<1>4. AllRecords => RecordsKept
  BY StatsConserved
     DEF AllRecords, RecordsKept, ProgressInv, ProgressKept, HistoryInv, HistoryListed,
         HistoryDoc, Distinct
<1> QED
  BY <1>1, <1>2, <1>3, <1>4, PTL DEF MCSpec

-----------------------------------------------------------------------------
(* Transfer.                                                               *)

Package == [id : Left \cup FreshIds, of : Left, ver : Nat,
            folder : Moves!Folders \cup {"root"}]
AllOf(s) == tree[s] \cup trash[s]

Slipped(s) == IF s = "target" THEN slipped ELSE {}

\* No shelf has an ID twice, nor a package in its tree and its trash.
Apart(s) ==
    /\ \A x, y \in AllOf(s) : x.id = y.id => x = y \/ x.id \in Slipped(s)
    /\ \A x \in tree[s] : x \in trash[s] => x.id \in Slipped(s)

\* A book to be moved is not in the target's tree, and a copy to be published has an ID
\* that the target has not.
Looked ==
    /\ pct = "trash" => \A x \in tree["target"] : x.id = tstaged.id => x.id \in slipped
    /\ pct = "publish" => \A x \in AllOf("target") : x.id = tstaged.id => x.id \in slipped

\* What PruneFolder is about to remove has arrived, or overtook its comparison.
Compared ==
    LET f == Moves!Pruning
    IN  /\ f \in Moves!Folders
        /\ meta["source"][f] # None => <<f, meta["source"][f]>> \in arrived \cup overtaken

\* What was found of the target's IDs holds until the copy is published: no request gives
\* a book an ID that another shelf has.  A folder.json that was carried has arrived.
MovesInv ==
    /\ tree \in [Moves!Ends -> SUBSET Package]
    /\ trash \in [Moves!Ends -> SUBSET Package]
    /\ dir \in [Moves!Ends -> SUBSET Moves!Folders]
    /\ latest \in [Left -> Nat]
    /\ carried = [f \in Moves!Folders |-> carried[f]]
    /\ plan \in [Left -> Moves!Folders \cup {"root"}]
    /\ meta = [s \in Moves!Ends |-> [f \in Moves!Folders |-> meta[s][f]]]
    /\ pct = "drop" => Compared
    /\ pct \in {"trash", "publish", "remove"} => tstaged \in Package
    /\ Looked
    /\ \A s \in Moves!Ends : Apart(s)
    /\ \A f \in Moves!Folders : carried[f] # None => <<f, carried[f]>> \in arrived
    /\ Moves!BooksKept
    /\ Moves!MetaCarried

LEMMA ApartIsUnique == MovesInv => Moves!UniqueIds
  BY DEF MovesInv, Apart, Slipped, AllOf, Moves!UniqueIds

LEMMA TreesAreTyped ==
    MovesInv => /\ tree \in [Moves!Ends -> SUBSET Package]
                /\ trash \in [Moves!Ends -> SUBSET Package]
  BY DEF MovesInv

LEMMA MovesInitial == Moves!Init => MovesInv
<1> SUFFICES ASSUME Moves!Init PROVE MovesInv
  OBVIOUS
<1>1. PICK at \in [Left -> Moves!Folders \cup {"root"}] :
        tree = [s \in Moves!Ends |-> IF s = "target" THEN {}
                  ELSE {[id |-> b, of |-> b, ver |-> 0, folder |-> at[b]] : b \in Left}]
  BY DEF Moves!Init
<1> DEFINE first == {[id |-> b, of |-> b, ver |-> 0, folder |-> at[b]] : b \in Left}
<1>2. first \subseteq Package
  BY DEF Package
<1>a. \A x, y \in first : x.id = y.id => x = y
  OBVIOUS
<1>b. ASSUME NEW b \in Left PROVE \E x \in first : x.of = b /\ x.ver = 0
  <2> DEFINE x == [id |-> b, of |-> b, ver |-> 0, folder |-> at[b]]
  <2>1. x \in first /\ x.of = b /\ x.ver = 0
    OBVIOUS
  <2> HIDE DEF x, first
  <2> QED
    BY <2>1
<1>3. /\ \A x, y \in first : x.id = y.id => x = y
      /\ \A b \in Left : \E x \in first : x.of = b /\ x.ver = 0
  BY <1>a, <1>b
<1>4. tree = [s \in Moves!Ends |-> IF s = "target" THEN {} ELSE first]
  BY <1>1
<1>0. PICK old \in SUBSET {[id |-> b, of |-> b, ver |-> 0, folder |-> "root"] : b \in Left} :
        trash = [s \in Moves!Ends |-> IF s = "target" THEN old ELSE {}]
  BY DEF Moves!Init
<1>9. old \subseteq Package /\ \A x, y \in old : x.id = y.id => x = y
  BY DEF Package
<1>5. /\ latest = [b \in Left |-> 0]
      /\ carried = [f \in Moves!Folders |-> None] /\ arrived = {} /\ dropped = {} /\ pct = "idle"
      /\ overtaken = {} /\ slipped = {}
      /\ dir \in [Moves!Ends -> SUBSET Moves!Folders]
      /\ plan \in [Left -> Moves!Folders \cup {"root"}]
      /\ meta = [s \in Moves!Ends |-> [f \in Moves!Folders |-> meta[s][f]]]
  BY DEF Moves!Init, Moves!NothingCarried, Moves!NoPlan
<1> HIDE DEF first
<1>6. /\ Moves!Ends = {"source", "target"}
      /\ tree["source"] = first /\ trash["source"] = {}
      /\ tree["target"] = {} /\ trash["target"] = old
  BY <1>0, <1>4 DEF Moves!Ends
<1>7. Moves!BooksKept
  BY <1>3, <1>5, <1>6 DEF Moves!BooksKept, Moves!Packages
<1>8. \A s \in Moves!Ends : Apart(s)
  BY <1>3, <1>6, <1>9 DEF Apart, AllOf
<1> QED
  BY <1>0, <1>2, <1>4, <1>5, <1>7, <1>8, <1>9 DEF MovesInv, Looked, Moves!MetaCarried

\* A step that changes neither the packages nor the folder.json versions seen.
LEMMA MovesQuiet ==
    ASSUME MovesInv,
           UNCHANGED <<tree, trash, meta, latest, arrived, dropped, overtaken, slipped>>,
           carried' = carried \/ carried' = Moves!NothingCarried,
           plan' \in [Left -> Moves!Folders \cup {"root"}],
           pct' \notin {"trash", "publish", "remove", "drop"},
           dir' \in [Moves!Ends -> SUBSET Moves!Folders]
    PROVE  MovesInv'
<1>1. Moves!BooksKept' /\ Moves!MetaCarried' /\ (\A s \in Moves!Ends : Apart(s))'
  BY DEF MovesInv, Moves!BooksKept, Moves!Packages, Moves!MetaCarried, Apart, Slipped, AllOf
<1>2. /\ carried' = [f \in Moves!Folders |-> carried'[f]]
      /\ \A f \in Moves!Folders : carried'[f] # None => <<f, carried'[f]>> \in arrived'
  BY DEF MovesInv, Moves!NothingCarried
<1> QED
  BY <1>1, <1>2 DEF MovesInv, Looked

LEMMA ParentsAreFolders == \A f : Moves!WithParents(f) \subseteq Moves!Folders
  BY DEF Moves!WithParents, Moves!Folders

LEMMA ListedIsFolder ==
    ASSUME MovesInv, NEW b PROVE Moves!Listed(b) \in Moves!Folders \cup {"root"}
<1>1. \A x \in Moves!Find("source", b) : x.folder \in Moves!Folders \cup {"root"}
  BY DEF MovesInv, Moves!Find, Moves!Ends, Package
<1> QED
  BY <1>1 DEF Moves!Listed

LEMMA MovesTask ==
    ASSUME MovesInv,
           \/ \E o \in {"copy", "move"} :
                Moves!TransferFolder(o) \/ \E b \in Left : Moves!TransferBook(o, b)
           \/ Moves!CreateFolder \/ Moves!LacksFolderMeta \/ Moves!FolderFails
           \/ \E b \in Left : Moves!BookFails(b)
           \/ Moves!BooksDone \/ Moves!RemoveDir \/ Moves!PruneFails \/ Moves!Crash
    PROVE  MovesInv'
<1>1. UNCHANGED <<tree, trash, meta, latest, arrived, dropped, overtaken, slipped>>
  BY DEF Moves!TransferFolder, Moves!TransferBook, Moves!CreateFolder, Moves!LacksFolderMeta,
         Moves!FolderFails, Moves!BookFails, Moves!BooksDone, Moves!RemoveDir,
         Moves!PruneFails, Moves!Crash, Moves!disk, Moves!seen, Moves!history
<1>2. carried' = carried \/ carried' = Moves!NothingCarried
  BY DEF Moves!TransferFolder, Moves!TransferBook, Moves!CreateFolder, Moves!LacksFolderMeta,
         Moves!FolderFails, Moves!BookFails, Moves!BooksDone, Moves!RemoveDir,
         Moves!PruneFails, Moves!Crash, Moves!PruneNext, Moves!Finished
<1>3. pct' \in {"books", "tree", "carry", "write", "prune", "idle"}
  BY DEF Moves!TransferFolder, Moves!TransferBook, Moves!CreateFolder, Moves!LacksFolderMeta,
         Moves!FolderFails, Moves!BookFails, Moves!BooksDone, Moves!RemoveDir,
         Moves!PruneFails, Moves!Crash, Moves!PruneNext, Moves!Finished, Moves!NextFolder,
         Moves!NextBook
<1>4. plan' \in [Left -> Moves!Folders \cup {"root"}]
  <2>1. plan \in [Left -> Moves!Folders \cup {"root"}]
    BY DEF MovesInv
  <2>2. ASSUME NEW o \in {"copy", "move"}, Moves!TransferFolder(o)
        PROVE  plan' \in [Left -> Moves!Folders \cup {"root"}]
    BY <2>2, ListedIsFolder DEF Moves!TransferFolder
  <2>3. ASSUME NEW o \in {"copy", "move"}, NEW b \in Left, Moves!TransferBook(o, b)
        PROVE  plan' \in [Left -> Moves!Folders \cup {"root"}]
    <3>1. PICK f \in Named \cup {Moves!Listed(b)} : plan' = [plan EXCEPT ![b] = f]
      BY <2>3 DEF Moves!TransferBook
    <3> QED
      BY <2>1, <3>1, ListedIsFolder, MoveAssumption
  <2>4. CASE \/ Moves!CreateFolder \/ Moves!LacksFolderMeta \/ Moves!FolderFails
             \/ \E b \in Left : Moves!BookFails(b)
             \/ Moves!BooksDone \/ Moves!RemoveDir \/ Moves!PruneFails \/ Moves!Crash
    <3>1. plan' = plan \/ plan' = Moves!NoPlan
      BY <2>4 DEF Moves!CreateFolder, Moves!LacksFolderMeta, Moves!FolderFails,
         Moves!BookFails, Moves!BooksDone, Moves!RemoveDir, Moves!PruneFails, Moves!Crash,
         Moves!PruneNext, Moves!Finished
    <3> QED
      BY <2>1, <3>1 DEF Moves!NoPlan
  <2> QED
    BY <2>2, <2>3, <2>4
<1>5. dir' \in [Moves!Ends -> SUBSET Moves!Folders]
  <2>1. CASE Moves!CreateFolder
    BY <2>1, ParentsAreFolders DEF Moves!CreateFolder, MovesInv
  <2>2. CASE Moves!RemoveDir
    BY <2>2 DEF Moves!RemoveDir, MovesInv
  <2>3. CASE ~Moves!CreateFolder /\ ~Moves!RemoveDir
    <3>1. dir' = dir
      BY <2>3 DEF Moves!TransferFolder, Moves!TransferBook, Moves!LacksFolderMeta,
         Moves!FolderFails, Moves!BookFails, Moves!BooksDone, Moves!PruneFails, Moves!Crash,
         Moves!disk
    <3> QED
      BY <3>1 DEF MovesInv
  <2> QED
    BY <2>1, <2>2, <2>3
<1> QED
  BY <1>1, <1>2, <1>3, <1>4, <1>5, MovesQuiet

\* What the steps of the metadata leave alone.
LEMMA MovesMetas ==
    ASSUME MovesInv, UNCHANGED <<tree, trash, dir, plan, latest, slipped>>,
           meta' = [s \in Moves!Ends |-> [f \in Moves!Folders |-> meta'[s][f]]],
           carried' = [f \in Moves!Folders |-> carried'[f]],
           \A f \in Moves!Folders : carried'[f] # None => <<f, carried'[f]>> \in arrived',
           Moves!MetaCarried',
           pct' \in {"trash", "publish", "remove"} => pct' = pct /\ tstaged' = tstaged,
           pct' = "drop" => Compared'
    PROVE  MovesInv'
<1>1. Moves!BooksKept' /\ (\A s \in Moves!Ends : Apart(s))'
  BY DEF MovesInv, Moves!BooksKept, Moves!Packages, Apart, Slipped, AllOf
<1>2. Looked'
  BY DEF MovesInv, Looked, AllOf
<1> QED
  BY <1>1, <1>2 DEF MovesInv

LEMMA MovesCopyMeta == ASSUME MovesInv, Moves!CopyFolderMeta PROVE MovesInv'
<1> DEFINE f == Moves!ThisFolder
<1>1. /\ carried' = [carried EXCEPT ![f] = tstaged] /\ arrived' = arrived \cup {<<f, tstaged>>}
      /\ UNCHANGED <<tree, trash, dir, plan, latest, dropped, overtaken, slipped>>
      /\ meta' = [meta EXCEPT !["target"][f] = tstaged]
  BY DEF Moves!CopyFolderMeta
<1>2. pct' \in {"books", "tree"}
  BY DEF Moves!CopyFolderMeta, Moves!NextFolder
<1> HIDE DEF f
<1>3. \A g \in Moves!Folders : carried'[g] # None => <<g, carried'[g]>> \in arrived'
  BY <1>1 DEF MovesInv
<1>4. /\ carried' = [g \in Moves!Folders |-> carried'[g]]
      /\ meta' = [s \in Moves!Ends |-> [g \in Moves!Folders |-> meta'[s][g]]]
  BY <1>1 DEF MovesInv
<1>5. Moves!MetaCarried'
  BY <1>1 DEF MovesInv, Moves!MetaCarried
<1> QED
  BY <1>1, <1>2, <1>3, <1>4, <1>5, MovesMetas

\* The comparison of PruneFolder: what it lets go was carried.
LEMMA MovesLook == ASSUME MovesInv, Moves!PruneLook PROVE MovesInv'
<1> DEFINE f == Moves!Pruning
<1>1. /\ UNCHANGED <<tree, trash, dir, meta, job, carried, plan, latest, arrived, dropped,
                     overtaken, slipped>>
      /\ pct' \in {"drop", "rmdir"}
      /\ Moves!Emptied("source", f) /\ Moves!MayDropMeta(f)
  BY DEF Moves!PruneLook, Moves!disk, Moves!seen, Moves!history
<1>2. f \in Moves!Folders /\ (meta["source"][f] # None => <<f, meta["source"][f]>> \in arrived)
  BY <1>1 DEF MovesInv, Moves!Emptied, Moves!MayDropMeta, Moves!Ends
<1>3. f' = f
  BY <1>1 DEF Moves!Pruning
<1>4. Compared'
  BY <1>1, <1>2, <1>3 DEF Compared
<1>5. Moves!MetaCarried'
  BY <1>1 DEF MovesInv, Moves!MetaCarried
<1> QED
  BY <1>1, <1>4, <1>5, MovesMetas DEF MovesInv

LEMMA MovesDrop == ASSUME MovesInv, Moves!DropMeta PROVE MovesInv'
<1> DEFINE f == Moves!Pruning
<1>1. /\ UNCHANGED <<tree, trash, dir, carried, plan, latest, arrived, overtaken, slipped>>
      /\ pct = "drop" /\ pct' = "rmdir" /\ meta["source"][f] # None
      /\ dropped' = dropped \cup {<<f, meta["source"][f]>>}
      /\ meta' = [meta EXCEPT !["source"][f] = None]
  BY DEF Moves!DropMeta
<1>2. <<f, meta["source"][f]>> \in arrived \cup overtaken
  BY <1>1 DEF MovesInv, Compared
<1> HIDE DEF f
<1>3. Moves!MetaCarried'
  BY <1>1, <1>2 DEF MovesInv, Moves!MetaCarried
<1>4. meta' = [s \in Moves!Ends |-> [g \in Moves!Folders |-> meta'[s][g]]]
  BY <1>1 DEF MovesInv
<1> QED
  BY <1>1, <1>3, <1>4, MovesMetas DEF MovesInv

LEMMA MovesEditMeta ==
    ASSUME MovesInv, NEW s \in Moves!Ends, Moves!EditMeta(s) PROVE MovesInv'
<1> DEFINE p == Moves!Pruning
<1>1. PICK f \in dir[s], v \in Right \cup {None} :
        /\ meta' = [meta EXCEPT ![s][f] = v]
        /\ arrived' = IF s = "target" /\ v # None THEN arrived \cup {<<f, v>>} ELSE arrived
        /\ overtaken' = IF s = "source" /\ pct = "drop" /\ f = p
                        THEN overtaken \cup {<<f, v>>} ELSE overtaken
  BY DEF Moves!EditMeta
<1>2. UNCHANGED <<tree, trash, dir, job, pct, tstaged, carried, plan, latest, dropped, slipped>>
  BY DEF Moves!EditMeta, Moves!task
<1>3. arrived \subseteq arrived' /\ overtaken \subseteq overtaken' /\ p' = p
  BY <1>1, <1>2 DEF Moves!Pruning
<1> HIDE DEF p
<1>4. Moves!MetaCarried'
  BY <1>2, <1>3 DEF MovesInv, Moves!MetaCarried
<1>5. f \in Moves!Folders
  BY DEF MovesInv
<1>6. /\ meta' = [e \in Moves!Ends |-> [g \in Moves!Folders |-> meta'[e][g]]]
      /\ meta'[s][f] = v
      /\ p \in Moves!Folders /\ (s # "source" \/ f # p) =>
            meta'["source"][p] = meta["source"][p]
  <2>1. meta = [e \in Moves!Ends |-> [g \in Moves!Folders |-> meta[e][g]]]
    BY DEF MovesInv
  <2> QED
    BY <1>1, <1>5, <2>1 DEF Moves!Ends
<1>7. pct' = "drop" => Compared'
  <2> SUFFICES ASSUME pct = "drop", meta'["source"][p] # None
               PROVE  <<p, meta'["source"][p]>> \in arrived' \cup overtaken'
    BY <1>2, <1>3 DEF MovesInv, Compared, p
  <2>1. p \in Moves!Folders
    BY DEF MovesInv, Compared, p
  <2>2. meta["source"][p] # None => <<p, meta["source"][p]>> \in arrived \cup overtaken
    BY DEF MovesInv, Compared, p
  <2> QED
    BY <1>1, <1>3, <1>6, <2>1, <2>2
<1> QED
  BY <1>2, <1>3, <1>4, <1>6, <1>7, MovesMetas DEF MovesInv

LEMMA VersionsKept ==
    ASSUME MovesInv, UNCHANGED latest,
           \A s \in Moves!Ends : \A x \in AllOf(s) :
              \E y \in tree'[s] \cup trash'[s] : y.of = x.of /\ y.ver = x.ver
    PROVE  Moves!BooksKept'
<1>1. \A b \in Left : \E s \in Moves!Ends : \E x \in AllOf(s) : x.of = b /\ x.ver = latest[b]
  BY DEF MovesInv, Moves!BooksKept, Moves!Packages, AllOf
<1>2. \A b \in Left : \E s \in Moves!Ends : \E y \in tree'[s] \cup trash'[s] :
          y.of = b /\ y.ver = latest'[b]
  BY <1>1
<1> QED
  BY <1>2 DEF Moves!BooksKept, Moves!Packages

\* The two looks of a move, and the staged copy.
LEMMA MovesLooked ==
    ASSUME MovesInv, pct' \in {"trash", "publish"}, tstaged' \in Package, Looked',
           UNCHANGED <<tree, trash, dir, meta, latest, arrived, dropped, overtaken, slipped,
                       carried, plan>>
    PROVE  MovesInv'
<1>1. Moves!BooksKept' /\ Moves!MetaCarried' /\ (\A s \in Moves!Ends : Apart(s))'
  BY DEF MovesInv, Moves!BooksKept, Moves!Packages, Moves!MetaCarried, Apart, Slipped, AllOf
<1> QED
  BY <1>1 DEF MovesInv

LEMMA MovesNotInTree ==
    ASSUME MovesInv, NEW b \in Left, Moves!NotInTree(b) PROVE MovesInv'
<1>1. /\ UNCHANGED <<tree, trash, dir, meta, latest, arrived, dropped, overtaken, slipped,
                     carried, plan>>
      /\ pct' = "trash" /\ Moves!Find("target", b) = {}
  BY DEF Moves!NotInTree, Moves!disk, Moves!seen, Moves!history
<1>2. tstaged' \in Moves!Find("source", b)
  BY DEF Moves!NotInTree
<1>3. tstaged' \in Package /\ tstaged'.id = b
  BY <1>2 DEF MovesInv, Moves!Find, Moves!Ends
<1>4. \A x \in tree["target"] : x.id # b
  BY <1>1 DEF Moves!Find
<1>5. Looked'
  BY <1>1, <1>3, <1>4 DEF Looked
<1> QED
  BY <1>1, <1>3, <1>5, MovesLooked

LEMMA MovesStage ==
    ASSUME MovesInv, NEW b \in Left, Moves!Stage(b) PROVE MovesInv'
<1>1. /\ UNCHANGED <<tree, trash, dir, meta, latest, arrived, dropped, overtaken, slipped,
                     carried, plan>>
      /\ pct' = "publish"
  BY DEF Moves!Stage, Moves!disk, Moves!seen, Moves!history
<1>2. ASSUME pct = "trash", Moves!NotInTrash(tstaged.id),
             NEW x \in Moves!Find("source", tstaged.id), tstaged' = x
      PROVE  tstaged' \in Package /\ Looked'
  <2>1. x \in Package /\ x.id = tstaged.id
    BY DEF MovesInv, Moves!Find, Moves!Ends
  <2>2. \A y \in AllOf("target") : y.id = tstaged.id => y.id \in slipped
    BY <1>2 DEF MovesInv, Looked, AllOf, Moves!NotInTrash
  <2> QED
    BY <1>1, <1>2, <2>1, <2>2 DEF Looked, AllOf
<1>3. ASSUME NEW x \in Moves!Find("source", b), NEW n \in FreshIds \ Moves!Held("target"),
             tstaged' = [x EXCEPT !.id = n]
      PROVE  tstaged' \in Package /\ Looked'
  <2>1. x \in Package
    BY DEF MovesInv, Moves!Find, Moves!Ends
  <2>2. tstaged' \in Package /\ tstaged'.id = n
    BY <1>3, <2>1 DEF Package
  <2>3. \A y \in AllOf("target") : y.id # n
    BY DEF AllOf, Moves!Held
  <2> QED
    BY <1>1, <2>2, <2>3 DEF Looked, AllOf
<1>4. tstaged' \in Package /\ Looked'
  BY <1>2, <1>3 DEF Moves!Stage
<1> QED
  BY <1>1, <1>4, MovesLooked

\* What the packages' own steps leave alone.
LEMMA MovesPackages ==
    ASSUME MovesInv, UNCHANGED <<meta, arrived, dropped, overtaken, carried, plan>>,
           latest' \in [Left -> Nat],
           pct' = "drop" => pct = "drop" /\ job' = job,
           tree' \in [Moves!Ends -> SUBSET Package], trash' \in [Moves!Ends -> SUBSET Package],
           dir' \in [Moves!Ends -> SUBSET Moves!Folders],
           pct' \in {"trash", "publish", "remove"} => tstaged' \in Package, Looked',
           (\A s \in Moves!Ends : Apart(s))', Moves!BooksKept'
    PROVE  MovesInv'
<1>1. Moves!MetaCarried'
  BY DEF MovesInv, Moves!MetaCarried
<1>2. pct' = "drop" => Compared'
  BY DEF MovesInv, Compared, Moves!Pruning
<1> QED
  BY <1>1, <1>2 DEF MovesInv

LEMMA MovesPublish ==
    ASSUME MovesInv, NEW b \in Left, Moves!Publish(b) PROVE MovesInv'
<1> DEFINE new == [tstaged EXCEPT !.folder = Moves!TargetFolder(tstaged)]
<1>1. /\ pct = "publish"
      /\ UNCHANGED <<trash, meta, latest, arrived, dropped, overtaken, slipped, carried, plan>>
      /\ tree' = [tree EXCEPT !["target"] = tree["target"] \cup {new}]
  BY DEF Moves!Publish, Moves!seen, Moves!history
<1>2. tstaged \in Package /\ \A x \in AllOf("target") : x.id = tstaged.id => x.id \in slipped
  BY <1>1 DEF MovesInv, Looked
<1>3. new \in Package /\ new.id = tstaged.id
  BY <1>2 DEF MovesInv, Package, Moves!TargetFolder
<1> HIDE DEF new
<1>4. pct' \in {"remove", "books"} /\ (pct' = "remove" => tstaged' = tstaged)
  BY DEF Moves!Publish, Moves!NextBook
<1>5. dir' \in [Moves!Ends -> SUBSET Moves!Folders]
  BY ParentsAreFolders DEF Moves!Publish, MovesInv
<1>6. /\ tree' \in [Moves!Ends -> SUBSET Package] /\ trash' \in [Moves!Ends -> SUBSET Package]
      /\ tree'["target"] = tree["target"] \cup {new} /\ tree'["source"] = tree["source"]
  BY <1>1, <1>3 DEF MovesInv, Moves!Ends
<1>7. Moves!BooksKept'
  <2>1. \A s \in Moves!Ends : \A x \in AllOf(s) : x \in tree'[s] \cup trash'[s]
    BY <1>1, <1>6 DEF AllOf, Moves!Ends
  <2> QED
    BY <1>1, <2>1, VersionsKept
<1>8. (\A s \in Moves!Ends : Apart(s))'
  <2>1. Apart("source")'
    BY <1>1, <1>6 DEF MovesInv, Moves!Ends, Apart, Slipped, AllOf
  <2>2. Apart("target") /\ (\A x \in AllOf("target") : x.id = new.id => x.id \in slipped)
    BY <1>2, <1>3 DEF MovesInv, Moves!Ends
  <2>3. Apart("target")'
    BY <1>1, <1>6, <2>2 DEF Apart, Slipped, AllOf
  <2> QED
    BY <2>1, <2>3 DEF Moves!Ends
<1> QED
  BY <1>1, <1>2, <1>4, <1>5, <1>6, <1>7, <1>8, MovesPackages DEF MovesInv, Looked

\* DeleteBook, TrashBook and RestoreBook only move packages between tree and trash.
LEMMA MovesAcross ==
    ASSUME MovesInv, NEW e \in Moves!Ends,
           UNCHANGED <<meta, arrived, dropped, overtaken, carried, plan, latest>>,
           tree' \in [Moves!Ends -> SUBSET Package], trash' \in [Moves!Ends -> SUBSET Package],
           dir' \in [Moves!Ends -> SUBSET Moves!Folders],
           tree'[e] \cup trash'[e] = tree[e] \cup trash[e], slipped \subseteq slipped',
           \A x \in tree'[e] : x \in trash'[e] => x.id \in Slipped(e)',
           pct' = "trash" => \A x \in tree'["target"] \ tree["target"] :
                                x.id = tstaged.id => x.id \in slipped',
           \A s \in Moves!Ends \ {e} : tree'[s] = tree[s] /\ trash'[s] = trash[s],
           pct' \in {"trash", "publish", "remove", "drop"}
             => pct' = pct /\ tstaged' = tstaged /\ job' = job
    PROVE  MovesInv'
<1>1. Moves!BooksKept'
  <2>1. \A s \in Moves!Ends : \A x \in AllOf(s) : x \in tree'[s] \cup trash'[s]
    BY DEF AllOf
  <2> QED
    BY <2>1, VersionsKept
<1>2. \A s \in Moves!Ends : tree'[s] \cup trash'[s] = AllOf(s)
  BY DEF AllOf
<1>6. \A s \in Moves!Ends : Slipped(s) \subseteq Slipped(s)'
  BY DEF Slipped
<1>3. \A s \in Moves!Ends : \A x \in tree'[s] : x \in trash'[s] => x.id \in Slipped(s)'
  BY <1>6 DEF MovesInv, Apart
<1>4. (\A s \in Moves!Ends : Apart(s))'
  BY <1>2, <1>3, <1>6 DEF MovesInv, Apart, AllOf
<1>5. Looked'
  BY <1>2 DEF MovesInv, Looked, AllOf, Moves!Ends
<1> QED
  BY <1>1, <1>4, <1>5, MovesPackages DEF MovesInv

LEMMA MovesRemove ==
    ASSUME MovesInv, NEW b \in Left, Moves!Remove(b) PROVE MovesInv'
<1> DEFINE F == Moves!Find("source", b)
<1>1. /\ UNCHANGED <<dir, meta, latest, arrived, dropped, overtaken, slipped, carried, plan>>
      /\ pct' = "books"
      /\ \/ UNCHANGED <<tree, trash>>
         \/ /\ tree' = [tree EXCEPT !["source"] = tree["source"] \ F]
            /\ trash' = [trash EXCEPT !["source"] = trash["source"] \cup F]
  BY DEF Moves!Remove, Moves!NextBook, Moves!seen, Moves!history
<1>2. F \subseteq tree["source"]
  BY DEF Moves!Find
<1> HIDE DEF F
<1>3. CASE UNCHANGED <<tree, trash>>
  BY <1>1, <1>3, MovesQuiet DEF MovesInv
<1>4. CASE ~UNCHANGED <<tree, trash>>
  <2>1. "source" \in Moves!Ends /\ "target" \in Moves!Ends /\ Moves!Ends \ {"source"} = {"target"}
    BY DEF Moves!Ends
  <2>2. /\ tree'["source"] = tree["source"] \ F /\ trash'["source"] = trash["source"] \cup F
        /\ tree'["target"] = tree["target"] /\ trash'["target"] = trash["target"]
        /\ tree' \in [Moves!Ends -> SUBSET Package] /\ trash' \in [Moves!Ends -> SUBSET Package]
    BY <1>1, <1>2, <1>4, <2>1, TreesAreTyped
  <2>3. tree["source"] \cap trash["source"] = {}
    BY <2>1 DEF MovesInv, Apart, Slipped
  <2> QED
    BY <1>1, <1>2, <2>1, <2>2, <2>3, MovesAcross DEF MovesInv
<1> QED
  BY <1>3, <1>4

LEMMA MovesTrash ==
    ASSUME MovesInv, NEW e \in Moves!Ends, Moves!TrashBook(e) \/ Moves!RestoreBook(e)
    PROVE  MovesInv'
<1>1. /\ UNCHANGED <<meta, latest, arrived, dropped, overtaken, carried, plan, pct, tstaged, job>>
      /\ slipped \subseteq slipped'
  BY DEF Moves!TrashBook, Moves!RestoreBook, Moves!task, Moves!history
<1>2. dir' \in [Moves!Ends -> SUBSET Moves!Folders]
  BY ParentsAreFolders DEF Moves!TrashBook, Moves!RestoreBook, MovesInv
<1>3. /\ tree[e] \subseteq Package /\ trash[e] \subseteq Package
      /\ \A x \in tree[e] : x \in trash[e] => x.id \in Slipped(e)
      /\ \A x, y \in AllOf(e) : x.id = y.id => x = y \/ x.id \in Slipped(e)
  BY DEF MovesInv, Apart
<1>4. PICK x \in AllOf(e) :
        \/ /\ x \in tree[e] /\ tree' = [tree EXCEPT ![e] = tree[e] \ {x}]
           /\ trash' = [trash EXCEPT ![e] = trash[e] \cup {x}]
        \/ /\ x \in trash[e] /\ tree' = [tree EXCEPT ![e] = tree[e] \cup {x}]
           /\ trash' = [trash EXCEPT ![e] = trash[e] \ {x}]
           /\ e = "target" /\ pct = "trash" /\ x.id = tstaged.id => x.id \in slipped'
  BY DEF AllOf, Moves!TrashBook, Moves!RestoreBook
<1>5. /\ tree'[e] \cup trash'[e] = tree[e] \cup trash[e]
      /\ \A y \in tree'[e] : y \in trash'[e] => y \in tree[e] /\ y \in trash[e]
      /\ \A y \in tree'[e] \ tree[e] : y = x
      /\ \A s \in Moves!Ends \ {e} : tree'[s] = tree[s] /\ trash'[s] = trash[s]
      /\ tree' \in [Moves!Ends -> SUBSET Package] /\ trash' \in [Moves!Ends -> SUBSET Package]
  BY <1>3, <1>4, TreesAreTyped DEF AllOf
<1>6. \A y \in tree'[e] : y \in trash'[e] => y.id \in Slipped(e)'
  BY <1>1, <1>3, <1>5 DEF Slipped
<1>7. pct' = "trash" => \A y \in tree'["target"] \ tree["target"] :
                           y.id = tstaged.id => y.id \in slipped'
  BY <1>1, <1>4, <1>5 DEF Moves!Ends
<1> QED
  BY <1>1, <1>2, <1>5, <1>6, <1>7, MovesAcross

\* EditBook and Relocate put another version of a package in its place.
LEMMA MovesReplace ==
    ASSUME MovesInv, NEW e \in Moves!Ends, NEW x \in tree[e], NEW y \in Package,
           y.id = x.id, tree' = [tree EXCEPT ![e] = (tree[e] \ {x}) \cup {y}],
           UNCHANGED <<trash, dir, meta, arrived, dropped, overtaken, slipped, carried, plan,
                       pct, tstaged, job>>,
           latest' \in [Left -> Nat], Moves!BooksKept'
    PROVE  MovesInv'
<1>1. /\ tree'[e] = (tree[e] \ {x}) \cup {y} /\ \A s \in Moves!Ends \ {e} : tree'[s] = tree[s]
      /\ tree' \in [Moves!Ends -> SUBSET Package]
  BY DEF MovesInv
<1>2. Apart(e) /\ x \in AllOf(e)
  BY DEF MovesInv, AllOf
<1>3. \A z \in trash[e] : z.id = y.id => z.id \in Slipped(e)
  BY <1>2 DEF Apart, AllOf
<1>4. \A z \in tree[e] \ {x} : z.id = y.id => z.id \in Slipped(e)
  BY <1>2 DEF Apart, AllOf
<1>8. \A s \in Moves!Ends : Slipped(s)' = Slipped(s)
  BY DEF Slipped
<1>5. Apart(e)'
  BY <1>1, <1>2, <1>3, <1>4, <1>8 DEF Apart, AllOf
<1>6. \A s \in Moves!Ends : Apart(s)'
  <2>1. \A s \in Moves!Ends \ {e} : Apart(s)'
    BY <1>1, <1>8 DEF MovesInv, Apart, AllOf
  <2> QED
    BY <1>5, <2>1
<1>7. Looked'
  <2>1. ASSUME pct = "trash", NEW z \in tree'["target"], z.id = tstaged.id
        PROVE  z.id \in slipped
    <3>1. \A w \in tree["target"] : w.id = tstaged.id => w.id \in slipped
      BY <2>1 DEF MovesInv, Looked
    <3>2. z \in tree["target"] \/ (e = "target" /\ z = y)
      BY <1>1 DEF Moves!Ends
    <3> QED
      BY <2>1, <3>1, <3>2
  <2>2. ASSUME pct = "publish", NEW z \in tree'["target"] \cup trash["target"],
               z.id = tstaged.id
        PROVE  z.id \in slipped
    <3>1. \A w \in AllOf("target") : w.id = tstaged.id => w.id \in slipped
      BY <2>2 DEF MovesInv, Looked
    <3>2. z \in AllOf("target") \/ (e = "target" /\ z = y)
      BY <1>1 DEF AllOf, Moves!Ends
    <3> QED
      BY <1>2, <2>2, <3>1, <3>2
  <2> QED
    BY <2>1, <2>2 DEF Looked, AllOf
<1> QED
  BY <1>1, <1>6, <1>7, MovesPackages DEF MovesInv

LEMMA MovesEdit == ASSUME MovesInv, NEW e \in Moves!Ends, Moves!EditBook(e) PROVE MovesInv'
<1>1. PICK x \in tree[e] :
        /\ latest' = [latest EXCEPT ![x.of] = latest[x.of] + 1]
        /\ tree' = [tree EXCEPT ![e] = (tree[e] \ {x}) \cup {[x EXCEPT !.ver = latest[x.of] + 1]}]
  BY DEF Moves!EditBook
<1>2. UNCHANGED <<trash, dir, meta, arrived, dropped, overtaken, slipped, carried, plan, pct,
                  tstaged, job>>
  BY DEF Moves!EditBook, Moves!task, Moves!history
<1> DEFINE n == latest[x.of] + 1
           y == [x EXCEPT !.ver = n]
<1>3. x \in Package /\ x.of \in Left /\ n \in Nat
  BY DEF MovesInv, Package
<1> HIDE DEF n
<1>4. y \in Package /\ y.id = x.id /\ y.of = x.of /\ y.ver = n
  BY <1>3 DEF Package
<1>5. latest' = [latest EXCEPT ![x.of] = n] /\ tree' = [tree EXCEPT ![e] = (tree[e] \ {x}) \cup {y}]
  BY <1>1 DEF n
<1> HIDE DEF y
<1>6. latest' \in [Left -> Nat]
  BY <1>3, <1>5 DEF MovesInv
<1>7. Moves!BooksKept'
  <2>1. \A b \in Left : \E s \in Moves!Ends : \E z \in AllOf(s) : z.of = b /\ z.ver = latest[b]
    BY DEF MovesInv, Moves!BooksKept, Moves!Packages, AllOf
  <2>2. \A s \in Moves!Ends : \A z \in AllOf(s) : z = x \/ z \in tree'[s] \cup trash'[s]
    BY <1>2, <1>5 DEF MovesInv, AllOf
  <2>3. y \in tree'[e]
    BY <1>5 DEF MovesInv
  <2>4. ASSUME NEW b \in Left
        PROVE  \E s \in Moves!Ends : \E z \in tree'[s] \cup trash'[s] : z.of = b /\ z.ver = latest'[b]
    <3>1. CASE b = x.of
      BY <1>3, <1>4, <1>5, <2>3, <3>1 DEF MovesInv
    <3>2. CASE b # x.of
      BY <1>5, <2>1, <2>2, <3>2 DEF MovesInv
    <3> QED
      BY <3>1, <3>2
  <2> QED
    BY <2>4 DEF Moves!BooksKept, Moves!Packages
<1> QED
  BY <1>2, <1>4, <1>5, <1>6, <1>7, MovesReplace

LEMMA MovesRelocate == ASSUME MovesInv, NEW e \in Moves!Ends, Moves!Relocate(e) PROVE MovesInv'
<1>1. PICK x \in tree[e], f \in {"root"} \cup dir[e] :
        tree' = [tree EXCEPT ![e] = (tree[e] \ {x}) \cup {[x EXCEPT !.folder = f]}]
  BY DEF Moves!Relocate
<1>2. UNCHANGED <<trash, dir, meta, arrived, dropped, overtaken, slipped, carried, plan, pct,
                  tstaged, job, latest>>
  BY DEF Moves!Relocate, Moves!task, Moves!history
<1> DEFINE y == [x EXCEPT !.folder = f]
<1>3. x \in Package /\ f \in Moves!Folders \cup {"root"}
  BY DEF MovesInv
<1>4. y \in Package /\ y.id = x.id /\ y.of = x.of /\ y.ver = x.ver
  BY <1>3 DEF Package
<1>5. tree' = [tree EXCEPT ![e] = (tree[e] \ {x}) \cup {y}]
  BY <1>1
<1> HIDE DEF y
<1>6. Moves!BooksKept'
  <2>1. \A s \in Moves!Ends : \A z \in AllOf(s) :
            (z = x /\ s = e) \/ z \in tree'[s] \cup trash'[s]
    BY <1>2, <1>5 DEF MovesInv, AllOf
  <2>2. y \in tree'[e]
    BY <1>5 DEF MovesInv
  <2>3. \A s \in Moves!Ends : \A z \in AllOf(s) :
            \E w \in tree'[s] \cup trash'[s] : w.of = z.of /\ w.ver = z.ver
    BY <1>4, <2>1, <2>2
  <2> QED
    BY <1>2, <2>3, VersionsKept
<1> QED
  BY <1>2, <1>4, <1>5, <1>6, MovesReplace DEF MovesInv

LEMMA MovesStep == MovesInv /\ [Moves!Next]_transfervars => MovesInv'
<1> SUFFICES ASSUME MovesInv, [Moves!Next]_transfervars PROVE MovesInv'
  OBVIOUS
<1>1. CASE UNCHANGED transfervars
  BY <1>1 DEF transfervars, MovesInv, Apart, Slipped, AllOf, Looked, Moves!BooksKept,
              Moves!Packages, Moves!MetaCarried, Compared, Moves!Pruning
<1> QED
  BY <1>1, MovesTask, MovesCopyMeta, MovesLook, MovesDrop, MovesEditMeta, MovesNotInTree,
     MovesStage, MovesPublish, MovesRemove, MovesTrash, MovesEdit, MovesRelocate DEF Moves!Next

\* A book on its way to another shelf is always on one of them in its latest version, no
\* shelf has an ID twice unless it was restored between the two looks for it, and a folder.json is dropped only when the target got it or a
\* request overtook PruneFolder's comparison, for any books, IDs and contents and any number
\* of changes by other requests and installations between any two steps, and of crashes
\* (MoveBookFrom, CopyBookFrom, CopyFolderMetaFrom, PruneFolder).
THEOREM TransfersKeepBooks == MCSpec => []TransfersKeep
<1> DEFINE Inv == part = "moves" => MovesInv
           all == <<part, rvars, offlinevars, transfervars, managervars, mobilevars, desktopvars>>
<1>1. MCInit => Inv
  BY MovesInitial DEF MCInit
<1>2. Inv /\ [MCNext]_all => Inv'
  BY MovesStep DEF MCNext
<1>3. Inv => TransfersKeep
  BY ApartIsUnique DEF TransfersKeep, MovesInv
<1> QED
  BY <1>1, <1>2, <1>3, PTL DEF MCSpec

-----------------------------------------------------------------------------
(* MobileApp.                                                              *)

ShelfList == [Right -> Left \cup {None}]

MobileTypes ==
    /\ state \in {"down", "up", "stopping"} /\ epoch \in Nat
    /\ made \subseteq Right
    /\ conf \in ShelfList /\ mfile \in ShelfList
    /\ root \in [Right -> {None, "empty", "books"}]
    /\ shelves = [id \in Right \cup Remotes |-> shelves[id]]
    /\ req \in [HandleCalls -> [pc : {"idle", "staged", "serving"}, ep : Nat]]
    /\ op \in [do : {None, "save", "register", "rename", "close", "delete"},
               id : Right \cup {None}, next : ShelfList \cup {None}]

\* What an operation under way has written, and will write.
OpInv ==
    /\ op.do = None => op = Mobile!NoOp
    /\ op.do # None => op.id \in Right /\ state # "down"
                         /\ \A r \in HandleCalls : req[r].pc # "serving"
    /\ op.do \in {"save", "register", "rename"} =>
          /\ op.next \in ShelfList /\ op.next[op.id] # None
          /\ \A id \in Right \ {op.id} : op.next[id] = conf[id]
    /\ op.do \in {"save", "register"} => op.id \notin made /\ root[op.id] # None
    /\ op.do = "register" => mfile = op.next
    /\ op.do = "rename" => conf[op.id] # None
    /\ op.do \in {"close", "delete"} =>
          conf[op.id] = None /\ mfile[op.id] = None /\ op.id \in unwanted
    /\ op.do \in {"rename", "close", "delete"} => task = None

\* The list f has every shelf that was reported and is wanted, and their directories exist.
Lists(f) ==
    \A id \in made :
        /\ id \notin unwanted => f[id] # None
        /\ f[id] # None => root[id] # None

\* The list in memory is as good as the one on the device, for the next operation writes it.
MobileInv ==
    /\ MobileTypes
    /\ OpInv
    /\ Lists(mfile)
    /\ state # "down" => Lists(conf)
    /\ state = "down" => task = None /\ share = None
    /\ task # None => task \in Right
    /\ share # None => share \subseteq Right
    /\ Mobile!AnsweredByRunning

LEMMA MobileInitial == Mobile!Init => MobileInv
<1> SUFFICES ASSUME Mobile!Init PROVE MobileInv
  OBVIOUS
<1>1. MobileTypes
  BY DEF Mobile!Init, Mobile!ManagerInit, MobileTypes, ShelfList, Mobile!NoOp, Mobile!NoRequest
<1> QED
  BY <1>1, MobileAssumption
     DEF Mobile!Init, MobileInv, OpInv, Lists, Mobile!AnsweredByRunning, Mobile!NoOp,
         Mobile!NoRequest

\* NoOp is the only operation that does nothing.
LEMMA NoOpIs == Mobile!NoOp.do = None
                  /\ Mobile!NoOp \in [do : {None, "save", "register", "rename", "close", "delete"},
                                      id : Right \cup {None}, next : ShelfList \cup {None}]
  BY DEF Mobile!NoOp

LEMMA MobileLife ==
    ASSUME MobileInv, Mobile!Start \/ Mobile!StopBegins \/ Mobile!StopEnds \/ Mobile!Crash
    PROVE  MobileInv'
<1>1. CASE Mobile!Start
  <2>1. /\ state = "down" /\ state' = "up" /\ epoch' = epoch + 1 /\ conf' = mfile
        /\ root' = [id \in Right |->
                      IF mfile[id] # None /\ root[id] = None THEN "empty" ELSE root[id]]
        /\ shelves' = [id \in Right \cup Remotes |-> shelves'[id]]
        /\ UNCHANGED <<mfile, share, op, req, task, made, unwanted>>
    BY <1>1 DEF Mobile!Start, Mobile!ghost
  <2>2. op.do = None /\ task = None /\ share = None
    BY <2>1 DEF MobileInv, OpInv
  <2>3. \A r \in HandleCalls : req[r].pc # "serving"
    BY <2>1 DEF MobileInv, Mobile!AnsweredByRunning
  <2>4. MobileTypes'
    BY <2>1 DEF MobileInv, MobileTypes
  <2>5. Lists(mfile)' /\ Lists(conf)'
    BY <2>1, MobileAssumption DEF MobileInv, MobileTypes, Lists
  <2>6. OpInv'
    BY <2>1, <2>2, MobileAssumption DEF MobileInv, OpInv
  <2> QED
    BY <2>1, <2>2, <2>3, <2>4, <2>5, <2>6 DEF MobileInv, Mobile!AnsweredByRunning
<1>2. CASE Mobile!StopBegins
  <2>1. /\ state = "up" /\ state' = "stopping"
        /\ UNCHANGED <<shelves, mfile, root, conf, share, epoch, op, req, task, made, unwanted>>
    BY <1>2 DEF Mobile!StopBegins, Mobile!mvars, Mobile!disk, Mobile!inst, Mobile!ghost
  <2>2. MobileTypes' /\ OpInv'
    BY <2>1 DEF MobileInv, MobileTypes, OpInv
  <2>3. Mobile!AnsweredByRunning'
    BY <2>1 DEF MobileInv, Mobile!AnsweredByRunning, Mobile!Serving, Mobile!GetShelf
  <2> QED
    BY <2>1, <2>2, <2>3 DEF MobileInv, Lists
<1>3. CASE Mobile!StopEnds
  <2>1. /\ Mobile!LockFree /\ state' = "down" /\ share' = None /\ task' = None
        /\ shelves' = [id \in Right \cup Remotes |-> shelves'[id]]
        /\ UNCHANGED <<mfile, root, conf, epoch, op, req, made, unwanted>>
    BY <1>3 DEF Mobile!StopEnds, Mobile!disk, Mobile!ghost
  <2>2. /\ op = Mobile!NoOp /\ op.do = None
        /\ \A r \in HandleCalls : req[r].pc # "serving"
    BY <2>1, NoOpIs DEF MobileInv, Mobile!LockFree, Mobile!AnsweredByRunning
  <2>3. MobileTypes' /\ OpInv'
    BY <2>1, <2>2 DEF MobileInv, MobileTypes, OpInv
  <2> QED
    BY <2>1, <2>2, <2>3 DEF MobileInv, Lists, Mobile!AnsweredByRunning
<1>4. CASE Mobile!Crash
  <2>1. /\ state' = "down" /\ share' = None /\ task' = None /\ op' = Mobile!NoOp
        /\ req' = [r \in HandleCalls |-> Mobile!NoRequest]
        /\ shelves' = [id \in Right \cup Remotes |-> None]
        /\ UNCHANGED <<mfile, root, conf, epoch, made, unwanted>>
    BY <1>4 DEF Mobile!Crash, Mobile!disk, Mobile!ghost
  <2>2. \A r \in HandleCalls : req'[r].pc = "idle"
    BY <2>1 DEF Mobile!NoRequest
  <2>3. MobileTypes'
    BY <2>1, NoOpIs DEF MobileInv, MobileTypes, Mobile!NoRequest
  <2>4. OpInv'
    BY <2>1, NoOpIs, MobileAssumption DEF OpInv
  <2> QED
    BY <2>1, <2>2, <2>3, <2>4 DEF MobileInv, Lists, Mobile!AnsweredByRunning
<1> QED
  BY <1>1, <1>2, <1>3, <1>4

LEMMA MobileHandle ==
    ASSUME MobileInv, NEW r \in HandleCalls,
           Mobile!HandleBegins(r) \/ Mobile!HandleServes(r) \/ Mobile!HandleEnds(r)
    PROVE  MobileInv'
<1>0. UNCHANGED <<shelves, mfile, root, conf, share, epoch, state, op, made, unwanted>>
  BY DEF Mobile!HandleBegins, Mobile!HandleServes, Mobile!HandleEnds, Mobile!mvars,
         Mobile!disk, Mobile!inst, Mobile!ghost
<1>1. PICK v \in [pc : {"idle", "staged", "serving"}, ep : Nat] :
        /\ req' = [req EXCEPT ![r] = v]
        /\ v.pc = "serving" => v.ep = epoch /\ state # "down" /\ op = Mobile!NoOp
  <2>1. Mobile!NoRequest \in [pc : {"idle", "staged", "serving"}, ep : Nat]
        /\ Mobile!NoRequest.pc = "idle"
    BY DEF Mobile!NoRequest
  <2>2. CASE Mobile!HandleBegins(r)
    <3> DEFINE v == [pc |-> "staged", ep |-> epoch]
    <3>1. v \in [pc : {"idle", "staged", "serving"}, ep : Nat] /\ v.pc = "staged"
      BY DEF MobileInv, MobileTypes
    <3>2. req' = [req EXCEPT ![r] = v]
      BY <2>2 DEF Mobile!HandleBegins
    <3> HIDE DEF v
    <3> QED
      BY <3>1, <3>2
  <2>3. CASE Mobile!HandleServes(r)
    <3> DEFINE v == [req[r] EXCEPT !.pc = "serving"]
    <3>1. v \in [pc : {"idle", "staged", "serving"}, ep : Nat] /\ v.pc = "serving"
          /\ v.ep = req[r].ep
      BY DEF MobileInv, MobileTypes
    <3>2. /\ req' = [req EXCEPT ![r] = IF Mobile!Stopped(req[r].ep) THEN Mobile!NoRequest ELSE v]
          /\ req[r].ep = epoch => op = Mobile!NoOp
      BY <2>3 DEF Mobile!HandleServes, Mobile!MayRLock
    <3> HIDE DEF v
    <3> QED
      BY <2>1, <3>1, <3>2 DEF Mobile!Stopped
  <2>4. CASE Mobile!HandleEnds(r)
    BY <2>1, <2>4 DEF Mobile!HandleEnds
  <2> QED
    BY <2>2, <2>3, <2>4
<1>2. /\ req' \in [HandleCalls -> [pc : {"idle", "staged", "serving"}, ep : Nat]]
      /\ \A x \in HandleCalls : req'[x] = (IF x = r THEN v ELSE req[x])
  BY <1>1 DEF MobileInv, MobileTypes
<1>3. MobileTypes'
  BY <1>0, <1>2 DEF MobileInv, MobileTypes
<1>4. /\ task' # None => task' \in Right /\ Mobile!Serving(task')
      /\ task' # task => state # "down" /\ op.do = None
  <2>1. CASE task' = task
    BY <2>1 DEF MobileInv, Mobile!AnsweredByRunning
  <2>2. CASE task' # task
    <3>1. Mobile!HandleEnds(r)
      BY <2>2 DEF Mobile!HandleBegins, Mobile!HandleServes
    <3>2. req[r].pc = "serving" /\ \E id \in Right : Mobile!Serving(id) /\ task' = id
      BY <2>2, <3>1 DEF Mobile!HandleEnds
    <3>3. op.do = None /\ state # "down"
      BY <3>2 DEF MobileInv, OpInv, Mobile!AnsweredByRunning
    <3> QED
      BY <3>2, <3>3
  <2> QED
    BY <2>1, <2>2
<1>5. OpInv'
  <2>1. op.do # None => \A x \in HandleCalls : req'[x].pc # "serving"
    BY <1>1, <1>2, NoOpIs DEF MobileInv, OpInv
  <2>2. op.do \in {"rename", "close", "delete"} => task' = None
    BY <1>4, MobileAssumption DEF MobileInv, OpInv
  <2> QED
    BY <1>0, <2>1, <2>2 DEF MobileInv, OpInv
<1>6. Mobile!AnsweredByRunning'
  <2>1. \A x \in HandleCalls : req'[x].pc = "serving" => req'[x].ep = epoch /\ state # "down"
    BY <1>1, <1>2 DEF MobileInv, Mobile!AnsweredByRunning
  <2>2. task' # None => shelves'[task'] # None /\ shelves'[task'].open
    BY <1>0, <1>4 DEF Mobile!Serving, Mobile!GetShelf
  <2> QED
    BY <1>0, <2>1, <2>2 DEF MobileInv, Mobile!AnsweredByRunning, Mobile!Serving, Mobile!GetShelf
<1> QED
  BY <1>0, <1>3, <1>4, <1>5, <1>6 DEF MobileInv, Lists

\* The shelf of the task is as it was.
TaskShelfKept == task # None => shelves'[task] = shelves[task]

LEMMA AnswersKept ==
    ASSUME MobileInv, UNCHANGED <<epoch, state, req, task>>, TaskShelfKept,
           share' # None => state # "down" /\ \A id \in share' : conf'[id] # None
    PROVE  Mobile!AnsweredByRunning'
<1>1. task' # None => shelves'[task'] # None /\ shelves'[task'].open
  BY DEF MobileInv, TaskShelfKept, Mobile!AnsweredByRunning, Mobile!Serving, Mobile!GetShelf
<1> QED
  BY <1>1 DEF MobileInv, Mobile!AnsweredByRunning, Mobile!Serving, Mobile!GetShelf

\* What opens, closes or replaces virtual shelves, and the share.
LEMMA MobileVirtual ==
    ASSUME MobileInv,
           \/ \E id \in Remotes, pcloud \in BOOLEAN, s \in SourceScopes :
                 Mobile!OpenVirtual(id, pcloud, s) \/ Mobile!ReplaceVirtual(id, pcloud, s)
           \/ \E id \in Remotes : Mobile!CloseVirtual(id) \/ Mobile!Download(id)
           \/ \E s \in SourceScopes : Mobile!RemoveOffline(s)
           \/ \E ids \in (SUBSET Right) \ {{}} : Mobile!StartLANShare(ids)
           \/ Mobile!StopLANShare
           \/ Mobile!TaskEnds
    PROVE  MobileInv'
<1>1. ASSUME UNCHANGED <<mfile, conf, root, epoch, state, op, req, task, made, unwanted>>,
             shelves' = [id \in Right \cup Remotes |-> shelves'[id]], TaskShelfKept,
             share' # None => state # "down" /\ \A id \in share' : conf[id] # None,
             share' # None => share' \subseteq Right
      PROVE  MobileInv'
  <2>1. MobileTypes'
    BY <1>1 DEF MobileInv, MobileTypes
  <2>2. OpInv'
    BY <1>1 DEF MobileInv, OpInv
  <2>3. Mobile!AnsweredByRunning'
    BY <1>1, AnswersKept
  <2> QED
    BY <1>1, <2>1, <2>2, <2>3 DEF MobileInv, Lists
<1>2. /\ share # None => state # "down" /\ \A id \in share : conf[id] # None
      /\ share # None => share \subseteq Right
  BY DEF MobileInv, Mobile!AnsweredByRunning
<1>3. shelves = [id \in Right \cup Remotes |-> shelves[id]]
  BY DEF MobileInv, MobileTypes
<1>4. ASSUME NEW id \in Remotes, NEW pcloud, NEW s, Mobile!OpenVirtual(id, pcloud, s)
      PROVE  MobileInv'
  <2>1. UNCHANGED <<mfile, conf, root, epoch, state, op, req, task, made, unwanted, share>>
    BY <1>4 DEF Mobile!OpenVirtual, Mobile!disk, Mobile!ghost
  <2>2. PICK v : shelves' = [shelves EXCEPT ![id] = v]
    BY <1>4 DEF Mobile!OpenVirtual, Mobile!Open, Mobile!AddShelf, Mobile!AddVirtualShelf
  <2>3. TaskShelfKept
    BY <1>3, <2>2, MobileAssumption DEF TaskShelfKept, MobileInv
  <2> QED
    BY <1>1, <1>2, <1>3, <2>1, <2>2, <2>3
<1>5. ASSUME NEW id \in Remotes, NEW pcloud, NEW s, Mobile!ReplaceVirtual(id, pcloud, s)
      PROVE  MobileInv'
  <2>1. /\ UNCHANGED <<mfile, conf, root, epoch, state, op, req, task, made, unwanted, share>>
        /\ task = None
    BY <1>5 DEF Mobile!ReplaceVirtual, Mobile!disk, Mobile!ghost, Mobile!TasksSettled
  <2>2. shelves' = [x \in Right \cup Remotes |-> shelves'[x]]
    BY <1>3, <1>5 DEF Mobile!ReplaceVirtual, Mobile!RemoveShelf, Mobile!CloseFails
  <2> QED
    BY <1>1, <1>2, <2>1, <2>2 DEF TaskShelfKept
<1>6. ASSUME NEW id \in Remotes, Mobile!CloseVirtual(id) PROVE MobileInv'
  <2>1. /\ UNCHANGED <<mfile, conf, root, epoch, state, op, req, task, made, unwanted, share>>
        /\ task = None
    BY <1>6 DEF Mobile!CloseVirtual, Mobile!disk, Mobile!ghost, Mobile!TasksSettled
  <2>2. shelves' = [x \in Right \cup Remotes |-> shelves'[x]]
    BY <1>3, <1>6 DEF Mobile!CloseVirtual, Mobile!RemoveShelf, Mobile!CloseFails
  <2> QED
    BY <1>1, <1>2, <2>1, <2>2 DEF TaskShelfKept
<1>7. ASSUME NEW s \in SourceScopes, Mobile!RemoveOffline(s) PROVE MobileInv'
  <2>1. /\ UNCHANGED <<mfile, conf, root, epoch, state, op, req, task, made, unwanted, share>>
        /\ task = None
    BY <1>7 DEF Mobile!RemoveOffline, Mobile!ghost, Mobile!TasksSettled
  <2>2. shelves' = [x \in Right \cup Remotes |-> shelves'[x]]
    BY <1>7 DEF Mobile!RemoveOffline
  <2> QED
    BY <1>1, <1>2, <2>1, <2>2 DEF TaskShelfKept
<1>8. ASSUME NEW id \in Remotes, Mobile!Download(id) PROVE MobileInv'
  BY <1>1, <1>2, <1>3, <1>8 DEF Mobile!Download, Mobile!mvars, Mobile!inst, Mobile!ghost,
                                TaskShelfKept
<1>9. ASSUME NEW ids \in SUBSET Right, Mobile!StartLANShare(ids) \/ Mobile!StopLANShare PROVE MobileInv'
  <2>1. UNCHANGED <<mfile, conf, root, epoch, state, op, req, task, made, unwanted, shelves>>
    BY <1>9 DEF Mobile!StartLANShare, Mobile!StopLANShare, Mobile!mvars, Mobile!disk, Mobile!ghost
  <2>2. /\ share' # None => state # "down" /\ \A id \in share' : conf[id] # None
        /\ share' # None => share' \subseteq Right
    BY <1>9 DEF Mobile!StartLANShare, Mobile!StopLANShare, Mobile!LockRunning
  <2> QED
    BY <1>1, <1>3, <2>1, <2>2 DEF TaskShelfKept
<1>10. CASE Mobile!TaskEnds
  <2>1. /\ task' = None
        /\ UNCHANGED <<mfile, conf, root, epoch, state, op, req, made, unwanted, shelves, share>>
    BY <1>10 DEF Mobile!TaskEnds, Mobile!mvars, Mobile!disk, Mobile!inst, Mobile!ghost
  <2>2. MobileTypes' /\ OpInv'
    BY <2>1 DEF MobileInv, MobileTypes, OpInv
  <2>3. Mobile!AnsweredByRunning'
    BY <2>1 DEF MobileInv, Mobile!AnsweredByRunning
  <2> QED
    BY <2>1, <2>2, <2>3 DEF MobileInv, Lists
<1> QED
  BY <1>4, <1>5, <1>6, <1>7, <1>8, <1>9, <1>10

\* An operation begins.
LEMMA MobileBegin ==
    ASSUME MobileInv,
           \/ \E import \in BOOLEAN : Mobile!AddLocal(import)
           \/ \E id \in Right : Mobile!Remove(id) \/ \E n \in Left : Mobile!Rename(id, n)
    PROVE  MobileInv'
<1>0. None \notin Left /\ None \notin {"save", "register", "rename", "close", "delete"}
      /\ None \notin {"empty", "books"}
  BY MobileAssumption
<1>a. conf \in ShelfList /\ mfile \in ShelfList /\ made \subseteq Right
      /\ root \in [Right -> {None, "empty", "books"}]
      /\ shelves = [id \in Right \cup Remotes |-> shelves[id]]
  BY DEF MobileInv, MobileTypes
<1>1. ASSUME NEW import \in BOOLEAN, Mobile!AddLocal(import) PROVE MobileInv'
  <2>1. Mobile!LockRunning
        /\ UNCHANGED <<shelves, mfile, conf, share, epoch, state, req, task, made, unwanted>>
    BY <1>1 DEF Mobile!AddLocal, Mobile!mvars, Mobile!inst, Mobile!ghost
  <2>2. PICK id \in Right, n \in Left :
          /\ id \notin made
          /\ root' = [root EXCEPT ![id] = IF import THEN "books" ELSE "empty"]
          /\ op' = [do |-> "save", id |-> id, next |-> [conf EXCEPT ![id] = n]]
    BY <1>1 DEF Mobile!AddLocal, Mobile!Begin
  <2> DEFINE next == [conf EXCEPT ![id] = n]
  <2>3. /\ next \in ShelfList /\ next[id] # None
        /\ \A x \in Right \ {id} : next[x] = conf[x]
    BY <1>0, <1>a DEF ShelfList
  <2>4. op'.do = "save" /\ op'.id = id /\ op'.next = next
    BY <2>2
  <2>5. op' \in [do : {None, "save", "register", "rename", "close", "delete"},
                 id : Right \cup {None}, next : ShelfList \cup {None}]
    BY <2>2, <2>3
  <2> HIDE DEF next
  <2>6. /\ root' \in [Right -> {None, "empty", "books"}] /\ root'[id] # None
        /\ \A x \in Right \ {id} : root'[x] = root[x]
    BY <1>0, <1>a, <2>2
  <2>7. MobileTypes'
    BY <2>1, <2>5, <2>6 DEF MobileInv, MobileTypes
  <2>8. state # "down" /\ \A r \in HandleCalls : req[r].pc # "serving"
    BY <2>1 DEF MobileInv, Mobile!LockRunning, Mobile!LockFree, Mobile!AnsweredByRunning
  <2>a. id \notin made
    BY <2>2
  <2>9. OpInv'
    BY <1>0, <2>1, <2>a, <2>3, <2>4, <2>6, <2>8 DEF OpInv
  <2>10. Mobile!AnsweredByRunning'
    BY <2>1, AnswersKept DEF TaskShelfKept, MobileInv, Mobile!AnsweredByRunning
  <2>11. Lists(mfile)' /\ Lists(conf)'
    BY <1>a, <2>1, <2>2, <2>6, <2>8 DEF MobileInv, Lists
  <2> QED
    BY <2>1, <2>7, <2>8, <2>9, <2>10, <2>11 DEF MobileInv
<1>2. ASSUME NEW id \in Right, NEW n \in Left, Mobile!Rename(id, n) PROVE MobileInv'
  <2> DEFINE next == [conf EXCEPT ![id] = n]
  <2>1. /\ Mobile!LockRunning /\ task = None /\ conf[id] # None
        /\ mfile' = next /\ op' = [do |-> "rename", id |-> id, next |-> next]
        /\ UNCHANGED <<shelves, root, conf, share, epoch, state, req, task, made, unwanted>>
    BY <1>2 DEF Mobile!Rename, Mobile!mvars, Mobile!inst, Mobile!ghost, Mobile!Begin,
                Mobile!SaveConfig, Mobile!TasksSettled
  <2>2. /\ next \in ShelfList /\ next[id] # None
        /\ \A x \in Right \ {id} : next[x] = conf[x]
    BY <1>0, <1>a DEF ShelfList
  <2> HIDE DEF next
  <2>3. /\ op'.do = "rename" /\ op'.id = id /\ op'.next = next
        /\ op' \in [do : {None, "save", "register", "rename", "close", "delete"},
                    id : Right \cup {None}, next : ShelfList \cup {None}]
    BY <2>1, <2>2
  <2>4. MobileTypes'
    BY <2>1, <2>2, <2>3 DEF MobileInv, MobileTypes
  <2>5. state # "down" /\ \A r \in HandleCalls : req[r].pc # "serving"
    BY <2>1 DEF MobileInv, Mobile!LockRunning, Mobile!LockFree, Mobile!AnsweredByRunning
  <2>6. OpInv'
    BY <1>0, <2>1, <2>2, <2>3, <2>5 DEF OpInv
  <2>7. Mobile!AnsweredByRunning'
    BY <2>1, AnswersKept DEF TaskShelfKept, MobileInv, Mobile!AnsweredByRunning
  <2>8. Lists(mfile)' /\ Lists(conf)'
    BY <1>a, <2>1, <2>2, <2>5 DEF MobileInv, Lists
  <2> QED
    BY <2>1, <2>4, <2>5, <2>6, <2>7, <2>8 DEF MobileInv
<1>3. ASSUME NEW id \in Right, Mobile!Remove(id) PROVE MobileInv'
  <2> DEFINE next == [conf EXCEPT ![id] = None]
  <2>1. /\ Mobile!LockRunning /\ task = None /\ conf[id] # None
        /\ mfile' = next /\ conf' = next /\ unwanted' = unwanted \cup {id}
        /\ op' = [do |-> "close", id |-> id, next |-> None]
        /\ share' = (IF share = None THEN None ELSE share \ {id})
        /\ UNCHANGED <<shelves, root, epoch, state, req, task, made>>
    BY <1>3 DEF Mobile!Remove, Mobile!mvars, Mobile!Begin, Mobile!SaveConfig, Mobile!TasksSettled
  <2>2. /\ next \in ShelfList /\ next[id] = None
        /\ \A x \in Right \ {id} : next[x] = conf[x]
    BY <1>a DEF ShelfList
  <2> HIDE DEF next
  <2>3. /\ op'.do = "close" /\ op'.id = id
        /\ op' \in [do : {None, "save", "register", "rename", "close", "delete"},
                    id : Right \cup {None}, next : ShelfList \cup {None}]
    BY <2>1
  <2>4. MobileTypes'
    BY <2>1, <2>2, <2>3 DEF MobileInv, MobileTypes
  <2>5. state # "down" /\ \A r \in HandleCalls : req[r].pc # "serving"
    BY <2>1 DEF MobileInv, Mobile!LockRunning, Mobile!LockFree, Mobile!AnsweredByRunning
  <2>6. OpInv'
    BY <1>0, <2>1, <2>2, <2>3, <2>5 DEF OpInv
  <2>7. share' # None => \A x \in share' : conf'[x] # None
    <3> SUFFICES ASSUME share' # None, NEW x \in share' PROVE conf'[x] # None
      OBVIOUS
    <3>1. x \in share /\ x # id /\ share # None /\ x \in Right
      BY <2>1 DEF MobileInv
    <3>2. conf[x] # None
      BY <3>1 DEF MobileInv, Mobile!AnsweredByRunning
    <3> QED
      BY <2>1, <2>2, <3>1, <3>2
  <2>8. Mobile!AnsweredByRunning'
    BY <2>1, <2>5, <2>7, AnswersKept DEF TaskShelfKept
  <2>9. Lists(mfile)' /\ Lists(conf)'
    BY <1>a, <2>1, <2>2, <2>5 DEF MobileInv, Lists
  <2>10. share' # None => share' \subseteq Right
    BY <2>1 DEF MobileInv
  <2> QED
    BY <2>1, <2>4, <2>5, <2>6, <2>8, <2>9, <2>10 DEF MobileInv
<1> QED
  BY <1>1, <1>2, <1>3

\* An operation goes on or ends.
LEMMA MobileAdds ==
    ASSUME MobileInv, Mobile!AddSaves \/ Mobile!AddRegisters \/ Mobile!AddFails
    PROVE  MobileInv'
<1>0. None \notin {"save", "register", "rename", "close", "delete"}
  BY MobileAssumption
<1>a. /\ conf \in ShelfList /\ mfile \in ShelfList /\ made \subseteq Right
      /\ root \in [Right -> {None, "empty", "books"}]
      /\ shelves = [id \in Right \cup Remotes |-> shelves[id]]
      /\ op \in [do : {None, "save", "register", "rename", "close", "delete"},
                 id : Right \cup {None}, next : ShelfList \cup {None}]
  BY DEF MobileInv, MobileTypes
<1>b. /\ op.do \in {"save", "register"} /\ op.id \in Right \ made /\ state # "down"
      /\ op.next \in ShelfList /\ op.next[op.id] # None /\ root[op.id] # None
      /\ \A id \in Right \ {op.id} : op.next[id] = conf[id]
      /\ Lists(conf) /\ Lists(mfile)
  BY <1>0 DEF Mobile!AddSaves, Mobile!AddRegisters, Mobile!AddFails, MobileInv, OpInv
<1>c. Lists(op.next)
  BY <1>a, <1>b DEF Lists
<1>1. CASE Mobile!AddSaves
  <2>1. /\ op.do = "save" /\ mfile' = op.next /\ op' = [op EXCEPT !.do = "register"]
        /\ UNCHANGED <<shelves, root, conf, share, epoch, state, req, task, made, unwanted>>
    BY <1>1 DEF Mobile!AddSaves, Mobile!SaveConfig, Mobile!mvars, Mobile!inst, Mobile!ghost
  <2>2. /\ op'.do = "register" /\ op'.id = op.id /\ op'.next = op.next
        /\ op' \in [do : {None, "save", "register", "rename", "close", "delete"},
                    id : Right \cup {None}, next : ShelfList \cup {None}]
    BY <1>a, <2>1
  <2>3. MobileTypes'
    BY <1>b, <2>1, <2>2 DEF MobileInv, MobileTypes
  <2>4. \A r \in HandleCalls : req[r].pc # "serving"
    BY <1>0, <2>1 DEF MobileInv, OpInv
  <2>5. OpInv'
    BY <1>0, <1>b, <2>1, <2>2, <2>4 DEF OpInv
  <2>6. Mobile!AnsweredByRunning'
    BY <2>1, AnswersKept DEF TaskShelfKept, MobileInv, Mobile!AnsweredByRunning
  <2>7. Lists(mfile)' /\ Lists(conf)'
    BY <1>b, <1>c, <2>1 DEF Lists
  <2> QED
    BY <2>1, <2>3, <2>5, <2>6, <2>7 DEF MobileInv
<1>2. CASE Mobile!AddRegisters
  <2>1. /\ op.do = "register" /\ conf' = op.next /\ op' = Mobile!NoOp /\ made' = made \cup {op.id}
        /\ UNCHANGED <<mfile, root, share, epoch, state, req, task, unwanted>>
    BY <1>2 DEF Mobile!AddRegisters, Mobile!Done, Mobile!disk
  <2>2. /\ shelves[op.id] = None
        /\ shelves' = [shelves EXCEPT ![op.id] = Mobile!NewShelf(Mobile!Conf)]
    BY <1>2 DEF Mobile!AddRegisters, Mobile!AddShelf
  <2>3. TaskShelfKept
    BY <1>a, <2>2 DEF TaskShelfKept, MobileInv, Mobile!AnsweredByRunning, Mobile!Serving,
                      Mobile!GetShelf
  <2>4. shelves' = [id \in Right \cup Remotes |-> shelves'[id]]
    BY <1>a, <2>2
  <2>5. MobileTypes'
    BY <1>b, <2>1, <2>4, NoOpIs DEF MobileInv, MobileTypes
  <2>6. OpInv'
    BY <1>0, <2>1, NoOpIs DEF OpInv
  <2>7. share' # None => \A id \in share' : conf'[id] # None
    BY <1>b, <2>1 DEF MobileInv, Mobile!AnsweredByRunning
  <2>8. Mobile!AnsweredByRunning'
    BY <1>b, <2>1, <2>3, <2>7, AnswersKept
  <2>9. mfile = op.next
    BY <2>1 DEF MobileInv, OpInv
  <2>10. Lists(mfile)' /\ Lists(conf)'
    BY <1>b, <1>c, <2>1, <2>9 DEF Lists
  <2> QED
    BY <2>1, <2>5, <2>6, <2>8, <2>10 DEF MobileInv
<1>3. CASE Mobile!AddFails
  <2>1. /\ mfile' = mfile \/ mfile' = conf
        /\ root' = [root EXCEPT ![op.id] = None] /\ op' = Mobile!NoOp
        /\ UNCHANGED <<shelves, conf, share, epoch, state, req, task, made, unwanted>>
    BY <1>3 DEF Mobile!AddFails, Mobile!Done, Mobile!SaveConfig, Mobile!mvars, Mobile!inst,
                Mobile!ghost
  <2>2. /\ root' \in [Right -> {None, "empty", "books"}]
        /\ \A id \in made : root'[id] = root[id]
    BY <1>a, <1>b, <2>1
  <2>3. MobileTypes'
    BY <1>a, <2>1, <2>2, NoOpIs DEF MobileInv, MobileTypes
  <2>4. OpInv'
    BY <1>0, <2>1, NoOpIs DEF OpInv
  <2>5. Mobile!AnsweredByRunning'
    BY <2>1, AnswersKept DEF TaskShelfKept, MobileInv, Mobile!AnsweredByRunning
  <2>6. Lists(mfile)' /\ Lists(conf)'
    BY <1>b, <2>1, <2>2 DEF Lists
  <2> QED
    BY <2>1, <2>3, <2>4, <2>5, <2>6 DEF MobileInv
<1> QED
  BY <1>1, <1>2, <1>3

LEMMA MobileEnds ==
    ASSUME MobileInv,
           \/ \E id \in Right : Mobile!BookArrives(id)
           \/ Mobile!RenameEnds \/ Mobile!RemoveCloses \/ Mobile!RemoveDeletes
    PROVE  MobileInv'
<1>0. /\ None \notin {"save", "register", "rename", "close", "delete"}
      /\ None \notin {"empty", "books"}
  BY MobileAssumption
<1>a. /\ conf \in ShelfList /\ mfile \in ShelfList /\ made \subseteq Right
      /\ root \in [Right -> {None, "empty", "books"}]
      /\ shelves = [id \in Right \cup Remotes |-> shelves[id]]
      /\ op \in [do : {None, "save", "register", "rename", "close", "delete"},
                 id : Right \cup {None}, next : ShelfList \cup {None}]
  BY DEF MobileInv, MobileTypes
<1>1. ASSUME NEW id \in Right, Mobile!BookArrives(id) PROVE MobileInv'
  <2>1. /\ root' = [root EXCEPT ![id] = "books"]
        /\ UNCHANGED <<shelves, mfile, conf, share, epoch, state, op, req, task, made, unwanted>>
    BY <1>1 DEF Mobile!BookArrives, Mobile!mvars, Mobile!inst, Mobile!ghost
  <2>2. /\ root' \in [Right -> {None, "empty", "books"}]
        /\ \A x \in Right : root[x] # None => root'[x] # None
    BY <1>0, <1>a, <2>1
  <2>3. MobileTypes'
    BY <2>1, <2>2 DEF MobileInv, MobileTypes
  <2>4. OpInv'
    BY <1>0, <2>1, <2>2 DEF MobileInv, OpInv
  <2>5. Mobile!AnsweredByRunning'
    BY <2>1, AnswersKept DEF TaskShelfKept, MobileInv, Mobile!AnsweredByRunning
  <2>6. Lists(mfile)' /\ (state # "down" => Lists(conf)')
    BY <1>a, <2>1, <2>2 DEF MobileInv, Lists
  <2> QED
    BY <2>1, <2>3, <2>4, <2>5, <2>6 DEF MobileInv
<1>2. ASSUME op' = Mobile!NoOp, task = None, state # "down",
             shelves' = [id \in Right \cup Remotes |-> shelves'[id]],
             UNCHANGED <<root, share, epoch, state, req, task, made, unwanted>>,
             \/ mfile' \in {mfile, conf} /\ conf' = conf
             \/ mfile' = mfile /\ conf' = op.next /\ op.do = "rename"
      PROVE  MobileInv'
  <2>1. op.do = "rename" =>
            /\ op.next \in ShelfList /\ op.next[op.id] # None /\ conf[op.id] # None
            /\ \A id \in Right \ {op.id} : op.next[id] = conf[id]
    BY DEF MobileInv, OpInv
  <2>2. MobileTypes'
    BY <1>2, <1>a, <2>1, NoOpIs DEF MobileInv, MobileTypes
  <2>3. OpInv'
    BY <1>0, <1>2, NoOpIs DEF OpInv
  <2>4. Lists(conf) /\ Lists(mfile)
    BY <1>2 DEF MobileInv
  <2>5. op.do = "rename" => Lists(op.next)
    BY <1>a, <2>1, <2>4 DEF Lists
  <2>6. Lists(mfile)' /\ Lists(conf)'
    BY <1>2, <2>4, <2>5 DEF Lists
  <2>7. share' # None => \A id \in share' : conf'[id] # None
    <3> SUFFICES ASSUME share' # None, NEW id \in share' PROVE conf'[id] # None
      OBVIOUS
    <3>1. conf[id] # None /\ id \in Right
      BY <1>2 DEF MobileInv, Mobile!AnsweredByRunning
    <3> QED
      BY <1>2, <2>1, <3>1
  <2>8. Mobile!AnsweredByRunning'
    BY <1>2, <2>7, AnswersKept DEF TaskShelfKept
  <2> QED
    BY <1>2, <2>2, <2>3, <2>6, <2>8 DEF MobileInv
<1>3. CASE Mobile!RenameEnds
  <2>1. /\ op.do = "rename" /\ op' = Mobile!NoOp
        /\ UNCHANGED <<root, share, epoch, state, req, task, made, unwanted>>
        /\ \/ conf' = op.next /\ mfile' = mfile
           \/ mfile' \in {mfile, conf} /\ conf' = conf
    BY <1>3 DEF Mobile!RenameEnds, Mobile!Done, Mobile!SaveConfig, Mobile!ghost
  <2>2. shelves' = [id \in Right \cup Remotes |-> shelves'[id]]
    <3>1. shelves' = shelves \/ \E v : shelves' = [shelves EXCEPT ![op.id] = v]
      BY <1>3 DEF Mobile!RenameEnds, Mobile!UpdateShelf, Mobile!UpdateFails
    <3> QED
      BY <1>a, <3>1
  <2>3. task = None /\ state # "down"
    BY <1>0, <2>1 DEF MobileInv, OpInv
  <2> QED
    BY <1>2, <2>1, <2>2, <2>3
<1>4. CASE Mobile!RemoveCloses
  <2>1. /\ op.do = "close" /\ op' \in {Mobile!NoOp, [op EXCEPT !.do = "delete"]}
        /\ UNCHANGED <<root, mfile, conf, share, epoch, state, req, task, made, unwanted>>
    BY <1>4 DEF Mobile!RemoveCloses, Mobile!Done, Mobile!disk, Mobile!inst, Mobile!ghost
  <2>2. shelves' = [id \in Right \cup Remotes |-> shelves'[id]]
    <3>1. shelves' = shelves \/ \E v : shelves' = [shelves EXCEPT ![op.id] = v]
      BY <1>4 DEF Mobile!RemoveCloses, Mobile!RemoveShelf, Mobile!CloseFails, Mobile!mvars
    <3> QED
      BY <1>a, <3>1
  <2>3. /\ task = None /\ state # "down" /\ op.id \in Right
        /\ conf[op.id] = None /\ mfile[op.id] = None /\ op.id \in unwanted
        /\ \A r \in HandleCalls : req[r].pc # "serving"
    BY <1>0, <2>1 DEF MobileInv, OpInv
  <2>4. CASE op' = Mobile!NoOp
    BY <1>2, <2>1, <2>2, <2>3, <2>4
  <2>5. CASE op' = [op EXCEPT !.do = "delete"]
    <3>1. /\ op'.do = "delete" /\ op'.id = op.id
          /\ op' \in [do : {None, "save", "register", "rename", "close", "delete"},
                      id : Right \cup {None}, next : ShelfList \cup {None}]
      BY <1>a, <2>5
    <3>2. MobileTypes'
      BY <2>1, <2>2, <3>1 DEF MobileInv, MobileTypes
    <3>3. OpInv'
      BY <1>0, <2>1, <2>3, <3>1 DEF OpInv
    <3>4. Mobile!AnsweredByRunning'
      BY <2>1, <2>3, AnswersKept DEF TaskShelfKept, MobileInv, Mobile!AnsweredByRunning
    <3> QED
      BY <2>1, <3>2, <3>3, <3>4 DEF MobileInv, Lists
  <2> QED
    BY <2>1, <2>4, <2>5
<1>5. CASE Mobile!RemoveDeletes
  <2>1. /\ op.do = "delete" /\ root' = [root EXCEPT ![op.id] = None] /\ op' = Mobile!NoOp
        /\ UNCHANGED <<shelves, mfile, conf, share, epoch, state, req, task, made, unwanted>>
    BY <1>5 DEF Mobile!RemoveDeletes, Mobile!Done, Mobile!mvars, Mobile!inst, Mobile!ghost
  <2>2. /\ op.id \in Right /\ conf[op.id] = None /\ mfile[op.id] = None
    BY <1>0, <2>1 DEF MobileInv, OpInv
  <2>3. /\ root' \in [Right -> {None, "empty", "books"}]
        /\ \A x \in Right \ {op.id} : root'[x] = root[x]
    BY <1>a, <2>1
  <2>4. MobileTypes'
    BY <2>1, <2>3, NoOpIs DEF MobileInv, MobileTypes
  <2>5. OpInv'
    BY <1>0, <2>1, NoOpIs DEF OpInv
  <2>6. Mobile!AnsweredByRunning'
    BY <2>1, AnswersKept DEF TaskShelfKept, MobileInv, Mobile!AnsweredByRunning
  <2>7. Lists(mfile)' /\ (state # "down" => Lists(conf)')
    BY <1>a, <2>1, <2>2, <2>3 DEF MobileInv, Lists
  <2> QED
    BY <2>1, <2>4, <2>5, <2>6, <2>7 DEF MobileInv
<1> QED
  BY <1>1, <1>3, <1>4, <1>5

LEMMA MobileStep == MobileInv /\ [Mobile!Next]_<<managervars, mobilevars>> => MobileInv'
<1> SUFFICES ASSUME MobileInv, [Mobile!Next]_<<managervars, mobilevars>> PROVE MobileInv'
  OBVIOUS
<1>1. CASE UNCHANGED <<managervars, mobilevars>>
  <2>1. UNCHANGED <<shelves, mfile, root, conf, share, epoch, state, op, req, task, made, unwanted>>
    BY <1>1 DEF managervars, mobilevars
  <2>2. MobileTypes' /\ OpInv'
    BY <2>1 DEF MobileInv, MobileTypes, OpInv
  <2>3. Mobile!AnsweredByRunning'
    BY <2>1, AnswersKept DEF TaskShelfKept, MobileInv, Mobile!AnsweredByRunning
  <2> QED
    BY <2>1, <2>2, <2>3 DEF MobileInv, Lists
<1> QED
  BY <1>1, MobileLife, MobileHandle, MobileVirtual, MobileBegin, MobileAdds, MobileEnds
     DEF Mobile!Next

\* RemoveVirtualShelfOffline has closed every shelf of the scope when it deletes the copies.
LEMMA OfflineStep ==
    ASSUME [Mobile!Next]_<<managervars, mobilevars>> PROVE Mobile!KeepsOfflineInUse
<1> SUFFICES ASSUME NEW s \in SourceScopes, s \in offline, s \notin offline',
                    NEW id \in Remotes, virtual[id] = s
             PROVE  ~Mobile!Serving(id)'
  BY DEF Mobile!KeepsOfflineInUse
<1>1. PICK t \in SourceScopes : Mobile!RemoveOffline(t)
  BY DEF managervars, mobilevars, Mobile!Next, Mobile!disk, Mobile!Start, Mobile!StopBegins,
         Mobile!StopEnds, Mobile!Crash, Mobile!HandleBegins, Mobile!HandleServes,
         Mobile!HandleEnds, Mobile!TaskEnds, Mobile!AddLocal, Mobile!AddSaves,
         Mobile!AddRegisters, Mobile!AddFails, Mobile!BookArrives, Mobile!Remove,
         Mobile!Rename, Mobile!RenameEnds, Mobile!RemoveCloses, Mobile!RemoveDeletes,
         Mobile!OpenVirtual, Mobile!ReplaceVirtual, Mobile!CloseVirtual, Mobile!Download,
         Mobile!StartLANShare, Mobile!StopLANShare
<1>2. PICK closed \in SUBSET Mobile!UsingScope(t) :
        /\ offline' = (IF closed = Mobile!UsingScope(t) /\ Mobile!MayRemoveScope(t)'
                         THEN offline \ {t} ELSE offline)
        /\ \A x \in Right \cup Remotes : x \in closed => shelves'[x] = None
  BY <1>1 DEF Mobile!RemoveOffline
<1>3. t = s /\ closed = Mobile!UsingScope(s)
  BY <1>2
<1>4. id \in closed
  BY <1>3 DEF Mobile!UsingScope
<1> QED
  BY <1>2, <1>4 DEF Mobile!Serving, Mobile!GetShelf

\* A shelf whose creation the app reported stays listed until its removal is asked for, and
\* a listed shelf has its directory, for any number of shelves, names, requests and starts,
\* wherever the process ends (addShelf, RenameShelf, RemoveShelf).
THEOREM MobileShelvesKept == MCSpec => []ShelvesKept
<1> DEFINE Inv == part = "mobile" => MobileInv
           all == <<part, rvars, offlinevars, transfervars, managervars, mobilevars, desktopvars>>
<1>1. MCInit => Inv
  BY MobileInitial DEF MCInit
<1>2. Inv /\ [MCNext]_all => Inv'
  BY MobileStep DEF MCNext
<1>3. Inv => ShelvesKept
  BY DEF ShelvesKept, Mobile!ShelvesKept, MobileInv, Lists
<1> QED
  BY <1>1, <1>2, <1>3, PTL DEF MCSpec

\* No request is answered by an instance that Stop has closed, no task works on a closed
\* shelf, and the share offers listed shelves only (rlockRunning, waitForTasks,
\* forgetShared).
THEOREM MobileAnsweredByRunning == MCSpec => []AnsweredByRunning
<1> DEFINE Inv == part = "mobile" => MobileInv
           all == <<part, rvars, offlinevars, transfervars, managervars, mobilevars, desktopvars>>
<1>1. MCInit => Inv
  BY MobileInitial DEF MCInit
<1>2. Inv /\ [MCNext]_all => Inv'
  BY MobileStep DEF MCNext
<1>3. Inv => AnsweredByRunning
  BY DEF AnsweredByRunning, MobileInv
<1> QED
  BY <1>1, <1>2, <1>3, PTL DEF MCSpec

\* Offline copies are deleted only while no shelf serves them, although the server knows
\* the scopes of some of the shelves only (RemoveVirtualShelfOffline).
THEOREM MobileOfflineInUseKept == MCSpec => OfflineInUseKept
<1> DEFINE all == <<part, rvars, offlinevars, transfervars, managervars, mobilevars, desktopvars>>
           Step1 == part = "mobile" => Mobile!KeepsOfflineInUse
<1>1. [MCNext]_all => [Step1]_<<managervars, mobilevars>>
  BY OfflineStep DEF MCNext
<1> QED
  BY <1>1, PTL DEF MCSpec, OfflineInUseKept

-----------------------------------------------------------------------------
(* DesktopShelves and LanShare.                                            *)

CallSteps == {"register", "save", "modify", "saveRemoval", "close", "forget"}
OpenShelf == [conf : Desktop!Entries, open : BOOLEAN]
ShareSettings == [on : BOOLEAN, host : Left \cup {None}, ids : SUBSET DesktopIds]

DesktopTypes ==
    /\ shelves \in [DesktopIds -> OpenShelf \cup {None}]
    /\ dfile = Torn \/ dfile \in [DesktopIds -> Desktop!Entries \cup {None}]
    /\ dcall \in [do : CallSteps \cup {None}, id : DesktopIds \cup {None},
                  entry : Desktop!Entries \cup {None}]
    /\ up \in BOOLEAN
    /\ lconf \in ShareSettings /\ lfile \in ShareSettings
    /\ applying \in [at : {None, "listen", "save"}, next : ShareSettings]
    /\ srv \in Left \cup {None} /\ addrs \subseteq Left

\* What a call relies on where it stands: it is alone, so nothing else changed its entry.
CallInv ==
    LET id == dcall.id
        e == dcall.entry
    IN  /\ dcall.do = None => dcall = Desktop!Idle
        /\ dcall.do # None => up /\ dfile # Torn /\ id \in DesktopIds /\ e \in Desktop!Entries
        /\ dcall.do \in {"register", "save"} => dfile[id] = None /\ (e.secret => id \in secrets)
        /\ dcall.do = "save" => shelves[id] = Desktop!NewShelf(e)
        /\ dcall.do = "modify" =>
              /\ dfile[id] # None
              /\ e.virtual = dfile[id].virtual /\ e.secret = dfile[id].secret
              /\ shelves[id] # None /\ shelves[id].conf = e
              /\ id \notin reported /\ ~e.virtual => shelves[id].open
        /\ dcall.do = "saveRemoval" => dfile[id] # None /\ id \in unwanted
        /\ dcall.do \in {"close", "forget"} => dfile[id] = None /\ id \in unwanted
        /\ dcall.do = "forget" => id \in reported \/ shelves[id] = None

\* SettingsAgree at every step: only the entry of the call may differ.
AgreeInv ==
    up /\ dfile # Torn => \A id \in DesktopIds \ reported :
        /\ dfile[id] # None /\ ~dfile[id].virtual =>
              /\ shelves[id] # None /\ shelves[id].open
              /\ shelves[id].conf = dfile[id] \/ (dcall.do = "modify" /\ dcall.id = id)
        /\ shelves[id] # None =>
              dfile[id] # None \/ (dcall.do \in {"save", "close"} /\ dcall.id = id)

\* A listed source has its secret, whatever was reported and whether or not the app runs.
SecretsInv ==
    dfile # Torn => \A id \in DesktopIds :
        dfile[id] # None /\ dfile[id].secret /\ id \notin unwanted => id \in secrets

Covers(saved, conf1) ==
    conf1.on => saved.on /\ saved.host = conf1.host /\ conf1.ids \subseteq saved.ids

\* lan_share.json covers what the share was told to serve; while apply holds mu, what it
\* will be told.
ShareInv ==
    /\ applying.at = None => applying = Desktop!NotApplying
    /\ ~up => dcall = Desktop!Idle /\ srv = None /\ applying = Desktop!NotApplying
    /\ up => shared = lconf.ids
    /\ up /\ Desktop!MuFree => Covers(lfile, lconf)
    /\ Desktop!MuFree /\ srv # None => lconf.on /\ lconf.host = srv
    /\ Covers(lfile, applying.next)
    /\ applying.at = "listen" => applying.next.on
    /\ applying.at = "save" =>
          IF applying.next.on THEN srv = applying.next.host ELSE srv = None

\* Every copy of the shared shelves holds listed ones, or ones whose removal did not end.
KnownInv ==
    dfile # Torn => \A id \in DesktopIds :
        id \in lfile.ids \cup lconf.ids \cup applying.next.ids => dfile[id] # None \/ id \in unwanted

DesktopInv ==
    DesktopTypes /\ CallInv /\ AgreeInv /\ SecretsInv /\ ShareInv /\ KnownInv

LEMMA DesktopInitial == Desktop!Init => DesktopInv
<1> SUFFICES ASSUME Desktop!Init PROVE DesktopInv
  OBVIOUS
<1> USE DEF Desktop!Init, Desktop!ManagerInit, Desktop!LanInit, Desktop!Off, Desktop!NotApplying,
            Desktop!Idle
<1>1. DesktopTypes
  BY DEF DesktopTypes, ShareSettings
<1>2. CallInv /\ AgreeInv /\ SecretsInv /\ KnownInv
  BY DesktopAssumption DEF CallInv, AgreeInv, SecretsInv, KnownInv
<1>3. ShareInv
  BY DesktopAssumption DEF ShareInv, Covers, Desktop!MuFree
<1> QED
  BY <1>1, <1>2, <1>3 DEF DesktopInv

LEMMA NewShelfIs ==
    ASSUME NEW e \in Desktop!Entries
    PROVE  /\ Desktop!NewShelf(e) \in OpenShelf /\ Desktop!NewShelf(e) # None
           /\ Desktop!NewShelf(e).conf = e /\ Desktop!NewShelf(e).open
<1>1. Desktop!NewShelf(e) \in OpenShelf
  BY DEF OpenShelf, Desktop!NewShelf
<1> QED
  BY <1>1, DesktopAssumption DEF OpenShelf, Desktop!NewShelf

LEMMA ShelfRecords ==
    ASSUME NEW s \in OpenShelf, NEW e \in Desktop!Entries
    PROVE  /\ Desktop!NewShelf(e) \in OpenShelf
           /\ Desktop!NewShelf(e).conf = e /\ Desktop!NewShelf(e).open
           /\ [s EXCEPT !.conf = e] \in OpenShelf
           /\ [s EXCEPT !.conf = e].conf = e /\ [s EXCEPT !.conf = e].open = s.open
           /\ [s EXCEPT !.open = FALSE] \in OpenShelf
           /\ s.conf \in Desktop!Entries
BY DEF OpenShelf, Desktop!NewShelf

\* What UpdateShelf does to the open shelves, when it succeeds and when it does not.
LEMMA UpdateKept ==
    ASSUME DesktopTypes, NEW id \in DesktopIds, NEW e \in Desktop!Entries,
           Desktop!UpdateShelf(id, e)
    PROVE  /\ shelves' \in [DesktopIds -> OpenShelf \cup {None}]
           /\ \A x \in DesktopIds \ {id} : shelves'[x] = shelves[x]
           /\ shelves[id] # None /\ shelves'[id] # None /\ shelves'[id].conf = e
           /\ shelves[id].open => shelves'[id].open
<1>1. shelves[id] \in OpenShelf
  BY DEF DesktopTypes, Desktop!UpdateShelf, Desktop!GetShelf
<1>2. PICK v : v \in {Desktop!NewShelf(e), [shelves[id] EXCEPT !.conf = e]}
                /\ shelves' = [shelves EXCEPT ![id] = v]
  BY <1>1 DEF DesktopTypes, Desktop!UpdateShelf
<1>3. v \in OpenShelf /\ v.conf = e /\ (shelves[id].open => v.open)
  <2>1. CASE v = Desktop!NewShelf(e)
    BY <1>1, <2>1, ShelfRecords
  <2>2. CASE v = [shelves[id] EXCEPT !.conf = e]
    <3>1. v \in OpenShelf /\ v.conf = e /\ v.open = shelves[id].open
      BY <1>1, <2>2, ShelfRecords
    <3> QED
      BY <3>1
  <2> QED
    BY <1>2, <2>1, <2>2
<1>4. v # None
  BY <1>3, DesktopAssumption DEF OpenShelf
<1> QED
  BY <1>1, <1>2, <1>3, <1>4 DEF DesktopTypes, Desktop!UpdateShelf, Desktop!GetShelf

LEMMA UpdateFailsKept ==
    ASSUME DesktopTypes, NEW id \in DesktopIds, NEW e \in Desktop!Entries,
           Desktop!UpdateFails(id, e)
    PROVE  /\ shelves' \in [DesktopIds -> OpenShelf \cup {None}]
           /\ \A x \in DesktopIds \ {id} : shelves'[x] = shelves[x]
<1>1. CASE shelves' = shelves
  BY <1>1 DEF DesktopTypes
<1>2. CASE shelves' # shelves
  <2>1. shelves[id] \in OpenShelf
    BY <1>2 DEF DesktopTypes, Desktop!UpdateFails, Desktop!GetShelf
  <2>2. PICK v : v \in {None, Desktop!NewShelf(shelves[id].conf), [shelves[id] EXCEPT !.open = FALSE]}
                  /\ shelves' = [shelves EXCEPT ![id] = v]
    BY <1>2 DEF Desktop!UpdateFails
  <2>3. v \in OpenShelf \cup {None}
    BY <2>1, <2>2, ShelfRecords
  <2> QED
    BY <2>2, <2>3 DEF DesktopTypes
<1> QED
  BY <1>1, <1>2

\* AddShelf, RemoveShelf and a failing Close change one entry.
LEMMA EntryKept ==
    ASSUME DesktopTypes, NEW id \in DesktopIds
    PROVE  /\ \A e \in Desktop!Entries : Desktop!AddShelf(id, e) =>
                 /\ shelves' \in [DesktopIds -> OpenShelf \cup {None}]
                 /\ \A x \in DesktopIds \ {id} : shelves'[x] = shelves[x]
                 /\ shelves[id] = None /\ shelves'[id] = Desktop!NewShelf(e)
           /\ Desktop!RemoveShelf(id) =>
                 /\ shelves' \in [DesktopIds -> OpenShelf \cup {None}]
                 /\ \A x \in DesktopIds \ {id} : shelves'[x] = shelves[x]
                 /\ shelves'[id] = None
           /\ Desktop!CloseFails(id) =>
                 /\ shelves' \in [DesktopIds -> OpenShelf \cup {None}]
                 /\ \A x \in DesktopIds \ {id} : shelves'[x] = shelves[x]
<1>1. ASSUME NEW e \in Desktop!Entries, Desktop!AddShelf(id, e)
      PROVE  /\ shelves' \in [DesktopIds -> OpenShelf \cup {None}]
             /\ \A x \in DesktopIds \ {id} : shelves'[x] = shelves[x]
             /\ shelves[id] = None /\ shelves'[id] = Desktop!NewShelf(e)
  <2>1. Desktop!NewShelf(e) \in OpenShelf
    BY DEF OpenShelf, Desktop!NewShelf
  <2> HIDE DEF Desktop!NewShelf
  <2> QED
    BY <1>1, <2>1 DEF DesktopTypes, Desktop!AddShelf
<1>2. ASSUME Desktop!RemoveShelf(id)
      PROVE  /\ shelves' \in [DesktopIds -> OpenShelf \cup {None}]
             /\ \A x \in DesktopIds \ {id} : shelves'[x] = shelves[x]
             /\ shelves'[id] = None
  BY <1>2 DEF DesktopTypes, Desktop!RemoveShelf
<1>3. ASSUME Desktop!CloseFails(id)
      PROVE  /\ shelves' \in [DesktopIds -> OpenShelf \cup {None}]
             /\ \A x \in DesktopIds \ {id} : shelves'[x] = shelves[x]
  <2>1. shelves[id] \in OpenShelf
    BY <1>3 DEF DesktopTypes, Desktop!CloseFails, Desktop!GetShelf
  <2>2. [shelves[id] EXCEPT !.open = FALSE] \in OpenShelf
    BY <2>1 DEF OpenShelf
  <2> DEFINE v == [shelves[id] EXCEPT !.open = FALSE]
  <2>3. shelves' = [shelves EXCEPT ![id] = v]
    BY <1>3 DEF Desktop!CloseFails
  <2> HIDE DEF v
  <2> QED
    BY <2>2, <2>3 DEF DesktopTypes, v
<1> QED
  BY <1>1, <1>2, <1>3

\* The steps of the share, which leave the shelf calls alone.
LEMMA ShareSteps ==
    ASSUME DesktopInv, Desktop!ShareCalls \/ Desktop!Moves PROVE DesktopInv'
<1>1. UNCHANGED <<shelves, dfile, secrets, up, dcall, reported, unwanted>>
  BY DEF Desktop!ShareCalls, Desktop!Moves, Desktop!mvars, Desktop!dvars
<1>2. CallInv' /\ AgreeInv' /\ SecretsInv'
  BY <1>1 DEF DesktopInv, CallInv, AgreeInv, SecretsInv
<1>3. SUFFICES DesktopTypes' /\ ShareInv' /\ KnownInv'
  BY <1>2 DEF DesktopInv
<1>a. DesktopTypes /\ ShareInv /\ KnownInv
  BY DEF DesktopInv
<1>4. CASE Desktop!Moves
  <2>1. UNCHANGED <<lconf, lfile, srv, shared, applying>>
    BY <1>4 DEF Desktop!Moves, Desktop!AddressesChange
  <2>2. addrs' \subseteq Left
    BY <1>4 DEF Desktop!Moves, Desktop!AddressesChange
  <2> QED
    BY <1>1, <1>a, <2>1, <2>2 DEF DesktopTypes, ShareInv, KnownInv, Desktop!MuFree
<1>5. ASSUME up, dfile # Torn, NEW on \in BOOLEAN, NEW h \in Left, NEW ids \in SUBSET DesktopIds,
             Desktop!ApplyBegins(on, h, ids, Desktop!ListedLocal)
      PROVE  DesktopTypes' /\ ShareInv' /\ KnownInv'
  <2>1. PICK h2 \in (IF on /\ h = lconf.host THEN Desktop!CurrentLANHost(h) ELSE {h}) :
          LET next == [on |-> on, host |-> h2, ids |-> ids]
          IN  \/ /\ applying' = [at |-> IF on THEN "listen" ELSE "save", next |-> next]
                 /\ lfile' = IF Desktop!Widens(lconf, next) THEN next ELSE lfile
                 /\ srv' = IF on THEN srv ELSE None
              \/ UNCHANGED <<applying, lfile, srv>>
    BY <1>5 DEF Desktop!ApplyBegins
  <2>2. UNCHANGED <<lconf, shared, addrs>> /\ Desktop!MuFree /\ ids \subseteq Desktop!ListedLocal
    BY <1>5 DEF Desktop!ApplyBegins
  <2>3. CASE UNCHANGED <<applying, lfile, srv>>
    BY <1>1, <1>a, <2>2, <2>3 DEF DesktopTypes, ShareInv, KnownInv, Desktop!MuFree
  <2>4. CASE ~UNCHANGED <<applying, lfile, srv>>
    <3> DEFINE next == [on |-> on, host |-> h2, ids |-> ids]
               at == IF on THEN "listen" ELSE "save"
    <3>1. /\ applying' = [at |-> at, next |-> next]
          /\ lfile' = IF Desktop!Widens(lconf, next) THEN next ELSE lfile
          /\ srv' = IF on THEN srv ELSE None
      BY <2>1, <2>4
    <3>2. next \in ShareSettings
      <4>1. h2 \in Left
        BY <1>a, <2>1 DEF DesktopTypes, Desktop!CurrentLANHost
      <4> QED
        BY <4>1 DEF ShareSettings
    <3>3. next.on = on /\ next.ids = ids
      OBVIOUS
    <3>4. Covers(IF Desktop!Widens(lconf, next) THEN next ELSE lfile, next)
      <4>1. Covers(lfile, lconf)
        BY <1>5, <1>a, <2>2 DEF ShareInv
      <4> HIDE DEF next
      <4> QED
        BY <4>1 DEF Covers, Desktop!Widens
    <3> HIDE DEF next
    <3>5. /\ applying'.at = at /\ applying'.next = next
      BY <3>1
    <3>6. DesktopTypes'
      BY <1>1, <1>a, <2>2, <3>1, <3>2 DEF DesktopTypes
    <3>7. ShareInv'
      BY <1>1, <1>5, <1>a, <2>2, <3>1, <3>3, <3>4, <3>5, DesktopAssumption, MobileAssumption
         DEF ShareInv, Desktop!MuFree, Desktop!NotApplying
    <3>8. KnownInv'
      BY <1>1, <1>a, <2>2, <3>1, <3>3, <3>5 DEF KnownInv, Desktop!ListedLocal, Desktop!Listed
    <3> QED
      BY <3>6, <3>7, <3>8
  <2> QED
    BY <2>3, <2>4
<1>6. ASSUME up, Desktop!ApplyListens PROVE DesktopTypes' /\ ShareInv' /\ KnownInv'
  <2>1. UNCHANGED <<lconf, lfile, shared, addrs>> /\ applying.at = "listen"
    BY <1>6 DEF Desktop!ApplyListens
  <2>2. PICK n \in ShareSettings :
          /\ applying' = [at |-> "save", next |-> n]
          /\ n.ids = applying.next.ids
          /\ Covers(lfile, n)
          /\ IF n.on THEN srv' = n.host ELSE srv' = None
          /\ srv' \in Left \cup {None}
    <3> DEFINE n0 == applying.next
               n1 == [applying.next EXCEPT !.on = FALSE]
    <3>1. n0 \in ShareSettings /\ n1 \in ShareSettings /\ n1.ids = n0.ids /\ n1.on = FALSE
      BY <1>a DEF DesktopTypes, ShareSettings
    <3>2. CASE srv' = n0.host /\ applying' = [applying EXCEPT !.at = "save"]
      <4>1. applying' = [at |-> "save", next |-> n0]
        BY <1>a, <3>2 DEF DesktopTypes
      <4>2. n0.on /\ Covers(lfile, n0) /\ n0.host \in Left \cup {None}
        BY <1>a, <2>1, <3>1 DEF ShareInv, ShareSettings
      <4> QED
        BY <3>1, <3>2, <4>1, <4>2
    <3>3. CASE srv' = None /\ applying' = [at |-> "save", next |-> n1]
      BY <3>1, <3>3 DEF Covers
    <3> QED
      BY <1>6, <3>2, <3>3 DEF Desktop!ApplyListens
  <2>3. applying'.at = "save" /\ applying'.next = n
    BY <2>2
  <2>4. DesktopTypes'
    BY <1>1, <1>a, <2>1, <2>2 DEF DesktopTypes
  <2>5. ShareInv'
    BY <1>1, <1>6, <1>a, <2>1, <2>2, <2>3, MobileAssumption
       DEF ShareInv, Desktop!MuFree, Desktop!NotApplying
  <2>6. KnownInv'
    BY <1>1, <1>a, <2>1, <2>2, <2>3 DEF KnownInv
  <2> QED
    BY <2>4, <2>5, <2>6
<1>7. ASSUME up, Desktop!ApplyEnds PROVE DesktopTypes' /\ ShareInv' /\ KnownInv'
  <2>1. /\ applying.at = "save" /\ applying' = Desktop!NotApplying /\ UNCHANGED <<srv, addrs>>
        /\ shared' = applying.next.ids /\ lconf' = applying.next
        /\ lfile' = applying.next \/ lfile' = lfile
    BY <1>7 DEF Desktop!ApplyEnds, Desktop!SaveApplied
  <2>2. Desktop!NotApplying \in [at : {None, "listen", "save"}, next : ShareSettings]
        /\ Desktop!NotApplying.next.ids = {} /\ ~Desktop!NotApplying.next.on
        /\ Desktop!NotApplying.at = None
    BY DEF Desktop!NotApplying, Desktop!Off, ShareSettings
  <2>3. DesktopTypes'
    BY <1>1, <1>a, <2>1, <2>2 DEF DesktopTypes
  <2>4. ShareInv'
    BY <1>1, <1>7, <1>a, <2>1, <2>2, DesktopAssumption DEF ShareInv, Covers, Desktop!MuFree
  <2>5. KnownInv'
    BY <1>1, <1>a, <2>1, <2>2 DEF KnownInv
  <2> QED
    BY <2>3, <2>4, <2>5
<1>8. ASSUME up, Desktop!Disable PROVE DesktopTypes' /\ ShareInv' /\ KnownInv'
  <2> DEFINE next == [lconf EXCEPT !.on = FALSE]
  <2>1. /\ Desktop!MuFree /\ srv' = None /\ lconf' = next /\ (lfile' = next \/ lfile' = lfile)
        /\ UNCHANGED <<shared, addrs, applying>>
    BY <1>8 DEF Desktop!Disable, Desktop!SaveApplied
  <2>2. next \in ShareSettings /\ next.ids = lconf.ids /\ ~next.on
    BY <1>a DEF DesktopTypes, ShareSettings
  <2>3. applying.next.on = FALSE
    BY <2>1 DEF Desktop!MuFree, Desktop!NotApplying, Desktop!Off
  <2> HIDE DEF next
  <2>4. DesktopTypes'
    BY <1>1, <1>a, <2>1, <2>2 DEF DesktopTypes
  <2>5. ShareInv'
    BY <1>1, <1>8, <1>a, <2>1, <2>2, <2>3, MobileAssumption
       DEF ShareInv, Covers, Desktop!MuFree, Desktop!NotApplying
  <2>6. KnownInv'
    BY <1>1, <1>a, <2>1, <2>2 DEF KnownInv
  <2> QED
    BY <2>4, <2>5, <2>6
<1> QED
  BY <1>4, <1>5, <1>6, <1>7, <1>8 DEF Desktop!ShareCalls

\* Between two steps of the share's own calls only forgetShelf changes its settings.
LEMMA ShareKept ==
    ASSUME DesktopInv, up' = up, dcall.do # None \/ up, UNCHANGED Desktop!lanvars
    PROVE  ShareInv'
<1>1. up
  BY DEF DesktopInv, CallInv
<1> QED
  BY <1>1 DEF DesktopInv, ShareInv, Desktop!lanvars, Desktop!MuFree

\* What a step that leaves the share alone has to keep.
LEMMA CallKeeps ==
    ASSUME DesktopInv, UNCHANGED Desktop!lanvars, UNCHANGED up, up,
           shelves' \in [DesktopIds -> OpenShelf \cup {None}],
           dfile' = Torn \/ dfile' \in [DesktopIds -> Desktop!Entries \cup {None}],
           dcall' \in [do : CallSteps \cup {None}, id : DesktopIds \cup {None},
                       entry : Desktop!Entries \cup {None}],
           CallInv', AgreeInv', SecretsInv', KnownInv'
    PROVE  DesktopInv'
<1>1. DesktopTypes'
  BY DEF DesktopInv, DesktopTypes, Desktop!lanvars
<1>2. ShareInv'
  BY ShareKept
<1> QED
  BY <1>1, <1>2 DEF DesktopInv

LEMMA IdleIs ==
    /\ Desktop!Idle.do = None
    /\ Desktop!Idle \in [do : CallSteps \cup {None}, id : DesktopIds \cup {None},
                         entry : Desktop!Entries \cup {None}]
BY DEF Desktop!Idle

\* A start opens every listed local shelf and takes the share from its file; an end
\* leaves nothing of the call but what it had written.
LEMMA DesktopLife ==
    ASSUME DesktopInv, Desktop!Start \/ Desktop!End PROVE DesktopInv'
<1>a. DesktopTypes /\ CallInv /\ AgreeInv /\ SecretsInv /\ ShareInv /\ KnownInv
  BY DEF DesktopInv
<1>n. /\ Desktop!NotApplying \in [at : {None, "listen", "save"}, next : ShareSettings]
      /\ Desktop!NotApplying.at = None /\ ~Desktop!NotApplying.next.on
      /\ Desktop!NotApplying.next.ids = {}
  BY DEF Desktop!NotApplying, Desktop!Off, ShareSettings
<1>1. CASE Desktop!Start
  <2>1. /\ ~up /\ dfile # Torn /\ up' = TRUE /\ reported' = {}
        /\ UNCHANGED <<dfile, secrets, dcall, unwanted, lfile, addrs>>
        /\ lconf' = lfile /\ shared' = lfile.ids /\ applying' = Desktop!NotApplying
        /\ srv' \in (IF lfile.on /\ lfile.host \in addrs THEN {lfile.host, None} ELSE {None})
    BY <1>1 DEF Desktop!Start, Desktop!LanStarts
  <2>2. PICK closed \in SUBSET {id \in Desktop!Listed : dfile[id].virtual} :
          shelves' = [id \in DesktopIds |-> IF id \in Desktop!Listed \ closed
                                             THEN Desktop!NewShelf(dfile[id]) ELSE None]
    BY <1>1 DEF Desktop!Start
  <2>3. \A id \in DesktopIds : dfile[id] # None =>
           /\ Desktop!NewShelf(dfile[id]) \in OpenShelf
           /\ Desktop!NewShelf(dfile[id]) # None
           /\ Desktop!NewShelf(dfile[id]).conf = dfile[id]
           /\ Desktop!NewShelf(dfile[id]).open
    BY <1>a, <2>1, NewShelfIs DEF DesktopTypes
  <2>4. shelves' \in [DesktopIds -> OpenShelf \cup {None}]
    BY <2>2, <2>3 DEF Desktop!Listed
  <2>5. DesktopTypes'
    BY <1>a, <1>n, <2>1, <2>4 DEF DesktopTypes
  <2>6. dcall = Desktop!Idle
    BY <1>a, <2>1 DEF ShareInv
  <2>7. CallInv'
    BY <2>1, <2>6, IdleIs, DesktopAssumption DEF CallInv
  <2>8. AgreeInv'
    <3> SUFFICES ASSUME NEW id \in DesktopIds
                 PROVE  /\ dfile[id] # None /\ ~dfile[id].virtual =>
                              /\ shelves'[id] # None /\ shelves'[id].open
                              /\ shelves'[id].conf = dfile[id]
                        /\ shelves'[id] # None => dfile[id] # None
      BY <2>1 DEF AgreeInv
    <3> QED
      BY <2>2, <2>3 DEF Desktop!Listed
  <2>9. SecretsInv'
    BY <1>a, <2>1 DEF SecretsInv
  <2>10. ShareInv'
    BY <1>a, <1>n, <2>1, DesktopAssumption DEF ShareInv, Covers, Desktop!MuFree
  <2>11. KnownInv'
    BY <1>a, <1>n, <2>1 DEF KnownInv
  <2> QED
    BY <2>5, <2>7, <2>8, <2>9, <2>10, <2>11 DEF DesktopInv
<1>2. CASE Desktop!End
  <2>1. /\ up' = FALSE /\ shelves' = [id \in DesktopIds |-> None]
        /\ dfile' = dfile \/ dfile' = Torn
        /\ dcall' = Desktop!Idle /\ srv' = None /\ applying' = Desktop!NotApplying
        /\ UNCHANGED <<secrets, reported, unwanted, lconf, lfile, shared, addrs>>
    BY <1>2 DEF Desktop!End, Desktop!LanEnds
  <2>2. DesktopTypes'
    BY <1>a, <1>n, <2>1, IdleIs DEF DesktopTypes
  <2>3. CallInv' /\ AgreeInv' /\ SecretsInv'
    BY <1>a, <2>1, IdleIs, DesktopAssumption DEF CallInv, AgreeInv, SecretsInv
  <2>4. ShareInv'
    BY <1>n, <2>1, DesktopAssumption DEF ShareInv, Covers, Desktop!MuFree
  <2>5. KnownInv'
    BY <1>a, <1>n, <2>1 DEF KnownInv
  <2> QED
    BY <2>2, <2>3, <2>4, <2>5 DEF DesktopInv
<1> QED
  BY <1>1, <1>2

LEMMA NextIdIsFree ==
    ASSUME Desktop!Listed # DesktopIds
    PROVE  Desktop!NextShelfID \in DesktopIds /\ dfile[Desktop!NextShelfID] = None
<1> DEFINE free == DesktopIds \ Desktop!Listed
<1>1. free # {} /\ free \subseteq Nat
  BY DesktopAssumption DEF Desktop!Listed
<1>2. \E x \in free : \A y \in free : x <= y
  BY <1>1, LeastOf
<1>3. Desktop!NextShelfID \in free
  BY <1>2 DEF Desktop!NextShelfID
<1> QED
  BY <1>3 DEF Desktop!Listed

\* AddShelf and addVirtualShelf, RetryShelf.
LEMMA DesktopAdds ==
    ASSUME DesktopInv,
           \/ \E e \in Desktop!Entries : Desktop!Add(e)
           \/ Desktop!Registers \/ Desktop!AddSaves \/ Desktop!AddRollsBack
           \/ \E id \in DesktopIds : Desktop!Retry(id)
    PROVE  DesktopInv'
<1>a. DesktopTypes /\ CallInv /\ AgreeInv /\ SecretsInv /\ KnownInv
  BY DEF DesktopInv
<1>1. ASSUME NEW e \in Desktop!Entries, Desktop!Add(e) PROVE DesktopInv'
  <2> DEFINE id == Desktop!NextShelfID
  <2>1. /\ up /\ dfile # Torn /\ dcall = Desktop!Idle /\ Desktop!Listed # DesktopIds
        /\ secrets' = (IF e.secret THEN secrets \cup {id} ELSE secrets)
        /\ dcall' = [do |-> "register", id |-> id, entry |-> e]
        /\ UNCHANGED <<shelves, dfile, up, reported, unwanted>> /\ UNCHANGED Desktop!lanvars
    BY <1>1 DEF Desktop!Add, Desktop!MayCall, Desktop!Loaded, Desktop!BeginCall, Desktop!mvars
  <2>2. id \in DesktopIds /\ dfile[id] = None
    BY <2>1, NextIdIsFree
  <2> HIDE DEF id
  <2>3. /\ dcall' \in [do : CallSteps \cup {None}, id : DesktopIds \cup {None},
                       entry : Desktop!Entries \cup {None}]
        /\ dcall'.do = "register" /\ dcall'.id = id /\ dcall'.entry = e
    BY <2>1, <2>2 DEF CallSteps
  <2>4. CallInv'
    BY <2>1, <2>2, <2>3, DesktopAssumption DEF CallInv
  <2>5. AgreeInv'
    BY <1>a, <2>1, IdleIs, DesktopAssumption DEF AgreeInv
  <2>6. SecretsInv' /\ KnownInv'
    BY <1>a, <2>1 DEF SecretsInv, KnownInv, Desktop!lanvars
  <2> QED
    BY <1>a, <2>1, <2>3, <2>4, <2>5, <2>6, CallKeeps DEF DesktopTypes
<1> DEFINE id == dcall.id
           e == dcall.entry
<1>2. CASE Desktop!Registers
  <2>1. /\ dcall.do = "register" /\ up /\ dfile # Torn /\ id \in DesktopIds /\ e \in Desktop!Entries
        /\ dfile[id] = None /\ (e.secret => id \in secrets)
    BY <1>2, <1>a, DesktopAssumption DEF Desktop!Registers, CallInv
  <2>2. UNCHANGED <<dfile, up, reported, unwanted>> /\ UNCHANGED Desktop!lanvars
    BY <1>2 DEF Desktop!Registers
  <2>3. CASE Desktop!AddShelf(id, e) /\ dcall' = [dcall EXCEPT !.do = "save"] /\ secrets' = secrets
    <3>1. /\ shelves' \in [DesktopIds -> OpenShelf \cup {None}]
          /\ \A x \in DesktopIds \ {id} : shelves'[x] = shelves[x]
          /\ shelves'[id] = Desktop!NewShelf(e)
      BY <1>a, <2>1, <2>3, EntryKept
    <3>2. /\ dcall' \in [do : CallSteps \cup {None}, id : DesktopIds \cup {None},
                         entry : Desktop!Entries \cup {None}]
          /\ dcall'.do = "save" /\ dcall'.id = id /\ dcall'.entry = e
      BY <1>a, <2>3 DEF DesktopTypes, CallSteps
    <3>3. CallInv'
      BY <2>1, <2>2, <2>3, <3>1, <3>2, DesktopAssumption DEF CallInv
    <3>4. AgreeInv'
      BY <1>a, <2>1, <2>2, <3>1, <3>2 DEF AgreeInv
    <3>5. SecretsInv' /\ KnownInv'
      BY <1>a, <2>2, <2>3 DEF SecretsInv, KnownInv, Desktop!lanvars
    <3> QED
      BY <1>a, <2>1, <2>2, <3>1, <3>2, <3>3, <3>4, <3>5, CallKeeps DEF DesktopTypes
  <2>4. CASE Desktop!ForgetSecret /\ dcall' = Desktop!Idle /\ UNCHANGED Desktop!mvars
    <3>1. shelves' = shelves /\ \A x : x # id => (x \in secrets <=> x \in secrets')
      BY <2>4 DEF Desktop!ForgetSecret, Desktop!mvars
    <3>2. CallInv'
      BY <2>4, IdleIs, DesktopAssumption DEF CallInv
    <3>3. AgreeInv'
      BY <1>a, <2>1, <2>2, <2>4, <3>1, IdleIs DEF AgreeInv
    <3>4. SecretsInv' /\ KnownInv'
      BY <1>a, <2>1, <2>2, <3>1 DEF SecretsInv, KnownInv, Desktop!lanvars
    <3> QED
      BY <1>a, <2>1, <2>2, <2>4, <3>1, <3>2, <3>3, <3>4, IdleIs, CallKeeps DEF DesktopTypes
  <2> QED
    BY <1>2, <2>3, <2>4 DEF Desktop!Registers
<1>3. ASSUME dcall.do = "save"
      PROVE  /\ up /\ dfile # Torn /\ id \in DesktopIds /\ e \in Desktop!Entries
             /\ dfile[id] = None /\ (e.secret => id \in secrets)
             /\ shelves[id] = Desktop!NewShelf(e)
             /\ dfile \in [DesktopIds -> Desktop!Entries \cup {None}]
  BY <1>3, <1>a, DesktopAssumption DEF CallInv, DesktopTypes
<1>4. CASE Desktop!AddSaves
  <2>1. /\ dcall.do = "save" /\ dfile' = [dfile EXCEPT ![id] = e] /\ unwanted' = unwanted \ {id}
        /\ dcall' = Desktop!Idle
        /\ UNCHANGED <<shelves, secrets, up, reported>> /\ UNCHANGED Desktop!lanvars
    BY <1>4 DEF Desktop!AddSaves, Desktop!Saves, Desktop!mvars
  <2>2. dfile' \in [DesktopIds -> Desktop!Entries \cup {None}]
        /\ dfile'[id] = e /\ \A x \in DesktopIds \ {id} : dfile'[x] = dfile[x]
    BY <1>3, <2>1
  <2>3. e # None /\ shelves[id] # None /\ shelves[id].open /\ shelves[id].conf = e
    BY <1>3, <2>1, NewShelfIs, DesktopAssumption
  <2>4. CallInv'
    BY <2>1, IdleIs, DesktopAssumption DEF CallInv
  <2>5. AgreeInv'
    BY <1>3, <1>a, <2>1, <2>2, <2>3, IdleIs DEF AgreeInv
  <2>6. SecretsInv' /\ KnownInv'
    BY <1>3, <1>a, <2>1, <2>2, <2>3 DEF SecretsInv, KnownInv, Desktop!lanvars
  <2> QED
    BY <1>3, <1>a, <2>1, <2>2, <2>4, <2>5, <2>6, IdleIs, CallKeeps DEF DesktopTypes
<1>5. CASE Desktop!AddRollsBack
  <2>1. /\ dcall.do = "save" /\ dfile' \in {dfile, Torn} /\ dcall' = Desktop!Idle
        /\ UNCHANGED <<up, unwanted>> /\ UNCHANGED Desktop!lanvars
        /\ \/ Desktop!RemoveShelf(id) /\ reported' = reported
           \/ Desktop!CloseFails(id) /\ reported' = reported \cup {id}
    BY <1>5 DEF Desktop!AddRollsBack, Desktop!SaveFails
  <2>2. \A x : x # id => (x \in secrets <=> x \in secrets')
    BY <1>5 DEF Desktop!AddRollsBack, Desktop!ForgetSecret
  <2>3. /\ shelves' \in [DesktopIds -> OpenShelf \cup {None}]
        /\ \A x \in DesktopIds \ {id} : shelves'[x] = shelves[x]
        /\ shelves'[id] = None \/ id \in reported'
        /\ reported \subseteq reported'
    BY <1>3, <1>a, <2>1, EntryKept
  <2>4. CallInv'
    BY <2>1, IdleIs, DesktopAssumption DEF CallInv
  <2>5. AgreeInv'
    BY <1>3, <1>a, <2>1, <2>3, IdleIs DEF AgreeInv
  <2>6. SecretsInv' /\ KnownInv'
    BY <1>3, <1>a, <2>1, <2>2 DEF SecretsInv, KnownInv, Desktop!lanvars
  <2> QED
    BY <1>3, <1>a, <2>1, <2>3, <2>4, <2>5, <2>6, IdleIs, CallKeeps DEF DesktopTypes
<1>6. ASSUME NEW i \in DesktopIds, Desktop!Retry(i) PROVE DesktopInv'
  <2>1. /\ up /\ dfile # Torn /\ dcall = Desktop!Idle /\ dfile[i] # None /\ dfile[i].virtual
        /\ Desktop!AddShelf(i, dfile[i])
        /\ UNCHANGED <<dfile, secrets, up, dcall, reported, unwanted>> /\ UNCHANGED Desktop!lanvars
    BY <1>6 DEF Desktop!Retry, Desktop!MayCall, Desktop!Loaded, Desktop!Listed
  <2>2. /\ shelves' \in [DesktopIds -> OpenShelf \cup {None}]
        /\ \A x \in DesktopIds \ {i} : shelves'[x] = shelves[x]
    BY <1>a, <2>1, EntryKept DEF DesktopTypes
  <2>3. CallInv'
    BY <2>1, IdleIs, DesktopAssumption DEF CallInv
  <2>4. AgreeInv'
    BY <1>a, <2>1, <2>2 DEF AgreeInv
  <2>5. SecretsInv' /\ KnownInv'
    BY <1>a, <2>1 DEF SecretsInv, KnownInv, Desktop!lanvars
  <2> QED
    BY <1>a, <2>1, <2>2, <2>3, <2>4, <2>5, CallKeeps DEF DesktopTypes
<1> QED
  BY <1>1, <1>2, <1>4, <1>5, <1>6

\* ModifyShelf: the open shelf first, then the list, and back when the list is not saved.
LEMMA DesktopModifies ==
    ASSUME DesktopInv,
           \/ \E id \in DesktopIds, ro \in BOOLEAN : Desktop!Modify(id, ro)
           \/ Desktop!ModifyEnds
    PROVE  DesktopInv'
<1>a. DesktopTypes /\ CallInv /\ AgreeInv /\ SecretsInv /\ KnownInv
  BY DEF DesktopInv
<1>1. ASSUME NEW i \in DesktopIds, NEW ro \in BOOLEAN, Desktop!Modify(i, ro) PROVE DesktopInv'
  <2> DEFINE e == [dfile[i] EXCEPT !.ro = ro \/ dfile[i].virtual]
  <2>1. /\ up /\ dfile # Torn /\ dcall = Desktop!Idle /\ dfile[i] # None
        /\ UNCHANGED <<dfile, secrets, up, unwanted>> /\ UNCHANGED Desktop!lanvars
    BY <1>1 DEF Desktop!Modify, Desktop!MayCall, Desktop!Loaded, Desktop!Listed
  <2>2. dfile \in [DesktopIds -> Desktop!Entries \cup {None}] /\ dfile[i] \in Desktop!Entries
    BY <1>a, <2>1 DEF DesktopTypes
  <2>3. e \in Desktop!Entries /\ e.virtual = dfile[i].virtual /\ e.secret = dfile[i].secret
    BY <2>2 DEF Desktop!Entries
  <2>4. \/ /\ Desktop!UpdateShelf(i, e) /\ reported' = reported
           /\ dcall' = [do |-> "modify", id |-> i, entry |-> e]
        \/ Desktop!UpdateFails(i, e) /\ reported' = reported \cup {i} /\ dcall' = dcall
    BY <1>1 DEF Desktop!Modify, Desktop!BeginCall
  <2> HIDE DEF e
  <2>5. SecretsInv' /\ KnownInv'
    BY <1>a, <2>1 DEF SecretsInv, KnownInv, Desktop!lanvars
  <2>6. CASE /\ Desktop!UpdateShelf(i, e) /\ reported' = reported
             /\ dcall' = [do |-> "modify", id |-> i, entry |-> e]
    <3>1. /\ shelves' \in [DesktopIds -> OpenShelf \cup {None}]
          /\ \A x \in DesktopIds \ {i} : shelves'[x] = shelves[x]
          /\ shelves'[i] # None /\ shelves'[i].conf = e
          /\ shelves[i].open => shelves'[i].open
      BY <1>a, <2>3, <2>6, UpdateKept
    <3>2. /\ dcall' \in [do : CallSteps \cup {None}, id : DesktopIds \cup {None},
                         entry : Desktop!Entries \cup {None}]
          /\ dcall'.do = "modify" /\ dcall'.id = i /\ dcall'.entry = e
      BY <2>3, <2>6 DEF CallSteps
    <3>3. i \notin reported /\ ~dfile[i].virtual => shelves[i].open
      BY <1>a, <2>1 DEF AgreeInv
    <3>4. CallInv'
      BY <2>1, <2>3, <2>6, <3>1, <3>2, <3>3, DesktopAssumption DEF CallInv
    <3>5. AgreeInv'
      BY <1>a, <2>1, <2>6, <3>1, <3>2, <3>3, IdleIs, DesktopAssumption DEF AgreeInv
    <3> QED
      BY <2>1, <2>2, <2>5, <3>1, <3>2, <3>4, <3>5, CallKeeps
  <2>7. CASE Desktop!UpdateFails(i, e) /\ reported' = reported \cup {i} /\ dcall' = dcall
    <3>1. /\ shelves' \in [DesktopIds -> OpenShelf \cup {None}]
          /\ \A x \in DesktopIds \ {i} : shelves'[x] = shelves[x]
      BY <1>a, <2>3, <2>7, UpdateFailsKept
    <3>2. CallInv'
      BY <2>1, <2>7, IdleIs, DesktopAssumption DEF CallInv
    <3>3. AgreeInv'
      BY <1>a, <2>1, <2>7, <3>1 DEF AgreeInv
    <3> QED
      BY <2>1, <2>2, <2>5, <2>7, <3>1, <3>2, <3>3, IdleIs, CallKeeps
  <2> QED
    BY <2>4, <2>6, <2>7
<1> DEFINE id == dcall.id
           e == dcall.entry
<1>2. CASE Desktop!ModifyEnds
  <2>1. /\ dcall.do = "modify" /\ dcall' = Desktop!Idle
        /\ UNCHANGED <<secrets, up, unwanted>> /\ UNCHANGED Desktop!lanvars
    BY <1>2 DEF Desktop!ModifyEnds
  <2>2. /\ up /\ dfile # Torn /\ id \in DesktopIds /\ e \in Desktop!Entries
        /\ dfile[id] # None
        /\ e.virtual = dfile[id].virtual /\ e.secret = dfile[id].secret
        /\ shelves[id] # None /\ shelves[id].conf = e
        /\ id \notin reported /\ ~e.virtual => shelves[id].open
    BY <1>a, <2>1, DesktopAssumption DEF CallInv
  <2>3. dfile \in [DesktopIds -> Desktop!Entries \cup {None}] /\ dfile[id] \in Desktop!Entries
    BY <1>a, <2>2 DEF DesktopTypes
  <2>4. CallInv'
    BY <2>1, IdleIs, DesktopAssumption DEF CallInv
  <2>5. CASE dfile' = [dfile EXCEPT ![id] = e] /\ UNCHANGED <<shelves, reported>>
    <3>1. dfile' \in [DesktopIds -> Desktop!Entries \cup {None}]
          /\ dfile'[id] = e /\ \A x \in DesktopIds \ {id} : dfile'[x] = dfile[x]
      BY <2>2, <2>3, <2>5
    <3>2. e # None
      BY <2>2, DesktopAssumption
    <3>3. AgreeInv'
      BY <1>a, <2>1, <2>2, <2>5, <3>1, <3>2, DesktopAssumption DEF AgreeInv
    <3>4. SecretsInv' /\ KnownInv'
      BY <1>a, <2>1, <2>2, <3>1, <3>2 DEF SecretsInv, KnownInv, Desktop!lanvars
    <3> QED
      BY <1>a, <2>1, <2>2, <2>4, <2>5, <3>1, <3>3, <3>4, IdleIs, CallKeeps DEF DesktopTypes
  <2>6. CASE dfile' \in {dfile, Torn} /\ Desktop!UpdateShelf(id, dfile[id]) /\ reported' = reported
    <3>1. /\ shelves' \in [DesktopIds -> OpenShelf \cup {None}]
          /\ \A x \in DesktopIds \ {id} : shelves'[x] = shelves[x]
          /\ shelves'[id] # None /\ shelves'[id].conf = dfile[id]
          /\ shelves[id].open => shelves'[id].open
      BY <1>a, <2>2, <2>3, <2>6, UpdateKept
    <3>3. AgreeInv'
      BY <1>a, <2>1, <2>2, <2>6, <3>1, IdleIs DEF AgreeInv
    <3>4. SecretsInv' /\ KnownInv'
      BY <1>a, <2>1, <2>2, <2>6 DEF SecretsInv, KnownInv, Desktop!lanvars
    <3> QED
      BY <1>a, <2>1, <2>2, <2>3, <2>4, <2>6, <3>1, <3>3, <3>4, IdleIs, CallKeeps
  <2>7. CASE /\ dfile' \in {dfile, Torn} /\ Desktop!UpdateFails(id, dfile[id])
             /\ reported' = reported \cup {id}
    <3>1. /\ shelves' \in [DesktopIds -> OpenShelf \cup {None}]
          /\ \A x \in DesktopIds \ {id} : shelves'[x] = shelves[x]
      BY <1>a, <2>2, <2>3, <2>7, UpdateFailsKept
    <3>3. AgreeInv'
      BY <1>a, <2>1, <2>2, <2>7, <3>1, IdleIs DEF AgreeInv
    <3>4. SecretsInv' /\ KnownInv'
      BY <1>a, <2>1, <2>2, <2>7 DEF SecretsInv, KnownInv, Desktop!lanvars
    <3> QED
      BY <1>a, <2>1, <2>2, <2>3, <2>4, <2>7, <3>1, <3>3, <3>4, IdleIs, CallKeeps
  <2> QED
    BY <1>2, <2>5, <2>6, <2>7 DEF Desktop!ModifyEnds, Desktop!Saves, Desktop!SaveFails, Desktop!mvars
<1> QED
  BY <1>1, <1>2

\* RemoveShelf: the secret, the list, the open shelf, and the share last.
LEMMA DesktopRemoves ==
    ASSUME DesktopInv,
           \/ \E id \in DesktopIds : Desktop!Remove(id)
           \/ Desktop!RemoveSaves \/ Desktop!RemoveCloses \/ Desktop!RemoveForgets
    PROVE  DesktopInv'
<1>a. DesktopTypes /\ CallInv /\ AgreeInv /\ SecretsInv /\ ShareInv /\ KnownInv
  BY DEF DesktopInv
<1>1. ASSUME NEW i \in DesktopIds, Desktop!Remove(i) PROVE DesktopInv'
  <2>1. /\ up /\ dfile # Torn /\ dcall = Desktop!Idle /\ dfile[i] # None
        /\ unwanted' = unwanted \cup {i}
        /\ \A x : x # i => (x \in secrets <=> x \in secrets')
        /\ dcall' = [do |-> "saveRemoval", id |-> i, entry |-> dfile[i]]
        /\ UNCHANGED <<shelves, dfile, up, reported>> /\ UNCHANGED Desktop!lanvars
    BY <1>1 DEF Desktop!Remove, Desktop!MayCall, Desktop!Loaded, Desktop!Listed,
                Desktop!BeginCall, Desktop!mvars
  <2>2. dfile[i] \in Desktop!Entries
    BY <1>a, <2>1 DEF DesktopTypes
  <2>3. /\ dcall' \in [do : CallSteps \cup {None}, id : DesktopIds \cup {None},
                       entry : Desktop!Entries \cup {None}]
        /\ dcall'.do = "saveRemoval" /\ dcall'.id = i /\ dcall'.entry = dfile[i]
    BY <2>1, <2>2 DEF CallSteps
  <2>4. CallInv'
    BY <2>1, <2>2, <2>3, DesktopAssumption DEF CallInv
  <2>5. AgreeInv'
    BY <1>a, <2>1, IdleIs, DesktopAssumption DEF AgreeInv
  <2>6. SecretsInv' /\ KnownInv'
    BY <1>a, <2>1 DEF SecretsInv, KnownInv, Desktop!lanvars
  <2> QED
    BY <1>a, <2>1, <2>3, <2>4, <2>5, <2>6, CallKeeps DEF DesktopTypes
<1> DEFINE id == dcall.id
           e == dcall.entry
<1>2. ASSUME dcall.do \in {"saveRemoval", "close", "forget"}
      PROVE  /\ up /\ dfile # Torn /\ id \in DesktopIds /\ e \in Desktop!Entries /\ id \in unwanted
             /\ dfile \in [DesktopIds -> Desktop!Entries \cup {None}]
             /\ dcall.do # "saveRemoval" => dfile[id] = None
  BY <1>2, <1>a, DesktopAssumption DEF CallInv, DesktopTypes
<1>3. CASE Desktop!RemoveSaves
  <2>1. /\ dcall.do = "saveRemoval"
        /\ UNCHANGED <<shelves, secrets, up, reported, unwanted>> /\ UNCHANGED Desktop!lanvars
        /\ \/ dfile' = [dfile EXCEPT ![id] = None] /\ dcall' = [dcall EXCEPT !.do = "close"]
           \/ dfile' \in {dfile, Torn} /\ dcall' = Desktop!Idle
    BY <1>3 DEF Desktop!RemoveSaves, Desktop!Saves, Desktop!SaveFails, Desktop!mvars
  <2>2. CASE dfile' = [dfile EXCEPT ![id] = None] /\ dcall' = [dcall EXCEPT !.do = "close"]
    <3>1. /\ dfile' \in [DesktopIds -> Desktop!Entries \cup {None}]
          /\ dfile'[id] = None /\ \A x \in DesktopIds \ {id} : dfile'[x] = dfile[x]
      BY <1>2, <2>1, <2>2
    <3>2. /\ dcall' \in [do : CallSteps \cup {None}, id : DesktopIds \cup {None},
                         entry : Desktop!Entries \cup {None}]
          /\ dcall'.do = "close" /\ dcall'.id = id /\ dcall'.entry = e
      BY <1>a, <2>2 DEF DesktopTypes, CallSteps
    <3>3. CallInv'
      <4>1. dfile' # Torn
        BY <3>1, DesktopAssumption
      <4> QED
        BY <1>2, <2>1, <3>1, <3>2, <4>1, DesktopAssumption DEF CallInv
    <3>4. AgreeInv'
      BY <1>2, <1>a, <2>1, <3>1, <3>2 DEF AgreeInv
    <3>5. SecretsInv' /\ KnownInv'
      BY <1>2, <1>a, <2>1, <3>1 DEF SecretsInv, KnownInv, Desktop!lanvars
    <3> QED
      BY <1>2, <1>a, <2>1, <3>1, <3>2, <3>3, <3>4, <3>5, CallKeeps DEF DesktopTypes
  <2>3. CASE dfile' \in {dfile, Torn} /\ dcall' = Desktop!Idle
    <3>1. CallInv'
      BY <2>3, IdleIs, DesktopAssumption DEF CallInv
    <3>2. AgreeInv'
      BY <1>2, <1>a, <2>1, <2>3, IdleIs DEF AgreeInv
    <3>3. SecretsInv' /\ KnownInv'
      BY <1>a, <1>2, <2>1, <2>3 DEF SecretsInv, KnownInv, Desktop!lanvars
    <3> QED
      BY <1>2, <1>a, <2>1, <2>3, <3>1, <3>2, <3>3, IdleIs, CallKeeps DEF DesktopTypes
  <2> QED
    BY <2>1, <2>2, <2>3
<1>4. CASE Desktop!RemoveCloses
  <2>1. dcall.do = "close" /\ UNCHANGED <<dfile, secrets, up, unwanted>> /\ UNCHANGED Desktop!lanvars
    BY <1>4 DEF Desktop!RemoveCloses
  <2>2. SecretsInv' /\ KnownInv'
    BY <1>a, <2>1 DEF SecretsInv, KnownInv, Desktop!lanvars
  <2>3. /\ shelves' \in [DesktopIds -> OpenShelf \cup {None}]
        /\ \A x \in DesktopIds \ {id} : shelves'[x] = shelves[x]
        /\ \/ /\ dcall' = [dcall EXCEPT !.do = "forget"] /\ shelves'[id] = None
              /\ reported' = reported
           \/ dcall' = Desktop!Idle /\ reported' = reported \cup {id}
    <3>1. id \in DesktopIds
      BY <1>2, <2>1
    <3>2. CASE UNCHANGED Desktop!mvars /\ ~Desktop!GetShelf(id)
      BY <1>4, <1>a, <3>1, <3>2 DEF Desktop!RemoveCloses, Desktop!mvars, Desktop!GetShelf, DesktopTypes,
           Desktop!RemoveShelf, Desktop!CloseFails
    <3>3. CASE Desktop!RemoveShelf(id) \/ Desktop!CloseFails(id)
      <4>1. shelves[id] # None
        BY <3>3 DEF Desktop!RemoveShelf, Desktop!CloseFails, Desktop!GetShelf
      <4> QED
        BY <1>4, <1>a, <3>1, <3>3, <4>1, EntryKept DEF Desktop!RemoveCloses, Desktop!GetShelf
    <3> QED
      BY <1>4, <3>2, <3>3 DEF Desktop!RemoveCloses
  <2>4. CASE dcall' = [dcall EXCEPT !.do = "forget"] /\ shelves'[id] = None /\ reported' = reported
    <3>1. /\ dcall' \in [do : CallSteps \cup {None}, id : DesktopIds \cup {None},
                         entry : Desktop!Entries \cup {None}]
          /\ dcall'.do = "forget" /\ dcall'.id = id /\ dcall'.entry = e
      BY <1>a, <2>4 DEF DesktopTypes, CallSteps
    <3>2. CallInv'
      BY <1>2, <2>1, <2>4, <3>1, DesktopAssumption DEF CallInv
    <3>3. AgreeInv'
      BY <1>2, <1>a, <2>1, <2>3, <2>4, <3>1 DEF AgreeInv
    <3> QED
      BY <1>2, <1>a, <2>1, <2>2, <2>3, <3>1, <3>2, <3>3, CallKeeps DEF DesktopTypes
  <2>5. CASE dcall' = Desktop!Idle /\ reported' = reported \cup {id}
    <3>1. CallInv'
      BY <2>5, IdleIs, DesktopAssumption DEF CallInv
    <3>2. AgreeInv'
      BY <1>2, <1>a, <2>1, <2>3, <2>5, IdleIs DEF AgreeInv
    <3> QED
      BY <1>2, <1>a, <2>1, <2>2, <2>3, <2>5, <3>1, <3>2, IdleIs, CallKeeps DEF DesktopTypes
  <2> QED
    BY <2>3, <2>4, <2>5
<1>5. CASE Desktop!RemoveForgets
  <2>1. /\ dcall.do = "forget" /\ dcall' = Desktop!Idle /\ Desktop!MuFree
        /\ unwanted' = (IF id \in lfile'.ids THEN unwanted ELSE unwanted \ {id})
        /\ UNCHANGED <<shelves, dfile, secrets, up, reported, srv, addrs, applying>>
    BY <1>5 DEF Desktop!RemoveForgets, Desktop!ForgetShelf, Desktop!Forgets, Desktop!mvars
  <2>2. PICK next \in ShareSettings :
          /\ next.on = lconf.on /\ next.host = lconf.host /\ next.ids = lconf.ids \ {id}
          /\ lconf' = next /\ shared' = next.ids /\ lfile' \in {lfile, next}
    <3> DEFINE n == [lconf EXCEPT !.ids = lconf.ids \ {id}]
    <3>1. n \in ShareSettings /\ n.on = lconf.on /\ n.host = lconf.host /\ n.ids = lconf.ids \ {id}
      BY <1>a DEF DesktopTypes, ShareSettings
    <3>2. CASE id \in lconf.ids
      <4>1. lconf' = n /\ shared' = n.ids /\ (lfile' = n \/ lfile' = lfile)
        BY <1>5, <3>2 DEF Desktop!RemoveForgets, Desktop!ForgetShelf, Desktop!Forgets, Desktop!SaveApplied
      <4> HIDE DEF n
      <4> QED
        BY <3>1, <4>1
    <3>3. CASE id \notin lconf.ids
      <4>1. UNCHANGED <<lconf, lfile, shared>>
        BY <1>5, <3>3 DEF Desktop!RemoveForgets, Desktop!ForgetShelf, Desktop!Forgets
      <4>2. shared = lconf.ids /\ lconf \in ShareSettings /\ lconf.ids = lconf.ids \ {id}
        BY <1>2, <1>a, <2>1, <3>3 DEF ShareInv, DesktopTypes
      <4> QED
        BY <4>1, <4>2
    <3> QED
      BY <3>2, <3>3
  <2>3. DesktopTypes'
    BY <1>a, <2>1, <2>2, IdleIs DEF DesktopTypes
  <2>4. CallInv'
    BY <2>1, IdleIs, DesktopAssumption DEF CallInv
  <2>5. AgreeInv'
    BY <1>2, <1>a, <2>1, IdleIs DEF AgreeInv, CallInv
  <2>6. SecretsInv'
    BY <1>2, <1>a, <2>1 DEF SecretsInv
  <2>7. ShareInv'
    <3>1. /\ ~applying.next.on /\ applying.at = None
      BY <2>1 DEF Desktop!MuFree, Desktop!NotApplying, Desktop!Off
    <3> QED
      BY <1>2, <1>a, <2>1, <2>2, <3>1, DesktopAssumption DEF ShareInv, Covers, Desktop!MuFree
  <2>8. KnownInv'
    <3>1. applying.next.ids = {}
      BY <2>1 DEF Desktop!MuFree, Desktop!NotApplying, Desktop!Off
    <3> QED
      BY <1>2, <1>a, <2>1, <2>2, <3>1 DEF KnownInv
  <2> QED
    BY <2>3, <2>4, <2>5, <2>6, <2>7, <2>8 DEF DesktopInv
<1> QED
  BY <1>1, <1>3, <1>4, <1>5

LEMMA DesktopStep ==
    DesktopInv /\ [Desktop!Next]_<<managervars, desktopvars>> => DesktopInv'
<1> SUFFICES ASSUME DesktopInv, [Desktop!Next]_<<managervars, desktopvars>> PROVE DesktopInv'
  OBVIOUS
<1>1. CASE UNCHANGED <<managervars, desktopvars>>
  BY <1>1 DEF managervars, desktopvars, DesktopInv, DesktopTypes, CallInv, AgreeInv, SecretsInv,
              ShareInv, KnownInv, Desktop!MuFree
<1> QED
  BY <1>1, ShareSteps, DesktopLife, DesktopAdds, DesktopModifies, DesktopRemoves DEF Desktop!Next

\* Between two calls of the desktop app shelves.json, the open shelves and the keychain
\* agree unless a call has said that they do not, lan_share.json covers what the listener
\* serves, and the share holds listed shelves only, or ones whose removal was cut off: for
\* any number of shelves, hosts and calls, whichever save fails and wherever the process
\* ends (AddShelf, ModifyShelf, RemoveShelf, apply, forgetShelf).
THEOREM DesktopKeepsAgreement == MCSpec => []DesktopAgrees
<1> DEFINE Inv == part = "desktop" => DesktopInv
           all == <<part, rvars, offlinevars, transfervars, managervars, mobilevars, desktopvars>>
<1>1. MCInit => Inv
  BY DesktopInitial DEF MCInit
<1>2. Inv /\ [MCNext]_all => Inv'
  BY DesktopStep DEF MCNext
<1>3. Inv => DesktopAgrees
  <2> SUFFICES ASSUME DesktopInv PROVE
          Desktop!SettingsAgree /\ Desktop!ShareIsSaved /\ Desktop!SharedIsListed
    BY DEF DesktopAgrees
  <2>1. Desktop!SettingsAgree
    <3> SUFFICES ASSUME up, dfile # Torn, dcall = Desktop!Idle, NEW id \in DesktopIds \ reported
                 PROVE  /\ id \in Desktop!ListedLocal =>
                             Desktop!Serving(id) /\ shelves[id].conf = dfile[id]
                        /\ Desktop!GetShelf(id) => id \in Desktop!Listed
                        /\ id \in Desktop!Listed /\ dfile[id].secret /\ id \notin unwanted
                             => id \in secrets
      BY DEF Desktop!SettingsAgree, Desktop!Loaded
    <3> QED
      BY IdleIs, DesktopAssumption DEF DesktopInv, AgreeInv, SecretsInv, Desktop!ListedLocal,
           Desktop!Listed, Desktop!Serving, Desktop!GetShelf
  <2>2. Desktop!ShareIsSaved
    BY DEF Desktop!ShareIsSaved, DesktopInv, ShareInv, Covers
  <2>3. Desktop!SharedIsListed
    BY DEF Desktop!SharedIsListed, DesktopInv, DesktopTypes, ShareSettings, ShareInv, KnownInv,
           Desktop!Listed
  <2> QED
    BY <2>1, <2>2, <2>3
<1> QED
  BY <1>1, <1>2, <1>3, PTL DEF MCSpec

-----------------------------------------------------------------------------
(* Offline.                                                                *)

Versions == 1..MaxVersions
CopyPackage == [id : Left, meta : Versions, of : Left, text : Versions]
CopyRecord == [path : Right, version : Versions]
DownloadCall ==
    [pc : {"idle", "lock", "copy", "rest", "retire", "swap", "commit", "write", "clean",
           "remove", "forget"},
     book : Left \cup {None}, path : Right \cup {None}, version : 0..MaxVersions,
     staging : CopyPackage \cup {None}, previous : CopyPackage \cup {None}, old : Right \cup {None}]

CopyTypes ==
    /\ remote \in [Right -> CopyPackage \cup {None}] /\ local \in [Right -> CopyPackage \cup {None}]
    /\ cache \in [Left -> CopyRecord \cup {None}]
    /\ downloads \in [Left -> CopyRecord \cup {None}]
    /\ downloadsFile \in [Left -> CopyRecord \cup {None}]
    /\ snapshotFile \in [Left -> CopyRecord \cup {None}] \cup {None}
    /\ byPath \in [Right -> Left \cup {None}]
    /\ dl \in [DownloadCalls -> DownloadCall]
    /\ torn \subseteq Right

\* At the source a book is at one path, and its two files change together.
SourceInv ==
    /\ \A p \in Right : remote[p] # None => remote[p].of = remote[p].id
                                              /\ remote[p].text = remote[p].meta
    /\ \A p, q \in Right : remote[p] # None /\ remote[q] # None /\ remote[p].id = remote[q].id
                             => p = q

\* Version v of book b is not later than the source's.
Dated(b, v) == \A p \in Right : remote[p] # None /\ remote[p].id = b => v <= remote[p].meta
DatedRecords(r) == \A b \in Left : r[b] # None => Dated(b, r[b].version)
DatedPackage(k) ==
    k # None => Dated(k.id, k.meta) /\ Dated(k.of, k.text) /\ (k.of = k.id => k.meta <= k.text)

VersionsInv ==
    /\ DatedRecords(cache) /\ DatedRecords(downloads) /\ DatedRecords(downloadsFile)
    /\ snapshotFile # None => DatedRecords(snapshotFile)
    /\ \A p \in Right : DatedPackage(local[p])

\* No record of the package's book is later than it.
Above(r, k) == r[k.id] # None => r[k.id].version <= k.meta
AboveAt(r, k, p) == r[k.id] # None /\ r[k.id].path = p => r[k.id].version <= k.meta

Holding == {"copy", "rest", "retire", "swap", "commit", "write", "clean", "forget"}

\* What a call has where it stands, holding downloadMu from Lock to Finish.
Downloading(c) ==
    LET d == dl[c]
    IN  /\ d.pc \in Holding <=> downloadMu = c
        /\ d.pc \in {"lock", "copy", "rest", "retire", "swap", "commit"} =>
              /\ d.book \in Left /\ d.path \in Right /\ d.version \in Versions
              /\ Dated(d.book, d.version)
        /\ d.pc \in {"remove", "forget"} => d.book \in Left
        /\ d.pc \in {"rest", "retire", "swap", "commit"} =>
              /\ d.staging # None /\ DatedPackage(d.staging)
              /\ d.staging.id = d.book => d.version <= d.staging.meta
        /\ d.pc \in {"rest", "retire", "swap"} =>
              Above(downloads, d.staging) /\ Above(downloadsFile, d.staging)
        /\ d.pc = "swap" =>
              /\ local[d.path] = None /\ DatedPackage(d.previous)
              /\ d.previous # None => /\ AboveAt(downloads, d.previous, d.path)
                                      /\ AboveAt(downloadsFile, d.previous, d.path)
        /\ d.pc = "commit" => local[d.path] = d.staging
        /\ d.pc \in {"write", "clean"} /\ d.old # None =>
              \A x \in Left : downloads[x] # None => downloads[x].path # d.old
        /\ d.pc = "clean" => downloadsFile = downloads

\* A copy is not older than what is recorded of it.
NotOlder(r) ==
    \A b \in Left : r[b] # None /\ local[r[b].path] # None /\ local[r[b].path].id = b
                      => r[b].version <= local[r[b].path].meta

RouteInv ==
    \A p \in Right : byPath[p] # None => downloads[byPath[p]] # None /\ downloads[byPath[p]].path = p

\* What is recorded is there, or moved aside by a call that goes on, or left aside.
Aside(p) == \E c \in DownloadCalls : dl[c].pc = "swap" /\ dl[c].path = p /\ dl[c].previous # None
Stored(r) ==
    \A b \in Left : r[b] # None /\ r[b].path \notin torn
                      => local[r[b].path] # None \/ Aside(r[b].path)

CopyInv ==
    /\ CopyTypes /\ SourceInv /\ VersionsInv
    /\ \A c \in DownloadCalls : Downloading(c)
    /\ NotOlder(downloads) /\ NotOlder(downloadsFile)
    /\ RouteInv
    /\ Stored(downloads) /\ Stored(downloadsFile)

LEMMA NoCallIs ==
    /\ Copies!NoCall \in DownloadCall
    /\ Copies!NoCall.pc = "idle" /\ Copies!NoCall.previous = None /\ Copies!NoCall.staging = None
BY CopyAssumption DEF Copies!NoCall, DownloadCall, Versions

LEMMA NoNones ==
    None \notin CopyPackage /\ None \notin CopyRecord /\ None \notin Left /\ None \notin Right
      /\ None \notin DownloadCalls
BY CopyAssumption, MobileAssumption DEF CopyPackage, CopyRecord, Versions

LEMMA CopyInitial == Copies!Init => CopyInv
<1> SUFFICES ASSUME Copies!Init PROVE CopyInv
  OBVIOUS
<1>0. 1 \in Versions
  BY CopyAssumption DEF Versions
<1>1. PICK place \in [Left -> Right] :
        /\ \A a, b \in Left : place[a] = place[b] => a = b
        /\ remote = [p \in Right |->
              IF \E b \in Left : place[b] = p
                THEN LET b == CHOOSE b \in Left : place[b] = p
                     IN  [id |-> b, meta |-> 1, of |-> b, text |-> 1]
                ELSE None]
  BY DEF Copies!Init
<1>2. \A p \in Right : \/ remote[p] = None
                       \/ \E b \in Left : /\ place[b] = p
                                          /\ remote[p] = [id |-> b, meta |-> 1, of |-> b, text |-> 1]
  BY <1>1
<1>3. \A p \in Right : remote[p] # None =>
          /\ remote[p] \in CopyPackage /\ place[remote[p].id] = p
          /\ remote[p].of = remote[p].id /\ remote[p].text = remote[p].meta
  <2> SUFFICES ASSUME NEW p \in Right, remote[p] # None
               PROVE  /\ remote[p] \in CopyPackage /\ place[remote[p].id] = p
                      /\ remote[p].of = remote[p].id /\ remote[p].text = remote[p].meta
    OBVIOUS
  <2>1. PICK b \in Left : /\ place[b] = p
                          /\ remote[p] = [id |-> b, meta |-> 1, of |-> b, text |-> 1]
    BY <1>2
  <2> QED
    BY <1>0, <2>1 DEF CopyPackage
<1>4. remote \in [Right -> CopyPackage \cup {None}]
  BY <1>1, <1>3
<1>5. SourceInv
  BY <1>1, <1>3 DEF SourceInv
<1>6. /\ cache = [b \in Left |-> None] /\ downloads = [b \in Left |-> None]
      /\ downloadsFile = [b \in Left |-> None] /\ snapshotFile = None
      /\ byPath = [p \in Right |-> None] /\ local = [p \in Right |-> None]
      /\ downloadMu = None /\ dl = [c \in DownloadCalls |-> Copies!NoCall] /\ torn = {}
  BY DEF Copies!Init, Copies!Unlisted
<1>7. CopyTypes
  BY <1>4, <1>6, NoCallIs DEF CopyTypes
<1>8. VersionsInv /\ NotOlder(downloads) /\ NotOlder(downloadsFile) /\ RouteInv
        /\ Stored(downloads) /\ Stored(downloadsFile)
  BY <1>6 DEF VersionsInv, DatedRecords, DatedPackage, NotOlder, RouteInv, Stored
<1>9. \A c \in DownloadCalls : Downloading(c)
  BY <1>6, NoCallIs, NoNones DEF Downloading, Holding
<1> QED
  BY <1>5, <1>7, <1>8, <1>9 DEF CopyInv

\* The source only goes forward.
Forward ==
    \A b : \A v \in Int :
        (\A p \in Right : remote[p] # None /\ remote[p].id = b => v <= remote[p].meta)
            => \A p \in Right : remote'[p] # None /\ remote'[p].id = b => v <= remote'[p].meta

LEMMA SourceMoves ==
    ASSUME CopyInv, Forward, SourceInv', remote' \in [Right -> CopyPackage \cup {None}],
           UNCHANGED <<cache, refresh, downloads, byPath, local, downloadsFile, snapshotFile,
                       downloadMu, dl, torn>>
    PROVE  CopyInv'
<1>1. CopyTypes'
  BY DEF CopyInv, CopyTypes
<1>a. CopyTypes
  BY DEF CopyInv
<1>b. \A b \in Left : \A v \in Versions : Dated(b, v) => Dated(b, v)'
  BY CopyAssumption DEF Dated, Forward, Versions
<1>c. \A k \in CopyPackage : DatedPackage(k) => DatedPackage(k)'
  BY <1>b DEF DatedPackage, CopyPackage
<1>2. VersionsInv'
  <2>1. \A r \in [Left -> CopyRecord \cup {None}] : DatedRecords(r) => DatedRecords(r)'
    BY <1>b DEF DatedRecords, CopyRecord
  <2>2. /\ DatedRecords(cache)' /\ DatedRecords(downloads)' /\ DatedRecords(downloadsFile)'
        /\ snapshotFile' # None => DatedRecords(snapshotFile)'
    BY <1>a, <2>1 DEF CopyInv, VersionsInv, CopyTypes, DatedRecords, Dated
  <2>3. \A p \in Right : DatedPackage(local[p])'
    BY <1>a, <1>c DEF CopyInv, VersionsInv, CopyTypes, DatedPackage, Dated
  <2> QED
    BY <2>2, <2>3 DEF VersionsInv
<1>3. \A c \in DownloadCalls : Downloading(c)'
  <2> TAKE c \in DownloadCalls
  <2>1. Downloading(c)
    BY DEF CopyInv
  <2> QED
    <3>1. dl[c] \in DownloadCall
      BY <1>a DEF CopyTypes
    <3>2. dl[c].pc \in {"lock", "copy", "rest", "retire", "swap", "commit"}
             => Dated(dl[c].book, dl[c].version)'
      BY <1>b, <2>1 DEF Downloading, Dated
    <3>3. dl[c].pc \in {"rest", "retire", "swap", "commit"} => DatedPackage(dl[c].staging)'
      BY <1>c, <2>1, <3>1 DEF Downloading, DownloadCall, DatedPackage, Dated
    <3>4. dl[c].pc = "swap" => DatedPackage(dl[c].previous)'
      BY <1>c, <2>1, <3>1 DEF Downloading, DownloadCall, DatedPackage, Dated
    <3> QED
      BY <2>1, <3>2, <3>3, <3>4 DEF Downloading, Above, AboveAt
<1>4. NotOlder(downloads)' /\ NotOlder(downloadsFile)' /\ RouteInv'
        /\ Stored(downloads)' /\ Stored(downloadsFile)'
  BY DEF CopyInv, NotOlder, RouteInv, Stored, Aside
<1> QED
  BY <1>1, <1>2, <1>3, <1>4 DEF CopyInv

LEMMA SourceSteps ==
    ASSUME CopyInv, NEW p \in Right,
           Copies!RemoteEdit(p) \/ Copies!RemoteDelete(p) \/ \E q \in Right : Copies!RemoteMove(p, q)
    PROVE  CopyInv'
<1>a. CopyTypes /\ SourceInv
  BY DEF CopyInv
<1>u. UNCHANGED <<cache, refresh, downloads, byPath, local, downloadsFile, snapshotFile,
                  downloadMu, dl, torn>> /\ remote[p] # None /\ remote[p] \in CopyPackage
  BY <1>a DEF Copies!RemoteEdit, Copies!RemoteDelete, Copies!RemoteMove, Copies!listing, Copies!store,
         Copies!disk, CopyTypes
<1>1. CASE Copies!RemoteEdit(p)
  <2> DEFINE k == [remote[p] EXCEPT !.meta = remote[p].meta + 1, !.text = remote[p].text + 1]
  <2>1. remote' = [remote EXCEPT ![p] = k] /\ remote[p].meta < MaxVersions
    BY <1>1 DEF Copies!RemoteEdit
  <2>2. remote[p].of = remote[p].id /\ remote[p].text = remote[p].meta /\ remote[p].meta \in Versions
    BY <1>a, <1>u DEF SourceInv, CopyPackage
  <2>3. remote[p].meta + 1 \in Versions
    BY <2>1, <2>2, CopyAssumption DEF Versions
  <2>4. /\ k \in CopyPackage /\ k.id = remote[p].id /\ k.of = k.id /\ k.text = k.meta
        /\ k.meta = remote[p].meta + 1
    BY <1>u, <2>2, <2>3 DEF CopyPackage
  <2> HIDE DEF k
  <2>5. remote' \in [Right -> CopyPackage \cup {None}]
        /\ remote'[p] = k /\ \A x \in Right \ {p} : remote'[x] = remote[x]
    BY <1>a, <2>1, <2>4 DEF CopyTypes
  <2>6. SourceInv'
    BY <1>a, <1>u, <2>4, <2>5 DEF SourceInv
  <2>7. Forward
    <3> SUFFICES ASSUME NEW b, NEW v \in Int,
                        \A x \in Right : remote[x] # None /\ remote[x].id = b => v <= remote[x].meta,
                        NEW x \in Right, remote'[x] # None, remote'[x].id = b
                 PROVE  v <= remote'[x].meta
      BY DEF Forward
    <3>1. CASE x # p
      BY <2>5, <3>1
    <3>2. CASE x = p
      <4>1. v <= remote[p].meta
        BY <1>u, <2>4, <2>5, <3>2
      <4> QED
        BY <2>2, <2>4, <2>5, <3>2, <4>1 DEF Versions
    <3> QED
      BY <3>1, <3>2
  <2> QED
    BY <1>u, <2>5, <2>6, <2>7, SourceMoves
<1>2. CASE Copies!RemoteDelete(p)
  <2>1. remote' = [remote EXCEPT ![p] = None]
    BY <1>2 DEF Copies!RemoteDelete
  <2> QED
    BY <1>a, <1>u, <2>1, SourceMoves DEF CopyTypes, SourceInv, Forward
<1>3. ASSUME NEW q \in Right, Copies!RemoteMove(p, q) PROVE CopyInv'
  <2>1. remote' = [remote EXCEPT ![p] = None, ![q] = remote[p]] /\ remote[q] = None
    BY <1>3 DEF Copies!RemoteMove
  <2>2. /\ remote' \in [Right -> CopyPackage \cup {None}] /\ p # q
        /\ remote'[p] = None /\ remote'[q] = remote[p]
        /\ \A x \in Right \ {p, q} : remote'[x] = remote[x]
    BY <1>a, <1>u, <2>1 DEF CopyTypes
  <2> QED
    BY <1>a, <1>u, <2>2, SourceMoves DEF SourceInv, Forward
<1> QED
  BY <1>1, <1>2, <1>3

\* A listing names paths and versions of the source.
LEMMA ListingSteps ==
    ASSUME CopyInv,
           Copies!List \/ Copies!ListFromSnapshot \/ Copies!Reconcile \/ Copies!SaveSnapshot
    PROVE  CopyInv'
<1>a. CopyTypes /\ SourceInv /\ VersionsInv
  BY DEF CopyInv
<1>u. UNCHANGED <<remote, downloads, local, downloadsFile, downloadMu, dl, torn>>
  BY DEF Copies!List, Copies!ListFromSnapshot, Copies!Reconcile, Copies!SaveSnapshot,
         Copies!store, Copies!disk
<1>1. \A c \in DownloadCalls : Downloading(c)'
  BY <1>u DEF CopyInv, Downloading, DatedPackage, Dated, Above, AboveAt
<1>2. NotOlder(downloads)' /\ NotOlder(downloadsFile)'
        /\ Stored(downloads)' /\ Stored(downloadsFile)'
  BY <1>u DEF CopyInv, NotOlder, Stored, Aside
<1>3. SourceInv'
  BY <1>a, <1>u DEF SourceInv
<1>4. (\A p \in Right : DatedPackage(local[p])') /\ DatedRecords(downloads)' /\ DatedRecords(downloadsFile)'
  BY <1>a, <1>u DEF VersionsInv, DatedPackage, DatedRecords, Dated
<1>5. SUFFICES CopyTypes' /\ RouteInv' /\ DatedRecords(cache)'
                 /\ (snapshotFile' # None => DatedRecords(snapshotFile)')
  BY <1>1, <1>2, <1>3, <1>4 DEF CopyInv, VersionsInv
<1>6. CASE Copies!List
  <2>1. cache' = Copies!ListingOf(remote) /\ UNCHANGED <<byPath, snapshotFile>>
    BY <1>6 DEF Copies!List, Copies!store, Copies!disk
  <2>2. cache' = [b \in Left |-> cache'[b]]
    BY <2>1 DEF Copies!ListingOf
  <2>3. \A b \in Left : cache'[b] # None =>
          cache'[b] \in CopyRecord /\ Dated(b, cache'[b].version)
    <3> SUFFICES ASSUME NEW b \in Left, cache'[b] # None
                 PROVE  cache'[b] \in CopyRecord /\ Dated(b, cache'[b].version)
      OBVIOUS
    <3>1. PICK p \in Right : /\ remote[p] # None /\ remote[p].id = b
                             /\ cache'[b] = [path |-> p, version |-> remote[p].meta]
      BY <2>1 DEF Copies!ListingOf
    <3>2. remote[p].meta \in Versions
      BY <1>a, <3>1 DEF CopyTypes, CopyPackage
    <3>3. \A q \in Right : remote[q] # None /\ remote[q].id = b => q = p
      BY <1>a, <3>1 DEF SourceInv
    <3> QED
      BY <3>1, <3>2, <3>3, CopyAssumption DEF CopyRecord, Dated, Versions
  <2>4. CopyTypes'
    BY <1>a, <1>u, <2>1, <2>2, <2>3 DEF CopyTypes
  <2>5. DatedRecords(cache)'
    BY <1>u, <2>3 DEF DatedRecords, Dated
  <2> QED
    BY <1>a, <1>u, <2>1, <2>4, <2>5 DEF CopyInv, RouteInv, VersionsInv, DatedRecords, Dated
<1>7. CASE Copies!ListFromSnapshot
  <2>1. cache' = snapshotFile /\ snapshotFile # None /\ UNCHANGED <<byPath, snapshotFile>>
    BY <1>7 DEF Copies!ListFromSnapshot, Copies!store, Copies!disk
  <2>2. CopyTypes'
    BY <1>a, <1>u, <2>1 DEF CopyTypes
  <2> QED
    BY <1>a, <1>u, <2>1, <2>2 DEF CopyInv, RouteInv, VersionsInv, DatedRecords, Dated
<1>8. CASE Copies!Reconcile
  <2>1. /\ byPath' \in Copies!Routes(downloads, {b \in Left : Copies!Routable(b, downloads[b])})
        /\ UNCHANGED <<cache, snapshotFile>>
    BY <1>8 DEF Copies!Reconcile, Copies!disk
  <2>2. byPath' \in [Right -> Left \cup {None}] /\ RouteInv'
    BY <1>u, <2>1, NoNones DEF Copies!Routes, RouteInv
  <2>3. CopyTypes'
    BY <1>a, <1>u, <2>1, <2>2 DEF CopyTypes
  <2> QED
    BY <1>a, <1>u, <2>1, <2>2, <2>3 DEF VersionsInv, DatedRecords, Dated
<1>9. CASE Copies!SaveSnapshot
  <2>1. snapshotFile' \in {cache, snapshotFile} /\ UNCHANGED <<cache, byPath>>
    BY <1>9 DEF Copies!SaveSnapshot, Copies!store
  <2>2. CopyTypes'
    BY <1>a, <1>u, <2>1 DEF CopyTypes
  <2> QED
    BY <1>a, <1>u, <2>1, <2>2 DEF CopyInv, RouteInv, VersionsInv, DatedRecords, Dated
<1> QED
  BY <1>6, <1>7, <1>8, <1>9

\* While one call holds downloadMu, or takes or gives it back, the others wait.
LEMMA OthersWait ==
    ASSUME CopyInv, NEW c \in DownloadCalls, downloadMu \in {c, None}, downloadMu' \in {c, None},
           UNCHANGED remote, \A x \in DownloadCalls \ {c} : dl'[x] = dl[x]
    PROVE  \A x \in DownloadCalls \ {c} : Downloading(x)' /\ dl[x].pc # "swap"
<1> TAKE x \in DownloadCalls \ {c}
<1>1. Downloading(x) /\ x # None
  BY NoNones DEF CopyInv
<1>2. dl[x].pc \notin Holding
  BY <1>1 DEF Downloading
<1> QED
  BY <1>1, <1>2 DEF Downloading, Holding, Dated

\* The steps of a call that leave the store and the disk alone.
LEMMA CallMoves ==
    ASSUME CopyInv, NEW c \in DownloadCalls, NEW d \in DownloadCall,
           dl' = [dl EXCEPT ![c] = d],
           UNCHANGED <<remote, cache, downloads, byPath, local, downloadsFile, snapshotFile, torn>>,
           \A x \in DownloadCalls \ {c} : Downloading(x)',
           dl[c].pc # "swap" /\ d.pc # "swap",
           Downloading(c)'
    PROVE  CopyInv'
<1>1. /\ dl' \in [DownloadCalls -> DownloadCall] /\ dl'[c] = d
      /\ \A x \in DownloadCalls \ {c} : dl'[x] = dl[x]
  BY DEF CopyInv, CopyTypes
<1>2. CopyTypes' /\ SourceInv' /\ VersionsInv'
  BY <1>1 DEF CopyInv, CopyTypes, SourceInv, VersionsInv, DatedRecords, DatedPackage, Dated
<1>3. \A x \in DownloadCalls : Downloading(x)'
  OBVIOUS
<1>4. NotOlder(downloads)' /\ NotOlder(downloadsFile)' /\ RouteInv'
  BY DEF CopyInv, NotOlder, RouteInv
<1>5. \A p : Aside(p) <=> Aside(p)'
  BY <1>1 DEF Aside
<1>6. Stored(downloads)' /\ Stored(downloadsFile)'
  BY <1>5 DEF CopyInv, Stored
<1> QED
  BY <1>2, <1>3, <1>4, <1>6 DEF CopyInv

\* DownloadBook and RemoveDownload up to the copy, and every way they give up before they
\* touch the store or the disk.
LEMMA QuietCalls ==
    ASSUME CopyInv, NEW c \in DownloadCalls,
           \/ \E b \in Left : Copies!Download(c, b) \/ Copies!Remove(c, b)
           \/ Copies!Lock(c) \/ Copies!CopyFirst(c) \/ Copies!CopyRest(c)
           \/ Copies!CopyFails(c) \/ Copies!WriteFails(c) \/ Copies!NothingToForget(c)
    PROVE  CopyInv'
<1>a. CopyTypes /\ SourceInv /\ VersionsInv /\ Downloading(c) /\ dl[c] \in DownloadCall
  BY DEF CopyInv, CopyTypes
<1>u. UNCHANGED <<remote, cache, downloads, byPath, local, downloadsFile, snapshotFile, torn>>
  BY DEF Copies!Download, Copies!Remove, Copies!Lock, Copies!CopyFirst, Copies!CopyRest,
         Copies!CopyFails, Copies!WriteFails, Copies!NothingToForget, Copies!listing,
         Copies!store, Copies!disk
<1>n. /\ \A p \in Right : remote[p] # None => remote[p] \in CopyPackage
      /\ \A b \in Left : cache[b] # None => cache[b] \in CopyRecord
  BY <1>a DEF CopyTypes
<1>1. ASSUME NEW b \in Left, Copies!Download(c, b) PROVE CopyInv'
  <2> DEFINE d == [Copies!NoCall EXCEPT !.pc = "lock", !.book = b,
                     !.path = cache[b].path, !.version = cache[b].version]
  <2>1. /\ dl[c].pc = "idle" /\ cache[b] # None /\ UNCHANGED downloadMu
        /\ dl' = [dl EXCEPT ![c] = d]
    BY <1>1 DEF Copies!Download, Copies!Becomes
  <2>2. cache[b].path \in Right /\ cache[b].version \in Versions /\ cache[b].version \in 0..MaxVersions
    BY <1>n, <2>1, CopyAssumption DEF CopyRecord, Versions
  <2>3. /\ d \in DownloadCall /\ d.pc = "lock" /\ d.book = b /\ d.path = cache[b].path
        /\ d.version = cache[b].version
    BY <2>2 DEF DownloadCall, Copies!NoCall
  <2> HIDE DEF d
  <2>4. dl'[c] = d /\ \A x \in DownloadCalls \ {c} : dl'[x] = dl[x]
    BY <1>a, <2>1 DEF CopyTypes
  <2>5. \A x \in DownloadCalls \ {c} : Downloading(x)'
    BY <1>u, <2>1, <2>4 DEF CopyInv, Downloading, DatedPackage, Dated, Above, AboveAt
  <2>6. Downloading(c)'
    BY <1>a, <1>u, <2>1, <2>2, <2>3, <2>4
       DEF Downloading, Holding, VersionsInv, DatedRecords, Dated
  <2> QED
    BY <1>u, <2>1, <2>3, <2>5, <2>6, CallMoves
<1>2. ASSUME NEW b \in Left, Copies!Remove(c, b) PROVE CopyInv'
  <2> DEFINE d == [Copies!NoCall EXCEPT !.pc = "remove", !.book = b]
  <2>1. dl[c].pc = "idle" /\ UNCHANGED downloadMu /\ dl' = [dl EXCEPT ![c] = d]
    BY <1>2 DEF Copies!Remove, Copies!Becomes
  <2>2. 0 \in 0..MaxVersions
    BY CopyAssumption
  <2>3. d \in DownloadCall /\ d.pc = "remove" /\ d.book = b
    BY <2>2 DEF DownloadCall, Copies!NoCall
  <2> HIDE DEF d
  <2>4. dl'[c] = d /\ \A x \in DownloadCalls \ {c} : dl'[x] = dl[x]
    BY <1>a, <2>1 DEF CopyTypes
  <2>5. \A x \in DownloadCalls \ {c} : Downloading(x)'
    BY <1>u, <2>1, <2>4 DEF CopyInv, Downloading, DatedPackage, Dated, Above, AboveAt
  <2>6. Downloading(c)'
    BY <1>a, <1>u, <2>1, <2>3, <2>4 DEF Downloading, Holding
  <2> QED
    BY <1>u, <2>1, <2>3, <2>5, <2>6, CallMoves
<1>3. CASE Copies!Lock(c)
  <2> DEFINE to == IF dl[c].pc = "lock" THEN "copy" ELSE "forget"
             d == [dl[c] EXCEPT !.pc = to]
  <2>1. /\ dl[c].pc \in {"lock", "remove"} /\ downloadMu = None /\ downloadMu' = c
        /\ dl' = [dl EXCEPT ![c] = d]
    BY <1>3 DEF Copies!Lock, Copies!Becomes, Copies!Goto
  <2>2. to \in {"copy", "forget"} /\ (to = "copy" <=> dl[c].pc = "lock")
    OBVIOUS
  <2> HIDE DEF to
  <2>3. /\ d \in DownloadCall /\ d.pc = to /\ d.book = dl[c].book /\ d.path = dl[c].path
        /\ d.version = dl[c].version
    BY <1>a, <2>2 DEF DownloadCall
  <2> HIDE DEF d
  <2>4. dl'[c] = d /\ \A x \in DownloadCalls \ {c} : dl'[x] = dl[x]
    BY <1>a, <2>1 DEF CopyTypes
  <2>5. \A x \in DownloadCalls \ {c} : Downloading(x)'
    BY <1>u, <2>1, <2>4, OthersWait
  <2>6. Downloading(c)'
    BY <1>a, <1>u, <2>1, <2>2, <2>3, <2>4 DEF Downloading, Holding, Dated
  <2> QED
    BY <1>u, <2>1, <2>2, <2>3, <2>5, <2>6, CallMoves
<1>4. CASE Copies!CopyFirst(c)
  <2> DEFINE k == remote[dl[c].path]
             d == [dl[c] EXCEPT !.staging = k, !.pc = "rest"]
  <2>1. dl[c].pc = "copy" /\ k # None /\ UNCHANGED downloadMu /\ dl' = [dl EXCEPT ![c] = d]
    BY <1>4 DEF Copies!CopyFirst, Copies!Becomes
  <2>2. /\ downloadMu = c /\ dl[c].book \in Left /\ dl[c].path \in Right
        /\ dl[c].version \in Versions /\ Dated(dl[c].book, dl[c].version)
    BY <1>a, <2>1 DEF Downloading, Holding
  <2>3. k \in CopyPackage /\ k.of = k.id /\ k.text = k.meta
    BY <1>a, <1>n, <2>1, <2>2 DEF SourceInv
  <2>4. /\ DatedPackage(k) /\ Above(downloads, k) /\ Above(downloadsFile, k)
        /\ k.id = dl[c].book => dl[c].version <= k.meta
    <3>1. \A p \in Right : remote[p] # None /\ remote[p].id = k.id => remote[p] = k
      BY <1>a, <2>1, <2>2 DEF SourceInv
    <3>2. DatedPackage(k)
      BY <2>3, <3>1, CopyAssumption DEF DatedPackage, Dated, CopyPackage, Versions
    <3>3. Above(downloads, k) /\ Above(downloadsFile, k)
      BY <1>a, <2>1, <2>2, <2>3 DEF VersionsInv, DatedRecords, Dated, Above, CopyPackage
    <3>4. k.id = dl[c].book => dl[c].version <= k.meta
      BY <2>1, <2>2 DEF Dated
    <3> QED
      BY <3>2, <3>3, <3>4
  <2> HIDE DEF k
  <2>5. /\ d \in DownloadCall /\ d.pc = "rest" /\ d.book = dl[c].book /\ d.path = dl[c].path
        /\ d.version = dl[c].version /\ d.staging = k
    BY <1>a, <2>3 DEF DownloadCall
  <2> HIDE DEF d
  <2>6. dl'[c] = d /\ \A x \in DownloadCalls \ {c} : dl'[x] = dl[x]
    BY <1>a, <2>1 DEF CopyTypes
  <2>7. \A x \in DownloadCalls \ {c} : Downloading(x)'
    BY <1>u, <2>1, <2>2, <2>6, OthersWait
  <2>8. DatedPackage(dl[c].staging)' /\ Above(downloads, dl[c].staging)'
          /\ Above(downloadsFile, dl[c].staging)' /\ Dated(dl[c].book, dl[c].version)'
    BY <1>u, <2>2, <2>4, <2>5, <2>6 DEF DatedPackage, Dated, Above
  <2>9. Downloading(c)'
    BY <2>1, <2>2, <2>3, <2>4, <2>5, <2>6, <2>8, NoNones DEF Downloading, Holding
  <2> QED
    BY <1>u, <2>1, <2>5, <2>7, <2>9, CallMoves
<1>5. CASE Copies!CopyRest(c)
  <2> DEFINE s == dl[c].staging
             k == remote[dl[c].path]
             w == Copies!WithText(s, k)
             d == [dl[c] EXCEPT !.staging = w, !.pc = "retire"]
  <2>1. dl[c].pc = "rest" /\ k # None /\ UNCHANGED downloadMu /\ dl' = [dl EXCEPT ![c] = d]
    BY <1>5 DEF Copies!CopyRest, Copies!Becomes
  <2>2. /\ downloadMu = c /\ dl[c].book \in Left /\ dl[c].path \in Right
        /\ dl[c].version \in Versions /\ Dated(dl[c].book, dl[c].version)
        /\ s # None /\ DatedPackage(s) /\ (s.id = dl[c].book => dl[c].version <= s.meta)
        /\ Above(downloads, s) /\ Above(downloadsFile, s)
    BY <1>a, <2>1 DEF Downloading, Holding
  <2>3. k \in CopyPackage /\ k.of = k.id /\ k.text = k.meta /\ s \in CopyPackage
    BY <1>a, <1>n, <2>1, <2>2 DEF SourceInv, DownloadCall
  <2>4. w \in CopyPackage /\ w.id = s.id /\ w.meta = s.meta /\ w.of = k.id /\ w.text = k.meta
    <3> HIDE DEF s, k
    <3> QED
      BY <2>3 DEF Copies!WithText, CopyPackage
  <2>5. \A p \in Right : remote[p] # None /\ remote[p].id = k.id => remote[p] = k
    BY <1>a, <2>1, <2>2 DEF SourceInv
  <2>6. k.id = s.id => s.meta <= k.meta
    BY <2>1, <2>2 DEF DatedPackage, Dated
  <2> HIDE DEF w
  <2>7. DatedPackage(w) /\ Above(downloads, w) /\ Above(downloadsFile, w)
    <3>1. Dated(w.id, w.meta)
      BY <2>2, <2>4 DEF DatedPackage
    <3>2. Dated(w.of, w.text)
      BY <2>3, <2>4, <2>5, CopyAssumption DEF Dated, CopyPackage, Versions
    <3> QED
      BY <2>2, <2>4, <2>6, <3>1, <3>2 DEF DatedPackage, Above
  <2>8. /\ d \in DownloadCall /\ d.pc = "retire" /\ d.book = dl[c].book /\ d.path = dl[c].path
        /\ d.version = dl[c].version /\ d.staging = w
    BY <1>a, <2>4 DEF DownloadCall
  <2> HIDE DEF d
  <2>9. dl'[c] = d /\ \A x \in DownloadCalls \ {c} : dl'[x] = dl[x]
    BY <1>a, <2>1 DEF CopyTypes
  <2>10. \A x \in DownloadCalls \ {c} : Downloading(x)'
    BY <1>u, <2>1, <2>2, <2>9, OthersWait
  <2>11. Downloading(c)'
    <3>1. DatedPackage(dl[c].staging)' /\ Above(downloads, dl[c].staging)'
            /\ Above(downloadsFile, dl[c].staging)' /\ Dated(dl[c].book, dl[c].version)'
      BY <1>u, <2>2, <2>7, <2>8, <2>9 DEF DatedPackage, Dated, Above
    <3> QED
      BY <2>1, <2>2, <2>4, <2>8, <2>9, <3>1, NoNones DEF Downloading, Holding
  <2> QED
    BY <1>u, <2>1, <2>8, <2>10, <2>11, CallMoves
<1>6. CASE Copies!CopyFails(c) \/ Copies!WriteFails(c) \/ Copies!NothingToForget(c)
  <2>1. /\ dl[c].pc \in {"copy", "rest", "retire", "write", "forget"} /\ downloadMu' = None
        /\ dl' = [dl EXCEPT ![c] = Copies!NoCall]
    BY <1>6 DEF Copies!CopyFails, Copies!WriteFails, Copies!NothingToForget, Copies!Finish, Copies!Becomes
  <2>2. downloadMu = c
    BY <1>a, <2>1 DEF Downloading, Holding
  <2>3. dl'[c] = Copies!NoCall /\ \A x \in DownloadCalls \ {c} : dl'[x] = dl[x]
    BY <1>a, <2>1 DEF CopyTypes
  <2>4. \A x \in DownloadCalls \ {c} : Downloading(x)'
    BY <1>u, <2>1, <2>2, <2>3, OthersWait
  <2>5. Downloading(c)'
    BY <2>1, <2>3, NoCallIs, NoNones DEF Downloading, Holding
  <2> QED
    BY <1>u, <2>1, <2>4, <2>5, NoCallIs, CallMoves
<1> QED
  BY <1>1, <1>2, <1>3, <1>4, <1>5, <1>6

\* What a step of the call that holds downloadMu has to keep.
LEMMA HolderMoves ==
    ASSUME CopyInv, NEW c \in DownloadCalls, NEW d \in DownloadCall, downloadMu = c,
           dl' = [dl EXCEPT ![c] = d], downloadMu' \in {c, None},
           UNCHANGED <<remote, cache, snapshotFile>>, torn' \subseteq Right,
           local' \in [Right -> CopyPackage \cup {None}], \A p \in Right : DatedPackage(local[p])',
           downloads' \in [Left -> CopyRecord \cup {None}], DatedRecords(downloads)',
           downloadsFile' \in {downloadsFile, downloads},
           byPath' \in [Right -> Left \cup {None}],
           RouteInv', NotOlder(downloads)', NotOlder(downloadsFile)',
           Stored(downloads)' /\ Stored(downloadsFile)',
           Downloading(c)'
    PROVE  CopyInv'
<1>1. /\ dl' \in [DownloadCalls -> DownloadCall] /\ dl'[c] = d
      /\ \A x \in DownloadCalls \ {c} : dl'[x] = dl[x]
  BY DEF CopyInv, CopyTypes
<1>2. CopyTypes'
  BY <1>1 DEF CopyInv, CopyTypes
<1>3. SourceInv' /\ VersionsInv'
  BY DEF CopyInv, SourceInv, VersionsInv, DatedRecords, Dated
<1>4. \A x \in DownloadCalls : Downloading(x)'
  BY <1>1, OthersWait
<1> QED
  BY <1>2, <1>3, <1>4 DEF CopyInv

\* The steps of the call that holds downloadMu with the offline directory.
LEMMA DiskCalls ==
    ASSUME CopyInv, NEW c \in DownloadCalls,
           Copies!Retire(c) \/ Copies!Swap(c) \/ Copies!SwapFails(c) \/ Copies!Clean(c)
    PROVE  CopyInv'
<1>a. CopyTypes /\ VersionsInv /\ Downloading(c) /\ dl[c] \in DownloadCall
        /\ NotOlder(downloads) /\ NotOlder(downloadsFile) /\ RouteInv
        /\ Stored(downloads) /\ Stored(downloadsFile)
  BY DEF CopyInv, CopyTypes
<1>u. UNCHANGED <<remote, cache, snapshotFile, downloads, downloadsFile, byPath>>
  BY DEF Copies!Retire, Copies!Swap, Copies!SwapFails, Copies!Clean, Copies!listing, Copies!store
<1>b. /\ byPath' \in [Right -> Left \cup {None}] /\ RouteInv'
      /\ downloads' \in [Left -> CopyRecord \cup {None}] /\ DatedRecords(downloads)'
      /\ downloadsFile \in [Left -> CopyRecord \cup {None}]
  BY <1>a, <1>u DEF CopyTypes, RouteInv, VersionsInv, DatedRecords, Dated
<1>c. dl[c].pc \in {"retire", "swap", "clean"} /\ downloadMu = c
  BY <1>a DEF Copies!Retire, Copies!Swap, Copies!SwapFails, Copies!Clean, Downloading, Holding
<1>d. \A x \in DownloadCalls \ {c} : dl[x].pc # "swap"
  BY <1>c, NoNones DEF CopyInv, Downloading, Holding
<1>e. \A b \in Left : /\ downloads[b] # None => downloads[b].path \in Right
                      /\ downloadsFile[b] # None => downloadsFile[b].path \in Right
  BY <1>a DEF CopyTypes, CopyRecord
<1>t. torn' \subseteq Right
  BY <1>a DEF Copies!Retire, Copies!Swap, Copies!SwapFails, Copies!Clean, CopyTypes, Downloading
<1> DEFINE p == dl[c].path
           s == dl[c].staging
           old == dl[c].previous
<1>1. CASE Copies!Retire(c)
  <2> DEFINE d == [dl[c] EXCEPT !.previous = local[p], !.pc = "swap"]
  <2>1. /\ dl[c].pc = "retire" /\ dl' = [dl EXCEPT ![c] = d]
        /\ local' = [local EXCEPT ![p] = None] /\ UNCHANGED <<downloadMu, torn>>
    BY <1>1 DEF Copies!Retire, Copies!Becomes
  <2>2. /\ dl[c].book \in Left /\ p \in Right /\ dl[c].version \in Versions
        /\ Dated(dl[c].book, dl[c].version)
        /\ s # None /\ DatedPackage(s) /\ (s.id = dl[c].book => dl[c].version <= s.meta)
        /\ Above(downloads, s) /\ Above(downloadsFile, s)
    BY <1>a, <2>1 DEF Downloading
  <2>3. local[p] \in CopyPackage \cup {None}
    BY <1>a, <2>2 DEF CopyTypes
  <2>4. /\ d \in DownloadCall /\ d.pc = "swap" /\ d.book = dl[c].book /\ d.path = p
        /\ d.version = dl[c].version /\ d.staging = s /\ d.previous = local[p]
    BY <1>a, <2>3 DEF DownloadCall
  <2> HIDE DEF d
  <2>5. /\ local' \in [Right -> CopyPackage \cup {None}] /\ local'[p] = None
        /\ \A q \in Right \ {p} : local'[q] = local[q]
    BY <1>a, <2>1, <2>2 DEF CopyTypes
  <2>6. dl'[c] = d /\ \A x \in DownloadCalls \ {c} : dl'[x] = dl[x]
    BY <1>a, <2>1 DEF CopyTypes
  <2>7. \A q \in Right : DatedPackage(local[q])'
    BY <1>a, <1>u, <2>5 DEF VersionsInv, DatedPackage, Dated
  <2>8. NotOlder(downloads)' /\ NotOlder(downloadsFile)'
    BY <1>a, <1>e, <1>u, <2>5 DEF NotOlder
  <2>9. Stored(downloads)' /\ Stored(downloadsFile)'
    <3>1. \A x \in DownloadCalls : dl[x].pc # "swap"
      BY <1>d, <2>1
    <3>2. local[p] # None => dl'[c].pc = "swap" /\ dl'[c].path = p /\ dl'[c].previous # None
      BY <2>4, <2>6
    <3> HIDE DEF p
    <3> QED
      BY <1>a, <1>e, <1>u, <2>1, <2>5, <3>1, <3>2 DEF Stored, Aside
  <2>10. Downloading(c)'
    <3>1. DatedPackage(dl[c].staging)' /\ Above(downloads, dl[c].staging)'
            /\ Above(downloadsFile, dl[c].staging)' /\ Dated(dl[c].book, dl[c].version)'
      BY <1>u, <2>2, <2>4, <2>6 DEF DatedPackage, Dated, Above
    <3>2. DatedPackage(dl[c].previous)'
      BY <1>a, <1>u, <2>2, <2>4, <2>6 DEF VersionsInv, DatedPackage, Dated
    <3>3. local[p] # None => /\ AboveAt(downloads, dl[c].previous, dl[c].path)'
                             /\ AboveAt(downloadsFile, dl[c].previous, dl[c].path)'
      BY <1>a, <1>u, <2>2, <2>3, <2>4, <2>6 DEF NotOlder, AboveAt, CopyPackage
    <3> QED
      BY <1>c, <2>1, <2>2, <2>4, <2>5, <2>6, <3>1, <3>2, <3>3 DEF Downloading, Holding
  <2> QED
    BY <1>b, <1>c, <1>t, <1>u, <2>1, <2>4, <2>5, <2>7, <2>8, <2>9, <2>10, HolderMoves
<1>2. ASSUME dl[c].pc = "swap"
      PROVE  /\ dl[c].book \in Left /\ p \in Right /\ dl[c].version \in Versions
             /\ Dated(dl[c].book, dl[c].version)
             /\ s # None /\ s \in CopyPackage /\ DatedPackage(s)
             /\ s.id = dl[c].book => dl[c].version <= s.meta
             /\ Above(downloads, s) /\ Above(downloadsFile, s)
             /\ local[p] = None /\ old \in CopyPackage \cup {None} /\ DatedPackage(old)
             /\ old # None => AboveAt(downloads, old, p) /\ AboveAt(downloadsFile, old, p)
  BY <1>2, <1>a DEF Downloading, DownloadCall
<1>3. CASE Copies!Swap(c)
  <2> DEFINE d == [dl[c] EXCEPT !.pc = "commit"]
  <2>1. /\ dl[c].pc = "swap" /\ dl' = [dl EXCEPT ![c] = d]
        /\ local' = [local EXCEPT ![p] = s] /\ torn' = torn \ {p} /\ UNCHANGED downloadMu
    BY <1>3 DEF Copies!Swap, Copies!Becomes, Copies!Goto
  <2>4. /\ d \in DownloadCall /\ d.pc = "commit" /\ d.book = dl[c].book /\ d.path = p
        /\ d.version = dl[c].version /\ d.staging = s
    BY <1>a DEF DownloadCall
  <2> HIDE DEF d
  <2>5. /\ local' \in [Right -> CopyPackage \cup {None}] /\ local'[p] = s
        /\ \A q \in Right \ {p} : local'[q] = local[q]
    BY <1>2, <1>a, <2>1 DEF CopyTypes
  <2>6. dl'[c] = d /\ \A x \in DownloadCalls \ {c} : dl'[x] = dl[x]
    BY <1>a, <2>1 DEF CopyTypes
  <2>7. \A q \in Right : DatedPackage(local[q])'
    BY <1>2, <1>a, <1>u, <2>1, <2>5 DEF VersionsInv, DatedPackage, Dated
  <2>8. NotOlder(downloads)' /\ NotOlder(downloadsFile)'
    BY <1>2, <1>a, <1>e, <1>u, <2>1, <2>5 DEF NotOlder, Above
  <2>9. Stored(downloads)' /\ Stored(downloadsFile)'
    <3>1. \A q \in Right \ {p} : ~Aside(q)
      BY <1>d DEF Aside
    <3> QED
      BY <1>2, <1>a, <1>e, <1>u, <2>1, <2>5, <3>1 DEF Stored
  <2>10. Downloading(c)'
    <3>1. DatedPackage(dl[c].staging)' /\ Dated(dl[c].book, dl[c].version)'
      BY <1>2, <1>u, <2>1, <2>4, <2>6 DEF DatedPackage, Dated
    <3> QED
      BY <1>2, <1>c, <2>1, <2>4, <2>5, <2>6, <3>1 DEF Downloading, Holding
  <2> QED
    BY <1>b, <1>c, <1>t, <1>u, <2>1, <2>4, <2>5, <2>7, <2>8, <2>9, <2>10, HolderMoves
<1>4. CASE Copies!SwapFails(c)
  <2>1. /\ dl[c].pc = "swap" /\ dl' = [dl EXCEPT ![c] = Copies!NoCall] /\ downloadMu' = None
        /\ \/ local' = [local EXCEPT ![p] = old] /\ torn' = torn
           \/ local' = local /\ torn' = torn \cup {p}
    BY <1>4 DEF Copies!SwapFails, Copies!Finish, Copies!Becomes
  <2>5. /\ local' \in [Right -> CopyPackage \cup {None}] /\ local'[p] \in {old, None}
        /\ \A q \in Right \ {p} : local'[q] = local[q]
        /\ p \notin torn' => local'[p] = old
        /\ \A q \in Right : q \in torn => q \in torn'
    BY <1>2, <1>a, <2>1 DEF CopyTypes
  <2>6. dl'[c] = Copies!NoCall /\ \A x \in DownloadCalls \ {c} : dl'[x] = dl[x]
    BY <1>a, <2>1 DEF CopyTypes
  <2>7. \A q \in Right : DatedPackage(local[q])'
    BY <1>2, <1>a, <1>u, <2>1, <2>5 DEF VersionsInv, DatedPackage, Dated
  <2>8. NotOlder(downloads)' /\ NotOlder(downloadsFile)'
    BY <1>2, <1>a, <1>e, <1>u, <2>1, <2>5 DEF NotOlder, AboveAt
  <2>9. Stored(downloads)' /\ Stored(downloadsFile)'
    <3>1. (\A q \in Right \ {p} : ~Aside(q)) /\ (Aside(p) => old # None)
      BY <1>d DEF Aside
    <3> QED
      BY <1>2, <1>a, <1>e, <1>u, <2>1, <2>5, <3>1 DEF Stored
  <2>10. Downloading(c)'
    BY <2>1, <2>6, NoCallIs, NoNones DEF Downloading, Holding
  <2> QED
    BY <1>b, <1>c, <1>t, <1>u, <2>1, <2>5, <2>7, <2>8, <2>9, <2>10, NoCallIs, HolderMoves
<1>5. CASE Copies!Clean(c)
  <2> DEFINE o == dl[c].old
  <2>1. /\ dl[c].pc = "clean" /\ dl' = [dl EXCEPT ![c] = Copies!NoCall] /\ downloadMu' = None
        /\ local' = (IF o = None THEN local ELSE [local EXCEPT ![o] = None]) /\ UNCHANGED torn
    BY <1>5 DEF Copies!Clean, Copies!Finish, Copies!Becomes
  <2>2. /\ downloadsFile = downloads
        /\ o # None => o \in Right /\ \A x \in Left : downloads[x] # None => downloads[x].path # o
    BY <1>a, <2>1 DEF Downloading, DownloadCall
  <2>5. /\ local' \in [Right -> CopyPackage \cup {None}] /\ (o # None => local'[o] = None)
        /\ \A q \in Right \ {o} : local'[q] = local[q]
    BY <1>a, <2>1, <2>2 DEF CopyTypes
  <2>6. dl'[c] = Copies!NoCall /\ \A x \in DownloadCalls \ {c} : dl'[x] = dl[x]
    BY <1>a, <2>1 DEF CopyTypes
  <2>7. \A q \in Right : DatedPackage(local[q])'
    BY <1>a, <1>u, <2>2, <2>5, NoNones DEF VersionsInv, DatedPackage, Dated
  <2>a. \A b \in Left : downloads[b] # None => local'[downloads[b].path] = local[downloads[b].path]
    BY <1>e, <2>2, <2>5, NoNones
  <2>8. NotOlder(downloads)' /\ NotOlder(downloadsFile)'
    BY <1>a, <1>u, <2>2, <2>a DEF NotOlder
  <2>9. Stored(downloads)' /\ Stored(downloadsFile)'
    <3>1. \A q \in Right : ~Aside(q)
      BY <1>d, <2>1 DEF Aside
    <3> QED
      BY <1>a, <1>e, <1>u, <2>1, <2>2, <2>a, <3>1 DEF Stored
  <2>10. Downloading(c)'
    BY <2>1, <2>6, NoCallIs, NoNones DEF Downloading, Holding
  <2> QED
    BY <1>b, <1>c, <1>t, <1>u, <2>1, <2>5, <2>7, <2>8, <2>9, <2>10, NoCallIs, HolderMoves
<1> QED
  BY <1>1, <1>3, <1>4, <1>5

\* The steps of the call that holds downloadMu with the records.
LEMMA StoreCalls ==
    ASSUME CopyInv, NEW c \in DownloadCalls,
           Copies!Commit(c) \/ Copies!WriteDownloads(c) \/ Copies!Forget(c)
    PROVE  CopyInv'
<1>a. CopyTypes /\ VersionsInv /\ Downloading(c) /\ dl[c] \in DownloadCall
        /\ NotOlder(downloads) /\ NotOlder(downloadsFile) /\ RouteInv
        /\ Stored(downloads) /\ Stored(downloadsFile)
  BY DEF CopyInv, CopyTypes
<1>u. UNCHANGED <<remote, cache, snapshotFile, torn, local, downloadMu>>
  BY DEF Copies!Commit, Copies!WriteDownloads, Copies!Forget, Copies!listing, Copies!store, Copies!disk
<1>c. dl[c].pc \in {"commit", "write", "forget"} /\ downloadMu = c
  BY <1>a DEF Copies!Commit, Copies!WriteDownloads, Copies!Forget, Downloading, Holding
<1>d. \A x \in DownloadCalls : dl[x].pc # "swap"
  BY <1>c, NoNones DEF CopyInv, Downloading, Holding
<1>e. \A b \in Left : downloads[b] # None => downloads[b] \in CopyRecord /\ downloads[b].path \in Right
  BY <1>a DEF CopyTypes, CopyRecord
<1>f. /\ local' \in [Right -> CopyPackage \cup {None}] /\ (\A p \in Right : DatedPackage(local[p])')
  BY <1>a, <1>u DEF CopyTypes, VersionsInv, DatedPackage, Dated
<1>t. torn' \subseteq Right
  BY <1>a, <1>u DEF CopyTypes
<1>g. \A b \in Left :
        /\ downloads[b] # None /\ downloads[b].path \notin torn => local[downloads[b].path] # None
        /\ downloadsFile[b] # None /\ downloadsFile[b].path \notin torn
              => local[downloadsFile[b].path] # None
  BY <1>a, <1>d DEF Stored, Aside
<1>1. CASE Copies!Commit(c)
  <2> DEFINE b == dl[c].book
             p == dl[c].path
             old == downloads[b]
             new == [path |-> p, version |-> dl[c].version]
             records == [x \in Left |-> IF x = b THEN new
                                        ELSE IF downloads[x] # None /\ downloads[x].path = p THEN None
                                        ELSE downloads[x]]
             unused == old # None /\ old.path # p
                         /\ \A x \in Left : records[x] # None => records[x].path # old.path
             o == IF unused THEN old.path ELSE None
             d == [dl[c] EXCEPT !.pc = "write", !.old = o]
  <2>1. /\ dl[c].pc = "commit" /\ downloads' = records /\ downloadsFile' = downloadsFile
        /\ byPath' = [q \in Right |->
                        IF q = p THEN b
                        ELSE IF old # None /\ q = old.path /\ byPath[q] = b THEN None
                        ELSE byPath[q]]
        /\ dl' = [dl EXCEPT ![c] = d]
    BY <1>1 DEF Copies!Commit, Copies!Becomes, Copies!disk
  <2>2. /\ b \in Left /\ p \in Right /\ dl[c].version \in Versions
        /\ Dated(b, dl[c].version) /\ dl[c].staging # None
        /\ dl[c].staging.id = b => dl[c].version <= dl[c].staging.meta
        /\ local[p] = dl[c].staging
    BY <1>a, <2>1 DEF Downloading
  <2>3. new \in CopyRecord /\ new # None /\ new.path = p /\ new.version = dl[c].version
    BY <2>2, NoNones DEF CopyRecord
  <2> HIDE DEF new
  <2>4. /\ records \in [Left -> CopyRecord \cup {None}] /\ records[b] = new
        /\ \A x \in Left \ {b} : records[x] # None => records[x] = downloads[x]
        /\ \A x \in Left \ {b} : downloads[x] # None /\ downloads[x].path # p
              => records[x] = downloads[x]
    BY <1>a, <2>2, <2>3 DEF CopyTypes
  <2>5. o \in Right \cup {None} /\ (o # None => \A x \in Left : records[x] # None => records[x].path # o)
    BY <1>e, <2>2
  <2> HIDE DEF records, o
  <2>6. /\ d \in DownloadCall /\ d.pc = "write" /\ d.old = o
    BY <1>a, <2>5 DEF DownloadCall
  <2> HIDE DEF d
  <2>7. dl'[c] = d
    BY <1>a, <2>1 DEF CopyTypes
  <2>8. byPath' \in [Right -> Left \cup {None}]
    BY <1>a, <2>1, <2>2 DEF CopyTypes
  <2>9. RouteInv'
    <3> SUFFICES ASSUME NEW q \in Right, byPath'[q] # None
                 PROVE  records[byPath'[q]] # None /\ records[byPath'[q]].path = q
      BY <2>1 DEF RouteInv
    <3>1. CASE q = p
      BY <2>1, <2>2, <2>3, <2>4, <3>1
    <3>2. CASE q # p
      <4>1. byPath'[q] = byPath[q] /\ byPath[q] \in Left /\ downloads[byPath[q]] # None
              /\ downloads[byPath[q]].path = q
        BY <1>a, <2>1, <3>2 DEF RouteInv, CopyTypes
      <4>2. byPath[q] # b
        BY <2>1, <3>2, <4>1
      <4> QED
        BY <2>4, <3>2, <4>1, <4>2
    <3> QED
      BY <3>1, <3>2
  <2>10. DatedRecords(downloads)'
    BY <1>a, <1>u, <2>1, <2>2, <2>3, <2>4 DEF VersionsInv, DatedRecords, Dated
  <2>11. NotOlder(downloads)' /\ NotOlder(downloadsFile)'
    BY <1>a, <1>u, <2>1, <2>2, <2>3, <2>4 DEF NotOlder
  <2>12. Stored(downloads)' /\ Stored(downloadsFile)'
    BY <1>g, <1>u, <2>1, <2>2, <2>3, <2>4 DEF Stored
  <2>13. Downloading(c)'
    BY <1>c, <1>u, <2>1, <2>5, <2>6, <2>7 DEF Downloading, Holding
  <2> QED
    BY <1>c, <1>f, <1>t, <1>u, <2>1, <2>4, <2>6, <2>8, <2>9, <2>10, <2>11, <2>12, <2>13, HolderMoves
<1>2. CASE Copies!WriteDownloads(c)
  <2> DEFINE d == [dl[c] EXCEPT !.pc = "clean"]
  <2>1. /\ dl[c].pc = "write" /\ downloadsFile' = downloads /\ UNCHANGED <<downloads, byPath>>
        /\ dl' = [dl EXCEPT ![c] = d]
    BY <1>2 DEF Copies!WriteDownloads, Copies!Goto, Copies!Becomes, Copies!store
  <2>2. d \in DownloadCall /\ d.pc = "clean" /\ d.old = dl[c].old
    BY <1>a DEF DownloadCall
  <2> HIDE DEF d
  <2>3. dl'[c] = d
    BY <1>a, <2>1 DEF CopyTypes
  <2>4. Downloading(c)'
    BY <1>a, <1>c, <1>u, <2>1, <2>2, <2>3 DEF Downloading, Holding
  <2>5. /\ byPath' \in [Right -> Left \cup {None}] /\ RouteInv'
        /\ downloads' \in [Left -> CopyRecord \cup {None}] /\ DatedRecords(downloads)'
    BY <1>a, <1>u, <2>1 DEF CopyTypes, RouteInv, VersionsInv, DatedRecords, Dated
  <2>6. NotOlder(downloads)' /\ NotOlder(downloadsFile)'
    BY <1>a, <1>u, <2>1 DEF NotOlder
  <2>7. Stored(downloads)' /\ Stored(downloadsFile)'
    BY <1>g, <1>u, <2>1 DEF Stored
  <2> QED
    BY <1>c, <1>f, <1>t, <1>u, <2>1, <2>2, <2>4, <2>5, <2>6, <2>7, HolderMoves
<1>3. CASE Copies!Forget(c)
  <2> DEFINE b == dl[c].book
             record == downloads[b]
             shared1 == \E x \in Left \ {b} : downloads[x] # None /\ downloads[x].path = record.path
             o == IF shared1 THEN None ELSE record.path
             d == [dl[c] EXCEPT !.pc = "write", !.old = o]
  <2>1. /\ dl[c].pc = "forget" /\ record # None
        /\ downloads' = [downloads EXCEPT ![b] = None] /\ downloadsFile' = downloadsFile
        /\ byPath' = (IF byPath[record.path] = b THEN [byPath EXCEPT ![record.path] = None]
                      ELSE byPath)
        /\ dl' = [dl EXCEPT ![c] = d]
    BY <1>3 DEF Copies!Forget, Copies!Becomes, Copies!disk
  <2>2. b \in Left /\ record.path \in Right
    BY <1>a, <1>e, <2>1 DEF Downloading
  <2>3. /\ downloads' \in [Left -> CopyRecord \cup {None}] /\ downloads'[b] = None
        /\ \A x \in Left \ {b} : downloads'[x] = downloads[x]
    BY <1>a, <2>1, <2>2 DEF CopyTypes
  <2>4. /\ o \in Right \cup {None}
        /\ o # None => \A x \in Left : downloads'[x] # None => downloads'[x].path # o
    BY <2>2, <2>3
  <2> HIDE DEF o
  <2>5. d \in DownloadCall /\ d.pc = "write" /\ d.old = o
    BY <1>a, <2>4 DEF DownloadCall
  <2> HIDE DEF d
  <2>6. dl'[c] = d
    BY <1>a, <2>1 DEF CopyTypes
  <2>7. Downloading(c)'
    BY <1>c, <1>u, <2>1, <2>4, <2>5, <2>6 DEF Downloading, Holding
  <2>8. byPath' \in [Right -> Left \cup {None}] /\ RouteInv'
    <3>1. byPath' \in [Right -> Left \cup {None}]
      BY <1>a, <2>1, <2>2 DEF CopyTypes
    <3>2. \A q \in Right : byPath'[q] # None => byPath'[q] = byPath[q] /\ byPath[q] # b
      BY <1>a, <2>1, <2>2, NoNones DEF RouteInv, CopyTypes
    <3>3. RouteInv'
      BY <1>a, <2>3, <3>1, <3>2 DEF RouteInv, CopyTypes
    <3> QED
      BY <3>1, <3>3
  <2>9. DatedRecords(downloads)'
    BY <1>a, <1>u, <2>3 DEF VersionsInv, DatedRecords, Dated
  <2>10. NotOlder(downloads)' /\ NotOlder(downloadsFile)'
    BY <1>a, <1>u, <2>1, <2>3 DEF NotOlder
  <2>11. Stored(downloads)' /\ Stored(downloadsFile)'
    BY <1>g, <1>u, <2>1, <2>3 DEF Stored
  <2> QED
    BY <1>c, <1>f, <1>t, <1>u, <2>1, <2>3, <2>5, <2>7, <2>8, <2>9, <2>10, <2>11, HolderMoves
<1> QED
  BY <1>1, <1>2, <1>3

\* A process that ends leaves records whose packages are there, unless one was moved aside.
LEMMA RestartCopies == ASSUME CopyInv, Copies!Restart PROVE CopyInv'
<1>a. CopyTypes /\ SourceInv /\ VersionsInv /\ NotOlder(downloadsFile)
        /\ Stored(downloadsFile)
  BY DEF CopyInv
<1>1. /\ torn' = torn \cup {p \in Right : \E c \in DownloadCalls :
                               dl[c].pc = "swap" /\ dl[c].path = p /\ dl[c].previous # None}
      /\ cache' = [b \in Left |-> None] /\ downloads' = downloadsFile
      /\ byPath' \in Copies!Routes(downloadsFile, Left) /\ downloadMu' = None
      /\ dl' = [c \in DownloadCalls |-> Copies!NoCall]
      /\ UNCHANGED <<remote, local, downloadsFile, snapshotFile>>
  BY DEF Copies!Restart, Copies!Unlisted, Copies!disk
<1>2. byPath' \in [Right -> Left \cup {None}] /\ RouteInv'
  BY <1>1, NoNones DEF Copies!Routes, RouteInv
<1>3. CopyTypes'
  BY <1>1, <1>2, <1>a, NoCallIs DEF CopyTypes
<1>4. SourceInv' /\ VersionsInv' /\ NotOlder(downloads)' /\ NotOlder(downloadsFile)'
  BY <1>1, <1>a DEF SourceInv, VersionsInv, DatedRecords, DatedPackage, Dated, NotOlder
<1>5. \A c \in DownloadCalls : Downloading(c)'
  BY <1>1, NoCallIs, NoNones DEF Downloading, Holding
<1>6. Stored(downloads)' /\ Stored(downloadsFile)'
  BY <1>1, <1>a DEF Stored, Aside, CopyTypes, CopyRecord
<1> QED
  BY <1>2, <1>3, <1>4, <1>5, <1>6 DEF CopyInv

LEMMA CopyStep == CopyInv /\ [Copies!Next]_offlinevars => CopyInv'
<1> SUFFICES ASSUME CopyInv, [Copies!Next]_offlinevars PROVE CopyInv'
  OBVIOUS
<1>1. CASE UNCHANGED offlinevars
  <2>1. CopyTypes' /\ SourceInv' /\ VersionsInv'
    BY <1>1 DEF offlinevars, CopyInv, CopyTypes, SourceInv, VersionsInv, DatedRecords,
                DatedPackage, Dated
  <2>2. \A c \in DownloadCalls : Downloading(c)'
    BY <1>1 DEF offlinevars, CopyInv, Downloading, DatedPackage, Dated, Above, AboveAt
  <2>3. NotOlder(downloads)' /\ NotOlder(downloadsFile)' /\ RouteInv'
          /\ Stored(downloads)' /\ Stored(downloadsFile)'
    BY <1>1 DEF offlinevars, CopyInv, NotOlder, RouteInv, Stored, Aside
  <2> QED
    BY <2>1, <2>2, <2>3 DEF CopyInv
<1>2. CASE Copies!Next
  BY <1>2, SourceSteps, ListingSteps, QuietCalls, DiskCalls, StoreCalls, RestartCopies DEF Copies!Next
<1> QED
  BY <1>1, <1>2

\* What the records say of a copy is what a listing that agrees with the source needs.
LEMMA CopiesAreCurrent == CopyInv => Copies!CurrentCopies
<1> SUFFICES ASSUME CopyInv, cache = Copies!ListingOf(remote), NEW b \in Left,
                    Copies!State(b) = "downloaded", cache[b] # None,
                    local[downloads[b].path] # None, local[downloads[b].path].id = b,
                    local[downloads[b].path].of = b
             PROVE  local[downloads[b].path] = remote[downloads[b].path]
  BY DEF Copies!CurrentCopies
<1>1. downloads[b] # None /\ downloads[b] = cache[b]
  BY DEF Copies!State
<1>2. PICK p \in Right : /\ remote[p] # None /\ remote[p].id = b
                         /\ cache[b] = [path |-> p, version |-> remote[p].meta]
  BY DEF Copies!ListingOf
<1>3. downloads[b].path = p /\ downloads[b].version = remote[p].meta
  BY <1>1, <1>2
<1>4. remote[p] \in CopyPackage /\ local[p] \in CopyPackage
  BY <1>2, <1>3 DEF CopyInv, CopyTypes
<1>5. remote[p].of = b /\ remote[p].text = remote[p].meta
  BY <1>2 DEF CopyInv, SourceInv
<1>6. remote[p].meta <= local[p].meta
  BY <1>1, <1>3 DEF CopyInv, NotOlder
<1>7. local[p].meta <= local[p].text /\ local[p].text <= remote[p].meta
  BY <1>2, <1>3 DEF CopyInv, VersionsInv, DatedPackage, Dated
<1>8. local[p].meta = remote[p].meta /\ local[p].text = remote[p].text
  BY <1>4, <1>5, <1>6, <1>7 DEF CopyPackage, Versions
<1> QED
  BY <1>2, <1>3, <1>4, <1>5, <1>8 DEF CopyPackage

\* A copy that is shown as current, both of its files being the book's, is what the source
\* has, and what is routed to the offline directory is there, for any number of books,
\* paths, calls and events: copies that overlap edits and moves, failing writes, and a
\* process that ends anywhere; only a path whose replacement ended or failed twice between
\* its two renames is excepted (DownloadBook, RemoveDownload, reconcileDownloads,
\* replaceDirKeepingPrevious).
THEOREM OfflineCopiesServe == MCSpec => []CopiesServe
<1> DEFINE Inv == part = "copies" => CopyInv
           all == <<part, rvars, offlinevars, transfervars, managervars, mobilevars, desktopvars>>
<1>1. MCInit => Inv
  BY CopyInitial DEF MCInit
<1>2. Inv /\ [MCNext]_all => Inv'
  BY CopyStep DEF MCNext
<1>3. Inv => CopiesServe
  <2> SUFFICES ASSUME CopyInv
               PROVE  Copies!TypeOK /\ Copies!CurrentCopies /\ Copies!RoutedExists
    BY DEF CopiesServe
  <2>1. Copies!TypeOK
    BY DEF Copies!TypeOK, CopyInv, CopyTypes, CopyPackage, CopyRecord, Versions
  <2>2. Copies!RoutedExists
    <3> SUFFICES ASSUME downloadMu = None, NEW p \in Right \ torn, byPath[p] # None
                 PROVE  local[p] # None
      BY DEF Copies!RoutedExists, Copies!Quiet, Copies!Open
    <3>1. \A c \in DownloadCalls : dl[c].pc # "swap"
      BY NoNones DEF CopyInv, Downloading, Holding
    <3>2. downloads[byPath[p]] # None /\ downloads[byPath[p]].path = p /\ byPath[p] \in Left
      BY DEF CopyInv, RouteInv, CopyTypes
    <3> QED
      BY <3>1, <3>2 DEF CopyInv, Stored, Aside
  <2> QED
    BY <2>1, <2>2, CopiesAreCurrent
<1> QED
  BY <1>1, <1>2, <1>3, PTL DEF MCSpec
=============================================================================
