------------------------ MODULE InstallationsProofs ------------------------
(***************************************************************************)
(* What holds of the life of a shelf (ShelfLifecycle) for any number of    *)
(* retries and rescans, and of a folder's metadata (FolderMeta) for any    *)
(* number of installations, edits and renames.                             *)
(***************************************************************************)
EXTENDS MCInstallations, TLAPS

-----------------------------------------------------------------------------
(* ShelfLifecycle.                                                         *)

Workers == Retries \cup Rescanners

\* Where a retry has initRetryMu.
Retrying == {"list", "away", "broken", "clear", "setready", "unawait", "unlock"}

LifeTypeOK ==
    /\ source \in {"there", "away", "broken"}
    /\ lpc = [g \in Workers \cup {Starter, Exporter} |-> lpc[g]]
    /\ lpc[Starter] \in {"list", "away", "broken", "await", "ready", "none"}
    /\ \A g \in Workers : lpc[g] \in Retrying \cup {"trylock", "lock", "none"}

\* Until the first listing is over, nobody else has begun anything.
FirstAlone ==
    lpc[Starter] # "none" => /\ ~ready /\ ~awaiting /\ ~closed
                             /\ \A g \in Workers : lpc[g] = "none"

\* One retry at a time is past the lock.
OneRetry == \A g \in Workers : lpc[g] \in Retrying => retryMu = g

\* What a listing that succeeded has left, at each step after it.
Leaves ==
    /\ lpc[Starter] \in {"list", "ready"} => initErr = None
    /\ lpc[Starter] = "ready" => listed
    /\ \A g \in Workers : /\ lpc[g] \in {"clear", "setready", "unawait"} => listed
                          /\ lpc[g] \in {"setready", "unawait"} => initErr = None

\* A shelf that answers is not listed by a retry any more.
NoRetryAfter ==
    ready => \A g \in Workers : lpc[g] \notin {"list", "away", "broken", "clear"}

Tracks == lpc[Exporter] = "none" => ~exporting
Closes == /\ lpc[Exporter] \in {"none", "export"}
          /\ closed => closing

LifeInv ==
    /\ LifeTypeOK /\ FirstAlone /\ OneRetry /\ Leaves /\ NoRetryAfter /\ Tracks /\ Closes
    /\ Life!ReadyIsClean /\ Life!ClosedIsQuiet

LEMMA LifeInit == Life!Init => LifeInv
<1> SUFFICES ASSUME Life!Init PROVE LifeInv
  OBVIOUS
<1> USE LifeAssumption DEF Life!Init, Workers
<1>1. lpc = [g \in Workers \cup {Starter, Exporter} |-> IF g = Starter THEN "list" ELSE "none"]
  BY DEF Life!Tracked
<1>2. LifeTypeOK
  BY <1>1 DEF LifeTypeOK, Retrying
<1> QED
  BY <1>1, <1>2
  DEF LifeInv, FirstAlone, OneRetry, Leaves, NoRetryAfter, Tracks, Closes, Retrying,
      Life!ReadyIsClean, Life!ClosedIsQuiet, Life!Background, Life!Tracked

\* It is enough to look at the goroutines of a step.
LEMMA LifeStep == LifeInv /\ [Life!Next]_lifevars => LifeInv'
<1> SUFFICES ASSUME LifeInv, [Life!Next]_lifevars PROVE LifeInv'
  OBVIOUS
<1> USE LifeAssumption
    DEF LifeInv, LifeTypeOK, FirstAlone, OneRetry, Leaves, NoRetryAfter, Tracks, Closes,
        Life!ReadyIsClean, Life!ClosedIsQuiet, Life!Background, Life!Tracked, Life!Goto,
        Life!init, Life!ending, Workers, Retrying
<1>1. ASSUME NEW g \in Workers \cup {Starter}, Life!List(g) PROVE LifeInv'
  BY <1>1 DEF Life!List
<1>2. ASSUME NEW g \in Workers \cup {Starter}, Life!RetryFails(g) PROVE LifeInv'
  BY <1>2 DEF Life!RetryFails, Life!Awaited
<1>3. ASSUME NEW g \in Workers \cup {Starter}, Life!ClearErr(g) PROVE LifeInv'
  BY <1>3 DEF Life!ClearErr
<1>4. ASSUME NEW g \in Workers \cup {Starter}, Life!SetReady(g) PROVE LifeInv'
  BY <1>4 DEF Life!SetReady
<1>5. ASSUME NEW g \in Workers \cup {Starter}, Life!Unawait(g) PROVE LifeInv'
  BY <1>5 DEF Life!Unawait
<1>6. ASSUME NEW g \in Workers \cup {Starter}, Life!Unlock(g) PROVE LifeInv'
  BY <1>6 DEF Life!Unlock
<1>7. ASSUME Life!InitFails PROVE LifeInv'
  BY <1>7 DEF Life!InitFails
<1>8. ASSUME Life!InitAwaits PROVE LifeInv'
  BY <1>8 DEF Life!InitAwaits, Life!Awaited
<1>9. ASSUME Life!InitDone PROVE LifeInv'
  BY <1>9 DEF Life!InitDone
<1>10. ASSUME NEW g \in Retries, Life!TryLock(g) PROVE LifeInv'
  BY <1>10 DEF Life!TryLock
<1>11. ASSUME NEW g \in Rescanners, Life!LockRetry(g) PROVE LifeInv'
  BY <1>11 DEF Life!LockRetry
<1>12. ASSUME NEW g \in Retries, Life!Request(g) PROVE LifeInv'
  BY <1>12 DEF Life!Request
<1>13. ASSUME NEW g \in Retries \cup {Starter}, Life!Panic(g) PROVE LifeInv'
  BY <1>13 DEF Life!Panic
<1>14. ASSUME NEW r \in Rescanners, Life!Rescan(r) PROVE LifeInv'
  BY <1>14 DEF Life!Rescan
<1>15. CASE Life!ScheduleExport
  BY <1>15 DEF Life!ScheduleExport
<1>16. CASE Life!ExportDone
  BY <1>16 DEF Life!ExportDone
<1>17. CASE Life!CloseBegins \/ Life!CloseEnds
  BY <1>17 DEF Life!CloseBegins, Life!CloseEnds
<1>18. CASE Life!SourceChanges \/ Life!IntervalPasses \/ UNCHANGED lifevars
  BY <1>18 DEF Life!SourceChanges, Life!IntervalPasses, lifevars
<1> HIDE DEF LifeInv, Life!Goto
<1> QED
  BY <1>1, <1>2, <1>3, <1>4, <1>5, <1>6, <1>7, <1>8, <1>9, <1>10, <1>11, <1>12, <1>13,
     <1>14, <1>15, <1>16, <1>17, <1>18
  DEF Life!Next, Life!Step, Life!Listers

\* A shelf that answers has been listed and has no failure left, whatever requests and
\* rescans retried meanwhile; and once Close has returned no goroutine of it runs
\* (initCache, retryInit, goBackground, stopBackground).
THEOREM LifecycleStatesAreClean == MCSpec => []StatesAreClean
<1> DEFINE Inv == part = "life" => LifeInv
<1>1. MCInit => Inv
  BY LifeInit DEF MCInit
<1>2. Inv /\ [MCNext]_<<part, vars, lifevars, metavars, listvars>> => Inv'
  BY LifeStep DEF MCNext
<1>3. Inv => StatesAreClean
  BY DEF StatesAreClean, LifeInv
<1> QED
  BY <1>1, <1>2, <1>3, PTL DEF MCSpec, MCSteps

-----------------------------------------------------------------------------
(* FolderMeta.                                                             *)

MetaTypeOK ==
    /\ at = [r \in Requests |-> at[r]]
    /\ data = [r \in Requests |-> data[r]]
    /\ shared \subseteq Meta!Inside

\* A request whose turn was not broken into has the lock and is alone with it, and
\* nobody has written the file since it read it: what makes the comparison of versions
\* worth anything.
HasItsTurn ==
    \A r \in Meta!Inside \ shared :
        /\ holder = Host[r]
        /\ \A s \in Meta!Inside : s = r
        /\ at[r] = "compare" => data[r] = file

MetaInv == MetaTypeOK /\ HasItsTurn

LEMMA MetaInit == Meta!Init => MetaInv
  BY DEF Meta!Init, MetaInv, MetaTypeOK, HasItsTurn, Meta!Inside

LEMMA MetaStep == MetaInv /\ [Meta!Next]_metavars => MetaInv' /\ Meta!ComparesFirst
<1> SUFFICES ASSUME MetaInv, [Meta!Next]_metavars PROVE MetaInv' /\ Meta!ComparesFirst
  OBVIOUS
<1> USE MetaAssumption
    DEF MetaInv, MetaTypeOK, HasItsTurn, Meta!ComparesFirst, Meta!Goto, Meta!Free,
        Meta!Inside
<1>1. CASE UNCHANGED metavars
  BY <1>1 DEF metavars
<1>2. ASSUME NEW r \in Requests, Meta!Ask(r) \/ Meta!AskRename(r) \/ Meta!Repeat(r)
      PROVE  MetaInv' /\ Meta!ComparesFirst
  BY <1>2 DEF Meta!Ask, Meta!AskRename, Meta!Repeat, Meta!Passing
<1>3. ASSUME NEW r \in Requests, Meta!Lock(r)
      PROVE  MetaInv' /\ Meta!ComparesFirst
  BY <1>3 DEF Meta!Lock, Meta!TakeLock
<1>4. ASSUME NEW r \in Requests, Meta!Leave(r), r \in Meta!Inside, UNCHANGED file
      PROVE  MetaInv' /\ Meta!ComparesFirst
  <2>1. /\ at' = [at EXCEPT ![r] = "idle"] /\ data' = [data EXCEPT ![r] = Meta!Blank]
        /\ shared' = shared \ {r}
        /\ holder' = IF holder = Host[r] THEN "free" ELSE holder
    BY <1>4 DEF Meta!Leave, Meta!GiveBack
  <2>2. Meta!Inside' = Meta!Inside \ {r}
    BY <2>1
  <2> HIDE DEF Meta!Inside
  <2>3. Meta!Inside' \subseteq shared'
    BY <1>4, <2>1, <2>2
  <2>4. MetaInv'
    BY <2>1, <2>2, <2>3
  <2>5. Meta!ComparesFirst
    BY <2>1
  <2> QED
    BY <2>4, <2>5
<1>5. ASSUME NEW r \in Requests, Meta!Read(r)
      PROVE  MetaInv' /\ Meta!ComparesFirst
  <2>1. CASE Meta!Answer(r)
    BY <1>4, <1>5, <2>1 DEF Meta!Read, Meta!Answer
  <2>2. CASE ~Meta!Answer(r)
    BY <1>5, <2>2 DEF Meta!Read
  <2> QED
    BY <2>1, <2>2
<1>6. ASSUME NEW r \in Requests,
             Meta!RenameFolder(r) \/ Meta!Conflict(r) \/ Meta!Refuse(r) \/ Meta!Unneeded(r)
             \/ Meta!Relist(r) \/ Meta!WriteFails(r)
      PROVE  MetaInv' /\ Meta!ComparesFirst
  <2>1. Meta!Leave(r) /\ r \in Meta!Inside /\ UNCHANGED file
    BY <1>6 DEF Meta!RenameFolder, Meta!Conflict, Meta!Refuse, Meta!Unneeded, Meta!Relist,
                Meta!WriteFails, Meta!Answer
  <2> QED
    BY <1>4, <2>1
<1>7. ASSUME NEW r \in Requests, Meta!Write(r)
      PROVE  MetaInv' /\ Meta!ComparesFirst
  <2>1. /\ at[r] = "compare" /\ at' = [at EXCEPT ![r] = "written"]
        /\ data' = [data EXCEPT ![r] = Meta!Mutated(r)]
        /\ data[r] = req[r].version /\ UNCHANGED <<holder, shared>>
    BY <1>7 DEF Meta!Write, Meta!Agrees
  <2>2. Meta!Inside' = Meta!Inside
    BY <2>1
  <2>3. r \in Meta!Inside
    BY <2>1
  <2>4. MetaInv'
    <3> HIDE DEF Meta!Inside
    <3>1. \A s \in Meta!Inside \ shared : s = r
      BY <2>3
    <3> QED
      BY <2>1, <2>2, <3>1
  <2>5. Meta!ComparesFirst
    BY <2>1
  <2> QED
    BY <2>4, <2>5
<1>8. ASSUME NEW p \in Instances, Meta!Restart(p)
      PROVE  MetaInv' /\ Meta!ComparesFirst
  BY <1>8 DEF Meta!Restart
<1>9. ASSUME NEW p \in Instances, Meta!Scan(p)
      PROVE  MetaInv' /\ Meta!ComparesFirst
  BY <1>9 DEF Meta!Scan, Meta!Passing
<1> HIDE DEF MetaInv, Meta!ComparesFirst
<1> QED
  BY <1>1, <1>2, <1>3, <1>5, <1>6, <1>7, <1>8, <1>9 DEF Meta!Next, Meta!Onward

\* No request overwrites a folder.json that changed since it was shown to the client,
\* unless its own server broke into its turn with the lock, however many requests and
\* installations edit, rename, scan and restart (updateFolderMeta).
THEOREM FolderMetaNoBlindEdit == MCSpec => NoBlindEdit
<1> DEFINE Inv == part = "meta" => MetaInv
           Compared == part = "meta" => Meta!ComparesFirst
<1>1. MCInit => Inv
  BY MetaInit DEF MCInit
<1>2. Inv /\ [MCNext]_<<part, vars, lifevars, metavars, listvars>> => Inv' /\ [Compared]_metavars
  BY MetaStep DEF MCNext
<1> QED
  BY <1>1, <1>2, PTL DEF MCSpec, MCSteps, NoBlindEdit
=============================================================================
