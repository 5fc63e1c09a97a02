---------------------------- MODULE ServerProofs ----------------------------
(***************************************************************************)
(* What a server does with its files, for every value of the constants:    *)
(* the books of a shelf (by the proofs of module ShelfProofs), the log     *)
(* files (LogFiles) for any number of loggers, windows and days, the       *)
(* requests of the WebDAV client (DavFS) for any number of callers,        *)
(* passwords, attempts and redirects, and the cached tree of the pCloud    *)
(* client (PCloudTree) for any walkers, folders and times.                 *)
(***************************************************************************)
EXTENDS MCServer, ShelfProofs, TLAPS

-----------------------------------------------------------------------------
(* Shelf.                                                                  *)

\* No book is lost or doubled and no package is without its folder, whatever requests,
\* failures and crashes overlap (Shelf.MoveBook, MoveBookToTrash, RestoreTrashedBook,
\* DeleteTrashedBook, publishBookCopy, deleteFolder, RenameFolder).
THEOREM ServerKeepsBooks == MCSpec => []KeepsBooks
<1> DEFINE Inv == part = "pair" => ShelfInv
<1>1. MCInit => Inv
  BY ShelfInitial DEF MCInit
<1>2. Inv /\ [MCNext]_<<part, vars, logvars, davvars, pcvars>> => Inv'
  BY ShelfStep DEF MCNext
<1>3. Inv => KeepsBooks
  BY DEF KeepsBooks, ShelfInv
<1> QED
  BY <1>1, <1>2, <1>3, PTL DEF MCSpec

\* A listing that no other request overlapped shows the folders that there are, and every
\* book where it is, after any sequence of requests and with background checks beside
\* them (listFoldersFromCache, listBookListingsFromCache); only a book that changed place
\* during such a check (onlyRefreshBooksInCache) may be missing until the next full scan.
THEOREM ServerListsExactly == MCSpec => []ListingsExact
<1> DEFINE Inv == part = "alone" => InTurnInv
<1>1. MCInit => Inv
  BY InTurnInitial DEF MCInit
<1>2. Inv /\ [MCNext]_<<part, vars, logvars, davvars, pcvars>> => Inv'
  BY InTurnStep DEF MCNext
<1>3. Inv => ListingsExact
  BY ListingsAreRight DEF ListingsExact, FoldersListed, BooksListed
<1> QED
  BY <1>1, <1>2, <1>3, PTL DEF MCSpec

-----------------------------------------------------------------------------
(* LogFiles.                                                               *)

LogTypeOK ==
    /\ today \in Logs!Days /\ latest \in Logs!Days
    /\ files \in [Logs!Days -> Nat \cup {None}] /\ acked \in [Logs!Days -> Nat]
    /\ cur \in [Writers -> Logs!Days \cup {None}]
    /\ date \in [Writers -> Logs!Days \cup {None}]
    /\ open = [w \in Writers |-> open[w]] /\ at = [w \in Writers |-> at[w]]
    /\ saved \in Windows \cup {None} /\ window \in Windows \cup {None}
    /\ used \subseteq Nat

\* No window that has been in force has passed the day.
Recent(d) == \A r \in used : r = 0 \/ d + r >= latest

\* The window in force is among those, and a writer never thinks of a day to come.
Counted ==
    /\ today <= latest /\ Logs!InForce(window) \in used
    /\ \A w \in Writers : date[w] # None => date[w] <= latest

\* What a writer has open: a file of the directory, or one that a window has passed.
OpenFiles ==
    \A w \in Writers :
        /\ cur[w] = None <=> open[w] = None
        /\ at[w] \in {"rotate", "expire", "append"} => date[w] # None
        /\ at[w] \in {"expire", "append"} => cur[w] # None
        /\ open[w] = "linked" => files[cur[w]] # None
        /\ open[w] \notin {None, "linked", "closed"} => ~Recent(cur[w])

\* The lines of a recent day are in its file, once it has one.
FilesHold == \A d \in Logs!Days : Recent(d) => files[d] = acked[d] \/ (files[d] = None /\ acked[d] = 0)

LogInv == LogTypeOK /\ Counted /\ OpenFiles /\ FilesHold /\ Logs!NoReplacedWindow

LEMMA LogInitial == Logs!LogInit => LogInv
  BY LogAssumption
  DEF Logs!LogInit, Logs!Days, Logs!InForce, LogInv, LogTypeOK, Recent, Counted, OpenFiles,
      FilesHold, Logs!NoReplacedWindow

LEMMA LogStep == LogInv /\ [Logs!LogNext]_logvars => LogInv'
<1> SUFFICES ASSUME LogInv, [Logs!LogNext]_logvars PROVE LogInv'
  OBVIOUS
<1> USE LogAssumption
    DEF LogInv, LogTypeOK, Recent, Counted, OpenFiles, FilesHold, Logs!NoReplacedWindow, Logs!Goto,
        Logs!InForce
<1>0. Logs!Days \subseteq Nat /\ None \notin Logs!Days
  BY DEF Logs!Days
<1>1. ASSUME NEW w \in Writers, Logs!Write(w) PROVE LogInv'
  <2>1. LogTypeOK'
    BY <1>1 DEF Logs!Write
  <2>2. Counted'
    BY <1>0, <1>1, <2>1 DEF Logs!Write
  <2>3. OpenFiles'
    BY <1>0, <1>1, <2>1 DEF Logs!Write
  <2>4. FilesHold'
    BY <1>0, <1>1, <2>1 DEF Logs!Write
  <2>5. Logs!NoReplacedWindow'
    BY <1>1 DEF Logs!Write
  <2> QED
    BY <2>1, <2>2, <2>3, <2>4, <2>5
<1>2. ASSUME NEW w \in Writers, Logs!Rotate(w) PROVE LogInv'
  <2>1. LogTypeOK'
    BY <1>2 DEF Logs!Rotate
  <2>2. Counted'
    BY <1>0, <1>2, <2>1 DEF Logs!Rotate
  <2>3. OpenFiles'
    <3>1. /\ date[w] \in Logs!Days /\ cur'[w] = date[w] /\ open'[w] = "linked"
          /\ files'[date[w]] # None /\ at'[w] = "expire"
      BY <1>0, <1>2 DEF Logs!Rotate
    <3>2. \A d \in Logs!Days : files[d] # None => files'[d] # None
      BY <1>0, <1>2 DEF Logs!Rotate
    <3>3. /\ \A v \in Writers \ {w} : cur'[v] = cur[v] /\ open'[v] = open[v] /\ at'[v] = at[v]
          /\ UNCHANGED <<latest, used, date>>
      BY <1>2 DEF Logs!Rotate
    <3> HIDE DEF Recent
    <3>4. \A d : Recent(d)' = Recent(d)
      BY <3>3 DEF Recent
    <3> QED
      BY <1>0, <3>1, <3>2, <3>3, <3>4
  <2>4. FilesHold'
    BY <1>0, <1>2, <2>1 DEF Logs!Rotate
  <2>5. Logs!NoReplacedWindow'
    BY <1>2 DEF Logs!Rotate
  <2> QED
    BY <2>1, <2>2, <2>3, <2>4, <2>5
<1>3. ASSUME NEW w \in Writers, Logs!RotateFails(w) PROVE LogInv'
  BY <1>3 DEF Logs!RotateFails
<1>4. ASSUME NEW w \in Writers, Logs!Expire(w) PROVE LogInv'
  <2>1. PICK removed \in SUBSET Logs!Expired(w) :
           /\ files' = [d \in Logs!Days |-> IF d \in removed THEN None ELSE files[d]]
           /\ open' = [v \in Writers |->
                  IF open[v] = "linked" /\ cur[v] \in removed THEN "unlinked" ELSE open[v]]
    BY <1>4 DEF Logs!Expire
  <2>2. at[w] = "expire" /\ at' = [at EXCEPT ![w] = "append"]
        /\ UNCHANGED <<today, latest, acked, cur, date, saved, window, asked, used>>
    BY <1>4 DEF Logs!Expire
  <2>3. \A d \in removed : d \in Logs!Days /\ ~Recent(d)
    <3> SUFFICES ASSUME NEW d \in removed PROVE d \in Logs!Days /\ ~Recent(d)
      OBVIOUS
    <3>1. d \in Logs!Days /\ Logs!InForce(window) # 0 /\ d < date[w] - Logs!InForce(window)
      BY <2>1 DEF Logs!Expired, Logs!Listed
    <3>2. date[w] \in Nat /\ date[w] <= latest /\ latest \in Nat /\ d \in Nat
      BY <1>0, <2>2, <3>1
    <3>3. Logs!InForce(window) \in used /\ Logs!InForce(window) \in Nat
      OBVIOUS
    <3>4. ~(d + Logs!InForce(window) >= latest)
      <4> HIDE DEF Logs!InForce, LogInv
      <4> QED BY <3>1, <3>2, <3>3
    <3> QED
      BY <3>1, <3>3, <3>4
  <2> HIDE DEF Recent
  <2>4. \A d : Recent(d)' = Recent(d)
    BY <2>2 DEF Recent
  <2>5. LogTypeOK'
    BY <2>1, <2>2
  <2>6. Counted' /\ Logs!NoReplacedWindow'
    BY <2>2
  <2>7. OpenFiles'
    BY <1>0, <2>1, <2>2, <2>3, <2>4
  <2>8. FilesHold'
    BY <2>1, <2>2, <2>3, <2>4
  <2> QED
    BY <2>5, <2>6, <2>7, <2>8
<1>5. ASSUME NEW w \in Writers, Logs!Append(w) PROVE LogInv'
  <2>1. /\ at[w] = "append" /\ at' = [at EXCEPT ![w] = "idle"]
        /\ date' = [date EXCEPT ![w] = None] /\ cur[w] \in Logs!Days
        /\ UNCHANGED <<today, latest, cur, open, saved, window, asked, used>>
    BY <1>5 DEF Logs!Append
  <2> HIDE DEF Recent
  <2>2. \A d : Recent(d)' = Recent(d)
    BY <2>1 DEF Recent
  <2>3. Counted' /\ Logs!NoReplacedWindow'
    BY <2>1
  <2>4. CASE open[w] = "closed"
    BY <1>5, <2>1, <2>2, <2>3, <2>4 DEF Logs!Append
  <2>5. CASE open[w] = "linked"
    <3>1. files[cur[w]] \in Nat /\ acked[cur[w]] \in Nat
      BY <2>1, <2>5
    <3>2. /\ acked' = [acked EXCEPT ![cur[w]] = acked[cur[w]] + 1]
          /\ files' = [files EXCEPT ![cur[w]] = files[cur[w]] + 1]
      BY <1>5, <2>5 DEF Logs!Append
    <3>3. LogTypeOK'
      BY <2>1, <3>1, <3>2
    <3>4. OpenFiles'
      BY <2>1, <2>2, <3>1, <3>2
    <3>5. ASSUME NEW d \in Logs!Days, Recent(d)'
          PROVE  (files[d] = acked[d] \/ (files[d] = None /\ acked[d] = 0))'
      <4>1. CASE d = cur[w]
        BY <1>0, <2>1, <2>2, <3>1, <3>2, <3>5, <4>1
      <4>2. CASE d # cur[w]
        BY <2>1, <2>2, <3>2, <3>5, <4>2
      <4> QED
        BY <4>1, <4>2
    <3> QED
      BY <2>3, <3>3, <3>4, <3>5
  <2>6. CASE open[w] \notin {"linked", "closed"}
    <3>1. ~Recent(cur[w])
      BY <1>0, <2>1, <2>6
    <3>2. acked' = [acked EXCEPT ![cur[w]] = acked[cur[w]] + 1] /\ files' = files
      BY <1>5, <2>6 DEF Logs!Append
    <3> QED
      BY <2>1, <2>2, <2>3, <3>1, <3>2
  <2> QED
    BY <2>4, <2>5, <2>6
<1>6. ASSUME NEW w \in Writers, Logs!CloseLog(w) PROVE LogInv'
  BY <1>6 DEF Logs!CloseLog
<1>7. ASSUME NEW days \in Windows \cup {None}, Logs!SetSetting(days) PROVE LogInv'
  BY <1>7 DEF Logs!SetSetting
<1>8. CASE Logs!ApplyLogRetention
  BY <1>8 DEF Logs!ApplyLogRetention, Logs!Reads
<1>9. CASE Logs!Restart
  BY <1>9 DEF Logs!Restart, Logs!Reads
<1>10. CASE Logs!NextDay
  <2>1. LogTypeOK'
    BY <1>10 DEF Logs!NextDay, Logs!Days
  <2>2. Counted'
    BY <1>10, <2>1 DEF Logs!NextDay, Logs!Days
  <2>3. OpenFiles'
    BY <1>10, <2>1 DEF Logs!NextDay, Logs!Days
  <2>4. FilesHold'
    BY <1>10, <2>1 DEF Logs!NextDay, Logs!Days
  <2>5. Logs!NoReplacedWindow'
    BY <1>10 DEF Logs!NextDay, Logs!Days
  <2> QED
    BY <2>1, <2>2, <2>3, <2>4, <2>5
<1>11. CASE UNCHANGED logvars
  BY <1>11 DEF logvars
<1> HIDE DEF LogInv
<1> QED
  BY <1>1, <1>2, <1>3, <1>4, <1>5, <1>6, <1>7, <1>8, <1>9, <1>10, <1>11
  DEF Logs!LogNext, Logs!Log, logvars, Logs!logvars

\* Every line written on a day that no window in force has passed is in the file of
\* that day, whichever of any number of loggers rotated meanwhile and however the clock
\* moved, and the loggers go by the window saved last or, where it could not be read, by
\* the configured one, never by one that was replaced (DailyFileWriter.Write,
\* removeExpiredLocked, applyLogRetention).
THEOREM LogFilesKeepRecent == MCSpec => []LogsFollowRetention
<1> DEFINE Inv == part = "logs" => LogInv
<1>1. MCInit => Inv
  BY LogInitial DEF MCInit
<1>2. Inv /\ [MCNext]_<<part, vars, logvars, davvars, pcvars>> => Inv'
  BY LogStep DEF MCNext
<1>3. Inv => LogsFollowRetention
  BY LogAssumption
  DEF LogsFollowRetention, LogInv, LogTypeOK, FilesHold, Recent, Logs!KeepsRecent
<1> QED
  BY <1>1, <1>2, <1>3, PTL DEF MCSpec

-----------------------------------------------------------------------------
(* DavFS.                                                                  *)

DavSteps == {"idle", "authorize", "send", "refresh", "answered", "failed", "refused"}

\* The types, and the limits that the loop of FS.do keeps.
DavCalls == [at : DavSteps, attempt : Nat, redirects : 0..MaxRedirects,
             refreshed : BOOLEAN, auth : Secrets \cup {None}]
DavTypeOK ==
    /\ accepted \in Secrets /\ store \in Secrets /\ credential \in Secrets \cup {None}
    /\ call \in [Callers -> DavCalls]
    /\ sends \in [Callers -> Nat]
    /\ steady = [c \in Callers |-> steady[c]]
    /\ \A c \in Callers : call[c].at # "idle" => call[c].attempt \in 1..MaxAttempts

\* What was sent so far has cost an attempt, a redirect or the refresh, except for
\* what is being decided now.
Spent(c) == call[c].attempt - 1 + call[c].redirects + (IF call[c].refreshed THEN 1 ELSE 0)
SendsPaid ==
    \A c \in Callers :
        /\ call[c].at \in {"authorize", "send"} => sends[c] <= Spent(c)
        /\ call[c].at = "refresh" => sends[c] <= Spent(c) + 1 /\ ~call[c].refreshed

\* While nobody has changed a password since the request began, the refresh is for a
\* stale credential and brings the right one, whoever asks the secret store.
RefreshHelps ==
    \A c \in Callers : steady[c] =>
        /\ accepted = store
        /\ call[c].at = "refresh" => call[c].auth # accepted
        /\ call[c].refreshed /\ call[c].at \in {"authorize", "send"} => credential = store
        /\ call[c].refreshed /\ call[c].at = "send" => call[c].auth = store

DavInv ==
    /\ DavTypeOK /\ SendsPaid /\ RefreshHelps
    /\ Dav!RefusedForACause /\ Dav!SendsAreBounded

LEMMA DavInitial == Dav!DavInit => DavInv
  BY DavAssumption
  DEF Dav!DavInit, DavInv, DavTypeOK, SendsPaid, Spent, RefreshHelps, DavSteps, DavCalls, Dav!Idle,
      Dav!RefusedForACause, Dav!SendsAreBounded

\* The requests that the steps of FS.do make of a request.
LEMMA DavBegun ==
    LET begun == [Dav!Idle EXCEPT !.at = "authorize", !.attempt = 1]
    IN /\ begun \in DavCalls
       /\ begun.at = "authorize" /\ begun.attempt = 1 /\ begun.redirects = 0
       /\ ~begun.refreshed
<1>1. Dav!Idle \in DavCalls /\ "authorize" \in DavSteps /\ 1 \in Nat
  BY DavAssumption DEF Dav!Idle, DavCalls, DavSteps
<1>2. [Dav!Idle EXCEPT !.at = "authorize", !.attempt = 1] \in DavCalls
  BY <1>1 DEF DavCalls
<1> QED
  BY <1>2 DEF Dav!Idle

LEMMA DavRedirected ==
    ASSUME NEW r \in DavCalls, NEW n \in 0..MaxRedirects, NEW s \in DavSteps
    PROVE  LET sent == [r EXCEPT !.redirects = n, !.at = s]
           IN /\ sent \in DavCalls /\ sent.at = s /\ sent.redirects = n
              /\ sent.attempt = r.attempt /\ sent.refreshed = r.refreshed
              /\ sent.auth = r.auth
  BY DEF DavCalls

LEMMA DavRetried ==
    ASSUME NEW r \in DavCalls, NEW n \in Nat, NEW s \in DavSteps
    PROVE  LET sent == [r EXCEPT !.attempt = n, !.at = s]
           IN /\ sent \in DavCalls /\ sent.at = s /\ sent.attempt = n
              /\ sent.redirects = r.redirects /\ sent.refreshed = r.refreshed
              /\ sent.auth = r.auth
  BY DEF DavCalls

LEMMA DavStep == DavInv /\ [Dav!DavNext]_davvars => DavInv'
<1> SUFFICES ASSUME DavInv, [Dav!DavNext]_davvars PROVE DavInv'
  OBVIOUS
<1> USE DavAssumption
    DEF DavInv, DavTypeOK, SendsPaid, Spent, RefreshHelps, DavSteps, DavCalls, Dav!Idle,
        Dav!RefusedForACause, Dav!SendsAreBounded
<1>1. ASSUME NEW c \in Callers, Dav!Do(c) PROVE DavInv'
  <2> DEFINE begun == [Dav!Idle EXCEPT !.at = "authorize", !.attempt = 1]
  <2>1. /\ begun \in DavCalls
        /\ begun.at = "authorize" /\ begun.attempt = 1 /\ begun.redirects = 0
        /\ ~begun.refreshed
    BY DavBegun
  <2>2. /\ call' = [call EXCEPT ![c] = begun]
        /\ sends' = [sends EXCEPT ![c] = 0]
        /\ UNCHANGED <<accepted, store, credential>>
        /\ steady' = [steady EXCEPT ![c] = accepted = store]
    BY <1>1 DEF Dav!Do
  <2> HIDE DEF begun
  <2>3. /\ call' \in [Callers -> DavCalls]
        /\ call'[c] = begun
        /\ \A d \in Callers \ {c} : call'[d] = call[d]
    <3> HIDE DEF DavCalls
    <3> QED BY <2>1, <2>2
  <2>4. /\ steady' = [d \in Callers |-> steady'[d]]
        /\ steady'[c] => accepted = store
        /\ \A d \in Callers \ {c} : steady'[d] = steady[d]
    BY <2>2
  <2>5. DavTypeOK'
    BY <2>1, <2>2, <2>3, <2>4
  <2>6. SendsPaid'
    BY <2>1, <2>2, <2>3, <2>4
  <2>7. RefreshHelps'
    BY <2>1, <2>2, <2>3, <2>4
  <2>8. Dav!RefusedForACause' /\ Dav!SendsAreBounded'
    BY <2>1, <2>2, <2>3, <2>4
  <2> QED
    BY <2>5, <2>6, <2>7, <2>8
<1>2. ASSUME NEW c \in Callers, Dav!Authorize(c) PROVE DavInv'
  BY <1>2 DEF Dav!Authorize
<1>2a. ASSUME NEW c \in Callers, Dav!Unresolved(c) PROVE DavInv'
  BY <1>2a DEF Dav!Unresolved
<1>3. ASSUME NEW c \in Callers, Dav!Answered(c) \/ Dav!Failed(c) PROVE DavInv'
  BY <1>3 DEF Dav!Answered, Dav!Failed, Dav!Send
<1>4. ASSUME NEW c \in Callers, Dav!Redirected(c) PROVE DavInv'
  <2>1. CASE call[c].redirects < MaxRedirects
    <3> DEFINE sent == [call[c] EXCEPT !.redirects = call[c].redirects + 1, !.at = "authorize"]
    <3>1. /\ call[c].at = "send"
          /\ call' = [call EXCEPT ![c] = sent]
          /\ sends' = [sends EXCEPT ![c] = @ + 1]
          /\ UNCHANGED <<accepted, store, credential, steady>>
      BY <1>4, <2>1 DEF Dav!Redirected, Dav!Send
    <3>2. /\ sent \in DavCalls /\ sent.at = "authorize" /\ sent.redirects = call[c].redirects + 1
          /\ sent.attempt = call[c].attempt /\ sent.refreshed = call[c].refreshed
          /\ sent.auth = call[c].auth
      <4>1. call[c] \in DavCalls /\ "authorize" \in DavSteps /\ call[c].redirects + 1 \in 0..MaxRedirects
        BY <2>1
      <4> QED
        BY <4>1, DavRedirected
    <3> HIDE DEF sent
    <3>3. /\ call' \in [Callers -> DavCalls]
          /\ call'[c] = sent
          /\ \A d \in Callers \ {c} : call'[d] = call[d]
      <4> HIDE DEF DavCalls
      <4> QED BY <3>1, <3>2
    <3>4. DavTypeOK'
      BY <2>1, <3>1, <3>2, <3>3
    <3>5. SendsPaid' /\ Dav!SendsAreBounded'
      BY <2>1, <3>1, <3>2, <3>3
    <3>6. RefreshHelps' /\ Dav!RefusedForACause'
      BY <3>1, <3>2, <3>3
    <3> QED
      BY <3>4, <3>5, <3>6
  <2>2. CASE ~(call[c].redirects < MaxRedirects)
    BY <1>4, <2>2 DEF Dav!Redirected, Dav!Send
  <2> QED
    BY <2>1, <2>2
<1>5. ASSUME NEW c \in Callers, Dav!Unauthorized(c) PROVE DavInv'
  BY <1>5 DEF Dav!Unauthorized, Dav!Send
<1>6. ASSUME NEW c \in Callers, Dav!Retried(c) PROVE DavInv'
  <2>1. CASE call[c].attempt # MaxAttempts
    <3> DEFINE sent == [call[c] EXCEPT !.attempt = call[c].attempt + 1, !.at = "authorize"]
    <3>1. /\ call[c].at = "send"
          /\ call' = [call EXCEPT ![c] = sent]
          /\ sends' = [sends EXCEPT ![c] = @ + 1]
          /\ UNCHANGED <<accepted, store, credential, steady>>
      BY <1>6, <2>1 DEF Dav!Retried, Dav!Send
    <3>2. /\ sent \in DavCalls /\ sent.at = "authorize" /\ sent.attempt = call[c].attempt + 1
          /\ sent.redirects = call[c].redirects /\ sent.refreshed = call[c].refreshed
          /\ sent.auth = call[c].auth
      <4>1. call[c] \in DavCalls /\ "authorize" \in DavSteps /\ call[c].attempt + 1 \in Nat
        BY <2>1
      <4> QED
        BY <4>1, DavRetried
    <3> HIDE DEF sent
    <3>3. /\ call' \in [Callers -> DavCalls]
          /\ call'[c] = sent
          /\ \A d \in Callers \ {c} : call'[d] = call[d]
      <4> HIDE DEF DavCalls
      <4> QED BY <3>1, <3>2
    <3>4. sent.attempt \in 1..MaxAttempts
      <4>1. call[c].attempt \in 1..MaxAttempts
        BY <3>1
      <4> QED
        BY <2>1, <3>2, <4>1
    <3>5. DavTypeOK'
      BY <3>1, <3>2, <3>3, <3>4
    <3>6. SendsPaid' /\ Dav!SendsAreBounded'
      BY <2>1, <3>1, <3>2, <3>3
    <3>7. RefreshHelps' /\ Dav!RefusedForACause'
      BY <3>1, <3>2, <3>3
    <3> QED
      BY <3>5, <3>6, <3>7
  <2>2. CASE call[c].attempt = MaxAttempts
    BY <1>6, <2>2 DEF Dav!Retried, Dav!Send
  <2> QED
    BY <2>1, <2>2
<1>7. ASSUME NEW c \in Callers, Dav!Refresh(c) PROVE DavInv'
  BY <1>7 DEF Dav!Refresh, Dav!Fresh
<1>8. CASE Dav!ChangePassword \/ Dav!SaveSecret
  BY <1>8 DEF Dav!ChangePassword, Dav!SaveSecret
<1>9. CASE UNCHANGED davvars
  BY <1>9 DEF davvars
<1> HIDE DEF DavInv
<1> QED
  BY <1>1, <1>2, <1>2a, <1>3, <1>4, <1>5, <1>6, <1>7, <1>8, <1>9 DEF Dav!DavNext, Dav!Request

\* A request ends in 401 only if a password changed while it was under way or the secret
\* store did not have the server's or did not answer it, and is sent a bounded number of
\* times, however callers, retries, redirects and refreshes of the shared credential
\* interleave (davfs FS.do).
THEOREM DavCredentialsFollow == MCSpec => []CredentialsFollow
<1> DEFINE Inv == part = "dav" => DavInv
<1>1. MCInit => Inv
  BY DavInitial DEF MCInit
<1>2. Inv /\ [MCNext]_<<part, vars, logvars, davvars, pcvars>> => Inv'
  BY DavStep DEF MCNext
<1>3. Inv => CredentialsFollow
  BY DEF CredentialsFollow, DavInv
<1> QED
  BY <1>1, <1>2, <1>3, PTL DEF MCSpec

-----------------------------------------------------------------------------
(* PCloudTree.                                                             *)

PCNodes == [id : FolderIds, at : Nat \cup {None}, full : BOOLEAN]
PCKids == [Names -> PCNodes \cup {None}]
PCTrees == [at : Nat, kids : PCKids]
PCFolders == [Names -> FolderIds \cup {None}]
PCSteps == {"idle", "lookup", "load", "relist", "read", "list", "done"}
PCWalks == [at : PCSteps, name : Names \cup {Root}, node : PCNodes \cup {None},
            todo : SUBSET Names, found : [Names -> BOOLEAN \cup {None}], quiet : BOOLEAN]

PCTypes ==
    /\ clock \in Nat /\ changed \in Nat /\ changed <= clock
    /\ folder \in PCFolders
    /\ tree \in PCTrees \cup {None}
    /\ walk \in [Walkers -> PCWalks]

\* A listing of this date was made after the last change, however long it took.
Since(when) == when \in Nat /\ when > changed + Latency

\* A node is dated in the past, and is right while no change could have come after it.
NodeHolds(n) ==
    /\ n.at \in Nat => n.at <= clock
    /\ Since(n.at) => n.full = (n.id \in full)

SameFolders(kids) ==
    \A n \in Names : /\ (kids[n] = None) = (folder[n] = None)
                     /\ kids[n] # None => kids[n].id = folder[n]

TreeHolds ==
    tree # None => /\ tree.at <= clock
                   /\ \A n \in Names : tree.kids[n] # None => NodeHolds(tree.kids[n])
                   /\ Since(tree.at) => SameFolders(tree.kids)

\* The listing under way: it is no older than Latency, and if nothing changed since it
\* was made it is what pCloud has.
ReplyIs(w) ==
    LET k == walk[w]
        current == reply.began > changed
    IN  k.at \in {"load", "relist", "list"} =>
            /\ mu = w
            /\ reply.began \in Nat /\ reply.began <= clock /\ clock <= reply.began + Latency
            /\ k.at = "load" =>
                  /\ reply \in [began : Nat, kids : PCKids]
                  /\ current => /\ SameFolders(reply.kids)
                                /\ \A n \in Names : reply.kids[n] # None =>
                                      reply.kids[n].full = (folder[n] \in full)
            /\ k.at = "relist" \/ (k.at = "list" /\ k.name = Root) =>
                  /\ reply \in [began : Nat, kids : PCFolders]
                  /\ current => reply.kids = folder
            /\ k.at = "list" /\ k.name # Root =>
                  /\ reply \in [began : Nat, full : BOOLEAN]
                  /\ current => reply.full = (PCloud!Node(w).id \in full)

\* What a walk has at each step.
WalkHas(w) ==
    LET k == walk[w] IN
    /\ k.at = "load" => tree = None
    /\ k.at \in {"relist", "read", "list"} => tree # None
    /\ k.at = "relist" => k.name # Root
    /\ k.at \in {"lookup", "load", "relist"} => k.node = None
    /\ k.at \in {"read", "list"} /\ k.name # Root /\ k.node = None => tree.kids[k.name] # None
    /\ k.node # None => NodeHolds(k.node)

\* What a walk has found by the time that T is left to read.
FoundBut(T) == [n \in Names |-> IF folder[n] = None \/ n \in T THEN None ELSE folder[n] \in full]

\* An undisturbed walk goes by a root listed since the last change, and so far has found
\* what is there.
QuietWalk(w) ==
    LET k == walk[w] IN
    k.quiet =>
        /\ clock > changed + MaxAge + Latency
        /\ k.name # Root =>
              /\ tree # None /\ Since(tree.at)
              /\ k.node # None => k.node.id = folder[k.name]
              /\ \A n \in k.todo \cup {k.name} : folder[n] # None
              /\ k.name \notin k.todo
              /\ k.found = FoundBut(k.todo \cup {k.name})
        /\ k.at = "done" => k.found = FoundBut({})
        /\ k.at \notin {"idle", "done"} /\ k.name = Root => k.found = FoundBut(Names)

WalkHolds(w) == ReplyIs(w) /\ WalkHas(w) /\ QuietWalk(w)
PCInv == PCTypes /\ TreeHolds /\ \A w \in Walkers : WalkHolds(w)

\* None is none of the values it is told from.
LEMMA PCApart ==
    /\ MaxAge \in Nat /\ Latency \in Nat /\ Root \notin Names
    /\ None \notin Nat /\ None \notin FolderIds /\ None \notin Walkers /\ None \notin PCNodes
    /\ None \notin PCTrees /\ None \notin [began : Nat, kids : PCKids]
    /\ None \notin [began : Nat, kids : PCFolders] /\ None \notin [began : Nat, full : BOOLEAN]
BY PCloudAssumption DEF PCNodes, PCTrees, PCKids, PCFolders

LEMMA PCWalkTyped == ASSUME PCTypes, NEW w \in Walkers PROVE walk[w] \in PCWalks
BY DEF PCTypes

\* A step of one walk that touches neither the tree nor another walk's listing.
LEMMA PCStill ==
    ASSUME PCInv, NEW w \in Walkers, NEW k \in PCWalks, walk' = [walk EXCEPT ![w] = k],
           UNCHANGED <<clock, folder, full, changed, tree>>,
           mu \in {None, w} \/ UNCHANGED <<mu, reply>>, WalkHolds(w)'
    PROVE  PCInv'
<1>1. PCTypes' /\ TreeHolds'
  BY DEF PCInv, PCTypes, TreeHolds, NodeHolds, SameFolders, Since
<1>2. ASSUME NEW v \in Walkers, v # w PROVE WalkHolds(v)'
  <2>1. walk'[v] = walk[v] /\ WalkHolds(v)
    BY <1>2 DEF PCInv, PCTypes
  <2>2. ReplyIs(v)'
    <3>1. CASE UNCHANGED <<mu, reply>>
      BY <2>1, <3>1 DEF WalkHolds, ReplyIs, SameFolders, PCloud!Node, PCloud!Attached
    <3>2. CASE mu \in {None, w}
      BY <1>2, <2>1, <3>2, PCApart DEF WalkHolds, ReplyIs
    <3> QED
      BY <3>1, <3>2
  <2>3. WalkHas(v)' /\ QuietWalk(v)'
    BY <2>1 DEF WalkHolds, WalkHas, QuietWalk, NodeHolds, Since, FoundBut
  <2> QED
    BY <2>2, <2>3 DEF WalkHolds
<1> QED
  BY <1>1, <1>2 DEF PCInv

LEMMA PCIdle == PCloud!Idle \in PCWalks /\ PCloud!Idle.at = "idle" /\ PCloud!Idle.name = Root
                /\ PCloud!Idle.node = None /\ ~PCloud!Idle.quiet
BY DEF PCloud!Idle, PCWalks, PCSteps

LEMMA PCIdleHolds == ASSUME NEW w \in Walkers, walk'[w] = PCloud!Idle PROVE WalkHolds(w)'
BY PCIdle DEF WalkHolds, ReplyIs, WalkHas, QuietWalk

LEMMA PCInitial == PCloud!PCInit => PCInv
<1> SUFFICES ASSUME PCloud!PCInit PROVE PCInv
  OBVIOUS
<1>1. PCTypes /\ TreeHolds
  BY PCIdle DEF PCloud!PCInit, PCTypes, TreeHolds, PCFolders
<1>2. ASSUME NEW w \in Walkers PROVE WalkHolds(w)
  BY PCIdle DEF PCloud!PCInit, WalkHolds, ReplyIs, WalkHas, QuietWalk
<1> QED
  BY <1>1, <1>2 DEF PCInv

LEMMA PCFirst ==
    ASSUME NEW q \in BOOLEAN, NEW k, k = [PCloud!Idle EXCEPT !.at = "lookup", !.quiet = q]
    PROVE  /\ k \in PCWalks /\ k.at = "lookup" /\ k.name = Root /\ k.node = None /\ k.quiet = q
           /\ k.found = [n \in Names |-> None]
BY DEF PCloud!Idle, PCWalks, PCSteps

LEMMA PCBegin == ASSUME PCInv, NEW w \in Walkers, PCloud!Begin(w) PROVE PCInv'
<1> DEFINE q == clock > changed + MaxAge + Latency
           k == [PCloud!Idle EXCEPT !.at = "lookup", !.quiet = q]
<1>0. q \in BOOLEAN
  OBVIOUS
<1>2. walk' = [walk EXCEPT ![w] = k] /\ UNCHANGED <<clock, folder, full, changed, tree, mu, reply>>
  BY DEF PCloud!Begin, PCloud!remote
<1>1. /\ k \in PCWalks /\ k.at = "lookup" /\ k.name = Root /\ k.node = None /\ k.quiet = q
      /\ k.found = [n \in Names |-> None]
  <2> HIDE DEF q
  <2> QED
    BY <1>0, PCFirst
<1> HIDE DEF k
<1>3. walk'[w] = k
  BY <1>2 DEF PCInv, PCTypes
<1>4. FoundBut(Names)' = [n \in Names |-> None]
  BY DEF FoundBut
<1>5. WalkHolds(w)'
  BY <1>1, <1>2, <1>3, <1>4 DEF WalkHolds, ReplyIs, WalkHas, QuietWalk
<1> QED
  BY <1>1, <1>2, <1>5, PCStill

\* The walk w goes on as k, with T left to read, and the others as ws has them.
GoesOn(w, T, f, ws, k) ==
    /\ walk' = [ws EXCEPT ![w] = k]
    /\ k.node = None /\ k.found = f /\ k.quiet = walk[w].quiet
    /\ \/ T = {} /\ k.at = "done" /\ k.name = Root
       \/ k.at = "lookup" /\ k.name \in T /\ k.todo = T \ {k.name}

\* The step to the next folder, or to the end of the walk.
LEMMA PCOnward ==
    ASSUME PCTypes, NEW w \in Walkers, NEW T \in SUBSET Names,
           NEW f \in [Names -> BOOLEAN \cup {None}], NEW ws, PCloud!Onward(w, T, f, ws)
    PROVE  \E k \in PCWalks : GoesOn(w, T, f, ws, k)
<1> DEFINE next == [PCloud!Idle EXCEPT !.found = f, !.quiet = walk[w].quiet]
<1>1. walk[w].quiet \in BOOLEAN
  BY PCWalkTyped DEF PCWalks
<1>2. /\ next \in PCWalks /\ next.name = Root /\ next.node = None /\ next.todo = {}
      /\ next.found = f /\ next.quiet = walk[w].quiet
  <2> DEFINE q == walk[w].quiet
  <2>1. q \in BOOLEAN /\ next = [PCloud!Idle EXCEPT !.found = f, !.quiet = q]
    BY <1>1
  <2> HIDE DEF q, next
  <2>2. /\ next \in PCWalks /\ next.name = Root /\ next.node = None /\ next.todo = {}
        /\ next.found = f /\ next.quiet = q
    BY <2>1 DEF PCloud!Idle, PCWalks, PCSteps
  <2> QED
    BY <2>2 DEF q
<1> HIDE DEF next
<1>3. CASE T = {} /\ walk' = [ws EXCEPT ![w] = [next EXCEPT !.at = "done"]]
  <2> DEFINE k == [next EXCEPT !.at = "done"]
  <2>1. /\ k \in PCWalks /\ k.node = None /\ k.found = f /\ k.quiet = walk[w].quiet
        /\ k.at = "done" /\ k.name = Root
    BY <1>1, <1>2 DEF PCWalks, PCSteps
  <2>2. GoesOn(w, T, f, ws, k)
    BY <1>3, <2>1 DEF GoesOn
  <2> QED
    BY <2>1, <2>2
<1>4. ASSUME NEW n \in T,
             walk' = [ws EXCEPT ![w] = [next EXCEPT !.at = "lookup", !.name = n, !.todo = T \ {n}]]
      PROVE  \E k \in PCWalks : GoesOn(w, T, f, ws, k)
  <2> DEFINE k == [next EXCEPT !.at = "lookup", !.name = n, !.todo = T \ {n}]
  <2>1. /\ k \in PCWalks /\ k.node = None /\ k.found = f /\ k.quiet = walk[w].quiet
        /\ k.at = "lookup" /\ k.name = n /\ k.todo = T \ {n}
    BY <1>1, <1>2 DEF PCWalks, PCSteps
  <2>2. GoesOn(w, T, f, ws, k)
    BY <1>4, <2>1 DEF GoesOn
  <2> QED
    BY <2>1, <2>2
<1> QED
  BY <1>3, <1>4 DEF PCloud!Onward, next

\* It keeps what is said of the walk, if what is left is right.
LEMMA PCOnwardHolds ==
    ASSUME NEW w \in Walkers, NEW T \in SUBSET Names, NEW k \in PCWalks, walk'[w] = k,
           k.node = None,
           \/ T = {} /\ k.at = "done" /\ k.name = Root
           \/ k.at = "lookup" /\ k.name \in T /\ k.todo = T \ {k.name},
           k.quiet => /\ (clock > changed + MaxAge + Latency)'
                      /\ tree' # None /\ Since(tree.at)'
                      /\ \A n \in T : folder'[n] # None
                      /\ k.found = FoundBut(T)'
    PROVE  WalkHolds(w)'
<1>1. ReplyIs(w)' /\ WalkHas(w)'
  BY DEF ReplyIs, WalkHas
<1>2. CASE T = {} /\ k.at = "done" /\ k.name = Root
  BY <1>1, <1>2 DEF WalkHolds, QuietWalk
<1>3. CASE k.at = "lookup" /\ k.name \in T /\ k.todo = T \ {k.name}
  <2>1. k.todo \cup {k.name} = T /\ k.name # Root
    BY <1>3, PCApart
  <2> QED
    BY <1>1, <1>3, <2>1 DEF WalkHolds, QuietWalk
<1> QED
  BY <1>2, <1>3

\* A listing that is not old was made since the last change, for a walk that is quiet.
LEMMA PCYoung ==
    ASSUME PCInv, NEW w \in Walkers, walk[w].quiet, NEW n, n.at \in Nat \cup {None}, ~PCloud!Stale(n)
    PROVE  Since(n.at)
<1>1. n.at # None /\ ~(clock - n.at > MaxAge) /\ clock > changed + MaxAge + Latency
  BY DEF PCloud!Stale, PCInv, WalkHolds, QuietWalk
<1> QED
  BY <1>1, PCApart DEF PCInv, PCTypes, Since

\* The node that a walk reads.
LEMMA PCNodeHolds ==
    ASSUME PCInv, NEW w \in Walkers, walk[w].at \in {"read", "list"}, walk[w].name # Root
    PROVE  /\ PCloud!Node(w) \in PCNodes /\ NodeHolds(PCloud!Node(w))
           /\ walk[w].quiet => PCloud!Node(w).id = folder[walk[w].name]
<1>1. walk[w] \in PCWalks /\ walk[w].name \in Names
  BY PCWalkTyped DEF PCInv, PCWalks
<1>2. CASE walk[w].node = None
  <2>1. tree \in PCTrees /\ tree.kids[walk[w].name] # None
    BY <1>2, PCApart DEF PCInv, PCTypes, WalkHolds, WalkHas
  <2>2. tree.kids[walk[w].name] \in PCNodes
    BY <1>1, <2>1 DEF PCTrees, PCKids
  <2>3. walk[w].quiet => SameFolders(tree.kids)
    BY DEF PCInv, WalkHolds, QuietWalk, TreeHolds
  <2> QED
    BY <1>1, <1>2, <2>1, <2>2, <2>3, PCApart
    DEF PCInv, TreeHolds, SameFolders, PCloud!Node, PCloud!Attached
<1>3. CASE walk[w].node # None
  BY <1>1, <1>3 DEF PCWalks, PCInv, WalkHolds, WalkHas, QuietWalk, PCloud!Node, PCloud!Attached
<1> QED
  BY <1>2, <1>3

\* A walk goes on to another step with the rest as it was.
LEMMA PCStepTyped ==
    ASSUME NEW k \in PCWalks, NEW s \in PCSteps, NEW j, j = [k EXCEPT !.at = s]
    PROVE  /\ j \in PCWalks /\ j.at = s /\ j.name = k.name /\ j.node = k.node
           /\ j.todo = k.todo /\ j.found = k.found /\ j.quiet = k.quiet
BY DEF PCWalks

LEMMA PCNodeTyped ==
    ASSUME NEW i \in FolderIds, NEW d \in Nat \cup {None}, NEW b \in BOOLEAN, NEW x,
           x = [id |-> i, at |-> d, full |-> b]
    PROVE  x \in PCNodes /\ x # None /\ x.id = i /\ x.at = d /\ x.full = b
<1>1. x \in PCNodes /\ x.id = i /\ x.at = d /\ x.full = b
  BY DEF PCNodes
<1> QED
  BY <1>1, PCApart

\* A request is sent with mu free: what it brings is what pCloud has now.
LEMMA PCFetch ==
    ASSUME PCInv, NEW w \in Walkers, mu = None, NEW s \in {"load", "relist", "list"}, NEW r,
           PCloud!Fetch(w, s, r), r.began = clock,
           walk[w].at \in {"lookup", "read"}, s \in {"load", "relist"} => walk[w].node = None,
           s = "load" => /\ tree = None /\ r = [began |-> clock, kids |-> PCloud!Whole],
           s = "relist" => /\ tree # None /\ walk[w].name # Root /\ r = PCloud!RootReply,
           s = "list" => /\ walk[w].at = "read"
                         /\ walk[w].name = Root => r = PCloud!RootReply
                         /\ walk[w].name # Root =>
                               r = [began |-> clock, full |-> PCloud!Node(w).id \in full]
    PROVE  PCInv'
<1> DEFINE k == [walk[w] EXCEPT !.at = s]
<1>1. /\ walk' = [walk EXCEPT ![w] = k] /\ mu' = w /\ reply' = r
      /\ UNCHANGED <<clock, folder, full, changed, tree>>
  BY DEF PCloud!Fetch, PCloud!Step, PCloud!remote
<1>2. /\ k \in PCWalks /\ k.at = s /\ k.name = walk[w].name /\ k.node = walk[w].node
      /\ k.todo = walk[w].todo /\ k.found = walk[w].found /\ k.quiet = walk[w].quiet
  <2>1. walk[w] \in PCWalks /\ s \in PCSteps /\ k = [walk[w] EXCEPT !.at = s]
    BY PCWalkTyped DEF PCInv, PCSteps
  <2> HIDE DEF k
  <2> QED
    BY <2>1, PCStepTyped
<1> HIDE DEF k
<1>3. walk'[w] = k /\ WalkHolds(w) /\ PCTypes
  BY <1>1 DEF PCInv, PCTypes
<1>4. WalkHas(w)'
  BY <1>1, <1>2, <1>3 DEF WalkHolds, WalkHas, NodeHolds, Since
<1>5. QuietWalk(w)'
  BY <1>1, <1>2, <1>3 DEF WalkHolds, QuietWalk, Since, FoundBut
<1>6. ReplyIs(w)'
  <2>1. clock \in Nat /\ clock <= clock + Latency /\ folder \in PCFolders
    BY <1>3, PCApart DEF PCTypes
  <2>2. CASE s = "load"
    <3> DEFINE kids == PCloud!Whole
    <3>1. r = [began |-> clock, kids |-> kids]
      BY <2>2
    <3>2. \A n \in Names :
              /\ kids[n] = IF folder[n] = None THEN None
                           ELSE [id |-> folder[n], at |-> clock, full |-> folder[n] \in full]
              /\ folder[n] \in FolderIds \cup {None}
      BY <2>1 DEF PCloud!Whole, PCFolders
    <3>3. ASSUME NEW n \in Names, folder[n] # None
          PROVE  /\ kids[n] \in PCNodes /\ kids[n] # None /\ kids[n].id = folder[n]
                 /\ kids[n].full = (folder[n] \in full)
      <4> DEFINE b == folder[n] \in full
      <4>1. b \in BOOLEAN /\ kids[n] = [id |-> folder[n], at |-> clock, full |-> b]
        BY <3>2, <3>3
      <4> HIDE DEF b, kids
      <4>2. folder[n] \in FolderIds /\ clock \in Nat \cup {None}
        BY <2>1, <3>2, <3>3
      <4>3. kids[n] \in PCNodes /\ kids[n] # None /\ kids[n].id = folder[n] /\ kids[n].full = b
        BY <4>1, <4>2, PCNodeTyped
      <4> QED
        BY <4>3 DEF b
    <3>4. kids \in PCKids
      <4>1. \A n \in Names : kids[n] \in PCNodes \cup {None}
        BY <3>2, <3>3
      <4> QED
        BY <4>1 DEF PCKids, PCloud!Whole
    <3>5. SameFolders(kids)
      BY <3>2, <3>3 DEF SameFolders
    <3> HIDE DEF kids
    <3>6. r \in [began : Nat, kids : PCKids] /\ r.kids = kids
      BY <2>1, <3>1, <3>4
    <3> QED
      BY <1>1, <1>2, <1>3, <2>1, <2>2, <3>3, <3>5, <3>6 DEF ReplyIs, SameFolders
  <2>3. CASE s = "relist" \/ (s = "list" /\ walk[w].name = Root)
    <3>1. r = [began |-> clock, kids |-> folder]
      BY <2>3 DEF PCloud!RootReply
    <3>2. r \in [began : Nat, kids : PCFolders] /\ r.kids = folder
      BY <2>1, <3>1
    <3> QED
      BY <1>1, <1>2, <1>3, <2>1, <2>3, <3>2 DEF ReplyIs
  <2>4. CASE s = "list" /\ walk[w].name # Root
    <3>1. PCloud!Node(w)' = PCloud!Node(w)
      BY <1>1, <1>2, <1>3 DEF PCloud!Node, PCloud!Attached
    <3> DEFINE b == PCloud!Node(w).id \in full
    <3>2. b \in BOOLEAN /\ r = [began |-> clock, full |-> b]
      BY <2>4
    <3> HIDE DEF b
    <3>3. r \in [began : Nat, full : BOOLEAN] /\ r.full = b
      BY <2>1, <3>2
    <3> QED
      BY <1>1, <1>2, <1>3, <2>1, <2>4, <3>1, <3>3 DEF ReplyIs, b
  <2> QED
    BY <2>2, <2>3, <2>4
<1> QED
  BY <1>1, <1>2, <1>4, <1>5, <1>6, PCStill DEF WalkHolds

LEMMA PCLookup == ASSUME PCInv, NEW w \in Walkers, PCloud!Lookup(w) PROVE PCInv'
<1> DEFINE k == [walk[w] EXCEPT !.at = "read"]
<1>1. /\ walk[w] \in PCWalks /\ walk[w].at = "lookup" /\ mu = None /\ walk[w].node = None
      /\ WalkHolds(w) /\ PCTypes
  BY PCWalkTyped DEF PCloud!Lookup, PCInv, WalkHolds, WalkHas
<1>2. CASE tree = None
  <2>1. PCloud!Fetch(w, "load", [began |-> clock, kids |-> PCloud!Whole])
    BY <1>2 DEF PCloud!Lookup
  <2> QED
    BY <1>1, <1>2, <2>1, PCFetch
<1>3. ASSUME tree # None, walk' = [walk EXCEPT ![w] = k],
             UNCHANGED <<clock, folder, full, changed, tree, mu, reply>>,
             walk[w].name # Root => tree.kids[walk[w].name] # None
      PROVE  PCInv'
  <2>1. /\ k \in PCWalks /\ k.at = "read" /\ k.name = walk[w].name /\ k.node = None
        /\ k.todo = walk[w].todo /\ k.found = walk[w].found /\ k.quiet = walk[w].quiet
    <3>1. k = [walk[w] EXCEPT !.at = "read"] /\ "read" \in PCSteps
      BY DEF PCSteps
    <3> HIDE DEF k
    <3> QED
      BY <1>1, <3>1, PCStepTyped
  <2> HIDE DEF k
  <2>2. walk'[w] = k
    BY <1>1, <1>3 DEF PCTypes
  <2>3. ReplyIs(w)' /\ WalkHas(w)'
    BY <1>3, <2>1, <2>2 DEF ReplyIs, WalkHas
  <2>4. QuietWalk(w)'
    BY <1>1, <1>3, <2>1, <2>2 DEF WalkHolds, QuietWalk, Since, FoundBut
  <2> QED
    BY <1>3, <2>1, <2>3, <2>4, PCStill DEF WalkHolds
<1>4. CASE tree # None /\ walk[w].name = Root
  BY <1>3, <1>4 DEF PCloud!Lookup, PCloud!Step, PCloud!remote
<1>5. CASE /\ tree # None /\ walk[w].name # Root
           /\ tree.kids[walk[w].name] = None /\ PCloud!Stale(tree)
  <2>1. PCloud!Fetch(w, "relist", PCloud!RootReply)
    BY <1>5 DEF PCloud!Lookup
  <2>2. PCloud!RootReply.began = clock
    BY DEF PCloud!RootReply
  <2> QED
    BY <1>1, <1>5, <2>1, <2>2, PCFetch
<1>6. CASE /\ tree # None /\ walk[w].name # Root
           /\ ~(tree.kids[walk[w].name] = None /\ PCloud!Stale(tree))
  <2>1. /\ walk' = PCloud!Found(w, tree.kids, walk)
        /\ UNCHANGED <<clock, folder, full, changed, tree, mu, reply>>
    BY <1>6 DEF PCloud!Lookup, PCloud!remote
  <2>2. CASE tree.kids[walk[w].name] = None
    <3>1. walk' = [walk EXCEPT ![w] = PCloud!Idle]
      BY <1>1, <2>1, <2>2 DEF PCloud!Found, PCTypes
    <3>2. walk'[w] = PCloud!Idle
      BY <1>1, <3>1 DEF PCTypes
    <3> QED
      BY <1>1, <2>1, <3>1, <3>2, PCIdle, PCIdleHolds, PCStill
  <2>3. CASE tree.kids[walk[w].name] # None
    <3>1. walk' = [walk EXCEPT ![w] = k]
      BY <1>1, <2>1, <2>3 DEF PCloud!Found, PCTypes
    <3> QED
      BY <1>3, <1>6, <2>1, <2>3, <3>1
  <2> QED
    BY <2>2, <2>3
<1> QED
  BY <1>2, <1>4, <1>5, <1>6

\* What reading the root and reading a folder leave to read.
LEMMA PCRootRead ==
    ASSUME PCInv, NEW w \in Walkers, walk[w].at \in {"read", "list"}, walk[w].name = Root,
           walk[w].quiet, NEW T, T = {n \in Names : folder[n] # None}
    PROVE  walk[w].found = FoundBut(T)
<1>1. walk[w].found = FoundBut(Names)
  BY DEF PCInv, WalkHolds, QuietWalk
<1>2. FoundBut(Names) = FoundBut(T)
  BY DEF FoundBut
<1> QED
  BY <1>1, <1>2

LEMMA PCFolderRead ==
    ASSUME PCInv, NEW w \in Walkers, walk[w].at \in {"read", "list"}, walk[w].name # Root,
           walk[w].quiet, NEW b, b = (folder[walk[w].name] \in full)
    PROVE  [walk[w].found EXCEPT ![walk[w].name] = b] = FoundBut(walk[w].todo)
<1> DEFINE k == walk[w]
<1>1. /\ k.found = FoundBut(k.todo \cup {k.name}) /\ k.name \notin k.todo
      /\ folder[k.name] # None /\ k.name \in Names
  BY PCWalkTyped DEF PCInv, WalkHolds, QuietWalk, PCWalks
<1> HIDE DEF k
<1>2. [k.found EXCEPT ![k.name] = b]
        = [n \in Names |-> IF n = k.name THEN b ELSE FoundBut(k.todo \cup {k.name})[n]]
  BY <1>1 DEF FoundBut
<1>3. \A n \in Names : (IF n = k.name THEN b ELSE FoundBut(k.todo \cup {k.name})[n])
                         = IF folder[n] = None \/ n \in k.todo THEN None ELSE folder[n] \in full
  BY <1>1 DEF FoundBut, k
<1> QED
  BY <1>2, <1>3 DEF FoundBut, k

\* A folder that has been read is put down with what its listing says.
LEMMA PCFoundTyped ==
    ASSUME PCInv, NEW w \in Walkers, NEW b \in BOOLEAN
    PROVE  [walk[w].found EXCEPT ![walk[w].name] = b] \in [Names -> BOOLEAN \cup {None}]
BY PCWalkTyped DEF PCInv, PCWalks

LEMMA PCReadDir == ASSUME PCInv, NEW w \in Walkers, PCloud!ReadDir(w) PROVE PCInv'
<1>1. /\ walk[w] \in PCWalks /\ walk[w].at = "read" /\ mu = None /\ WalkHolds(w) /\ PCTypes
      /\ UNCHANGED <<clock, folder, full, changed, tree, mu, reply>>
  BY PCWalkTyped DEF PCloud!ReadDir, PCloud!remote, PCInv
<1>2. tree \in PCTrees /\ tree # None
  BY <1>1 DEF PCTypes, WalkHolds, WalkHas
<1>3. ASSUME NEW T \in SUBSET Names, NEW f \in [Names -> BOOLEAN \cup {None}],
             PCloud!Onward(w, T, f, walk),
             walk[w].quiet => /\ Since(tree.at) /\ \A n \in T : folder[n] # None
                              /\ f = FoundBut(T)
      PROVE  PCInv'
  <2>1. PICK k \in PCWalks : GoesOn(w, T, f, walk, k)
    BY <1>1, <1>3, PCOnward
  <2> USE DEF GoesOn
  <2>2. walk'[w] = k
    BY <1>1, <2>1 DEF PCTypes
  <2>3. k.quiet => /\ (clock > changed + MaxAge + Latency)'
                   /\ tree' # None /\ Since(tree.at)'
                   /\ \A n \in T : folder'[n] # None
                   /\ k.found = FoundBut(T)'
    BY <1>1, <1>2, <1>3, <2>1 DEF WalkHolds, QuietWalk, Since, FoundBut
  <2>4. WalkHolds(w)'
    BY <2>1, <2>2, <2>3, PCOnwardHolds
  <2> QED
    BY <1>1, <2>1, <2>4, PCStill
<1>4. CASE walk[w].name = Root
  <2> DEFINE T == {n \in Names : tree.kids[n] # None}
  <2>1. ~PCloud!Stale(tree) /\ PCloud!Onward(w, T, walk[w].found, walk)
    BY <1>4 DEF PCloud!ReadDir, PCloud!OnwardFromRoot
  <2>2. walk[w].found \in [Names -> BOOLEAN \cup {None}] /\ tree.at \in Nat \cup {None}
    BY <1>1, <1>2 DEF PCWalks, PCTrees
  <2>3. ASSUME walk[w].quiet
        PROVE  Since(tree.at) /\ (\A n \in T : folder[n] # None) /\ walk[w].found = FoundBut(T)
    <3>1. Since(tree.at)
      BY <2>1, <2>2, <2>3, PCYoung
    <3>2. SameFolders(tree.kids)
      BY <1>2, <3>1 DEF PCInv, TreeHolds
    <3>3. T = {n \in Names : folder[n] # None}
      BY <3>2 DEF SameFolders
    <3>4. walk[w].found = FoundBut(T)
      BY <1>1, <1>4, <2>3, <3>3, PCRootRead
    <3> QED
      BY <3>1, <3>3, <3>4
  <2> HIDE DEF T
  <2>4. T \in SUBSET Names
    BY DEF T
  <2> QED
    BY <1>3, <2>1, <2>2, <2>3, <2>4
<1>5. CASE walk[w].name # Root
  <2> DEFINE node == PCloud!Node(w)
             f == [walk[w].found EXCEPT ![walk[w].name] = node.full]
  <2>1. ~PCloud!Stale(node) /\ PCloud!Onward(w, walk[w].todo, f, walk)
    BY <1>5 DEF PCloud!ReadDir, PCloud!OnwardFrom
  <2>2. /\ node \in PCNodes /\ NodeHolds(node)
        /\ walk[w].quiet => node.id = folder[walk[w].name]
    BY <1>1, <1>5, PCNodeHolds
  <2> HIDE DEF node
  <2>3. node.at \in Nat \cup {None} /\ node.full \in BOOLEAN /\ walk[w].todo \in SUBSET Names
    BY <1>1, <2>2 DEF PCNodes, PCWalks
  <2>4. f \in [Names -> BOOLEAN \cup {None}]
    BY <2>3, PCFoundTyped
  <2>5. ASSUME walk[w].quiet
        PROVE  /\ Since(tree.at) /\ \A n \in walk[w].todo : folder[n] # None
               /\ f = FoundBut(walk[w].todo)
    <3>1. Since(node.at)
      BY <2>1, <2>3, <2>5, PCYoung
    <3>2. node.full = (folder[walk[w].name] \in full)
      BY <2>2, <2>5, <3>1 DEF NodeHolds
    <3>3. f = FoundBut(walk[w].todo)
      BY <1>1, <1>5, <2>5, <3>2, PCFolderRead
    <3> QED
      BY <1>1, <1>5, <2>5, <3>3 DEF WalkHolds, QuietWalk
  <2> HIDE DEF f
  <2> QED
    BY <1>3, <2>1, <2>3, <2>4, <2>5
<1> QED
  BY <1>4, <1>5

LEMMA PCReadStale == ASSUME PCInv, NEW w \in Walkers, PCloud!ReadStale(w) PROVE PCInv'
<1>1. walk[w].at = "read" /\ mu = None
  BY DEF PCloud!ReadStale
<1>2. CASE walk[w].name = Root
  <2>1. PCloud!Fetch(w, "list", PCloud!RootReply) /\ PCloud!RootReply.began = clock
    BY <1>2 DEF PCloud!ReadStale, PCloud!RootReply
  <2> QED
    BY <1>1, <1>2, <2>1, PCFetch
<1>3. CASE walk[w].name # Root
  <2>1. PCloud!Fetch(w, "list", [began |-> clock, full |-> PCloud!Node(w).id \in full])
    BY <1>3 DEF PCloud!ReadStale
  <2> QED
    BY <1>1, <1>3, <2>1, PCFetch
<1> QED
  BY <1>2, <1>3

LEMMA PCListFails == ASSUME PCInv, NEW w \in Walkers, PCloud!ListFails(w) PROVE PCInv'
<1>1. /\ walk' = [walk EXCEPT ![w] = PCloud!Idle]
      /\ UNCHANGED <<clock, folder, full, changed, tree>>
  BY DEF PCloud!ListFails, PCloud!Fail, PCloud!remote
<1>2. mu \in {None, w}
  BY DEF PCloud!ListFails, PCInv, WalkHolds, ReplyIs
<1>3. walk'[w] = PCloud!Idle
  BY <1>1 DEF PCInv, PCTypes
<1> QED
  BY <1>1, <1>2, <1>3, PCIdle, PCIdleHolds, PCStill

\* The root listed again: the folders that are there, each with the node it had.
LEMMA PCRelisted ==
    ASSUME PCInv, tree # None, reply \in [began : Nat, kids : PCFolders],
           clock <= reply.began + Latency, reply.began > changed => reply.kids = folder,
           tree' = [at |-> clock, kids |-> PCloud!SetChildren(tree.kids)],
           UNCHANGED <<clock, folder, full, changed>>
    PROVE  /\ tree' \in PCTrees /\ tree'.at = clock /\ tree'.kids = PCloud!SetChildren(tree.kids)
           /\ TreeHolds'
<1> DEFINE old == tree.kids
           kids == PCloud!SetChildren(old)
<1>1. /\ clock \in Nat /\ changed \in Nat /\ tree \in PCTrees /\ reply.kids \in PCFolders
      /\ reply.began \in Nat
  BY DEF PCInv, PCTypes
<1>2. old \in PCKids
  BY <1>1 DEF PCTrees
<1>3. \A n \in Names :
          kids[n] = IF reply.kids[n] = None THEN None
                    ELSE IF old[n] # None /\ old[n].id = reply.kids[n] THEN old[n]
                    ELSE PCloud!Unlisted(reply.kids[n])
  BY DEF PCloud!SetChildren
<1>4. ASSUME NEW i \in FolderIds
      PROVE  /\ PCloud!Unlisted(i) \in PCNodes /\ PCloud!Unlisted(i) # None
             /\ PCloud!Unlisted(i).id = i /\ PCloud!Unlisted(i).at = None
  <2>1. PCloud!Unlisted(i) = [id |-> i, at |-> None, full |-> FALSE]
    BY DEF PCloud!Unlisted
  <2>2. PCloud!Unlisted(i) \in PCNodes /\ PCloud!Unlisted(i).id = i /\ PCloud!Unlisted(i).at = None
    BY <2>1 DEF PCNodes
  <2> QED
    BY <2>2, PCApart
<1>5. \A n \in Names : old[n] # None => NodeHolds(old[n])
  BY DEF PCInv, TreeHolds
<1>6. ASSUME NEW n \in Names
      PROVE  /\ kids[n] \in PCNodes \cup {None}
             /\ (kids[n] = None) = (reply.kids[n] = None)
             /\ kids[n] # None => kids[n].id = reply.kids[n] /\ NodeHolds(kids[n])
  <2>1. reply.kids[n] = None \/ reply.kids[n] \in FolderIds
    BY <1>1 DEF PCFolders
  <2>2. old[n] \in PCNodes \cup {None}
    BY <1>2 DEF PCKids
  <2>3. CASE reply.kids[n] = None
    BY <1>3, <2>3
  <2>4. CASE reply.kids[n] # None /\ old[n] # None /\ old[n].id = reply.kids[n]
    BY <1>3, <1>5, <2>2, <2>4
  <2>5. CASE reply.kids[n] # None /\ ~(old[n] # None /\ old[n].id = reply.kids[n])
    <3>1. kids[n] = PCloud!Unlisted(reply.kids[n]) /\ reply.kids[n] \in FolderIds
      BY <1>3, <2>1, <2>5
    <3> HIDE DEF kids
    <3>2. kids[n] \in PCNodes /\ kids[n] # None /\ kids[n].id = reply.kids[n] /\ kids[n].at = None
      BY <1>4, <3>1
    <3>3. NodeHolds(kids[n])
      BY <3>2, PCApart DEF NodeHolds, Since
    <3> QED
      BY <2>5, <3>2, <3>3
  <2> QED
    BY <2>3, <2>4, <2>5
<1>7. kids \in PCKids
  BY <1>6 DEF PCKids, PCloud!SetChildren
<1> HIDE DEF kids, old
<1>8. tree' \in PCTrees /\ tree'.at = clock /\ tree'.kids = kids
  BY <1>1, <1>7 DEF PCTrees, kids, old
<1>9. Since(clock) => reply.began > changed
  BY <1>1, PCApart DEF Since
<1>10. Since(tree.at)' => SameFolders(tree.kids)'
  BY <1>6, <1>8, <1>9 DEF Since, SameFolders
<1>11. \A n \in Names : tree'.kids[n] # None => NodeHolds(tree.kids[n])'
  BY <1>6, <1>8 DEF NodeHolds, Since
<1> QED
  BY <1>1, <1>8, <1>10, <1>11 DEF TreeHolds, kids, old

\* A walk whose node was replaced goes on with the node it had.
LEMMA PCDetached ==
    ASSUME PCInv, tree # None, NEW v \in Walkers, NEW j, j = PCloud!Detached[v]
    PROVE  /\ j \in PCWalks /\ j.at = walk[v].at /\ j.name = walk[v].name /\ j.todo = walk[v].todo
           /\ j.found = walk[v].found /\ j.quiet = walk[v].quiet
           /\ j.node = IF walk[v].at = "read" /\ walk[v].name # Root THEN PCloud!Node(v)
                       ELSE walk[v].node
<1> DEFINE k == walk[v]
           moved == k.at = "read" /\ k.name # Root /\ k.node = None
<1>1. /\ k \in PCWalks
      /\ j = IF moved THEN [k EXCEPT !.node = tree.kids[k.name]] ELSE k
  BY PCWalkTyped DEF PCInv, PCloud!Detached
<1>2. CASE moved
  <2>1. PCloud!Node(v) = tree.kids[k.name] /\ PCloud!Node(v) \in PCNodes
    BY <1>2, PCNodeHolds DEF PCloud!Node, PCloud!Attached
  <2> QED
    BY <1>1, <1>2, <2>1 DEF PCWalks
<1>3. CASE ~moved
  BY <1>1, <1>3 DEF PCloud!Node, PCloud!Attached
<1> QED
  BY <1>2, <1>3

\* The other walks, after the root was listed again by one that had mu.
LEMMA PCOthers ==
    ASSUME PCInv, NEW w \in Walkers, mu = w, tree # None, tree' \in PCTrees, tree'.at = clock,
           UNCHANGED <<clock, folder, full, changed>>,
           NEW v \in Walkers, v # w, walk'[v] = PCloud!Detached[v]
    PROVE  WalkHolds(v)'
<1> DEFINE j == walk'[v]
<1>1. /\ j \in PCWalks /\ j.at = walk[v].at /\ j.name = walk[v].name /\ j.todo = walk[v].todo
      /\ j.found = walk[v].found /\ j.quiet = walk[v].quiet
      /\ j.node = IF walk[v].at = "read" /\ walk[v].name # Root THEN PCloud!Node(v)
                  ELSE walk[v].node
  BY PCDetached
<1>2. WalkHolds(v) /\ walk[v].at \notin {"load", "relist", "list"} /\ tree' # None
  BY PCApart DEF PCInv, WalkHolds, ReplyIs
<1>3. walk[v].at = "read" /\ walk[v].name # Root =>
          /\ j.node \in PCNodes /\ j.node # None /\ NodeHolds(j.node)
          /\ walk[v].quiet => j.node.id = folder[walk[v].name]
  BY <1>1, PCNodeHolds, PCApart
<1>4. ReplyIs(v)'
  BY <1>1, <1>2 DEF ReplyIs
<1> HIDE DEF j
<1>5. j.node # None => NodeHolds(j.node)
  BY <1>1, <1>2, <1>3 DEF WalkHolds, WalkHas
<1>6. walk'[v] = j
  BY DEF j
<1>7. WalkHas(v)'
  BY <1>1, <1>2, <1>3, <1>5, <1>6 DEF WalkHolds, WalkHas, NodeHolds, Since
<1>8. ASSUME j.quiet PROVE QuietWalk(v)'
  <2>1. clock > changed + MaxAge + Latency /\ clock \in Nat /\ changed \in Nat
    BY <1>1, <1>2, <1>8 DEF WalkHolds, QuietWalk, PCInv, PCTypes
  <2>2. Since(tree.at)'
    BY <2>1, PCApart DEF Since
  <2>3. j.name # Root /\ j.node # None => j.node.id = folder[j.name]
    BY <1>1, <1>2, <1>3, <1>8 DEF WalkHolds, QuietWalk
  <2> QED
    BY <1>1, <1>2, <1>6, <1>8, <2>1, <2>2, <2>3 DEF WalkHolds, QuietWalk, FoundBut
<1> QED
  BY <1>4, <1>6, <1>7, <1>8 DEF WalkHolds, QuietWalk

LEMMA PCLoad == ASSUME PCInv, NEW w \in Walkers, PCloud!Load(w) PROVE PCInv'
<1> DEFINE k == [walk[w] EXCEPT !.at = "lookup"]
           kids == [n \in Names |-> IF reply.kids[n] = None THEN None
                                    ELSE [reply.kids[n] EXCEPT !.at = clock]]
<1>1. /\ walk[w] \in PCWalks /\ walk[w].at = "load" /\ mu = w /\ WalkHolds(w) /\ PCTypes
      /\ UNCHANGED <<clock, folder, full, changed>> /\ tree = None
      /\ walk' = [walk EXCEPT ![w] = k] /\ tree' = [at |-> clock, kids |-> kids]
  BY PCWalkTyped DEF PCloud!Load, PCloud!Step, PCloud!remote, PCInv, WalkHolds, WalkHas, ReplyIs
<1>2. /\ reply \in [began : Nat, kids : PCKids] /\ clock <= reply.began + Latency
      /\ clock \in Nat /\ changed \in Nat
      /\ reply.began > changed => /\ SameFolders(reply.kids)
                                  /\ \A n \in Names : reply.kids[n] # None =>
                                        reply.kids[n].full = (folder[n] \in full)
  BY <1>1 DEF WalkHolds, ReplyIs, PCTypes
<1>3. ASSUME NEW n \in Names
      PROVE  /\ kids[n] \in PCNodes \cup {None}
             /\ (kids[n] = None) = (reply.kids[n] = None)
             /\ kids[n] # None => /\ kids[n].id = reply.kids[n].id /\ kids[n].at = clock
                                  /\ kids[n].full = reply.kids[n].full
  <2>1. reply.kids[n] \in PCNodes \cup {None}
    BY <1>2 DEF PCKids
  <2>2. CASE reply.kids[n] = None
    BY <2>2
  <2>3. CASE reply.kids[n] # None
    <3> DEFINE x == reply.kids[n]
               y == [x EXCEPT !.at = clock]
    <3>1. kids[n] = y /\ x \in PCNodes
      BY <2>1, <2>3
    <3> HIDE DEF x, kids
    <3>2. y \in PCNodes /\ y.id = x.id /\ y.at = clock /\ y.full = x.full
      BY <1>2, <3>1 DEF PCNodes
    <3> HIDE DEF y
    <3> QED
      BY <2>3, <3>1, <3>2, PCApart DEF x
  <2> QED
    BY <2>2, <2>3
<1>4. kids \in PCKids
  BY <1>3 DEF PCKids
<1> HIDE DEF kids
<1>5. tree' \in PCTrees /\ tree'.at = clock /\ tree'.kids = kids /\ tree' # None
  <2>1. tree' \in PCTrees /\ tree'.at = clock /\ tree'.kids = kids
    BY <1>1, <1>2, <1>4 DEF PCTrees
  <2> QED
    BY <2>1, PCApart
<1>6. Since(clock) => reply.began > changed
  BY <1>2, PCApart DEF Since
<1>7. TreeHolds'
  <2>1. Since(tree.at)' => SameFolders(tree.kids)'
    BY <1>1, <1>2, <1>3, <1>5, <1>6 DEF Since, SameFolders
  <2>2. ASSUME NEW n \in Names, tree'.kids[n] # None PROVE NodeHolds(tree.kids[n])'
    <3>1. Since(clock) => kids[n].full = (kids[n].id \in full)
      BY <1>2, <1>3, <1>5, <1>6, <2>2 DEF SameFolders
    <3> QED
      BY <1>1, <1>2, <1>3, <1>5, <2>2, <3>1 DEF NodeHolds, Since
  <2> QED
    BY <1>1, <1>2, <1>5, <2>1, <2>2 DEF TreeHolds
<1>8. /\ k \in PCWalks /\ k.at = "lookup" /\ k.name = walk[w].name /\ k.node = walk[w].node
      /\ k.todo = walk[w].todo /\ k.found = walk[w].found /\ k.quiet = walk[w].quiet
  <2>1. k = [walk[w] EXCEPT !.at = "lookup"] /\ "lookup" \in PCSteps
    BY DEF PCSteps
  <2> HIDE DEF k
  <2> QED
    BY <1>1, <2>1, PCStepTyped
<1> HIDE DEF k
<1>9. walk'[w] = k /\ PCTypes'
  BY <1>1, <1>5, <1>8 DEF PCTypes
<1>10. WalkHolds(w)'
  <2>1. k.node = None /\ walk[w].at # "done" /\ (k.quiet => k.name = Root)
    BY <1>1, <1>8 DEF WalkHolds, WalkHas, QuietWalk
  <2>2. ReplyIs(w)' /\ WalkHas(w)'
    BY <1>8, <1>9, <2>1 DEF ReplyIs, WalkHas
  <2>3. QuietWalk(w)'
    BY <1>1, <1>8, <1>9, <2>1 DEF WalkHolds, QuietWalk, FoundBut
  <2> QED
    BY <2>2, <2>3 DEF WalkHolds
<1>11. ASSUME NEW v \in Walkers, v # w PROVE WalkHolds(v)'
  <2>1. walk'[v] = walk[v] /\ WalkHolds(v) /\ walk[v].at \notin {"load", "relist", "list"}
    BY <1>1, <1>11 DEF PCInv, PCTypes, WalkHolds, ReplyIs
  <2>2. ReplyIs(v)' /\ WalkHas(v)'
    BY <1>1, <1>5, <2>1 DEF ReplyIs, WalkHolds, WalkHas, NodeHolds, Since
  <2>3. QuietWalk(v)'
    BY <1>1, <1>5, <2>1 DEF WalkHolds, QuietWalk, FoundBut
  <2> QED
    BY <2>2, <2>3 DEF WalkHolds
<1> QED
  BY <1>7, <1>9, <1>10, <1>11 DEF PCInv

LEMMA PCRelist == ASSUME PCInv, NEW w \in Walkers, PCloud!Relist(w) PROVE PCInv'
<1> DEFINE k == [walk[w] EXCEPT !.at = "read"]
           kids == PCloud!SetChildren(tree.kids)
<1>1. /\ walk[w] \in PCWalks /\ walk[w].at = "relist" /\ mu = w /\ WalkHolds(w) /\ PCTypes
      /\ tree # None /\ UNCHANGED <<clock, folder, full, changed>>
      /\ walk' = PCloud!Found(w, kids, PCloud!Detached) /\ tree' = [at |-> clock, kids |-> kids]
  BY PCWalkTyped DEF PCloud!Relist, PCloud!remote, PCInv, WalkHolds, WalkHas, ReplyIs
<1>2. /\ reply \in [began : Nat, kids : PCFolders] /\ clock <= reply.began + Latency
      /\ reply.began > changed => reply.kids = folder
  BY <1>1 DEF WalkHolds, ReplyIs
<1>3. tree' \in PCTrees /\ tree'.at = clock /\ tree'.kids = kids /\ TreeHolds'
  BY <1>1, <1>2, PCRelisted
<1> HIDE DEF kids
<1>4. PCloud!Detached[w] = walk[w] /\ PCloud!Detached = [v \in Walkers |-> PCloud!Detached[v]]
  BY <1>1 DEF PCloud!Detached
<1>5. \A v \in Walkers \ {w} : walk'[v] = PCloud!Detached[v]
  BY <1>1, <1>4 DEF PCloud!Found
<1>6. walk' = [v \in Walkers |-> walk'[v]]
  BY <1>1, <1>4 DEF PCloud!Found
<1>7. walk'[w] = IF kids[walk[w].name] = None THEN PCloud!Idle ELSE k
  BY <1>1, <1>4 DEF PCloud!Found
<1>8. /\ k \in PCWalks /\ k.at = "read" /\ k.name = walk[w].name /\ k.node = walk[w].node
      /\ k.todo = walk[w].todo /\ k.found = walk[w].found /\ k.quiet = walk[w].quiet
  <2>1. k = [walk[w] EXCEPT !.at = "read"] /\ "read" \in PCSteps
    BY DEF PCSteps
  <2> HIDE DEF k
  <2> QED
    BY <1>1, <2>1, PCStepTyped
<1> HIDE DEF k
<1>9. WalkHolds(w)' /\ walk'[w] \in PCWalks
  <2>1. CASE kids[walk[w].name] = None
    BY <1>7, <2>1, PCIdle, PCIdleHolds
  <2>2. CASE kids[walk[w].name] # None
    <3>1. walk'[w] = k /\ k.node = None /\ k.name # Root
      BY <1>1, <1>7, <1>8, <2>2 DEF WalkHolds, WalkHas
    <3>2. ReplyIs(w)' /\ WalkHas(w)'
      BY <1>3, <1>8, <2>2, <3>1, PCApart DEF ReplyIs, WalkHas
    <3>3. k.quiet => Since(tree.at)' /\ tree' # None
      <4>1. clock \in Nat /\ changed \in Nat
        BY <1>1 DEF PCTypes
      <4> QED
        BY <1>1, <1>3, <1>8, <4>1, PCApart DEF WalkHolds, QuietWalk, Since
    <3>4. QuietWalk(w)'
      BY <1>1, <1>8, <3>1, <3>3 DEF WalkHolds, QuietWalk, FoundBut
    <3> QED
      BY <1>8, <3>1, <3>2, <3>4 DEF WalkHolds
  <2> QED
    BY <2>1, <2>2
<1>10. \A v \in Walkers \ {w} : WalkHolds(v)' /\ walk'[v] \in PCWalks
  BY <1>1, <1>3, <1>5, PCOthers, PCDetached
<1>11. PCTypes'
  BY <1>1, <1>3, <1>6, <1>9, <1>10 DEF PCTypes
<1> QED
  BY <1>3, <1>9, <1>10, <1>11 DEF PCInv

LEMMA PCListRoot == ASSUME PCInv, NEW w \in Walkers, PCloud!ListRoot(w) PROVE PCInv'
<1>t. PICK T : T = {n \in Names : reply.kids[n] # None}
  OBVIOUS
<1>f. PICK f : f = walk[w].found
  OBVIOUS
<1>1. /\ walk[w] \in PCWalks /\ walk[w].at = "list" /\ walk[w].name = Root /\ mu = w
      /\ WalkHolds(w) /\ PCTypes /\ tree # None /\ UNCHANGED <<clock, folder, full, changed>>
      /\ PCloud!Onward(w, T, f, PCloud!Detached)
      /\ tree' = [at |-> clock, kids |-> PCloud!SetChildren(tree.kids)]
  BY <1>t, <1>f, PCWalkTyped
  DEF PCloud!ListRoot, PCloud!OnwardFromRoot, PCloud!remote, PCInv, WalkHolds, WalkHas, ReplyIs
<1>2. /\ reply \in [began : Nat, kids : PCFolders] /\ clock <= reply.began + Latency
      /\ reply.began > changed => reply.kids = folder
      /\ clock \in Nat /\ changed \in Nat /\ reply.began \in Nat
  BY <1>1 DEF WalkHolds, ReplyIs, PCTypes
<1>3. tree' \in PCTrees /\ tree'.at = clock /\ TreeHolds'
  BY <1>1, <1>2, PCRelisted
<1>4. f \in [Names -> BOOLEAN \cup {None}] /\ T \in SUBSET Names
  BY <1>t, <1>f, <1>1 DEF PCWalks
<1>5. walk[w].quiet => /\ (clock > changed + MaxAge + Latency)'
                       /\ tree' # None /\ Since(tree.at)'
                       /\ \A n \in T : folder'[n] # None
                       /\ f = FoundBut(T)'
  <2> SUFFICES ASSUME walk[w].quiet
               PROVE  /\ (clock > changed + MaxAge + Latency)'
                      /\ tree' # None /\ Since(tree.at)'
                      /\ \A n \in T : folder'[n] # None
                      /\ f = FoundBut(T)'
    OBVIOUS
  <2>1. clock > changed + MaxAge + Latency
    BY <1>1 DEF WalkHolds, QuietWalk
  <2>2. tree' # None /\ Since(tree.at)' /\ reply.kids = folder
    BY <1>1, <1>2, <1>3, <2>1, PCApart DEF Since
  <2>3. f = FoundBut(T)
    BY <1>t, <1>f, <1>1, <2>2, PCRootRead
  <2>4. FoundBut(T)' = FoundBut(T) /\ \A n \in T : folder'[n] # None
    BY <1>t, <1>1, <2>2 DEF FoundBut
  <2> QED
    BY <1>1, <2>1, <2>2, <2>3, <2>4
<1>6. PICK k \in PCWalks : GoesOn(w, T, f, PCloud!Detached, k)
  BY <1>1, <1>4, PCOnward
<1> USE DEF GoesOn
<1>7. /\ walk'[w] = k /\ walk' = [v \in Walkers |-> walk'[v]]
      /\ \A v \in Walkers \ {w} : walk'[v] = PCloud!Detached[v]
  BY <1>f, <1>6 DEF PCloud!Detached
<1>8. WalkHolds(w)'
  BY <1>4, <1>5, <1>6, <1>7, PCOnwardHolds
<1>9. \A v \in Walkers \ {w} : WalkHolds(v)' /\ walk'[v] \in PCWalks
  BY <1>1, <1>3, <1>7, PCOthers, PCDetached
<1>10. PCTypes'
  BY <1>1, <1>3, <1>6, <1>7, <1>9 DEF PCTypes
<1> QED
  BY <1>3, <1>8, <1>9, <1>10 DEF PCInv

LEMMA PCListFolder == ASSUME PCInv, NEW w \in Walkers, PCloud!ListFolder(w) PROVE PCInv'
<1> DEFINE name == walk[w].name
           old == PCloud!Node(w)
           node == [old EXCEPT !.at = clock, !.full = reply.full]
<1>f. PICK T, f : T = walk[w].todo /\ f = [walk[w].found EXCEPT ![name] = node.full]
  OBVIOUS
<1>1. /\ walk[w] \in PCWalks /\ walk[w].at = "list" /\ name # Root /\ mu = w /\ name \in Names
      /\ WalkHolds(w) /\ PCTypes /\ tree # None /\ UNCHANGED <<clock, folder, full, changed>>
      /\ PCloud!Onward(w, T, f, walk)
      /\ tree' = IF walk[w].node = None THEN [tree EXCEPT !.kids[name] = node] ELSE tree
  BY <1>f, PCWalkTyped
  DEF PCloud!ListFolder, PCloud!OnwardFrom, PCloud!Attached, PCloud!remote, PCInv, WalkHolds,
      WalkHas, ReplyIs, PCWalks
<1>2. /\ reply.began \in Nat /\ clock <= reply.began + Latency /\ reply.full \in BOOLEAN
      /\ reply.began > changed => reply.full = (old.id \in full)
      /\ clock \in Nat /\ changed \in Nat
  BY <1>1 DEF WalkHolds, ReplyIs, PCTypes
<1>3. old \in PCNodes /\ (walk[w].quiet => old.id = folder[name])
  BY <1>1, PCNodeHolds
<1>4. node \in PCNodes /\ node.id = old.id /\ node.at = clock /\ node.full = reply.full
  <2> HIDE DEF old
  <2> QED
    BY <1>2, <1>3 DEF PCNodes
<1> HIDE DEF node, old
<1>5. node # None /\ (Since(clock) => reply.began > changed)
  BY <1>2, <1>4, PCApart DEF Since
<1>6. NodeHolds(node)
  BY <1>2, <1>4, <1>5 DEF NodeHolds, Since
<1>7. /\ tree' \in PCTrees /\ tree' # None /\ tree'.at = tree.at
      /\ \A n \in Names : tree'.kids[n] = IF walk[w].node = None /\ n = name THEN node
                                          ELSE tree.kids[n]
  <2>1. tree \in PCTrees
    BY <1>1 DEF PCTypes
  <2>2. /\ tree' \in PCTrees /\ tree'.at = tree.at
        /\ \A n \in Names : tree'.kids[n] = IF walk[w].node = None /\ n = name THEN node
                                            ELSE tree.kids[n]
    BY <1>1, <1>4, <2>1 DEF PCTrees, PCKids
  <2> QED
    BY <2>2, PCApart
<1>8. TreeHolds'
  <2>1. TreeHolds
    BY DEF PCInv
  <2>2. \A n \in Names : tree'.kids[n] # None => NodeHolds(tree.kids[n])'
    BY <1>1, <1>6, <1>7, <2>1 DEF TreeHolds, NodeHolds, Since
  <2>3. Since(tree.at)' => SameFolders(tree.kids)'
    <3>1. walk[w].node = None => old = tree.kids[name] /\ tree.kids[name] # None
      BY <1>1 DEF old, PCloud!Node, PCloud!Attached, WalkHolds, WalkHas
    <3> QED
      BY <1>1, <1>4, <1>5, <1>7, <2>1, <3>1 DEF TreeHolds, SameFolders, Since
  <2> QED
    BY <1>1, <1>7, <2>1, <2>2, <2>3 DEF TreeHolds
<1>9. f \in [Names -> BOOLEAN \cup {None}] /\ T \in SUBSET Names
  BY <1>f, <1>1, <1>2, <1>4, PCFoundTyped DEF PCWalks
<1>10. walk[w].quiet => /\ (clock > changed + MaxAge + Latency)'
                        /\ tree' # None /\ Since(tree.at)'
                        /\ \A n \in T : folder'[n] # None
                        /\ f = FoundBut(T)'
  <2> SUFFICES ASSUME walk[w].quiet
               PROVE  /\ (clock > changed + MaxAge + Latency)'
                      /\ tree' # None /\ Since(tree.at)'
                      /\ \A n \in T : folder'[n] # None
                      /\ f = FoundBut(T)'
    OBVIOUS
  <2>1. /\ clock > changed + MaxAge + Latency /\ Since(tree.at)
        /\ \A n \in T : folder[n] # None
    BY <1>f, <1>1 DEF WalkHolds, QuietWalk
  <2>2. node.full = (folder[name] \in full)
    BY <1>2, <1>3, <1>4, <2>1, PCApart
  <2>3. f = FoundBut(T)
    BY <1>f, <1>1, <2>2, PCFolderRead
  <2>4. FoundBut(T)' = FoundBut(T) /\ Since(tree.at)'
    BY <1>1, <1>7, <2>1 DEF FoundBut, Since
  <2> QED
    BY <1>1, <1>7, <2>1, <2>3, <2>4
<1>11. PICK k \in PCWalks : GoesOn(w, T, f, walk, k)
  BY <1>1, <1>9, PCOnward
<1> USE DEF GoesOn
<1>12. walk'[w] = k /\ \A v \in Walkers \ {w} : walk'[v] = walk[v]
  BY <1>1, <1>11 DEF PCTypes
<1>13. WalkHolds(w)'
  BY <1>9, <1>10, <1>11, <1>12, PCOnwardHolds
<1>14. ASSUME NEW v \in Walkers, v # w PROVE WalkHolds(v)'
  <2>1. walk'[v] = walk[v] /\ WalkHolds(v) /\ walk[v].at \notin {"load", "relist", "list"}
        /\ walk[v] \in PCWalks
    BY <1>1, <1>12, <1>14, PCWalkTyped DEF PCInv, WalkHolds, ReplyIs
  <2>2. ReplyIs(v)'
    BY <2>1 DEF ReplyIs
  <2>3. WalkHas(v)'
    BY <1>1, <1>5, <1>7, <2>1 DEF WalkHolds, WalkHas, NodeHolds, Since, PCWalks
  <2>4. QuietWalk(v)'
    BY <1>1, <1>7, <2>1 DEF WalkHolds, QuietWalk, FoundBut, Since
  <2> QED
    BY <2>2, <2>3, <2>4 DEF WalkHolds
<1>15. PCTypes'
  BY <1>1, <1>7, <1>11 DEF PCTypes
<1> QED
  BY <1>8, <1>13, <1>14, <1>15 DEF PCInv

\* After a change at pCloud no listing is known to be right, and no walk is quiet.
LEMMA PCChange == ASSUME PCInv, PCloud!Change PROVE PCInv'
<1>1. /\ PCTypes /\ TreeHolds /\ clock \in Nat /\ folder \in PCFolders /\ changed' = clock
      /\ UNCHANGED <<clock, tree, mu, reply>>
      /\ walk' = [w \in Walkers |-> [walk[w] EXCEPT !.quiet = FALSE]]
  BY DEF PCInv, PCTypes, PCloud!Change
<1>2. folder' \in PCFolders
  BY <1>1 DEF PCloud!Change, PCFolders
<1>3. ASSUME NEW w \in Walkers
      PROVE  /\ walk'[w] \in PCWalks /\ walk'[w].at = walk[w].at /\ walk'[w].name = walk[w].name
             /\ walk'[w].node = walk[w].node /\ ~walk'[w].quiet
  BY <1>1, PCWalkTyped DEF PCWalks
<1>4. PCTypes'
  BY <1>1, <1>2, <1>3 DEF PCTypes
<1>5. ASSUME NEW when, when \in Nat => when <= clock PROVE ~Since(when)'
  BY <1>1, <1>5, PCApart DEF Since
<1>6. ASSUME NEW n, NodeHolds(n) PROVE NodeHolds(n)'
  BY <1>1, <1>6, PCApart DEF NodeHolds, Since
<1>7. TreeHolds'
  <2>1. tree # None => ~Since(tree.at)'
    BY <1>1, PCApart DEF TreeHolds, Since
  <2>2. \A n \in Names : tree # None /\ tree.kids[n] # None => NodeHolds(tree.kids[n])'
    BY <1>1, PCApart DEF TreeHolds, NodeHolds, Since
  <2> QED
    BY <1>1, <2>1, <2>2 DEF TreeHolds
<1>8. ASSUME NEW w \in Walkers PROVE WalkHolds(w)'
  <2>1. WalkHolds(w)
    BY DEF PCInv
  <2>2. ReplyIs(w)'
    BY <1>1, <1>3, <2>1 DEF WalkHolds, ReplyIs
  <2>3. WalkHas(w)'
    BY <1>1, <1>3, <2>1, PCApart DEF WalkHolds, WalkHas, NodeHolds, Since
  <2> QED
    BY <1>3, <2>2, <2>3 DEF WalkHolds, QuietWalk
<1> QED
  BY <1>4, <1>7, <1>8 DEF PCInv

\* Time passes, but not beyond what a listing may take.
LEMMA PCTick == ASSUME PCInv, PCloud!Tick PROVE PCInv'
<1>1. /\ PCTypes /\ TreeHolds /\ clock \in Nat /\ changed \in Nat /\ clock' = clock + 1
      /\ reply # None => clock < reply.began + Latency
      /\ UNCHANGED <<folder, full, changed, tree, mu, reply, walk>>
  BY DEF PCInv, PCTypes, PCloud!Tick, PCloud!remote
<1>2. PCTypes'
  BY <1>1 DEF PCTypes
<1>3. TreeHolds'
  <2>1. tree # None => tree.at \in Nat
    BY <1>1 DEF PCTypes, PCTrees
  <2> QED
    BY <1>1, <2>1 DEF TreeHolds, NodeHolds, Since, SameFolders
<1>4. ASSUME NEW w \in Walkers PROVE WalkHolds(w)'
  <2>1. WalkHolds(w)
    BY DEF PCInv
  <2>2. walk[w].at \in {"load", "relist", "list"} => reply # None
    BY <2>1, PCApart DEF WalkHolds, ReplyIs
  <2>3. ReplyIs(w)'
    BY <1>1, <2>1, <2>2, PCApart
    DEF WalkHolds, ReplyIs, SameFolders, PCloud!Node, PCloud!Attached
  <2>4. WalkHas(w)'
    BY <1>1, <2>1 DEF WalkHolds, WalkHas, NodeHolds, Since
  <2>5. QuietWalk(w)'
    BY <1>1, <2>1, PCApart DEF WalkHolds, QuietWalk, FoundBut, Since
  <2> QED
    BY <2>3, <2>4, <2>5 DEF WalkHolds
<1> QED
  BY <1>2, <1>3, <1>4 DEF PCInv

\* Every step of a walk, of pCloud and of the clock.
LEMMA PCStep == PCInv /\ [PCloud!PCNext]_pcvars => PCInv'
<1> SUFFICES ASSUME PCInv, [PCloud!PCNext]_pcvars PROVE PCInv'
  OBVIOUS
<1>1. ASSUME NEW w \in Walkers, PCloud!Walk(w) PROVE PCInv'
  BY <1>1, PCBegin, PCLookup, PCLoad, PCRelist, PCReadDir, PCReadStale, PCListRoot,
     PCListFolder, PCListFails DEF PCloud!Walk
<1>2. CASE UNCHANGED pcvars
  BY <1>2 DEF pcvars, PCInv, PCTypes, TreeHolds, SameFolders, NodeHolds, Since, WalkHolds,
     ReplyIs, WalkHas, QuietWalk, FoundBut, PCloud!Node, PCloud!Attached
<1> QED
  BY <1>1, <1>2, PCChange, PCTick DEF PCloud!PCNext

\* A walk that begins once pCloud has been left alone for MaxAge and Latency, and is not
\* disturbed, finds what is there, however the walks, their listings, failures and the
\* changes before it interleave (pcloud FS.lookup, ReadDir, setChildren).
THEOREM PCloudWalksExact == MCSpec => []QuietWalksAreExact
<1> DEFINE Inv == part = "pcloud" => PCInv
<1>1. MCInit => Inv
  BY PCInitial DEF MCInit
<1>2. Inv /\ [MCNext]_<<part, vars, logvars, davvars, pcvars>> => Inv'
  BY PCStep DEF MCNext
<1>3. Inv => QuietWalksAreExact
  <2>1. FoundBut({}) = [n \in Names |-> IF folder[n] = None THEN None ELSE folder[n] \in full]
    BY DEF FoundBut
  <2> QED
    BY <2>1 DEF QuietWalksAreExact, PCloud!QuietWalksAreExact, PCInv, WalkHolds, QuietWalk
<1> QED
  BY <1>1, <1>2, <1>3, PTL DEF MCSpec
=============================================================================
