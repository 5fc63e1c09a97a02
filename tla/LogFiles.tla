------------------------------ MODULE LogFiles ------------------------------
(***************************************************************************)
(* The log files of a server: the loggers that write one file per day into *)
(* a directory they share, the window after which a rotation deletes a     *)
(* file, and the setting that changes the window while the server runs     *)
(* (logutil's DailyFileWriter and Retention, the server's settings).  Days *)
(* are numbers, and a file is the number of lines in it.  The clock may    *)
(* also go back (a corrected clock, another time zone), and the server may *)
(* end at any moment and start again.                                      *)
(***************************************************************************)
EXTENDS Integers

CONSTANTS
    Writers,     \* the loggers: of the app, the worker, the shelves
    Configured,  \* retention_days of the configuration, 0 to keep every file
    Windows,     \* what the settings page may save
    MaxDay,      \* bound on the days
    MaxLines,    \* bound on the lines written
    None         \* no file, no window saved, no day yet

VARIABLES
    today,   \* the day that time.Now shows
    latest,  \* the latest day it has shown
    files,   \* files[d]: the lines in the file of day d, or None
    acked,   \* acked[d]: the lines that Write has written on day d
    cur,     \* cur[w]: DailyFileWriter.curDate
    open,    \* open[w]: DailyFileWriter.file, "linked" or "unlinked" in the
             \* directory, "closed", or None before the first line
    at,      \* at[w]: what the writer does next, holding its mu
    date,    \* date[w]: the day on which its Write began, or None
    saved,   \* the window in the settings store, or None
    window,  \* the window in the Retention all loggers share, or None
    asked,   \* a request has saved the setting and has not applied it yet
    used     \* the windows that have been in force

logvars == <<today, latest, files, acked, cur, open, at, date, saved, window, asked, used>>
Days == 1..MaxDay

\* Retention.Days: a window that the settings page saved goes before the configured one.
InForce(saving) == IF saving = None THEN Configured ELSE saving

LogInit ==
    /\ today = 1 /\ latest = 1
    /\ files = [d \in Days |-> None] /\ acked = [d \in Days |-> 0]
    /\ cur = [w \in Writers |-> None] /\ open = [w \in Writers |-> None]
    /\ at = [w \in Writers |-> "idle"] /\ date = [w \in Writers |-> None]
    /\ saved = None /\ window = None /\ asked = FALSE /\ used = {Configured}

Goto(w, step) == at' = [at EXCEPT ![w] = step]

\* listRotatedLogFiles: what the log page shows and a rotation may delete.
Listed == {d \in Days : files[d] # None}


(***************************************************************************)
(* DailyFileWriter.Write: the day is read, the file is changed if the day  *)
(* did, and the line is appended, all under the writer's mu.  The writers  *)
(* have a mutex each, and overlap.                                         *)
(***************************************************************************)
Write(w) ==
    /\ at[w] = "idle" /\ acked[today] < MaxLines
    /\ date' = [date EXCEPT ![w] = today]
    /\ Goto(w, IF today # cur[w] THEN "rotate" ELSE "append")
    /\ UNCHANGED <<today, latest, files, acked, cur, open, saved, window, asked, used>>

\* rotate opens the file of the day, which it may find there, and closes the old one.
Rotate(w) ==
    /\ at[w] = "rotate"
    /\ files' = [files EXCEPT ![date[w]] = IF @ = None THEN 0 ELSE @]
    /\ cur' = [cur EXCEPT ![w] = date[w]]
    /\ open' = [open EXCEPT ![w] = "linked"]
    /\ Goto(w, "expire")
    /\ UNCHANGED <<today, latest, acked, date, saved, window, asked, used>>

\* Without the file the line is lost, and the next Write tries again.
RotateFails(w) ==
    /\ at[w] = "rotate"
    /\ Goto(w, "idle")
    /\ date' = [date EXCEPT ![w] = None]
    /\ UNCHANGED <<today, latest, files, acked, cur, open, saved, window, asked, used>>

\* Fault: the file of the cutoff day goes as well.
ExpiredTooSoon(w) ==
    LET days == InForce(window)
    IN IF days = 0 THEN {} ELSE {d \in Listed \ {cur[w]} : d <= date[w] - days}

\* removeExpiredLocked: the files before the cutoff, never the writer's own.
Expired(w) ==
    LET days == InForce(window)
    IN IF days = 0 THEN {} ELSE {d \in Listed \ {cur[w]} : d < date[w] - days}

\* A file that cannot be removed stays for the next rotation; another writer may
\* still have a removed one open.
Expire(w) ==
    /\ at[w] = "expire"
    /\ \E removed \in SUBSET Expired(w) :
         /\ files' = [d \in Days |-> IF d \in removed THEN None ELSE files[d]]
         /\ open' = [v \in Writers |->
                IF open[v] = "linked" /\ cur[v] \in removed THEN "unlinked" ELSE open[v]]
    /\ Goto(w, "append")
    /\ UNCHANGED <<today, latest, acked, cur, date, saved, window, asked, used>>

\* A closed file refuses the line; an unlinked one takes it and nobody can read it.
Append(w) ==
    /\ at[w] = "append"
    /\ Goto(w, "idle")
    /\ date' = [date EXCEPT ![w] = None]
    /\ IF open[w] = "closed" THEN UNCHANGED <<files, acked>>
       ELSE /\ acked' = [acked EXCEPT ![cur[w]] = @ + 1]
            /\ files' = IF open[w] = "linked" THEN [files EXCEPT ![cur[w]] = @ + 1] ELSE files
    /\ UNCHANGED <<today, latest, cur, open, saved, window, asked, used>>

\* DailyFileWriter.Close, when a shelf is removed: a later line of the day is
\* refused, and one of the next day opens a file again.
CloseLog(w) ==
    /\ at[w] = "idle" /\ open[w] \notin {None, "closed"}
    /\ open' = [open EXCEPT ![w] = "closed"]
    /\ UNCHANGED <<today, latest, files, acked, cur, at, date, saved, window, asked, used>>

(***************************************************************************)
(* The settings page.  setLogRetentionDays and deleteLogRetentionDays save *)
(* first and then apply what is stored; requests come one at a time here.  *)
(***************************************************************************)
SetSetting(days) ==
    /\ ~asked
    /\ saved' = days /\ asked' = TRUE
    /\ UNCHANGED <<today, latest, files, acked, cur, open, at, date, window, used>>

\* readJSONSetting: the stored window, or none where the store or the stored value
\* cannot be read.
Reads == {saved, None}

\* applyLogRetention: Set what was read, or Clear, which goes back to the configuration.
ApplyLogRetention ==
    /\ asked
    /\ window' \in Reads /\ asked' = FALSE
    /\ used' = used \cup {InForce(window')}
    /\ UNCHANGED <<today, latest, files, acked, cur, open, at, date, saved>>

\* The server ends, and starts: NewApp applies what it can read of the saved window
\* before any logger writes a line.
Restart ==
    /\ cur' = [w \in Writers |-> None] /\ open' = [w \in Writers |-> None]
    /\ at' = [w \in Writers |-> "idle"] /\ date' = [w \in Writers |-> None]
    /\ window' \in Reads /\ asked' = FALSE /\ used' = used \cup {InForce(window')}
    /\ UNCHANGED <<today, latest, files, acked, saved>>

NextDay ==
    /\ \E d \in {today - 1, today + 1} \cap Days :
         today' = d /\ latest' = IF d > latest THEN d ELSE latest
    /\ UNCHANGED <<files, acked, cur, open, at, date, saved, window, asked, used>>

Log(w) == Write(w) \/ Rotate(w) \/ RotateFails(w) \/ Expire(w) \/ Append(w) \/ CloseLog(w)

LogNext ==
    \/ \E w \in Writers : Log(w)
    \/ \E days \in Windows \cup {None} : SetSetting(days)
    \/ ApplyLogRetention \/ Restart \/ NextDay

LogSpec == LogInit /\ [][LogNext]_logvars
----------------------------------------------------------------------------
\* Every line that Write wrote on a day that no window in force has passed yet is in
\* the file the log page lists for that day, whichever logger rotated meanwhile and
\* however the clock moved (removeExpiredLocked).
KeepsRecent ==
    \A d \in Days :
        acked[d] > 0 /\ (\A r \in used : r = 0 \/ d + r >= latest) => files[d] = acked[d]

\* Between two requests the loggers never delete by a window that was saved earlier and
\* replaced since: by the one saved last, or by the configured one when it could not be
\* read (applyLogRetention).
NoReplacedWindow == ~asked => window \in {saved, None}
=============================================================================
