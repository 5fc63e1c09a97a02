----------------------------- MODULE FolderMeta -----------------------------
(***************************************************************************)
(* The folder.json of one folder, edited by requests to several            *)
(* installations with the version each client was shown (shelf/            *)
(* shelf_folder_meta.go, setFolderMeta in server/handle_folders.go), while *)
(* the folder is renamed and the installations scan.                       *)
(*                                                                         *)
(* The shelf's lock excludes other installations only: the requests of one *)
(* share one lock, and the first to give it back gives it back for all     *)
(* (ShelfLock has its steps).  The version of a content is the content.    *)
(***************************************************************************)
EXTENDS Integers

CONSTANTS Instances,
          Requests,    \* goroutines that serve one request after another
          Host,        \* the installation each of them runs in
          Edits,       \* what clients ask for: <<"icon", i>> or <<"key", k>>
          MaxAsked,    \* bound on edits
          MaxUpsets    \* bound on renames, failing writes and restarts

Unset == "none"
Blank == [icon |-> Unset, key |-> Unset]
Newer == [icon |-> "later", key |-> Unset]   \* a folder.json of a later schema_version
Names == {"before", "after"}
Renaming == <<"rename">>
NoRequest == [want |-> <<>>, path |-> "before", version |-> Blank]

VARIABLES name,       \* of the folder, on disk
          file,       \* its folder.json, Blank for none
          holder,     \* the installation that has the shelf's lock
          cached,     \* per installation: the folder in the cache, and its folderMeta
          at,         \* per goroutine: where its request is
          req,        \* the change it was asked for, of what path and version
          data,       \* what it has read, then what it has written
          shared,     \* history: the requests that lost their turn to their own server
          asked, upsets

fvars == <<name, file, holder, cached, at, req, data, shared, asked, upsets>>
Free == "free"
Inside == {r \in Requests : at[r] \in {"locked", "compare", "written"}}

Init ==
    /\ name = "before"
    /\ file \in {Blank, [icon |-> "star", key |-> Unset], Newer}
    /\ holder = Free
    /\ cached = [p \in Instances |-> [path |-> name, meta |-> file]]
    /\ at = [r \in Requests |-> "idle"]
    /\ req = [r \in Requests |-> NoRequest]
    /\ data = [r \in Requests |-> Blank]
    /\ shared = {}
    /\ asked = 0 /\ upsets = 0

Goto(r, step) == at' = [at EXCEPT ![r] = step]

\* shelfLock.Lock and Unlock: one lock for all the requests of an installation.
TakeLock(r) ==
    /\ holder \in {Free, Host[r]}
    /\ holder' = Host[r]
    /\ shared' = IF Inside = {} THEN shared ELSE shared \cup Inside \cup {r}

GiveBack(r) ==
    /\ holder' = IF holder = Host[r] THEN Free ELSE holder
    /\ shared' = shared \ {r}

\* A request or a scan of p takes the lock and gives it back.
Passing(p) ==
    /\ holder \in {Free, p}
    /\ holder' = Free
    /\ shared' = IF holder = p THEN shared \cup Inside ELSE shared

Leave(r) ==
    /\ GiveBack(r)
    /\ Goto(r, "idle")
    /\ data' = [data EXCEPT ![r] = Blank]

Answer(r) == Leave(r) /\ req' = [req EXCEPT ![r] = NoRequest]

-----------------------------------------------------------------------------
\* getFolderMeta and setFolderMeta: the client edits what the installation lists.
Ask(r) ==
    /\ at[r] = "idle"
    /\ req[r] = NoRequest
    /\ asked < MaxAsked /\ asked' = asked + 1
    /\ Passing(Host[r])
    /\ \E e \in Edits :
          req' = [req EXCEPT ![r] = [want |-> e, path |-> cached[Host[r]].path,
                                     version |-> cached[Host[r]].meta]]
    /\ Goto(r, "edit")
    /\ UNCHANGED <<name, file, cached, data, upsets>>

AskRename(r) ==
    /\ at[r] = "idle"
    /\ req[r] = NoRequest
    /\ upsets < MaxUpsets /\ upsets' = upsets + 1
    /\ req' = [req EXCEPT ![r] = [want |-> Renaming, path |-> name, version |-> Blank]]
    /\ Goto(r, "edit")
    /\ UNCHANGED <<name, file, holder, cached, data, shared, asked>>

\* The client reads the listing again, and repeats the edit that met a conflict, or
\* finds that the folder is not there any more.
Repeat(r) ==
    LET shown == cached[Host[r]]
    IN  /\ at[r] = "idle"
        /\ req[r] # NoRequest
        /\ Passing(Host[r])
        /\ \/ /\ shown.path = req[r].path
              /\ req' = [req EXCEPT ![r].version = shown.meta]
              /\ Goto(r, "edit")
           \/ /\ shown.path # req[r].path
              /\ req' = [req EXCEPT ![r] = NoRequest]
              /\ UNCHANGED at
        /\ UNCHANGED <<name, file, cached, data, asked, upsets>>

Lock(r) ==
    /\ at[r] = "edit"
    /\ TakeLock(r)
    /\ Goto(r, "locked")
    /\ UNCHANGED <<name, file, cached, req, data, asked, upsets>>

\* RenameFolder; the scan that follows lists the new name.
RenameFolder(r) ==
    /\ at[r] = "locked"
    /\ req[r].want = Renaming
    /\ name' = IF req[r].path = name THEN CHOOSE n \in Names : n # name ELSE name
    /\ Answer(r)
    /\ UNCHANGED <<file, cached, asked, upsets>>

\* updateFolderMeta: the directory and the content.
Read(r) ==
    /\ at[r] = "locked"
    /\ req[r].want # Renaming
    /\ \/ /\ req[r].path = name
          /\ data' = [data EXCEPT ![r] = file]
          /\ Goto(r, "compare")
          /\ UNCHANGED <<holder, req, shared>>
       \/ req[r].path # name /\ Answer(r)   \* ErrFolderNotFound
    /\ UNCHANGED <<name, file, cached, asked, upsets>>

\* cacheFolderMeta; what it keeps of a folder that is not cached, nobody is shown.
Cache(r, content) ==
    cached' = IF cached[Host[r]].path = req[r].path
              THEN [cached EXCEPT ![Host[r]].meta = content] ELSE cached

\* Fault: the conflict leaves the listing as it is.
ConflictUnlisted(r) ==
    /\ at[r] = "compare"
    /\ data[r] # req[r].version
    /\ Leave(r)
    /\ UNCHANGED <<name, file, cached, req, asked, upsets>>

\* ErrFolderMetaConflict, and refreshCachedFolderMeta.
Conflict(r) ==
    /\ at[r] = "compare"
    /\ data[r] # req[r].version
    /\ Cache(r, data[r])
    /\ Leave(r)
    /\ UNCHANGED <<name, file, req, asked, upsets>>

\* ErrFolderMetaNotWritable: parseFolderMeta refuses the schema.
Refuse(r) ==
    /\ at[r] = "compare"
    /\ data[r] = req[r].version
    /\ data[r] = Newer
    /\ Answer(r)
    /\ UNCHANGED <<name, file, cached, asked, upsets>>

\* Fault: any version will do.
AgreesAlways(r) == data[r] # Newer

\* The version in the request is that of the content read, which this build can parse.
Agrees(r) == data[r] = req[r].version /\ data[r] # Newer

\* mutate; an object without members is no file.
Mutated(r) ==
    LET e == req[r].want
    IN  IF e[1] = "icon" THEN [data[r] EXCEPT !.icon = e[2]] ELSE [data[r] EXCEPT !.key = e[2]]

Nothing(r) == Mutated(r) = Blank /\ data[r] = Blank

\* WriteFileAtomic into a directory of that name, or Remove of a file that is there.
Writable(r) == req[r].path = name /\ (Mutated(r) = Blank => file # Blank)

Write(r) ==
    /\ at[r] = "compare"
    /\ Agrees(r)
    /\ ~Nothing(r)
    /\ Writable(r)
    /\ file' = Mutated(r)
    /\ data' = [data EXCEPT ![r] = Mutated(r)]
    /\ Goto(r, "written")
    /\ UNCHANGED <<name, holder, cached, req, shared, asked, upsets>>

\* There was no file and there is nothing to write.
Unneeded(r) ==
    /\ at[r] = "compare"
    /\ Agrees(r)
    /\ Nothing(r)
    /\ Answer(r)
    /\ UNCHANGED <<name, file, cached, asked, upsets>>

\* refreshCachedFolderMeta with the payload, or cacheFolderMeta.
Relist(r) ==
    /\ at[r] = "written"
    /\ Cache(r, data[r])
    /\ Answer(r)
    /\ UNCHANGED <<name, file, asked, upsets>>

\* The directory or the file has gone; or the write fails.
WriteFails(r) ==
    /\ at[r] = "compare"
    /\ Agrees(r)
    /\ \/ ~Nothing(r) /\ ~Writable(r) /\ UNCHANGED upsets
       \/ upsets < MaxUpsets /\ upsets' = upsets + 1
    /\ Answer(r)
    /\ UNCHANGED <<name, file, cached, asked>>

\* readFolderMetaForScan and the publication of the scan.
Listing(p) == cached' = [cached EXCEPT ![p] = [path |-> name, meta |-> file]]

\* The process has ended, and has started with a scan once the lock let it.
Restart(p) ==
    LET ours == {r \in Requests : Host[r] = p}
    IN  /\ holder \in {Free, p} /\ holder' = Free
        /\ upsets < MaxUpsets /\ upsets' = upsets + 1
        /\ Listing(p)
        /\ at' = [r \in Requests |-> IF r \in ours THEN "idle" ELSE at[r]]
        /\ req' = [r \in Requests |-> IF r \in ours THEN NoRequest ELSE req[r]]
        /\ data' = [r \in Requests |-> IF r \in ours THEN Blank ELSE data[r]]
        /\ shared' = shared \ ours
        /\ UNCHANGED <<name, file, asked>>

Scan(p) ==
    /\ Passing(p)
    /\ Listing(p)
    /\ UNCHANGED <<name, file, at, req, data, asked, upsets>>

\* A request that has the lock runs on.
Onward(r) ==
    \/ RenameFolder(r) \/ Read(r) \/ Conflict(r) \/ Refuse(r) \/ Write(r) \/ Unneeded(r)
    \/ Relist(r) \/ WriteFails(r)

Next ==
    \/ \E r \in Requests : Ask(r) \/ AskRename(r) \/ Repeat(r) \/ Lock(r) \/ Onward(r)
    \/ \E p \in Instances : Restart(p) \/ Scan(p)

\* It waits for the lock with retries, and its client repeats it; scans need not happen.
Fairness ==
    \A r \in Requests : WF_fvars(Repeat(r)) /\ WF_fvars(Onward(r)) /\ SF_fvars(Lock(r))

Spec == Init /\ [][Next]_fvars /\ Fairness

-----------------------------------------------------------------------------
\* updateFolderMeta compares the version under the lock: nobody overwrites a folder.json
\* that changed since it was shown to the client, unless the request's turn was broken
\* into, which begins with a second request or a scan of the server that had the lock.
ComparesFirst ==
    /\ \A r \in Requests \ shared :
          at[r] = "compare" /\ at'[r] = "written" => req[r].version = file
    /\ shared = {} => \A r, s \in shared' : Host[r] = Host[s]

NoBlindEdit == [][ComparesFirst]_fvars

\* The conflict of updateFolderMeta refreshes the listing, so a client whose installation
\* showed an old version gets through by repeating, as long as the others are quiet.
EditsGetThrough ==
    \A r \in Requests :
        (<>[][\A s \in Requests \ {r} : at'[s] = at[s]]_fvars)
            => []<>(req[r] = NoRequest)
=============================================================================
