--------------------------- MODULE DesktopShelves ---------------------------
(***************************************************************************)
(* The desktop's list of shelves: desktop/app_shelves.go, shelves.go,      *)
(* credentials.go, lan_import.go and the start and end of app.go, together *)
(* with the open shelves (ShelfManager) and the LAN share (LanShare).      *)
(*                                                                         *)
(* The settings page runs one shelf call at a time; the share has calls of *)
(* its own.  A call loads shelves.json, changes the open shelves and the   *)
(* keychain, and writes shelves.json in place, so the process can end in   *)
(* the middle of that write and a write that fails may have truncated it.  *)
(***************************************************************************)
EXTENDS LanShare, Naturals

CONSTANTS Torn,         \* a shelves.json that does not parse
          MaxCalls      \* bound of the shelf calls

VARIABLES file,      \* shelves.json: the settings of each entry, or Torn
          secrets,   \* the keychain: the IDs with a secret
          up,        \* startServer succeeded, and the window is open
          call,      \* the shelf call: what it still does, to which entry
          calls,
          reported,  \* IDs of which a call said that list and open shelf disagree
          unwanted   \* IDs whose removal was asked for and did not succeed

dvars == <<file, secrets, up, call, calls, reported, unwanted>>
desktopvars == <<mvars, lanvars, dvars>>

Idle == [do |-> None, id |-> None, entry |-> None]
Entries == [ro : BOOLEAN, virtual : {FALSE}, secret : {FALSE}]
             \cup [ro : {TRUE}, virtual : {TRUE}, secret : BOOLEAN]
Loaded == up /\ file # Torn      \* loadDesktopShelves succeeds
Listed == {id \in Ids : file[id] # None}
ListedLocal == {id \in Listed : ~file[id].virtual}

Init ==
    /\ ManagerInit /\ LanInit
    /\ file = [id \in Ids |-> None]
    /\ secrets = {} /\ up = FALSE
    /\ call = Idle /\ calls = 0 /\ reported = {} /\ unwanted = {}

-----------------------------------------------------------------------------
(* startServer and closeInOrder. *)

\* A virtual shelf whose secret the keychain does not give stays closed (openVirtualShelves);
\* a local one that does not open fails the start, which changes nothing here.
Start ==
    /\ ~up /\ file # Torn
    /\ up' = TRUE
    /\ \E closed \in SUBSET {id \in Listed : file[id].virtual} :
          /\ \A id \in Listed : file[id].secret /\ id \notin secrets => id \in closed
          /\ shelves' = [id \in Ids |-> IF id \in Listed \ closed THEN NewShelf(file[id]) ELSE None]
    /\ reported' = {}
    /\ LanStarts
    /\ UNCHANGED <<scopes, file, secrets, call, calls, unwanted>>

\* Shutdown, or the process ends during a call: in its write of shelves.json too.
End ==
    /\ up
    /\ up' = FALSE
    /\ shelves' = [id \in Ids |-> None]
    /\ file' \in {file} \cup IF call.do \in {"save", "modify", "saveRemoval"} THEN {Torn} ELSE {}
    /\ call' = Idle
    /\ LanEnds
    /\ UNCHANGED <<scopes, secrets, calls, reported, unwanted>>

-----------------------------------------------------------------------------
(* AddShelf and addVirtualShelf. *)

\* nextShelfID: the first ID of the name that no entry has.
NextShelfID == CHOOSE id \in Ids \ Listed : \A other \in Ids \ Listed : id <= other

BeginCall(do, id, entry) ==
    /\ call' = [do |-> do, id |-> id, entry |-> entry]
    /\ calls' = calls + 1

MayCall == Loaded /\ call = Idle /\ calls < MaxCalls

\* The secret is stored before the shelf is opened with it.
Add(entry) ==
    /\ MayCall
    /\ Listed # Ids
    /\ secrets' = IF entry.secret THEN secrets \cup {NextShelfID} ELSE secrets
    /\ BeginCall("register", NextShelfID, entry)
    /\ UNCHANGED <<mvars, lanvars, file, up, reported, unwanted>>

ForgetSecret == secrets' = IF call.entry.secret THEN secrets \ {call.id} ELSE secrets

Registers ==
    /\ call.do = "register"
    /\ \/ /\ AddShelf(call.id, call.entry)
          /\ call' = [call EXCEPT !.do = "save"]
          /\ UNCHANGED secrets
       \/ ForgetSecret /\ call' = Idle /\ UNCHANGED mvars
    /\ UNCHANGED <<lanvars, file, up, calls, reported, unwanted>>

\* saveDesktopShelves: os.WriteFile.
Saves(next) == file' = next
SaveFails == file' \in {file, Torn}

AddSaves ==
    /\ call.do = "save"
    /\ Saves([file EXCEPT ![call.id] = call.entry])
    /\ unwanted' = unwanted \ {call.id}
    /\ call' = Idle
    /\ UNCHANGED <<mvars, lanvars, secrets, up, calls, reported>>

AddRollsBack ==
    /\ call.do = "save"
    /\ SaveFails
    /\ \/ RemoveShelf(call.id) /\ UNCHANGED reported
       \/ CloseFails(call.id) /\ reported' = reported \cup {call.id}
    /\ ForgetSecret
    /\ call' = Idle
    /\ UNCHANGED <<lanvars, up, calls, unwanted>>

-----------------------------------------------------------------------------
(* ModifyShelf and RetryShelf. *)

\* UpdateShelf, and then the save.
Modify(id, ro) ==
    /\ MayCall
    /\ id \in Listed
    /\ LET updated == [file[id] EXCEPT !.ro = ro \/ file[id].virtual]
       IN  \/ UpdateShelf(id, updated) /\ BeginCall("modify", id, updated) /\ UNCHANGED reported
           \/ /\ UpdateFails(id, updated)
              /\ calls' = calls + 1
              /\ reported' = reported \cup {id}
              /\ UNCHANGED call
    /\ UNCHANGED <<lanvars, file, secrets, up, unwanted>>

\* Fault: a failed save leaves the open shelf with the new settings.
ModifyKeeps ==
    /\ call.do = "modify"
    /\ \/ Saves([file EXCEPT ![call.id] = call.entry])
       \/ SaveFails
    /\ call' = Idle
    /\ UNCHANGED <<mvars, lanvars, secrets, up, calls, reported, unwanted>>

ModifyEnds ==
    /\ call.do = "modify"
    /\ \/ Saves([file EXCEPT ![call.id] = call.entry]) /\ UNCHANGED <<mvars, reported>>
       \/ SaveFails /\ UpdateShelf(call.id, file[call.id]) /\ UNCHANGED reported
       \/ /\ SaveFails
          /\ UpdateFails(call.id, file[call.id])
          /\ reported' = reported \cup {call.id}
    /\ call' = Idle
    /\ UNCHANGED <<lanvars, secrets, up, calls, unwanted>>

Retry(id) ==
    /\ MayCall
    /\ id \in Listed
    /\ file[id].virtual
    /\ file[id].secret => id \in secrets
    /\ AddShelf(id, file[id])
    /\ calls' = calls + 1
    /\ UNCHANGED <<lanvars, file, secrets, up, call, reported, unwanted>>

-----------------------------------------------------------------------------
(* RemoveShelf: the secret, shelves.json, the open shelf, the LAN share.   *)

\* An entry whose secret stays is not removed.
Remove(id) ==
    /\ MayCall
    /\ id \in Listed
    /\ secrets' = IF file[id].secret THEN secrets \ {id} ELSE secrets
    /\ unwanted' = unwanted \cup {id}
    /\ BeginCall("saveRemoval", id, file[id])
    /\ UNCHANGED <<mvars, lanvars, file, up, reported>>

RemoveSaves ==
    /\ call.do = "saveRemoval"
    /\ \/ Saves([file EXCEPT ![call.id] = None]) /\ call' = [call EXCEPT !.do = "close"]
       \/ SaveFails /\ call' = Idle
    /\ UNCHANGED <<mvars, lanvars, secrets, up, calls, reported, unwanted>>

RemoveCloses ==
    /\ call.do = "close"
    /\ \/ /\ \/ RemoveShelf(call.id)
             \/ ~GetShelf(call.id) /\ call.entry.virtual /\ UNCHANGED mvars
          /\ call' = [call EXCEPT !.do = "forget"]
          /\ UNCHANGED reported
       \/ /\ \/ CloseFails(call.id)
             \/ ~GetShelf(call.id) /\ ~call.entry.virtual /\ UNCHANGED mvars
          /\ call' = Idle
          /\ reported' = reported \cup {call.id}
    /\ UNCHANGED <<lanvars, file, secrets, up, calls, unwanted>>

RemoveForgets ==
    /\ call.do = "forget"
    /\ ForgetShelf(call.id)
    /\ unwanted' = IF call.id \in lfile'.ids THEN unwanted ELSE unwanted \ {call.id}
    /\ call' = Idle
    /\ UNCHANGED <<mvars, file, secrets, up, calls, reported>>

-----------------------------------------------------------------------------
(* The share's own calls, at any time. *)

ShareCalls ==
    /\ up
    /\ \/ /\ file # Torn
          /\ \E on \in BOOLEAN, h \in Hosts, ids \in SUBSET Ids :
                ApplyBegins(on, h, ids, ListedLocal)
       \/ ApplyListens \/ ApplyEnds \/ Disable
    /\ UNCHANGED <<mvars, dvars>>

Moves == AddressesChange /\ UNCHANGED <<mvars, dvars>>

Next ==
    \/ Start \/ End
    \/ \E e \in Entries : Add(e)
    \/ Registers \/ AddSaves \/ AddRollsBack
    \/ \E id \in Ids : Remove(id) \/ Retry(id) \/ \E ro \in BOOLEAN : Modify(id, ro)
    \/ ModifyEnds \/ RemoveSaves \/ RemoveCloses \/ RemoveForgets
    \/ ShareCalls \/ Moves

Spec == Init /\ [][Next]_desktopvars

-----------------------------------------------------------------------------
(* Properties. *)

\* Between two calls, shelves.json, the open shelves and the keychain agree, unless a
\* call has said of the shelf that they do not: a listed local shelf is open with the
\* listed settings, an open shelf is listed, and a listed source that needs a secret
\* has it, so that it opens again after a restart.
SettingsAgree ==
    Loaded /\ call = Idle => \A id \in Ids \ reported :
        /\ id \in ListedLocal => Serving(id) /\ shelves[id].conf = file[id]
        /\ GetShelf(id) => id \in Listed
        /\ id \in Listed /\ file[id].secret /\ id \notin unwanted => id \in secrets

\* The share holds listed shelves only, or ones whose removal, or the save of
\* lan_share.json with it, failed or was cut short: RemoveShelf takes a shelf out last,
\* under the share's own lock, and an apply that read the list before cannot put it back.
\* (When the ID of such a shelf is given again, the share holds the new shelf.)
SharedIsListed ==
    up /\ file # Torn => shared \subseteq Listed \cup unwanted
=============================================================================
