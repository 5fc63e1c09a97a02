---------------------------- MODULE ShelfManager ----------------------------
(***************************************************************************)
(* The open shelves of a process: shelf/shelf_manager.go and the part of   *)
(* server/app.go and server/shelf_source.go that adds, changes and removes *)
(* them.  The hosts (MobileApp, DesktopShelves) call these operations from *)
(* their own, and say with each whether it succeeds: opening and closing a *)
(* shelf touch the disk, and either may fail.                              *)
(*                                                                         *)
(* A shelf's settings are a record: ro (read_only), virtual (a source that *)
(* is not a local directory) and what the host adds.                       *)
(***************************************************************************)
CONSTANTS Ids, None

VARIABLES shelves,   \* ShelfManager.shelves: the settings and whether it is open
          scopes     \* App.virtualScopes

mvars == <<shelves, scopes>>

NewShelf(conf) == [conf |-> conf, open |-> TRUE]
GetShelf(id) == shelves[id] # None
Serving(id) == GetShelf(id) /\ shelves[id].open

ManagerInit ==
    /\ shelves = [id \in Ids |-> None]
    /\ scopes = [id \in Ids |-> None]

\* App.AddShelf: a shelf opened from its source files its copies under the scope of
\* the source, but only AddVirtualShelf records the scope.
AddShelf(id, conf) ==
    /\ shelves[id] = None
    /\ shelves' = [shelves EXCEPT ![id] = NewShelf(conf)]
    /\ UNCHANGED scopes

AddVirtualShelf(id, conf, scope) ==
    /\ shelves[id] = None
    /\ shelves' = [shelves EXCEPT ![id] = NewShelf([conf EXCEPT !.ro = TRUE])]
    /\ scopes' = [scopes EXCEPT ![id] = scope]

RemoveShelf(id) ==
    /\ GetShelf(id)
    /\ shelves' = [shelves EXCEPT ![id] = None]
    /\ scopes' = [scopes EXCEPT ![id] = None]

\* Close returned an error: what it could close is closed, the entry stays.
CloseFails(id) ==
    /\ GetShelf(id)
    /\ shelves' = [shelves EXCEPT ![id].open = FALSE]
    /\ UNCHANGED scopes

\* UpdateShelf: a changed read_only reopens a local shelf, anything else is set in place.
UpdateShelf(id, conf) ==
    /\ GetShelf(id)
    /\ conf.ro # shelves[id].conf.ro => ~shelves[id].conf.virtual
    /\ shelves' = [shelves EXCEPT ![id] =
                     IF conf.ro # @.conf.ro THEN NewShelf(conf) ELSE [@ EXCEPT !.conf = conf]]
    /\ UNCHANGED scopes

\* Its errors: the shelf is unknown or virtual, does not close, does not open with the
\* new settings (and is opened with the old ones), or opens with neither.
UpdateFails(id, conf) ==
    /\ UNCHANGED scopes
    /\ \/ ~GetShelf(id) /\ UNCHANGED shelves
       \/ /\ GetShelf(id)
          /\ conf.ro # shelves[id].conf.ro
          /\ IF shelves[id].conf.virtual THEN UNCHANGED shelves
             ELSE \E left \in {None, NewShelf(shelves[id].conf), [shelves[id] EXCEPT !.open = FALSE]} :
                     shelves' = [shelves EXCEPT ![id] = left]

\* App.RemoveOfflineScope refuses a scope that an open shelf recorded.
MayRemoveScope(scope) == \A id \in Ids : scopes[id] # scope
=============================================================================
