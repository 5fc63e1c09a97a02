----------------------------- MODULE MobileApp ------------------------------
(***************************************************************************)
(* The server inside the Android app: mobile/mobile.go, pcloud.go,         *)
(* source.go and lan_share.go.  The native side calls Start, Stop, Handle  *)
(* and the shelf operations from any thread, and Android may end the       *)
(* process at any point.                                                   *)
(*                                                                         *)
(* Every operation that changes shelves holds instance.mu for its whole    *)
(* length, Handle holds it for reading.  So an operation is cut into the   *)
(* steps between which the process can end: its writes to the device.      *)
(***************************************************************************)
EXTENDS ShelfManager, Naturals

CONSTANTS Locals, Remotes,  \* IDs of the device's own shelves and of virtual ones; Ids is both
          Scopes, Names,
          Requests,         \* concurrent calls of Handle
          MaxStarts         \* bound of the process's and server's starts

VARIABLES file,      \* shelves.json: a name per shelf
          conf,      \* instance.conf
          root,      \* the shelf directories: None, "empty" or "books"
          virtual,   \* instance.virtual: the scope of an open virtual shelf
          offline,   \* the scopes with offline copies on the device
          share,     \* the IDs lanShare shares, None when it is not running
          epoch,     \* which instance is the latest
          state,     \* "down", "up", "stopping" (current = nil, Stop waits for mu)
          op,        \* the operation that holds mu
          req,       \* per request: where it is and the instance it got
          task,      \* the shelf a background task works on
          made, unwanted  \* shelves reported as created, and asked to be removed

disk == <<file, root, offline>>
inst == <<conf, virtual, share>>
ghost == <<made, unwanted>>
avars == <<mvars, disk, inst, epoch, state, op, req, task, ghost>>

NoOp == [do |-> None, id |-> None, next |-> None]
NoRequest == [pc |-> "idle", ep |-> 0]
Conf == [ro |-> FALSE, virtual |-> FALSE]
VirtualConf == [ro |-> TRUE, virtual |-> TRUE]

Init ==
    /\ ManagerInit
    /\ file = [id \in Locals |-> None] /\ conf = file
    /\ root = [id \in Locals |-> None]
    /\ virtual = [id \in Remotes |-> None] /\ offline = {}
    /\ share = None /\ epoch = 0 /\ state = "down"
    /\ op = NoOp /\ req = [r \in Requests |-> NoRequest]
    /\ task = None /\ made = {} /\ unwanted = {}

-----------------------------------------------------------------------------
(* Start and Stop, under stateMu. *)

\* start: loadConfig, NewApp opens each shelf and creates a directory that is missing.
Start ==
    /\ state = "down"
    /\ epoch < MaxStarts
    /\ epoch' = epoch + 1
    /\ state' = "up"
    /\ conf' = file
    /\ shelves' = [id \in Ids |-> IF id \in Locals /\ file[id] # None THEN NewShelf(Conf) ELSE None]
    /\ scopes' = [id \in Ids |-> None]
    /\ root' = [id \in Locals |-> IF file[id] # None /\ root[id] = None THEN "empty" ELSE root[id]]
    /\ virtual' = [id \in Remotes |-> None]
    /\ UNCHANGED <<file, offline, share, op, req, task, ghost>>

\* Stop sets current to nil, then waits for instance.mu.
StopBegins ==
    /\ state = "up"
    /\ state' = "stopping"
    /\ UNCHANGED <<mvars, disk, inst, epoch, op, req, task, ghost>>

\* mu is free for writing when no operation and no request of the instance holds it.
LockFree ==
    /\ op = NoOp
    /\ \A r \in Requests : req[r].pc = "serving" => req[r].ep # epoch

StopEnds ==
    /\ state = "stopping"
    /\ LockFree
    /\ state' = "down"
    /\ share' = None
    /\ task' = None
    /\ shelves' = [id \in Ids |-> IF GetShelf(id) THEN [shelves[id] EXCEPT !.open = FALSE] ELSE None]
    /\ UNCHANGED <<scopes, disk, conf, virtual, epoch, op, req, ghost>>

\* The process ends: what is on the device stays.
Crash ==
    /\ state # "down"
    /\ state' = "down"
    /\ shelves' = [id \in Ids |-> None]
    /\ share' = None /\ op' = NoOp /\ task' = None
    /\ req' = [r \in Requests |-> NoRequest]
    /\ UNCHANGED <<scopes, disk, conf, virtual, epoch, ghost>>

-----------------------------------------------------------------------------
(* Handle: running() first, and mu much later, once the body is staged. *)

HandleBegins(r) ==
    /\ req[r].pc = "idle"
    /\ state = "up"
    /\ req' = [req EXCEPT ![r] = [pc |-> "staged", ep |-> epoch]]
    /\ UNCHANGED <<mvars, disk, inst, epoch, state, op, task, ghost>>

\* Fault: rlockRunning does not look at stopped.
StoppedNever(ep) == FALSE

\* rlockRunning: the instance may have been stopped since, or another one started.
Stopped(ep) == ep # epoch \/ state = "down"
MayRLock(ep) == ep = epoch => op = NoOp

HandleServes(r) ==
    /\ req[r].pc = "staged"
    /\ MayRLock(req[r].ep)
    /\ req' = [req EXCEPT ![r] = IF Stopped(@.ep) THEN NoRequest ELSE [@ EXCEPT !.pc = "serving"]]
    /\ UNCHANGED <<mvars, disk, inst, epoch, state, op, task, ghost>>

\* The handler may submit a background task for a local shelf it finds open.
HandleEnds(r) ==
    /\ req[r].pc = "serving"
    /\ req' = [req EXCEPT ![r] = NoRequest]
    /\ \/ UNCHANGED task
       \/ /\ task = None
          /\ \E id \in Locals : Serving(id) /\ task' = id
    /\ UNCHANGED <<mvars, disk, inst, epoch, state, op, ghost>>

TaskEnds ==
    /\ task # None
    /\ task' = None
    /\ UNCHANGED <<mvars, disk, inst, epoch, state, op, req, ghost>>

-----------------------------------------------------------------------------
(* Operations on the device's own shelves, under lockRunning.              *)

LockRunning == LockFree /\ state # "down"
\* waitForTasks; past its deadline the operation answers ErrBusy and changes nothing.
TasksSettled == task = None
Begin(do, id, next) == op' = [do |-> do, id |-> id, next |-> next]
Done == op' = NoOp
SaveConfig(next) == file' = next

\* CreateShelf and ImportShelf: addShelf makes the directory, and fills it from the zip.
AddLocal(import) ==
    /\ LockRunning
    /\ import => TasksSettled
    /\ \E id \in Locals, n \in Names :
          /\ id \notin made /\ file[id] = None /\ root[id] = None   \* newShelfID is random
          /\ root' = [root EXCEPT ![id] = IF import THEN "books" ELSE "empty"]
          /\ Begin("save", id, [conf EXCEPT ![id] = n])
    /\ UNCHANGED <<mvars, file, offline, inst, epoch, state, req, task, ghost>>

AddSaves ==
    /\ op.do = "save"
    /\ SaveConfig(op.next)
    /\ op' = [op EXCEPT !.do = "register"]
    /\ UNCHANGED <<mvars, root, offline, inst, epoch, state, req, task, ghost>>

AddRegisters ==
    /\ op.do = "register"
    /\ AddShelf(op.id, Conf)
    /\ conf' = op.next
    /\ made' = made \cup {op.id}
    /\ Done
    /\ UNCHANGED <<disk, virtual, share, epoch, state, req, task, unwanted>>

\* The zip or the save fails: only the directory is taken back.  The shelf does not
\* open: shelves.json is written back first, and that write may fail too.
AddFails ==
    /\ op.do \in {"save", "register"}
    /\ IF op.do = "register" THEN SaveConfig(conf) \/ UNCHANGED file ELSE UNCHANGED file
    /\ root' = [root EXCEPT ![op.id] = None]
    /\ Done
    /\ UNCHANGED <<mvars, offline, inst, epoch, state, req, task, ghost>>

\* A book is imported into the shelf through a request.
BookArrives(id) ==
    /\ \E r \in Requests : req[r].pc = "serving" /\ req[r].ep = epoch
    /\ Serving(id) /\ root[id] = "empty"
    /\ root' = [root EXCEPT ![id] = "books"]
    /\ UNCHANGED <<mvars, file, offline, inst, epoch, state, op, req, task, ghost>>

\* RenameShelf: save, UpdateShelf, and the old list again when that fails.
Rename(id, n) ==
    /\ LockRunning /\ TasksSettled
    /\ conf[id] # None /\ conf[id] # n
    /\ SaveConfig([conf EXCEPT ![id] = n])
    /\ Begin("rename", id, [conf EXCEPT ![id] = n])
    /\ UNCHANGED <<mvars, root, offline, inst, epoch, state, req, task, ghost>>

RenameEnds ==
    /\ op.do = "rename"
    /\ \/ /\ UpdateShelf(op.id, Conf)
          /\ conf' = op.next
          /\ UNCHANGED file
       \/ /\ UpdateFails(op.id, Conf)
          /\ SaveConfig(conf) \/ UNCHANGED file
          /\ UNCHANGED conf
    /\ Done
    /\ UNCHANGED <<root, offline, virtual, share, epoch, state, req, task, ghost>>

\* Fault: the directory is deleted before the list is saved.
RemoveDirectoryFirst(id) ==
    /\ LockRunning /\ TasksSettled
    /\ conf[id] # None
    /\ root' = [root EXCEPT ![id] = None]
    /\ unwanted' = unwanted \cup {id}
    /\ Begin("close", id, None)
    /\ UNCHANGED <<mvars, file, offline, inst, epoch, state, req, task, made>>

\* RemoveShelf: the list first, the directory last.
Remove(id) ==
    /\ LockRunning /\ TasksSettled
    /\ conf[id] # None
    /\ SaveConfig([conf EXCEPT ![id] = None])
    /\ conf' = [conf EXCEPT ![id] = None]
    /\ share' = IF share = None THEN None ELSE share \ {id}     \* forgetShared
    /\ unwanted' = unwanted \cup {id}
    /\ Begin("close", id, None)
    /\ UNCHANGED <<mvars, root, offline, virtual, epoch, state, req, task, made>>

RemoveCloses ==
    /\ op.do = "close"
    /\ \/ RemoveShelf(op.id) /\ op' = [op EXCEPT !.do = "delete"]
       \/ CloseFails(op.id) /\ Done
       \/ ~GetShelf(op.id) /\ UNCHANGED mvars /\ Done
    /\ UNCHANGED <<disk, inst, epoch, state, req, task, ghost>>

RemoveDeletes ==
    /\ op.do = "delete"
    /\ root' = [root EXCEPT ![op.id] = None]
    /\ Done
    /\ UNCHANGED <<mvars, file, offline, inst, epoch, state, req, task, ghost>>

-----------------------------------------------------------------------------
(* Virtual shelves: OpenPCloudShelf passes its scope, OpenSourceShelf's is *)
(* that of the source.  Nothing of them is saved by the server.            *)

Open(id, pcloud, scope) ==
    IF pcloud THEN AddVirtualShelf(id, VirtualConf, scope) ELSE AddShelf(id, VirtualConf)

\* openVirtual, for an ID that is not open yet.
OpenVirtual(id, pcloud, scope) ==
    /\ LockRunning
    /\ virtual[id] = None
    /\ Open(id, pcloud, scope)
    /\ virtual' = [virtual EXCEPT ![id] = scope]
    /\ UNCHANGED <<disk, conf, share, epoch, state, op, req, task, ghost>>

\* openVirtual over an open one: closeReplacedVirtual, then the new one, or the
\* previous one again (restoreVirtual), or neither.
ReplaceVirtual(id, pcloud, scope) ==
    /\ LockRunning /\ TasksSettled
    /\ virtual[id] # None
    /\ LET was == [shelves[id] EXCEPT !.open = TRUE]
       IN  \/ /\ shelves' = [shelves EXCEPT ![id] = NewShelf(VirtualConf)]
              /\ scopes' = [scopes EXCEPT ![id] = IF pcloud THEN scope ELSE None]
              /\ virtual' = [virtual EXCEPT ![id] = scope]
           \/ shelves' = [shelves EXCEPT ![id] = was] /\ UNCHANGED <<scopes, virtual>>
           \/ RemoveShelf(id) /\ virtual' = [virtual EXCEPT ![id] = None]
           \/ CloseFails(id) /\ UNCHANGED virtual
    /\ UNCHANGED <<disk, conf, share, epoch, state, op, req, task, ghost>>

CloseVirtual(id) ==
    /\ LockRunning /\ TasksSettled
    /\ virtual[id] # None
    /\ \/ RemoveShelf(id) /\ virtual' = [virtual EXCEPT ![id] = None]
       \/ CloseFails(id) /\ UNCHANGED virtual
    /\ UNCHANGED <<disk, conf, share, epoch, state, op, req, task, ghost>>

\* A download leaves copies under the scope of the shelf.
Download(id) ==
    /\ \E r \in Requests : req[r].pc = "serving" /\ req[r].ep = epoch
    /\ Serving(id) /\ virtual[id] # None
    /\ offline' = offline \cup {virtual[id]}
    /\ UNCHANGED <<mvars, file, root, inst, epoch, state, op, req, task, ghost>>

\* Fault: the server is relied upon to refuse a scope in use.
UsingScopeUnchecked(scope) == {}

\* RemoveVirtualShelfOffline closes the shelves of the scope, then deletes the copies.
UsingScope(scope) == {id \in Remotes : virtual[id] = scope}
RemoveOffline(scope) ==
    /\ LockRunning /\ TasksSettled
    /\ LET closing == UsingScope(scope)
       IN  \E closed \in SUBSET closing, failed \in closing \cup {None} :
             /\ failed = None <=> closed = closing
             /\ failed \notin closed
             /\ shelves' = [id \in Ids |->
                  IF id \in closed THEN None
                  ELSE IF id = failed THEN [shelves[id] EXCEPT !.open = FALSE] ELSE shelves[id]]
             /\ scopes' = [id \in Ids |-> IF id \in closed THEN None ELSE scopes[id]]
             /\ virtual' = [id \in Remotes |-> IF id \in closed THEN None ELSE virtual[id]]
             /\ offline' = IF closed = closing /\ MayRemoveScope(scope)'
                           THEN offline \ {scope} ELSE offline
    /\ UNCHANGED <<file, root, conf, share, epoch, state, op, req, task, ghost>>

-----------------------------------------------------------------------------
(* The LAN share of the device's own shelves. *)

\* On another host the old listener is closed first, and the new one may fail.
StartLANShare(ids) ==
    /\ LockRunning
    /\ \A id \in ids : conf[id] # None
    /\ share' \in {ids, None}
    /\ UNCHANGED <<mvars, disk, conf, virtual, epoch, state, op, req, task, ghost>>

StopLANShare ==
    /\ LockRunning
    /\ share # None
    /\ share' = None
    /\ UNCHANGED <<mvars, disk, conf, virtual, epoch, state, op, req, task, ghost>>

Next ==
    \/ Start \/ StopBegins \/ StopEnds \/ Crash
    \/ \E r \in Requests : HandleBegins(r) \/ HandleServes(r) \/ HandleEnds(r)
    \/ TaskEnds
    \/ \E import \in BOOLEAN : AddLocal(import)
    \/ AddSaves \/ AddRegisters \/ AddFails
    \/ \E id \in Locals : BookArrives(id) \/ Remove(id) \/ \E n \in Names : Rename(id, n)
    \/ RenameEnds \/ RemoveCloses \/ RemoveDeletes
    \/ \E id \in Remotes, pcloud \in BOOLEAN, s \in Scopes :
          OpenVirtual(id, pcloud, s) \/ ReplaceVirtual(id, pcloud, s)
    \/ \E id \in Remotes : CloseVirtual(id) \/ Download(id)
    \/ \E s \in Scopes : RemoveOffline(s)
    \/ \E ids \in (SUBSET Locals) \ {{}} : StartLANShare(ids)
    \/ StopLANShare

Spec == Init /\ [][Next]_avars

-----------------------------------------------------------------------------
(* Properties. *)

\* A shelf whose creation was reported stays listed in shelves.json until its removal
\* is asked for, wherever the process ends and whatever write fails, and the books of
\* a listed shelf are on the device: addShelf and RemoveShelf order their writes so.
ShelvesKept ==
    \A id \in made :
        /\ id \notin unwanted => file[id] # None
        /\ file[id] # None => root[id] # None

\* Offline copies are deleted only while no shelf that keeps its copies under their
\* scope is open, although the server itself knows the scope of pCloud shelves only:
\* RemoveVirtualShelfOffline closes the others.
KeepsOfflineInUse ==
    \A s \in Scopes : s \in offline /\ s \notin offline'
        => \A id \in Remotes : virtual[id] = s => ~Serving(id)'

\* What answers belongs to the running instance: a request is not served by a server
\* that Stop has closed, a task's shelf is open, and the share has listed shelves only.
AnsweredByRunning ==
    /\ \A r \in Requests : req[r].pc = "serving" => req[r].ep = epoch /\ state # "down"
    /\ task # None => Serving(task)
    /\ share # None => state # "down" /\ \A id \in share : conf[id] # None
=============================================================================
