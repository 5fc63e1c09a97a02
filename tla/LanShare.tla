------------------------------ MODULE LanShare ------------------------------
(***************************************************************************)
(* The desktop's share on the local network: desktop/lan_share.go, its     *)
(* menu (lan_share_tray.go), and the listener it starts,                   *)
(* server/dav_export.go.                                                   *)
(*                                                                         *)
(* lanShare.mu is held through apply, disable and forgetShelf.  apply is   *)
(* cut where others can look or the process can end: requests read the     *)
(* shared shelves without mu, and lan_share.json is written up to twice.   *)
(***************************************************************************)
EXTENDS ShelfManager

CONSTANT Hosts

VARIABLES lconf, lfile,  \* lanShare.conf, lan_share.json: on, host, ids
          srv,           \* the host the listener is bound to, or None
          shared,        \* lanShare.shared
          addrs,         \* lanAddresses(): the addresses the computer has
          applying,      \* the apply call that holds mu: its next settings and step
          ticked         \* the shelves ticked in the latest settings the user sent

lanvars == <<lconf, lfile, srv, shared, addrs, applying, ticked>>

Off == [on |-> FALSE, host |-> None, ids |-> {}]
NotApplying == [at |-> None, next |-> Off]
MuFree == applying = NotApplying

LanInit ==
    /\ lconf = Off /\ lfile = Off /\ srv = None /\ shared = {}
    /\ addrs = Hosts /\ applying = NotApplying /\ ticked = {}

\* newLANShare and startSaved, when the application starts.
LanStarts ==
    /\ lconf' = lfile
    /\ shared' = lfile.ids
    /\ srv' \in IF lfile.on /\ lfile.host \in addrs THEN {lfile.host, None} ELSE {None}
    /\ applying' = NotApplying
    /\ UNCHANGED <<lfile, addrs, ticked>>

LanEnds ==
    /\ srv' = None
    /\ applying' = NotApplying
    /\ UNCHANGED <<lconf, lfile, shared, addrs, ticked>>

AddressesChange ==
    /\ \E a \in SUBSET Hosts : a # addrs /\ addrs' = a
    /\ UNCHANGED <<lconf, lfile, srv, shared, applying, ticked>>

CurrentLANHost(h) ==
    IF addrs = {} \/ h \in addrs THEN {h} ELSE addrs

Widens(cur, next) ==
    next.on /\ (~cur.on \/ cur.host # next.host \/ ~(next.ids \subseteq cur.ids))

\* apply up to the listener: unknown shelves are refused, a wider share is saved first,
\* and one switched off is closed.
ApplyBegins(on, host, ids, listed) ==
    /\ MuFree
    /\ ids \subseteq listed
    /\ ticked' = ids
    /\ \E h \in IF on /\ host = lconf.host THEN CurrentLANHost(host) ELSE {host} :
          LET next == [on |-> on, host |-> h, ids |-> ids]
          IN  \/ /\ applying' = [at |-> IF on THEN "listen" ELSE "save", next |-> next]
                 /\ lfile' = IF Widens(lconf, next) THEN next ELSE lfile
                 /\ srv' = IF on THEN srv ELSE None
              \/ /\ Widens(lconf, next)            \* saveBeforeWidening fails
                 /\ UNCHANGED <<applying, lfile, srv>>
    /\ UNCHANGED <<lconf, shared, addrs>>

\* listen keeps a listener already on the address; a failure switches the share off.
ApplyListens ==
    /\ applying.at = "listen"
    /\ LET h == applying.next.host
       IN  \/ /\ h \in addrs
              /\ srv' = h
              /\ applying' = [applying EXCEPT !.at = "save"]
           \/ /\ srv' = None
              /\ applying' = [at |-> "save", next |-> [applying.next EXCEPT !.on = FALSE]]
    /\ UNCHANGED <<lconf, lfile, shared, addrs, ticked>>

\* saveApplied: the file follows, or keeps what it had.
SaveApplied(next) == lfile' = next \/ UNCHANGED lfile

\* applyThenSave, and mu is released.
ApplyEnds ==
    /\ applying.at = "save"
    /\ shared' = applying.next.ids
    /\ lconf' = applying.next
    /\ SaveApplied(applying.next)
    /\ applying' = NotApplying
    /\ UNCHANGED <<srv, addrs, ticked>>

\* disable: "Stop Sharing" in the menu.
Disable ==
    /\ MuFree
    /\ srv # None
    /\ srv' = None
    /\ lconf' = [lconf EXCEPT !.on = FALSE]
    /\ SaveApplied([lconf EXCEPT !.on = FALSE])
    /\ UNCHANGED <<shared, addrs, applying, ticked>>

Forgets(id) ==
    /\ IF id \in lconf.ids
       THEN LET next == [lconf EXCEPT !.ids = @ \ {id}]
            IN  lconf' = next /\ shared' = next.ids /\ SaveApplied(next)
       ELSE UNCHANGED <<lconf, lfile, shared>>
    /\ UNCHANGED <<srv, addrs, applying, ticked>>

ForgetShelf(id) == MuFree /\ Forgets(id)

\* davExport.ServeHTTP answers for the shelves that are shared, open and local.
Exported == IF srv = None THEN {}
            ELSE {id \in shared : Serving(id) /\ ~shelves[id].conf.virtual}

-----------------------------------------------------------------------------
(* Properties. *)

\* Between two calls, what the listener may serve is in lan_share.json: its address and
\* every shelf, so a restart never finds that the saved settings share less than was
\* served; a save that fails can only leave the file with more (saveBeforeWidening).
ShareIsSaved ==
    MuFree /\ srv # None =>
        lfile.on /\ lfile.host = srv /\ shared \subseteq lfile.ids

\* A shelf that was not served starts to be only if it is ticked in the latest settings
\* the user sent.
ServedIsTicked ==
    [][\A id \in Ids : id \notin Exported /\ id \in Exported' => id \in ticked']_<<lanvars, mvars>>
=============================================================================
