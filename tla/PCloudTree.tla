----------------------------- MODULE PCloudTree -----------------------------
(***************************************************************************)
(* The tree of folders that the pCloud client keeps in memory (pcloud.FS): *)
(* listed whole the first time, then one folder at a time, when a name is  *)
(* missing in an old listing or an old listing is read.  The shelf below   *)
(* it is one of folders that hold files; pCloud knows a folder by its id,  *)
(* and a name may come to mean another one.  A listing takes time, and is  *)
(* dated when it has arrived.                                              *)
(***************************************************************************)
EXTENDS Naturals

CONSTANTS
    Walkers,     \* goroutines that walk the tree: scans, book checks
    Names,       \* folder names
    FolderIds,   \* pCloud's ids of folders
    MaxAge,      \* ListingMaxAge
    Latency,     \* bound on the time that a listing takes
    MaxClock,    \* bound on the clock
    MaxChanges,  \* bound on the changes at pCloud
    None,
    Root         \* the shelf's own folder

VARIABLES
    clock,    \* the time
    folder,   \* folder[n]: the id of the folder named n at pCloud, or None
    full,     \* the ids of the folders that hold their file
    changed,  \* when pCloud last changed
    changes,  \* how often it did
    tree,     \* FS.tree: kids[n] is the node of the folder n, and `at` its date
    mu,       \* the walker that holds FS.mu while a listing is under way, or None
    reply,    \* that listing
    walk      \* walk[w]: the walk of w

pcvars == <<clock, folder, full, changed, changes, tree, mu, reply, walk>>
remote == <<folder, full, changed, changes>>

Idle == [at |-> "idle", name |-> Root, node |-> None, todo |-> {},
         found |-> [n \in Names |-> None], quiet |-> FALSE]

PCInit ==
    /\ clock = 0 /\ changed = 0 /\ changes = 0
    /\ folder \in [Names -> FolderIds \cup {None}]
    /\ \A m, n \in Names : m # n /\ folder[m] # None => folder[m] # folder[n]
    /\ full = {}
    /\ tree = None /\ mu = None /\ reply = None
    /\ walk = [w \in Walkers |-> Idle]

\* FS.stale: a node that was never listed, or too long ago.
Stale(n) == IF n.at = None THEN TRUE ELSE clock - n.at > MaxAge

\* A folder whose contents are not known, and as a recursive listing shows it.
Unlisted(id) == [id |-> id, at |-> None, full |-> FALSE]
Whole == [n \in Names |->
    IF folder[n] = None THEN None ELSE [id |-> folder[n], at |-> clock, full |-> folder[n] \in full]]

\* Fault: the listing that a folder keeps is dated like its parent's.
SetChildrenDated(kids) ==
    [n \in Names |-> IF reply.kids[n] = None THEN None
                     ELSE IF kids[n] # None /\ kids[n].id = reply.kids[n]
                          THEN [kids[n] EXCEPT !.at = clock]
                     ELSE Unlisted(reply.kids[n])]

\* setChildren: a folder that still has its id keeps its listing, with its date.
SetChildren(kids) ==
    [n \in Names |-> IF reply.kids[n] = None THEN None
                     ELSE IF kids[n] # None /\ kids[n].id = reply.kids[n] THEN kids[n]
                     ELSE Unlisted(reply.kids[n])]

(***************************************************************************)
(* A walk reads the root, and then every folder that it found there.       *)
(***************************************************************************)
Begin(w) ==
    /\ walk[w].at \in {"idle", "done"}
    /\ walk' = [walk EXCEPT ![w] =
           [Idle EXCEPT !.at = "lookup", !.quiet = clock > changed + MaxAge + Latency]]
    /\ UNCHANGED <<clock, remote, tree, mu, reply>>

Step(w, step) == walk' = [walk EXCEPT ![w].at = step]
Fail(w) == walk' = [walk EXCEPT ![w] = Idle]

\* The request is under way, with mu held; pCloud answers as it is now.
Fetch(w, step, what) ==
    /\ mu' = w /\ reply' = what
    /\ Step(w, step)
    /\ UNCHANGED <<clock, remote, tree>>
RootReply == [began |-> clock, kids |-> folder]

\* What lookup has found is the node in the tree, which ReadDir then reads after it
\* has let go of mu.
Found(w, kids, ws) ==
    [ws EXCEPT ![w] = IF kids[@.name] = None THEN Idle ELSE [@ EXCEPT !.at = "read"]]

\* A listing of the root makes its nodes anew: the one that another walk has looked
\* up is no longer in the tree.
Detached ==
    [v \in Walkers |-> IF walk[v].at = "read" /\ walk[v].name # Root /\ walk[v].node = None
                       THEN [walk[v] EXCEPT !.node = tree.kids[walk[v].name]] ELSE walk[v]]

\* lookup: the first one lists the tree, and a name that is missing in a root listed
\* long ago lists the root again.
Lookup(w) ==
    /\ walk[w].at = "lookup" /\ mu = None
    /\ \/ /\ tree = None
          /\ Fetch(w, "load", [began |-> clock, kids |-> Whole])
       \/ /\ tree # None /\ walk[w].name = Root
          /\ Step(w, "read")
          /\ UNCHANGED <<clock, remote, tree, mu, reply>>
       \/ /\ tree # None /\ walk[w].name # Root
          /\ IF tree.kids[walk[w].name] = None /\ Stale(tree)
             THEN Fetch(w, "relist", RootReply)
             ELSE /\ walk' = Found(w, tree.kids, walk)
                  /\ UNCHANGED <<clock, remote, tree, mu, reply>>

\* loadLocked: every node is dated when the listing has arrived.
Load(w) ==
    /\ walk[w].at = "load"
    /\ tree' = [at |-> clock, kids |-> [n \in Names |->
           IF reply.kids[n] = None THEN None ELSE [reply.kids[n] EXCEPT !.at = clock]]]
    /\ mu' = None /\ reply' = None
    /\ Step(w, "lookup")
    /\ UNCHANGED <<clock, remote>>

\* relistLocked of the root, for a lookup.
Relist(w) ==
    /\ walk[w].at = "relist"
    /\ tree' = [at |-> clock, kids |-> SetChildren(tree.kids)]
    /\ walk' = Found(w, SetChildren(tree.kids), Detached)
    /\ mu' = None /\ reply' = None
    /\ UNCHANGED <<clock, remote>>

\* The next folder of the walk, or its end.
Onward(w, todo, found, ws) ==
    LET next == [Idle EXCEPT !.found = found, !.quiet = walk[w].quiet]
    IN \/ todo = {} /\ walk' = [ws EXCEPT ![w] = [next EXCEPT !.at = "done"]]
       \/ \E n \in todo : walk' = [ws EXCEPT ![w] =
              [next EXCEPT !.at = "lookup", !.name = n, !.todo = todo \ {n}]]

OnwardFromRoot(w, kids, ws) == Onward(w, {n \in Names : kids[n] # None}, walk[w].found, ws)
OnwardFrom(w, node) ==
    Onward(w, walk[w].todo, [walk[w].found EXCEPT ![walk[w].name] = node.full], walk)

\* The node that lookup returned.
Attached(w) == walk[w].node = None
Node(w) == IF Attached(w) THEN tree.kids[walk[w].name] ELSE walk[w].node

\* ReadDir: a listing that is not old is read as it is, ...
ReadDir(w) ==
    /\ walk[w].at = "read" /\ mu = None
    /\ IF walk[w].name = Root THEN ~Stale(tree) /\ OnwardFromRoot(w, tree.kids, walk)
       ELSE ~Stale(Node(w)) /\ OnwardFrom(w, Node(w))
    /\ UNCHANGED <<clock, remote, tree, mu, reply>>

\* ... and an old one is asked for again, by the id of the folder.
ReadStale(w) ==
    /\ walk[w].at = "read" /\ mu = None
    /\ \/ walk[w].name = Root /\ Stale(tree) /\ Fetch(w, "list", RootReply)
       \/ /\ walk[w].name # Root /\ Stale(Node(w))
          /\ \E n \in Names : folder[n] = Node(w).id
          /\ Fetch(w, "list", [began |-> clock, full |-> Node(w).id \in full])

\* relistLocked, for ReadDir: a node that is no longer in the tree is listed for this
\* walk only.
ListRoot(w) ==
    /\ walk[w].at = "list" /\ walk[w].name = Root
    /\ tree' = [at |-> clock, kids |-> SetChildren(tree.kids)]
    /\ OnwardFromRoot(w, reply.kids, Detached)
    /\ mu' = None /\ reply' = None
    /\ UNCHANGED <<clock, remote>>

ListFolder(w) ==
    /\ walk[w].at = "list" /\ walk[w].name # Root
    /\ LET node == [Node(w) EXCEPT !.at = clock, !.full = reply.full]
       IN /\ tree' = IF Attached(w) THEN [tree EXCEPT !.kids[walk[w].name] = node] ELSE tree
          /\ OnwardFrom(w, node)
    /\ mu' = None /\ reply' = None
    /\ UNCHANGED <<clock, remote>>

\* A listing fails after its attempts, or its folder is gone.
ListFails(w) ==
    /\ \/ walk[w].at \in {"load", "relist", "list"} /\ mu' = None /\ reply' = None
       \/ /\ walk[w].at = "read" /\ mu = None /\ walk[w].name # Root
          /\ Stale(Node(w)) /\ \A n \in Names : folder[n] # Node(w).id
          /\ UNCHANGED <<mu, reply>>
    /\ Fail(w)
    /\ UNCHANGED <<clock, remote, tree>>

Walk(w) ==
    \/ Begin(w) \/ Lookup(w) \/ Load(w) \/ Relist(w) \/ ReadDir(w) \/ ReadStale(w)
    \/ ListRoot(w) \/ ListFolder(w) \/ ListFails(w)

(***************************************************************************)
(* pCloud and the time.                                                    *)
(***************************************************************************)
Change ==
    /\ changes < MaxChanges
    /\ \/ \E n \in Names, id \in FolderIds \cup {None} :
            /\ folder[n] # id /\ \A m \in Names : id = None \/ folder[m] # id
            /\ folder' = [folder EXCEPT ![n] = id] /\ UNCHANGED full
       \/ \E m, n \in Names :
            /\ folder[m] # None /\ folder[n] = None
            /\ folder' = [folder EXCEPT ![n] = folder[m], ![m] = None] /\ UNCHANGED full
       \/ \E n \in Names :
            /\ folder[n] # None
            /\ full' = IF folder[n] \in full THEN full \ {folder[n]} ELSE full \cup {folder[n]}
            /\ UNCHANGED folder
    /\ changed' = clock /\ changes' = changes + 1
    /\ walk' = [w \in Walkers |-> [walk[w] EXCEPT !.quiet = FALSE]]
    /\ UNCHANGED <<clock, tree, mu, reply>>

Tick ==
    /\ clock < MaxClock
    /\ reply # None => clock < reply.began + Latency
    /\ clock' = clock + 1
    /\ UNCHANGED <<remote, tree, mu, reply, walk>>

PCNext == (\E w \in Walkers : Walk(w)) \/ Change \/ Tick
PCSpec == PCInit /\ [][PCNext]_pcvars
----------------------------------------------------------------------------
\* A walk that starts when pCloud has been left alone for as long as a listing stays
\* young, and took to arrive, and is not disturbed, finds what is there: neither the
\* listings that a relisted parent carries over, nor one that another walk dated after
\* it was made, nor a node that was replaced under it, shows it an older tree
\* (lookup, ReadDir, setChildren).
QuietWalksAreExact ==
    \A w \in Walkers :
        walk[w].at = "done" /\ walk[w].quiet =>
            walk[w].found = [n \in Names |-> IF folder[n] = None THEN None ELSE folder[n] \in full]
=============================================================================
