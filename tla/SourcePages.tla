---------------------------- MODULE SourcePages ----------------------------
(***************************************************************************)
(* The pages of an images source (shelf/bookpkg/pages.go, source.go,       *)
(* asset.go and server/handle_source_pages.go, handle_source_assets.go,    *)
(* handle_book_sources.go).                                                *)
(*                                                                         *)
(* source.txt lists the pages in reading order and assets/ holds one image *)
(* per page; no file system makes the two change together.  A page edit    *)
(* names the list it was made on and holds pageEdits while it checks that  *)
(* list and writes the next one.  The requests that write source.txt as    *)
(* content, or a single asset, take no lock and check no list.             *)
(***************************************************************************)
EXTENDS Naturals, Sequences, SequencesExt

CONSTANTS Names,     \* file names of page images
          Editors,   \* requests in flight
          MaxPages,  \* bound: pages in a list that a client sends
          MaxEdits,  \* bound: requests in one behaviour
          None

VARIABLES list,      \* the names source.txt lists
          assets,    \* the names in assets/
          meta,      \* the source's meta.json: the hashed list and the direction
          pageEdits, \* the editor that holds the handlers' mutex, or None
          pc, ed,    \* where each request is and what it was asked
          edits,     \* requests begun
          overtaken  \* ghost: editors with the mutex since whose last reading of
                     \* the list another request wrote source.txt as content

pvars == <<list, assets, meta, pageEdits, pc, ed, edits, overtaken>>

\* Nothing keeps a client from listing a page twice.
Lists == BoundedSeq(Names, MaxPages)
PageEdits == {"replace", "insert", "delete", "put", "refresh", "direction"}
NoRequest == [kind |-> "none", base |-> <<>>, names |-> <<>>, page |-> None,
              meta |-> [hash |-> <<>>, dir |-> "ltr"]]

Init == \* a source the importer wrote
  \E l \in Lists :
    /\ list = l
    /\ assets = ToSet(l)
    /\ meta = [hash |-> l, dir |-> "ltr"]
    /\ pageEdits = None
    /\ pc = [e \in Editors |-> "idle"]
    /\ ed = [e \in Editors |-> NoRequest]
    /\ edits = 0
    /\ overtaken = {}

Goto(e, label) == pc' = [pc EXCEPT ![e] = label]

Finish(e) == \* the handler returns: the deferred Unlock and the request's end
  /\ pc' = [pc EXCEPT ![e] = "idle"]
  /\ ed' = [ed EXCEPT ![e] = NoRequest]
  /\ pageEdits' = IF pageEdits = e THEN None ELSE pageEdits
  /\ overtaken' = overtaken \ {e}

(***************************************************************************)
(* The source, and with it meta.json, is read before the lock is taken.    *)
(* InsertPage draws a name nobody uses; ReplacePages and a content request *)
(* may name any page.                                                      *)
(***************************************************************************)
NamesInUse == assets \union ToSet(list) \union {ed[e].page : e \in {x \in Editors : pc[x] # "idle"}}

EntryStep(kind) ==
  CASE kind = "put" -> "write"
    [] kind \in {"refresh", "direction"} -> "meta"
    [] OTHER -> "lock"

Begin(e) ==
  /\ pc[e] = "idle"
  /\ edits < MaxEdits
  /\ edits' = edits + 1
  /\ \E kind \in PageEdits, base \in Lists, names \in Lists, page \in Names \union {None} :
       /\ kind \notin {"replace", "put"} => names = <<>>
       /\ kind = "insert" => page \notin NamesInUse
       /\ (kind \in {"insert", "delete"}) = (page # None)
       /\ kind \in {"put", "refresh", "direction"} => base = <<>>
       /\ ed' = [ed EXCEPT ![e] = [kind |-> kind, base |-> base, names |-> names, page |-> page, meta |-> meta]]
       /\ Goto(e, EntryStep(kind))
  /\ UNCHANGED <<list, assets, meta, pageEdits, overtaken>>

Lock(e) == pc[e] = "lock" /\ pageEdits = None

(***************************************************************************)
(* editablePageNames: the edit goes on only if source.txt still has the    *)
(* MD5 it was based on.  What it will write is the list it read, with the  *)
(* page put in anywhere, or taken out.                                     *)
(***************************************************************************)
Kept(n) == {i \in DOMAIN list : list[i] # n}
InOrder(I) == {f \in BoundedSeq(I, Len(list)) :
                 /\ ToSet(f) = I
                 /\ \A j, k \in DOMAIN f : j < k => f[j] < f[k]}

EditedLists(r) ==
  CASE r.kind = "replace" -> {r.names}
    [] r.kind = "insert"  -> {InsertAt(list, i, r.page) : i \in 1 .. Len(list) + 1}
    [] r.kind = "delete"  -> {[k \in DOMAIN f |-> list[f[k]]] : f \in InOrder(Kept(r.page))}

FirstStep(r) ==
  CASE r.kind = "replace" -> "write"
    [] r.kind = "insert"  -> "asset"
    [] r.kind = "delete"  -> IF r.page \in ToSet(list) THEN "write" ELSE "remove"

CheckList(e) ==
  /\ Lock(e)
  /\ ed[e].base = list
  /\ pageEdits' = e
  /\ \E l \in EditedLists(ed[e]) : ed' = [ed EXCEPT ![e].names = l]
  /\ Goto(e, FirstStep(ed[e]))
  /\ UNCHANGED <<list, assets, meta, edits, overtaken>>

Refuse(e) == \* ErrPageListConflict
  /\ Lock(e)
  /\ ed[e].base # list
  /\ Finish(e)
  /\ UNCHANGED <<list, assets, meta, edits>>

WriteAsset(e) == \* the new page's image, under the name InsertPage drew
  /\ pc[e] = "asset"
  /\ \/ assets' = assets \union {ed[e].page} /\ Goto(e, "write") /\ UNCHANGED <<ed, pageEdits, overtaken>>
     \/ UNCHANGED assets /\ Finish(e)
  /\ UNCHANGED <<list, meta, edits>>

(***************************************************************************)
(* UpdateContent: the list is renamed into place, then measured again and  *)
(* recorded in meta.json together with what the request read there before; *)
(* either write may fail, the second when the first is done.               *)
(***************************************************************************)
Failed(e) == IF ed[e].kind = "insert" THEN Goto(e, "cleanup") /\ UNCHANGED <<ed, pageEdits, overtaken>>
             ELSE Finish(e)

UpdateContent(e) ==
  /\ pc[e] = "write"
  /\ \/ /\ list' = ed[e].names
        /\ Goto(e, "meta")
        /\ overtaken' = IF ed[e].kind = "put" /\ pageEdits # None
                        THEN overtaken \union {pageEdits} ELSE overtaken
        /\ UNCHANGED <<ed, pageEdits>>
     \/ UNCHANGED list /\ Failed(e)
  /\ UNCHANGED <<assets, meta, edits>>

WritebackMeta(e) ==
  /\ pc[e] = "meta"
  /\ \/ /\ \E dir \in {"ltr", "rtl"} :
             meta' = IF ed[e].kind = "direction" THEN [ed[e].meta EXCEPT !.dir = dir]
                     ELSE [ed[e].meta EXCEPT !.hash = list]
        /\ IF ed[e].kind = "delete"
           THEN Goto(e, "remove") /\ UNCHANGED <<ed, pageEdits, overtaken>>
           ELSE Finish(e)
     \/ UNCHANGED meta /\ Failed(e)
  /\ UNCHANGED <<list, assets, edits>>

(***************************************************************************)
(* removeUnlistedAsset: the list may have been written although the edit   *)
(* failed, so it is read again.  The image goes in a step of its own, and  *)
(* the mutex keeps only page edits from coming between the two.            *)
(***************************************************************************)
EraseWritten(e) == /\ Goto(e, "erase")
                   /\ overtaken' = overtaken \ {e}
                   /\ UNCHANGED <<ed, pageEdits>>

\* Fault: a failed InsertPage deletes its image without reading the list again.
RemoveWritten(e) ==
  /\ pc[e] = "cleanup"
  /\ EraseWritten(e)
  /\ UNCHANGED <<list, assets, meta, edits>>

RemoveUnlistedAsset(e) ==
  /\ pc[e] = "cleanup"
  /\ \/ Finish(e) \* listed, or source.txt cannot be read
     \/ ed[e].page \notin ToSet(list) /\ EraseWritten(e)
  /\ UNCHANGED <<list, assets, meta, edits>>

EraseUnlistedAsset(e) ==
  /\ pc[e] = "erase"
  /\ assets' \in {assets, assets \ {ed[e].page}}
  /\ Finish(e)
  /\ UNCHANGED <<list, meta, edits>>

DeletePage(e) == \* the image, once the list no longer names it
  /\ pc[e] = "remove"
  /\ assets' \in {assets, assets \ {ed[e].page}}
  /\ Finish(e)
  /\ UNCHANGED <<list, meta, edits>>

(***************************************************************************)
(* The asset requests write and delete one image, whatever the list says.  *)
(***************************************************************************)
UpdateAsset(n) ==
  /\ edits < MaxEdits
  /\ edits' = edits + 1
  /\ assets' = assets \union {n}
  /\ UNCHANGED <<list, meta, pageEdits, pc, ed, overtaken>>

DeleteAsset(n) ==
  /\ edits < MaxEdits
  /\ n \in assets
  /\ edits' = edits + 1
  /\ assets' = assets \ {n}
  /\ UNCHANGED <<list, meta, pageEdits, pc, ed, overtaken>>

Crash ==
  /\ \E e \in Editors : pc[e] # "idle"
  /\ pc' = [e \in Editors |-> "idle"]
  /\ ed' = [e \in Editors |-> NoRequest]
  /\ pageEdits' = None
  /\ overtaken' = {}
  /\ UNCHANGED <<list, assets, meta, edits>>

Edit(e) == \/ Begin(e) \/ CheckList(e) \/ Refuse(e) \/ WriteAsset(e) \/ UpdateContent(e)
           \/ WritebackMeta(e) \/ RemoveUnlistedAsset(e) \/ EraseUnlistedAsset(e) \/ DeletePage(e)

Next == \/ \E e \in Editors : Edit(e)
        \/ \E n \in Names : UpdateAsset(n) \/ DeleteAsset(n)
        \/ Crash

Spec == Init /\ [][Next]_pvars

----------------------------------------------------------------------------
(***************************************************************************)
(* A page edit never takes away the image of a page that stays listed,     *)
(* even when it fails half-way or races another edit: InsertPage's clean-  *)
(* up and DeletePage's order see to that.  Only the asset request does,    *)
(* and an edit after whose last reading of the list a content request,     *)
(* which takes no mutex, listed the page again.                            *)
(***************************************************************************)
KeepsListedImages ==
  \/ \A n \in ToSet(list) \intersect ToSet(list') : n \in assets => n \in assets'
  \/ \E n \in Names : DeleteAsset(n)
  \/ \E e \in overtaken : pc[e] \in {"remove", "erase"} /\ pc'[e] = "idle"

(***************************************************************************)
(* A page edit replaces exactly the list its client edited: nothing that   *)
(* another edit did to the list since is lost.  A content request checks   *)
(* no list, and may come between an edit's check and its write.            *)
(***************************************************************************)
BuildsOnItsList ==
  \A e \in Editors :
    pc[e] = "write" /\ pc'[e] = "meta" /\ ed[e].kind # "put" => list = ed[e].base \/ e \in overtaken
=============================================================================
